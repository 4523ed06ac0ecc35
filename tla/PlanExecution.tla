--------------------------- MODULE PlanExecution ---------------------------
(***************************************************************************)
(* One goal plan of core/orchestrator.py, from run() to its end, as the    *)
(* processes that may hold it see it: the fronts (API threads, the bot,    *)
(* the CLI) that create it and take the user's replies, and the workers    *)
(* that finish its heavy steps and then walk on through the rest.          *)
(*                                                                         *)
(* Each process loads the whole plan, works on its own copy, and saves the *)
(* rows of its copy one transaction at a time, whatever the rows hold by   *)
(* then.  The queue between them is TaskQueue, which JobQueue implements.  *)
(***************************************************************************)
EXTENDS Naturals, Sequences

CONSTANTS
  Fronts,       \* threads and processes that take commands
  Workers,      \* worker processes
  Goals         \* the plans run() may be given, each with what may befall it

(***************************************************************************)
(* "reply" and "resume" are the user's messages; "error" is a database     *)
(* statement that fails; "crash" kills a process.                          *)
(***************************************************************************)
FaultKinds == {"reply", "resume", "error", "crash"}

(***************************************************************************)
(* A plan has its steps in the order of _topological: deps[s] is           *)
(* depends_on, asks the steps the user has to approve (by tier and stored  *)
(* decisions), queued those whose action is_queued_action.  The limits     *)
(* bound the user's messages and the faults of one behaviour.              *)
(***************************************************************************)
ASSUME PlanAssumption ==
  /\ Fronts \cap Workers = {}
  /\ \A g \in Goals :
       /\ g.deps \in Seq(SUBSET Nat)
       /\ \A s \in DOMAIN g.deps : \A d \in g.deps[s] : d \in 1 .. s - 1
       /\ g.asks \cup g.queued \subseteq DOMAIN g.deps
       /\ g.limits \in [FaultKinds -> Nat]

Processes == Fronts \cup Workers

VARIABLES
  goal,      \* the plan validate_plan let through
  db,        \* the stored plan: its status and its steps' rows
  tasks,     \* the queue's rows (TaskQueue)
  held,      \* the row each worker holds (TaskQueue)
  payload,   \* the step and attempt each row is for
  pc,        \* per process: what it does once its writes are out
  copy,      \* per process: the Plan object in its memory
  cur,       \* per process: the step of execute_plan's loop
  todo,      \* per process: rows of the copy still to be saved, 0 the plan's own
  budget,    \* what is left of the goal's limits
  approved,  \* history: the user said yes to the plan
  started,   \* history: dispatches of each step
  effects    \* history: dispatches of each step that succeeded

vars == <<goal, db, tasks, held, payload, pc, copy, cur, todo, budget,
          approved, started, effects>>

queue   == <<tasks, held, payload>>
local   == <<pc, copy, cur, todo>>
history == <<approved, started, effects>>

Queue == INSTANCE TaskQueue

Steps == DOMAIN goal.deps
Deps  == goal.deps

-----------------------------------------------------------------------------
PlanStates == {"planning", "awaiting_approval", "executing", "paused", "done", "cancelled"}
StepStates == {"pending", "running", "done", "failed", "skipped"}
Unsaved    == "unsaved"  \* the step has no row yet
StepRow    == [status : StepStates \cup {Unsaved}, attempts : Nat]
Plan       == [status : PlanStates \cup {"none"}, step : [Steps -> StepRow]]

Blank(status) == [status |-> "none", step |-> [s \in Steps |-> [status |-> status, attempts |-> 0]]]
NewPlan == Blank("pending")

Labels == {"idle", "reply", "resume", "load", "loaded", "work", "complete", "begin",
           "execute", "loop", "dispatch", "insert", "advance", "enqueued", "paused",
           "gaveup", "finished", "replied"}

(* _persist_plan saves the plan's row, then every step's. *)
Whole == <<0>> \o [s \in Steps |-> s]

Status(p, s) == copy[p].step[s].status
JobStep(w)   == payload[held[w]].step

(* A mutant of the next definition: the loop does not pass over done steps. *)
NextUnlessSkipped(p, s) ==
  Status(p, s) # "skipped" /\ \A r \in 1 .. s - 1 : Status(p, r) \in {"done", "skipped"}

(* The first step the loop has something to do with; every earlier one is over. *)
Next1(p, s) ==
  /\ Status(p, s) \notin {"done", "skipped"}
  /\ \A r \in 1 .. s - 1 : Status(p, r) \in {"done", "skipped"}

NeedsApproval(plan) == \E s \in goal.asks : plan.step[s].status # "skipped"

Spend(kind) == budget[kind] > 0 /\ budget' = [budget EXCEPT ![kind] = @ - 1]

(* None of these has happened so far. *)
Without(kinds) == \A k \in kinds : budget[k] = goal.limits[k]

(* Process p, all its writes out, is at a point of the code. *)
At(p, label) == pc[p] = label /\ todo[p] = << >>

(* p changes its copy, saves these rows of it, and goes on at label. *)
Save(p, plan, rows, label) ==
  /\ copy' = [copy EXCEPT ![p] = plan]
  /\ todo' = [todo EXCEPT ![p] = rows]
  /\ pc' = [pc EXCEPT ![p] = label]

(* p's call has returned: its Plan object is gone. *)
Leave(p, label) ==
  /\ Save(p, NewPlan, << >>, label)
  /\ cur' = [cur EXCEPT ![p] = 0]

SetStatus(plan, s, status) == [plan EXCEPT !.step = [@ EXCEPT ![s] =
                                 [plan.step[s] EXCEPT !.status = status]]]

(* A step failed: the step's row first, then the whole plan, then return. *)
Fail(p, s, label) ==
  Save(p, [SetStatus(copy[p], s, "failed") EXCEPT !.status = "paused"], <<s>> \o Whole, label)

-----------------------------------------------------------------------------
Init ==
  /\ goal \in Goals
  /\ db = Blank(Unsaved)
  /\ Queue!Init /\ payload = << >>
  /\ pc = [p \in Processes |-> "idle"]
  /\ copy = [p \in Processes |-> NewPlan]
  /\ cur = [p \in Processes |-> 0]
  /\ todo = [p \in Processes |-> << >>]
  /\ budget = goal.limits
  /\ approved = FALSE
  /\ started = [s \in Steps |-> 0]
  /\ effects = [s \in Steps |-> 0]

(* One transaction of save_plan or save_plan_step: the row becomes the copy's. *)
Flush(p) ==
  /\ todo[p] # << >>
  /\ LET row == Head(todo[p])
     IN db' = IF row = 0 THEN [db EXCEPT !.status = copy[p].status]
                         ELSE [db EXCEPT !.step = [@ EXCEPT ![row] = copy[p].step[row]]]
  /\ todo' = [todo EXCEPT ![p] = Tail(@)]
  /\ UNCHANGED <<queue, pc, copy, cur, budget, history>>

-----------------------------------------------------------------------------
(* Fronts *)

(***************************************************************************)
(* run: the validated plan is saved, and executed at once if nobody must   *)
(* be asked.  A model has one plan: no second run() while it is new.       *)
(***************************************************************************)
Run(f) ==
  /\ At(f, "idle") /\ db.status = "none"
  /\ \A p \in Processes : pc[p] = "idle"
  /\ IF NeedsApproval(NewPlan)
     THEN Save(f, [NewPlan EXCEPT !.status = "awaiting_approval"], Whole, "replied")
     ELSE Save(f, [NewPlan EXCEPT !.status = "planning"], Whole, "execute")
  /\ UNCHANGED <<db, queue, cur, budget, history>>

(***************************************************************************)
(* A message for the plan: get_plan reads its row, and with its next       *)
(* statement the steps.  The user answers a plan that was shown, so all    *)
(* its rows have been saved once.                                          *)
(***************************************************************************)
ReadPlan(f, kind, statuses) ==
  /\ At(f, "idle") /\ db.status \in statuses
  /\ \A s \in Steps : db.step[s].status # Unsaved
  /\ Spend(kind)
  /\ Save(f, [NewPlan EXCEPT !.status = db.status], << >>, kind)
  /\ UNCHANGED <<db, queue, cur, history>>

(* handle_reply: other statuses, and other words, are not for the plan. *)
Reply(f)  == ReadPlan(f, "reply", {"awaiting_approval", "paused"})

(* resume: the CLI's, for a plan in any status but one that waits for approval. *)
Resume(f) == ReadPlan(f, "resume", PlanStates \ {"awaiting_approval"})

Loaded(p) == [copy[p] EXCEPT !.step = db.step]

ReplyAbort(f) ==
  /\ At(f, "reply")
  /\ Save(f, [Loaded(f) EXCEPT !.status = "cancelled"], Whole, "replied")
  /\ UNCHANGED <<db, queue, cur, budget, history>>

ReplyYes(f) ==
  /\ At(f, "reply") /\ copy[f].status = "awaiting_approval"
  /\ Save(f, Loaded(f), << >>, "execute")
  /\ approved' = TRUE
  /\ UNCHANGED <<db, queue, cur, budget, started, effects>>

(* "skip n": any step that is not done; a plan that still asks is saved and waits. *)
ReplySkip(f, s) ==
  /\ At(f, "reply") /\ db.step[s].status # "done"
  /\ LET plan == SetStatus(Loaded(f), s, "skipped")
     IN IF plan.status = "awaiting_approval" /\ NeedsApproval(plan)
        THEN Save(f, plan, <<s>> \o Whole, "replied")
        ELSE Save(f, plan, <<s>>, "execute")
  /\ UNCHANGED <<db, queue, cur, budget, history>>

(* "continue": the first failed step becomes pending, if there is one. *)
ReplyContinue(f) ==
  /\ At(f, "reply") /\ copy[f].status = "paused"
  /\ LET failed == {s \in Steps : db.step[s].status = "failed"}
     IN IF failed = {}
        THEN Save(f, Loaded(f), << >>, "execute")
        ELSE \E s \in failed :
               /\ \A r \in failed : s <= r
               /\ Save(f, SetStatus(Loaded(f), s, "pending"), <<s>>, "execute")
  /\ UNCHANGED <<db, queue, cur, budget, history>>

(* A reply that names no step, or nothing at all: no change. *)
ReplyIgnored(f) ==
  /\ At(f, "reply")
  /\ Leave(f, "idle")
  /\ UNCHANGED <<db, queue, budget, history>>

ResumeSteps(f) ==
  /\ At(f, "resume")
  /\ Save(f, [copy[f] EXCEPT !.step =
                [s \in Steps |->
                   IF db.step[s].status \in {"failed", "running"}
                   THEN [db.step[s] EXCEPT !.status = "pending"] ELSE db.step[s]]],
          << >>, "execute")
  /\ UNCHANGED <<db, queue, cur, budget, history>>

-----------------------------------------------------------------------------
(* execute_plan, in whichever process called it *)

Execute(p) ==
  /\ At(p, "execute")
  /\ Save(p, [copy[p] EXCEPT !.status = "executing"], Whole, "loop")
  /\ UNCHANGED <<db, queue, cur, budget, history>>

(* The loop's next step: skipped when a step it depends on did not complete. *)
SkipStep(p, s) ==
  /\ At(p, "loop") /\ Next1(p, s)
  /\ \E d \in Deps[s] : Status(p, d) \in {"failed", "skipped"}
  /\ Save(p, SetStatus(copy[p], s, "skipped"), <<s>>, "loop")
  /\ UNCHANGED <<db, queue, cur, budget, history>>

BeginStep(p, s) ==
  /\ At(p, "loop") /\ Next1(p, s)
  /\ \A d \in Deps[s] : Status(p, d) \notin {"failed", "skipped"}
  /\ Save(p, [copy[p] EXCEPT !.step = [@ EXCEPT ![s] =
                [status |-> "running", attempts |-> copy[p].step[s].attempts + 1]]],
          <<s>>, "dispatch")
  /\ cur' = [cur EXCEPT ![p] = s]
  /\ UNCHANGED <<db, queue, budget, history>>

(* dispatch_intent of an inline step.  An exception in the skill is a failure too. *)
DispatchSucceeds(p) ==
  /\ At(p, "dispatch") /\ cur[p] \notin goal.queued
  /\ Save(p, SetStatus(copy[p], cur[p], "done"), <<cur[p]>>, "advance")
  /\ started' = [started EXCEPT ![cur[p]] = @ + 1]
  /\ effects' = [effects EXCEPT ![cur[p]] = @ + 1]
  /\ UNCHANGED <<db, queue, cur, budget, approved>>

DispatchFails(p) ==
  /\ At(p, "dispatch") /\ cur[p] \notin goal.queued
  /\ Fail(p, cur[p], "paused")
  /\ started' = [started EXCEPT ![cur[p]] = @ + 1]
  /\ UNCHANGED <<db, queue, cur, budget, approved, effects>>

Advance(p) ==
  /\ At(p, "advance")
  /\ pc' = [pc EXCEPT ![p] = "loop"]
  /\ UNCHANGED <<db, queue, copy, cur, todo, budget, history>>

(***************************************************************************)
(* A heavy step is enqueued, with the step and its attempt as dedupe key:  *)
(* the SELECT and, unless it found a pending row, the INSERT.  Only then   *)
(* does the process save its copy once more, the step's row and the whole  *)
(* plan, by when a worker may have run the step.                           *)
(***************************************************************************)
Key(p) == [step |-> cur[p], attempts |-> copy[p].step[cur[p]].attempts]

EnqueueSelect(p) ==
  /\ At(p, "dispatch") /\ cur[p] \in goal.queued
  /\ IF \E i \in 1 .. Len(tasks) : payload[i] = Key(p) /\ tasks[i] \in {"queued", "running"}
     THEN Save(p, copy[p], <<cur[p]>> \o Whole, "enqueued")
     ELSE Save(p, copy[p], << >>, "insert")
  /\ UNCHANGED <<db, queue, cur, budget, history>>

EnqueueInsert(p) ==
  /\ At(p, "insert")
  /\ Queue!Add
  /\ payload' = Append(payload, Key(p))
  /\ Save(p, copy[p], <<cur[p]>> \o Whole, "enqueued")
  /\ UNCHANGED <<db, cur, budget, history>>

(* A mutant of the next definition: the plan's last status is not saved. *)
FinishUnsaved(p) ==
  /\ At(p, "loop") /\ \A s \in Steps : Status(p, s) \in {"done", "skipped"}
  /\ Save(p, [copy[p] EXCEPT !.status = "done"], << >>, "finished")
  /\ UNCHANGED <<db, queue, cur, budget, history>>

Finish(p) ==
  /\ At(p, "loop") /\ \A s \in Steps : Status(p, s) \in {"done", "skipped"}
  /\ Save(p, [copy[p] EXCEPT !.status = "done"], Whole, "finished")
  /\ UNCHANGED <<db, queue, cur, budget, history>>

(* The call returns: to the user, or to run_one, which completes the row. *)
Return(p) ==
  /\ \E label \in {"enqueued", "paused", "gaveup", "finished", "replied"} : At(p, label)
  /\ Leave(p, IF p \in Workers THEN "complete" ELSE "idle")
  /\ UNCHANGED <<db, queue, budget, history>>

-----------------------------------------------------------------------------
(* Workers: run_plan_step and execute_queued_step *)

Take(w, i) ==
  /\ At(w, "idle")
  /\ Queue!Take(w, i)
  /\ pc' = [pc EXCEPT ![w] = "load"]
  /\ UNCHANGED <<db, payload, copy, cur, todo, budget, history>>

LoadPlan(w) ==
  /\ At(w, "load")
  /\ Save(w, [NewPlan EXCEPT !.status = db.status], << >>, "loaded")
  /\ UNCHANGED <<db, queue, cur, budget, history>>

(* Only a step that is already done stops the worker here. *)
LoadSteps(w) ==
  /\ At(w, "loaded")
  /\ IF db.step[JobStep(w)].status = "done"
     THEN Leave(w, "complete")
     ELSE Save(w, Loaded(w), << >>, "work") /\ UNCHANGED cur
  /\ UNCHANGED <<db, queue, budget, history>>

WorkSucceeds(w) ==
  /\ At(w, "work")
  /\ Save(w, SetStatus(copy[w], JobStep(w), "done"), <<JobStep(w)>>, "execute")
  /\ started' = [started EXCEPT ![JobStep(w)] = @ + 1]
  /\ effects' = [effects EXCEPT ![JobStep(w)] = @ + 1]
  /\ UNCHANGED <<db, queue, cur, budget, approved>>

(* A mutant of the next definition: the result is taken for a success. *)
WorkIgnoresFailure(w) ==
  /\ At(w, "work")
  /\ Save(w, SetStatus(copy[w], JobStep(w), "done"), <<JobStep(w)>>, "execute")
  /\ started' = [started EXCEPT ![JobStep(w)] = @ + 1]
  /\ UNCHANGED <<db, queue, cur, budget, approved, effects>>

WorkFails(w) ==
  /\ At(w, "work")
  /\ Fail(w, JobStep(w), "gaveup")
  /\ started' = [started EXCEPT ![JobStep(w)] = @ + 1]
  /\ UNCHANGED <<db, queue, cur, budget, approved, effects>>

(* The handler returned, whatever the outcome of the step: the row is done. *)
Complete(w) ==
  /\ At(w, "complete")
  /\ Queue!Settle(w, "done")
  /\ pc' = [pc EXCEPT ![w] = "idle"]
  /\ UNCHANGED <<db, payload, copy, cur, todo, budget, history>>

-----------------------------------------------------------------------------
(* Faults *)

(* A statement in the try of execute_plan fails: the except clause pauses the plan. *)
StepWriteRaises(p) ==
  /\ \/ pc[p] \in {"advance", "enqueued"} /\ todo[p] # << >>
     \/ At(p, "dispatch") /\ cur[p] \in goal.queued
     \/ At(p, "insert")
  /\ Spend("error")
  /\ Fail(p, cur[p], "paused")
  /\ UNCHANGED <<db, queue, cur, history>>

(***************************************************************************)
(* Elsewhere in execute_plan it propagates: in a worker to the except      *)
(* clause of execute_queued_step, which fails the step the row is for ...  *)
(***************************************************************************)
WalkWriteRaises(w) ==
  /\ pc[w] \in {"execute", "loop", "dispatch", "paused", "finished"} /\ todo[w] # << >>
  /\ Spend("error")
  /\ Fail(w, JobStep(w), "gaveup")
  /\ UNCHANGED <<db, queue, cur, history>>

(* ... in a front to the channel, which reports an error or carries on. *)
FrontWriteRaises(f) ==
  /\ pc[f] \in {"execute", "loop", "dispatch", "paused", "finished", "replied"} /\ todo[f] # << >>
  /\ Spend("error")
  /\ Leave(f, "idle")
  /\ UNCHANGED <<db, queue, history>>

(***************************************************************************)
(* The handler raises, or complete() does after it returned: run_one puts  *)
(* the row back for another attempt, or fails it after the last.           *)
(***************************************************************************)
JobRaises(w) ==
  /\ \/ At(w, "load") \/ At(w, "loaded") \/ At(w, "complete")
     \/ pc[w] = "gaveup" /\ todo[w] # << >>
  /\ Spend("error")
  /\ \E outcome \in {"queued", "failed"} : Queue!Settle(w, outcome)
  /\ Leave(w, "idle")
  /\ UNCHANGED <<db, payload, history>>

Crash(p) ==
  /\ pc[p] # "idle"
  /\ Spend("crash")
  /\ Leave(p, "idle")
  /\ IF p \in Workers THEN Queue!Drop(p) ELSE UNCHANGED <<tasks, held>>
  /\ UNCHANGED <<db, payload, history>>

-----------------------------------------------------------------------------
User(f) == (Run(f) \/ Reply(f) \/ Resume(f)) /\ UNCHANGED goal

(* What a front that has read the user's message does by itself. *)
Answer(f) ==
  /\ \/ ReplyAbort(f) \/ ReplyYes(f) \/ ReplyContinue(f) \/ ReplyIgnored(f)
     \/ \E s \in Steps : ReplySkip(f, s)
     \/ ResumeSteps(f)
  /\ UNCHANGED goal

Walk(p) ==
  /\ \/ Flush(p) \/ Execute(p) \/ Advance(p) \/ Finish(p) \/ Return(p)
     \/ \E s \in Steps : SkipStep(p, s) \/ BeginStep(p, s)
     \/ DispatchSucceeds(p) \/ DispatchFails(p) \/ EnqueueSelect(p) \/ EnqueueInsert(p)
  /\ UNCHANGED goal

Work(w) ==
  /\ \/ \E i \in 1 .. Len(tasks) : Take(w, i)
     \/ LoadPlan(w) \/ LoadSteps(w) \/ WorkSucceeds(w) \/ WorkFails(w) \/ Complete(w)
  /\ UNCHANGED goal

Fault ==
  /\ \/ \E p \in Processes : StepWriteRaises(p) \/ Crash(p)
     \/ \E w \in Workers : WalkWriteRaises(w) \/ JobRaises(w)
     \/ \E f \in Fronts : FrontWriteRaises(f)
  /\ UNCHANGED goal

Next ==
  \/ \E f \in Fronts : User(f) \/ Answer(f)
  \/ \E p \in Processes : Walk(p)
  \/ \E w \in Workers : Work(w)
  \/ Fault

Spec == Init /\ [][Next]_vars

(* Every process that has something to do does it: skills return, workers poll. *)
FairSpec ==
  /\ Spec
  /\ \A f \in Fronts : WF_vars(Answer(f)) /\ WF_vars(Walk(f))
  /\ \A w \in Workers : WF_vars(Work(w)) /\ WF_vars(Walk(w))

-----------------------------------------------------------------------------
(* Properties *)

(* Every variable holds a value of its kind. *)
TypeOK ==
  /\ db \in Plan
  /\ tasks \in Seq({"queued", "running", "done", "failed"})
  /\ held \in [Workers -> 0 .. Len(tasks)]
  /\ payload \in Seq([step : Steps, attempts : Nat]) /\ Len(payload) = Len(tasks)
  /\ pc \in [Processes -> Labels]
  /\ copy \in [Processes -> Plan]
  /\ cur \in [Processes -> {0} \cup Steps]
  /\ todo \in [Processes -> Seq({0} \cup Steps)]
  /\ budget \in [FaultKinds -> Nat]
  /\ approved \in BOOLEAN
  /\ started \in [Steps -> Nat]
  /\ effects \in [Steps -> Nat]

(***************************************************************************)
(* Nothing is dispatched, by the loop or by a worker, that may not run     *)
(* yet, or any more: a step whose output others use succeeds before them,  *)
(* "high always asks" (tests/test_orchestrator.py) unless somebody resumes *)
(* the plan, and what the user skipped or cancelled stays so while the     *)
(* plan's steps run inline -- with stale copies, failing statements,       *)
(* crashes and redelivered rows.  The last two parts hold while the user   *)
(* writes in one channel: a second front's late save of its whole copy     *)
(* undoes what the first has recorded.                                     *)
(***************************************************************************)
OnlyAllowedStepsRun ==
  [][\A s \in Steps : started'[s] # started[s] =>
       /\ \A d \in Deps[s] : effects[d] > 0
       /\ s \in goal.asks /\ Without({"resume"}) => approved
       /\ goal.queued = {} =>
            /\ db.step[s].status # "skipped"
            /\ db.status = "cancelled" => ~Without({"resume"})]_vars

(***************************************************************************)
(* "resumes without rerunning done steps" (tests/test_orchestrator.py): a  *)
(* step that succeeded is not run again, whatever the user replies and     *)
(* resumes in one channel, as long as its success could be saved and no    *)
(* worker has the plan too.                                                *)
(***************************************************************************)
DoneStepsNotRerun ==
  Without({"error", "crash"}) /\ goal.queued = {} => \A s \in Steps : effects[s] <= 1

(***************************************************************************)
(* "completion is durable" (core/queue.py): a step recorded as done stays  *)
(* done in the database.                                                   *)
(***************************************************************************)
CompletionDurable ==
  [][\A s \in Steps : db.step[s].status = "done" => db'.step[s].status = "done"]_vars

(***************************************************************************)
(* A plan does not stay executing for ever: it is done, or it pauses and   *)
(* tells the user.  After a failed statement, a crash, or a save by a      *)
(* front that a worker has overtaken, it may stay.                         *)
(***************************************************************************)
ExecutingPlanSettles ==
  db.status = "executing" /\ goal.queued = {}
    ~> db.status # "executing" \/ ~Without({"error", "crash"})

=============================================================================
