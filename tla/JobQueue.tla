------------------------------ MODULE JobQueue ------------------------------
(***************************************************************************)
(* The durable job queue (core/queue.py) with the processes around it:     *)
(* producers that enqueue (the API's scheduler, a hunt, an orchestrator    *)
(* plan) and worker processes that claim and run (kernel/worker.py).       *)
(*                                                                         *)
(* The table job_queue is the only shared state.  Every process has one    *)
(* autocommit connection to it, so each tx() block of the code is one      *)
(* step, except enqueue: its SELECT and its INSERT are two statements of   *)
(* one READ COMMITTED transaction, and other processes commit in between.  *)
(***************************************************************************)
EXTENDS Naturals, Sequences

CONSTANTS
  Workers,       \* worker processes (`docker compose up --scale worker=N`)
  Producers,     \* processes that enqueue, one connection each
  Kinds,         \* handler names a row may reference
  Handlers,      \* Handlers[w]: the kinds the image that worker w runs has registered
  Keys,          \* dedupe keys
  NoKey,         \* dedupe_key IS NULL
  Requests,      \* the (kind, dedupe_key) pairs that callers enqueue
  MaxAttempts,   \* DEFAULT_MAX_ATTEMPTS, the value of every row's max_attempts
  RetryBase,     \* RETRY_BASE_SECONDS, in clock ticks
  MaxRows,       \* bound: rows inserted in one behaviour
  MaxNow,        \* bound: ticks of the clock
  FaultBudget    \* bound: how often each fault or operator command happens

(***************************************************************************)
(* "crash": a worker's process dies and its container is restarted.        *)
(* "signal": SIGTERM or SIGINT.  "error": a statement fails and the        *)
(* connection survives.  "connloss": the connection is lost.  "requeue":   *)
(* an operator runs `manage.py queue --requeue`.                           *)
(***************************************************************************)
FaultKinds == {"crash", "signal", "error", "connloss", "requeue"}

(* Backoff before retry: 30s, 120s, 480s in the code's units. *)
Delay(attempts) == RetryBase * 4 ^ (attempts - 1)

ASSUME QueueAssumption ==
  /\ MaxAttempts \in Nat \ {0}
  /\ MaxRows \in Nat
  /\ MaxNow \in Nat
  /\ Handlers \in [Workers -> SUBSET Kinds]
  /\ NoKey \notin Keys
  /\ Requests \subseteq [kind : Kinds, dedupe_key : Keys \cup {NoKey}]
  /\ FaultBudget \in [FaultKinds -> Nat]
  /\ \A a \in 1 .. MaxAttempts : Delay(a) \in Nat

VARIABLES
  now,        \* the clock every process reads with time.time()
  job_queue,  \* the table: job_queue[i] is the row with id i
  req,        \* per producer: the request whose INSERT is still to come
  pc,         \* per worker: where in run_one it is
  job,        \* per worker: the Job that claim() returned
  stop,       \* per worker: the _stop flag
  conn,       \* per worker: its database connection is usable
  budget,     \* what is left of FaultBudget
  effects     \* history: how often the handler of row i has returned normally

vars == <<now, job_queue, req, pc, job, stop, conn, budget, effects>>

-----------------------------------------------------------------------------
(* Type definitions *)

Ids      == 1 .. Len(job_queue)
Statuses == {"queued", "running", "done", "failed"}
Row      == [kind : Kinds, dedupe_key : Keys \cup {NoKey}, status : Statuses,
             attempts : 0 .. MaxAttempts, run_at : Nat]
Insert   == [kind : Kinds, dedupe_key : Keys \cup {NoKey}, run_at : Nat]
Job      == [id : 1 .. MaxRows, attempts : 1 .. MaxAttempts]

NoRequest == [none |-> TRUE]
NoJob     == [id |-> 0, attempts |-> 0]

HasStatus(i, status) == i \in Ids /\ job_queue[i].status = status
Pending(i) == job_queue[i].status \in {"queued", "running"}

(* Mutants of Due: a row that is running is claimed again; a retry is not claimed. *)
DueIfPending(i) == job_queue[i].status \in {"queued", "running"} /\ job_queue[i].run_at <= now
DueOnce(i)      == job_queue[i].status = "queued" /\ job_queue[i].attempts = 0

(* The rows claim() may take, and its ORDER BY run_at, id. *)
Due(i)       == job_queue[i].status = "queued" /\ job_queue[i].run_at <= now
Before(i, j) == \/ job_queue[i].run_at < job_queue[j].run_at
                \/ job_queue[i].run_at = job_queue[j].run_at /\ i <= j

(* Worker w is between claim() and the end of run_one. *)
Busy(w) == pc[w] # "idle"

Spend(fault) == budget[fault] > 0 /\ budget' = [budget EXCEPT ![fault] = @ - 1]

(* None of these has happened so far. *)
Without(faults) == \A f \in faults : budget[f] = FaultBudget[f]

-----------------------------------------------------------------------------
Init ==
  /\ now = 0
  /\ job_queue = << >>
  /\ req = [p \in Producers |-> NoRequest]
  /\ pc = [w \in Workers |-> "idle"]
  /\ job = [w \in Workers |-> NoJob]
  /\ stop = [w \in Workers |-> FALSE]
  /\ conn = [w \in Workers |-> TRUE]
  /\ budget = FaultBudget
  /\ effects = [i \in 1 .. MaxRows |-> 0]

Tick ==
  /\ now < MaxNow
  /\ now' = now + 1
  /\ UNCHANGED <<job_queue, req, pc, job, stop, conn, budget, effects>>

-----------------------------------------------------------------------------
(* Producing *)

(***************************************************************************)
(* enqueue, up to its SELECT: with a dedupe key the call goes on only when *)
(* no pending row has that key.  A call that finds one returns None and    *)
(* changes nothing, so it is no step.                                      *)
(***************************************************************************)
EnqueueSelect(p, r) ==
  /\ req[p] = NoRequest
  /\ r.dedupe_key # NoKey =>
       ~ \E i \in Ids : job_queue[i].dedupe_key = r.dedupe_key /\ Pending(i)
  /\ req' = [req EXCEPT ![p] = [kind |-> r.kind, dedupe_key |-> r.dedupe_key,
                                run_at |-> now]]
  /\ UNCHANGED <<now, job_queue, pc, job, stop, conn, budget, effects>>

EnqueueInsert(p) ==
  /\ req[p] # NoRequest
  /\ Len(job_queue) < MaxRows
  /\ job_queue' = Append(job_queue,
                    [kind |-> req[p].kind, dedupe_key |-> req[p].dedupe_key,
                     status |-> "queued", attempts |-> 0, run_at |-> req[p].run_at])
  /\ req' = [req EXCEPT ![p] = NoRequest]
  /\ UNCHANGED <<now, pc, job, stop, conn, budget, effects>>

Revivable(i, kinds) == job_queue[i].status = "failed" /\ job_queue[i].kind \in kinds

(* requeue_failed(kind), with kind = "all" for every kind: one UPDATE, no dedupe. *)
RequeueFailed(kinds) ==
  /\ Spend("requeue")
  /\ \E i \in Ids : Revivable(i, kinds)
  /\ job_queue' = [i \in Ids |->
       IF Revivable(i, kinds)
       THEN [job_queue[i] EXCEPT !.status = "queued", !.attempts = 0, !.run_at = now]
       ELSE job_queue[i]]
  /\ UNCHANGED <<now, req, pc, job, stop, conn, effects>>

-----------------------------------------------------------------------------
(* Consuming *)

(***************************************************************************)
(* claim: UPDATE .. WHERE id = (SELECT .. FOR UPDATE SKIP LOCKED LIMIT 1), *)
(* the earliest due row, in one statement.  run_one then looks the handler *)
(* up by name.                                                             *)
(***************************************************************************)
Claim(w, i) ==
  /\ ~Busy(w) /\ ~stop[w] /\ conn[w]
  /\ Due(i)
  /\ \A j \in Ids : Due(j) => Before(i, j)
  /\ job_queue' = [job_queue EXCEPT ![i] =
                     [@ EXCEPT !.status = "running",
                               !.attempts = job_queue[i].attempts + 1]]
  /\ job' = [job EXCEPT ![w] = [id |-> i, attempts |-> job_queue[i].attempts + 1]]
  /\ pc' = [pc EXCEPT ![w] = IF job_queue[i].kind \in Handlers[w] THEN "handler"
                                                                  ELSE "unknown"]
  /\ UNCHANGED <<now, req, stop, conn, budget, effects>>

HandlerReturns(w) ==
  /\ pc[w] = "handler"
  /\ effects' = [effects EXCEPT ![job[w].id] = @ + 1]
  /\ pc' = [pc EXCEPT ![w] = "complete"]
  /\ UNCHANGED <<now, job_queue, req, job, stop, conn, budget>>

HandlerRaises(w) ==
  /\ pc[w] = "handler"
  /\ pc' = [pc EXCEPT ![w] = "fail"]
  /\ UNCHANGED <<now, job_queue, req, job, stop, conn, budget, effects>>

(* run_one returned or raised: the worker holds no job any more. *)
Idle(w) == pc' = [pc EXCEPT ![w] = "idle"] /\ job' = [job EXCEPT ![w] = NoJob]

(* complete: an UPDATE by id, with no look at the row's status. *)
Complete(w) ==
  /\ pc[w] = "complete" /\ conn[w]
  /\ job_queue' = [job_queue EXCEPT ![job[w].id].status = "done"]
  /\ Idle(w)
  /\ UNCHANGED <<now, req, stop, conn, budget, effects>>

(***************************************************************************)
(* complete raises, on a live connection: the call is inside run_one's     *)
(* try, so the except clause treats finished work as a failed attempt.     *)
(***************************************************************************)
CompleteRaises(w) ==
  /\ pc[w] = "complete" /\ conn[w]
  /\ Spend("error")
  /\ pc' = [pc EXCEPT ![w] = "fail"]
  /\ UNCHANGED <<now, job_queue, req, job, stop, conn, effects>>

(* fail: an UPDATE by id; the attempts are those of the claimed Job. *)
Fail(w) ==
  /\ pc[w] = "fail" /\ conn[w]
  /\ LET i == job[w].id
         a == job[w].attempts
     IN job_queue' = IF a >= MaxAttempts
                     THEN [job_queue EXCEPT ![i].status = "failed"]
                     ELSE [job_queue EXCEPT ![i] =
                            [@ EXCEPT !.status = "queued", !.run_at = now + Delay(a)]]
  /\ Idle(w)
  /\ UNCHANGED <<now, req, stop, conn, budget, effects>>

(* No handler for the row's kind: fail(.., attempts=99, max_attempts=1). *)
FailUnknown(w) ==
  /\ pc[w] = "unknown" /\ conn[w]
  /\ job_queue' = [job_queue EXCEPT ![job[w].id].status = "failed"]
  /\ Idle(w)
  /\ UNCHANGED <<now, req, stop, conn, budget, effects>>

(***************************************************************************)
(* fail (or the SELECT before it) raises.  Nothing catches it in run_one;  *)
(* worker.main logs it and loops, and the row stays as claim() left it.    *)
(***************************************************************************)
FailRaises(w) ==
  /\ pc[w] \in {"fail", "unknown"} /\ conn[w]
  /\ Spend("error")
  /\ Idle(w)
  /\ UNCHANGED <<now, job_queue, req, stop, conn, effects>>

-----------------------------------------------------------------------------
(* Connections, signals and crashes *)

(* The connection a process opened at its start is lost; no code reopens it. *)
ConnectionLost(w) ==
  /\ conn[w] /\ Spend("connloss")
  /\ conn' = [conn EXCEPT ![w] = FALSE]
  /\ UNCHANGED <<now, job_queue, req, pc, job, stop, effects>>

(* Without a connection complete raises, then the except clause raises too. *)
RunRaises(w) ==
  /\ pc[w] \in {"complete", "fail", "unknown"} /\ ~conn[w]
  /\ Idle(w)
  /\ UNCHANGED <<now, job_queue, req, stop, conn, budget, effects>>

(* _handle_signal only sets the flag: main finishes the job in flight first. *)
Signal(w) ==
  /\ ~stop[w] /\ Spend("signal")
  /\ stop' = [stop EXCEPT ![w] = TRUE]
  /\ UNCHANGED <<now, job_queue, req, pc, job, conn, effects>>

(* main returns; the container starts a new worker with a new connection. *)
Exit(w) ==
  /\ stop[w] /\ ~Busy(w)
  /\ stop' = [stop EXCEPT ![w] = FALSE]
  /\ conn' = [conn EXCEPT ![w] = TRUE]
  /\ UNCHANGED <<now, job_queue, req, pc, job, budget, effects>>

(* The process is killed at any point; nothing puts its row back. *)
Crash(w) ==
  /\ Spend("crash")
  /\ Idle(w)
  /\ stop' = [stop EXCEPT ![w] = FALSE]
  /\ conn' = [conn EXCEPT ![w] = TRUE]
  /\ UNCHANGED <<now, job_queue, req, effects>>

-----------------------------------------------------------------------------
Produce == \E p \in Producers : EnqueueInsert(p) \/ \E r \in Requests : EnqueueSelect(p, r)

(* What worker w does by itself. *)
Step(w) ==
  \/ \E i \in Ids : Claim(w, i)
  \/ HandlerReturns(w) \/ HandlerRaises(w)
  \/ Complete(w) \/ Fail(w) \/ FailUnknown(w) \/ RunRaises(w)
  \/ Exit(w)

(* What befalls worker w. *)
Fault(w) ==
  CompleteRaises(w) \/ FailRaises(w) \/ ConnectionLost(w) \/ Signal(w) \/ Crash(w)

Operate == RequeueFailed(Kinds) \/ \E k \in Kinds : RequeueFailed({k})

Next ==
  \/ Tick
  \/ Produce
  \/ \E w \in Workers : Step(w) \/ Fault(w)
  \/ Operate

Spec == Init /\ [][Next]_vars

(***************************************************************************)
(* Time passes and every worker process is scheduled: worker.main loops,   *)
(* handlers end (their network calls have timeouts), a signalled worker    *)
(* exits and its container restarts it.  Producers, faults and operators   *)
(* owe nothing.                                                            *)
(***************************************************************************)
FairSpec == Spec /\ WF_vars(Tick) /\ \A w \in Workers : WF_vars(Step(w))

-----------------------------------------------------------------------------
(* Properties *)

(* Every variable holds a value of its kind. *)
TypeOK ==
  /\ now \in Nat
  /\ job_queue \in Seq(Row)
  /\ Len(job_queue) <= MaxRows
  /\ req \in [Producers -> Insert \cup {NoRequest}]
  /\ pc \in [Workers -> {"idle", "handler", "complete", "fail", "unknown"}]
  /\ job \in [Workers -> Job \cup {NoJob}]
  /\ stop \in [Workers -> BOOLEAN]
  /\ conn \in [Workers -> BOOLEAN]
  /\ budget \in [FaultKinds -> Nat]
  /\ effects \in [1 .. MaxRows -> Nat]

(***************************************************************************)
(* complete and fail update by id alone, without checking the status or    *)
(* the worker column.  That is safe because a worker inside run_one owns   *)
(* its row: the row is running, at the attempt the worker claimed, and no  *)
(* other worker holds it, whatever crashed, was requeued or was re-claimed *)
(* meanwhile.                                                              *)
(***************************************************************************)
HolderOwnsRow ==
  \A w \in Workers : Busy(w) =>
    /\ job[w].id \in Ids
    /\ job_queue[job[w].id].status = "running"
    /\ job_queue[job[w].id].attempts = job[w].attempts
    /\ \A v \in Workers \ {w} : Busy(v) => job[v].id # job[w].id

(***************************************************************************)
(* "A failing job retries with backoff, then fails ... never retried       *)
(* forever" (tests/test_queue.py): a row waiting to be claimed has attempts *)
(* left, so claim() never exceeds max_attempts.                            *)
(***************************************************************************)
QueuedHasAttemptsLeft ==
  \A i \in Ids : job_queue[i].status = "queued" => job_queue[i].attempts < MaxAttempts

(***************************************************************************)
(* Rows are never deleted and a finished row is final: nothing reopens a   *)
(* done row, and a failed row leaves that status only by a requeue that    *)
(* gives it a full set of attempts.                                        *)
(***************************************************************************)
SettledRowsStay ==
  [][\A i \in Ids :
       /\ i \in 1 .. Len(job_queue')
       /\ job_queue[i].status = "done" => job_queue'[i] = job_queue[i]
       /\ job_queue[i].status = "failed" =>
            \/ job_queue'[i] = job_queue[i]
            \/ job_queue'[i].status = "queued" /\ job_queue'[i].attempts = 0]_vars

(***************************************************************************)
(* Work is neither repeated nor lost, as far as the queue promises it:     *)
(*  - a job whose handler has returned is not run again, unless a          *)
(*    statement fails on a live connection: complete() is inside the try   *)
(*    of run_one;                                                          *)
(*  - "an identical pending job is not queued twice", through retries and  *)
(*    crashes, unless failed rows are requeued;                            *)
(*  - "docker compose restart must not lose work" (kernel/worker.py): a    *)
(*    running row has a worker that holds it, unless one crashes or the    *)
(*    database fails.                                                      *)
(***************************************************************************)
NotRepeated == Without({"error"}) => \A i \in 1 .. MaxRows : effects[i] <= 1

NotDuplicated ==
  Without({"requeue"}) =>
    \A i, j \in Ids :
      i # j /\ Pending(i) /\ Pending(j) =>
        \/ job_queue[i].dedupe_key = NoKey
        \/ job_queue[i].dedupe_key # job_queue[j].dedupe_key

NotLost ==
  Without({"crash", "error", "connloss"}) =>
    \A i \in Ids : job_queue[i].status = "running" => \E w \in Workers : Busy(w) /\ job[w].id = i

NeitherRepeatedNorLost == NotRepeated /\ NotDuplicated /\ NotLost

(***************************************************************************)
(* "None is starved": a row that is queued and becomes due within the      *)
(* model's clock is eventually claimed, unless a worker has lost its       *)
(* connection.                                                             *)
(***************************************************************************)
QueuedRowsAreClaimed ==
  \A i \in 1 .. MaxRows :
    HasStatus(i, "queued") /\ job_queue[i].run_at <= MaxNow
      ~> ~HasStatus(i, "queued") \/ ~Without({"connloss"})

(***************************************************************************)
(* The table and the workers together implement TaskQueue: every step of   *)
(* the code is one of its steps, or changes nothing a caller can see.      *)
(***************************************************************************)
Tasks == INSTANCE TaskQueue WITH
           tasks <- [i \in Ids |-> job_queue[i].status],
           held  <- [w \in Workers |-> job[w].id]

ImplementsTaskQueue == Tasks!Spec

=============================================================================
