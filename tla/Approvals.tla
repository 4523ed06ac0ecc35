----------------------------- MODULE Approvals -----------------------------
(***************************************************************************)
(* Tiered approvals with learned permissions (core/approvals.py), and the  *)
(* two sides that use them: the inbox triage, which proposes actions and   *)
(* performs those the store lets it (skills/proactive.py), and the user,   *)
(* who answers from Telegram or from the dashboard.                        *)
(*                                                                         *)
(* Both tables live in the database; every read and every tx() block is a  *)
(* step of its own, so answers come between a decision and its use.        *)
(***************************************************************************)
EXTENDS Naturals, Sequences

CONSTANTS
  Triages,     \* processes that may run a triage: workers, and `triage` commands
  Callers,     \* other callers of propose, who obey its answer
  Users,       \* channels the user answers from, each handling one message at a time
  Messages,    \* messages in the inbox
  Kinds,       \* kinds of action
  TierOf,      \* TierOf[k]: the tier a kind is proposed with (ACTION_KINDS)
  Vocabulary,  \* the kinds a triage may propose, the keys of ACTION_KINDS
  Keys,        \* permission keys
  KeysOf,      \* KeysOf[k]: the permission keys a proposal of kind k may carry
  MaxBatch,    \* bound: proposals the model makes in one triage
  MaxRows,     \* bound: rows of pending_actions
  FaultBudget  \* bound: crashes and failing statements, together

Tiers     == {"trivial", "low", "medium", "high"}
Decisions == {"ask", "always_approve", "always_deny"}
Statuses  == {"pending", "approved", "denied", "executed", "failed", "expired"}

(* LEARNABLE_TIERS: "high" is absent on purpose. *)
Learnable == {"low", "medium"}

ASSUME ApprovalAssumption ==
  /\ TierOf \in [Kinds -> Tiers]
  /\ Vocabulary \subseteq Kinds
  /\ \A k \in Vocabulary : TierOf[k] # "high"
  /\ KeysOf \in [Kinds -> SUBSET Keys]
  /\ Triages \cap Callers = {}
  /\ MaxBatch \in Nat /\ MaxRows \in Nat /\ FaultBudget \in Nat

Proposers == Triages \cup Callers
Proposal  == UNION {[kind : {k}, message : Messages, key : KeysOf[k]] : k \in Kinds}

VARIABLES
  action_permissions,  \* the decision stored for each key; "ask" when there is none
  pending_actions,     \* the rows, in order of id
  stale,               \* ids of rows created more than 72 hours ago
  inbox,               \* messages the mailbox still lists
  pc,                  \* per proposer: where it is
  batch,               \* per proposer: the messages of its batch
  proposals,           \* per proposer: the proposals still to be applied
  learned,             \* per proposer: the decision propose() has read
  row,                 \* per proposer: the id of the row it is executing
  answering,           \* per user: rows still to be resolved, and how
  faults,              \* what is left of FaultBudget
  yes,                 \* history: ids the user approved
  taught,              \* history: <<key, kind>> the user answered with "always yes"
  performed            \* history: ids whose action took effect in the mailbox

store   == <<action_permissions, pending_actions>>
world   == <<stale, inbox>>
mine    == <<pc, batch, proposals, learned, row>>
history == <<yes, taught, performed>>
vars    == <<store, world, mine, answering, faults, history>>

-----------------------------------------------------------------------------
Ids     == 1 .. Len(pending_actions)
Tier(i) == TierOf[pending_actions[i].kind]
Pending  == {i \in Ids : pending_actions[i].status = "pending"}
Approved == {i \in Ids : pending_actions[i].status = "approved"}
Action  == [kind : Kinds, message : Messages, key : Keys, status : Statuses]
Answer  == [ids : SUBSET Nat, approve : BOOLEAN, always : BOOLEAN, teach : BOOLEAN]

NoAnswer == [ids |-> {}, approve |-> FALSE, always |-> FALSE, teach |-> FALSE]

SetStatus(i, status) == [pending_actions EXCEPT ![i].status = status]

Spend == faults > 0 /\ faults' = faults - 1

Goto(p, label) == pc' = [pc EXCEPT ![p] = label]

Init ==
  /\ action_permissions = [k \in Keys |-> "ask"]
  /\ pending_actions = << >>
  /\ stale = {}
  /\ inbox = Messages
  /\ pc = [p \in Proposers |-> "idle"]
  /\ batch = [p \in Proposers |-> {}]
  /\ proposals = [p \in Proposers |-> << >>]
  /\ learned = [p \in Proposers |-> "ask"]
  /\ row = [p \in Proposers |-> 0]
  /\ answering = [u \in Users |-> NoAnswer]
  /\ faults = FaultBudget
  /\ yes = {} /\ taught = {} /\ performed = {}

-----------------------------------------------------------------------------
(* Triage *)

(* A mutant of the next definition: nothing expires. *)
TriageStartOnly(t) ==
  /\ pc[t] = "idle" /\ Goto(t, "collect")
  /\ UNCHANGED <<store, world, batch, proposals, learned, row, answering, faults, history>>

(* expire_stale: one UPDATE of what is pending for too long. *)
TriageStart(t) ==
  /\ pc[t] = "idle"
  /\ pending_actions' = [i \in Ids |->
       IF i \in stale \cap Pending THEN [pending_actions[i] EXCEPT !.status = "expired"]
                                   ELSE pending_actions[i]]
  /\ Goto(t, "collect")
  /\ UNCHANGED <<action_permissions, world, batch, proposals, learned, row, answering,
                 faults, history>>

(* seen_ids("email_"): the messages of all rows of the triage's kinds. *)
Seen == {pending_actions[i].message : i \in {j \in Ids : pending_actions[j].kind \in Vocabulary}}

(* _collect: nothing new ends the triage, and so does an inbox that cannot be read. *)
Collect(t) ==
  /\ pc[t] = "collect"
  /\ batch' = [batch EXCEPT ![t] = inbox \ Seen]
  /\ Goto(t, IF inbox \ Seen = {} THEN "idle" ELSE "classify")
  /\ UNCHANGED <<store, world, proposals, learned, row, answering, faults, history>>

(***************************************************************************)
(* _classify: the model answers with a list of proposals, of kinds it was  *)
(* not offered and for messages outside the batch too -- or with an error. *)
(***************************************************************************)
Classify(t, answer) ==
  /\ pc[t] = "classify"
  /\ proposals' = [proposals EXCEPT ![t] = answer]
  /\ Goto(t, "apply")
  /\ UNCHANGED <<store, world, batch, learned, row, answering, faults, history>>

ClassifyFails(t) ==
  /\ pc[t] \in {"collect", "classify"}
  /\ Goto(t, "idle")
  /\ UNCHANGED <<store, world, batch, proposals, learned, row, answering, faults, history>>

Wanted(t, p) == p.kind \in Vocabulary /\ p.message \in batch[t]

(* _apply leaves out what the triage may not propose. *)
DropProposal(t) ==
  /\ t \in Triages /\ pc[t] = "apply" /\ proposals[t] # << >>
  /\ ~Wanted(t, Head(proposals[t]))
  /\ proposals' = [proposals EXCEPT ![t] = Tail(@)]
  /\ UNCHANGED <<store, world, pc, batch, learned, row, answering, faults, history>>

TriageEnds(t) ==
  /\ pc[t] = "apply" /\ proposals[t] = << >>
  /\ Goto(t, "idle")
  /\ batch' = [batch EXCEPT ![t] = {}]
  /\ UNCHANGED <<store, world, proposals, learned, row, answering, faults, history>>

-----------------------------------------------------------------------------
(* propose, as the triage and every other caller use it *)

(***************************************************************************)
(* Another caller proposes one action, of a kind of its own.  In the code  *)
(* only its tests do (job_apply, high: tests/test_approvals.py:82); the    *)
(* store makes its promises to every caller, and no triage proposes at the *)
(* high tier.  It leaves the last row of the bound to the triage.          *)
(***************************************************************************)
CallerStart(c, p) ==
  /\ pc[c] = "idle" /\ p.kind \notin Vocabulary /\ Len(pending_actions) < MaxRows - 1
  /\ proposals' = [proposals EXCEPT ![c] = <<p>>]
  /\ Goto(c, "apply")
  /\ UNCHANGED <<store, world, batch, learned, row, answering, faults, history>>

(* decision_for: the first statement of propose. *)
Decide(p) ==
  /\ pc[p] = "apply" /\ proposals[p] # << >>
  /\ p \in Triages => Wanted(p, Head(proposals[p]))
  /\ learned' = [learned EXCEPT ![p] = action_permissions[Head(proposals[p]).key]]
  /\ Goto(p, "insert")
  /\ UNCHANGED <<store, world, batch, proposals, row, answering, faults, history>>

(* A mutant of the next definition: a learned yes is enough at every tier. *)
VerdictIfLearned(tier, decision) ==
  CASE tier = "trivial" \/ decision = "always_approve" -> "approved"
    [] tier # "trivial" /\ decision = "always_deny"    -> "denied"
    [] OTHER                                           -> "pending"

Verdict(tier, decision) ==
  CASE tier = "trivial"                                        -> "approved"
    [] tier # "trivial" /\ decision = "always_deny"            -> "denied"
    [] decision = "always_approve" /\ tier \in Learnable       -> "approved"
    [] OTHER                                                   -> "pending"

(* The INSERT.  The caller executes only when the status is approved. *)
Insert(p) ==
  /\ pc[p] = "insert" /\ Len(pending_actions) < MaxRows
  /\ LET a      == Head(proposals[p])
         status == Verdict(TierOf[a.kind], learned[p])
     IN /\ pending_actions' = Append(pending_actions,
             [kind |-> a.kind, message |-> a.message, key |-> a.key, status |-> status])
        /\ Goto(p, IF status = "approved" THEN "execute"
                   ELSE IF p \in Triages THEN "apply" ELSE "idle")
  /\ row' = [row EXCEPT ![p] = Len(pending_actions) + 1]
  /\ proposals' = [proposals EXCEPT ![p] = Tail(@)]
  /\ UNCHANGED <<action_permissions, world, batch, learned, answering, faults, history>>

(* _execute: archive and trash take the message out of the inbox, a label does not. *)
Perform(p) ==
  /\ pc[p] = "execute"
  /\ performed' = performed \cup {row[p]}
  /\ inbox' = IF Tier(row[p]) = "trivial" THEN inbox
              ELSE inbox \ {pending_actions[row[p]].message}
  /\ Goto(p, "mark")
  /\ UNCHANGED <<store, stale, batch, proposals, learned, row, answering, faults, yes, taught>>

(* mark, whatever the row says by now.  An exception, mark's own too, marks it failed. *)
Mark(p, status) ==
  /\ \/ pc[p] = "mark" /\ status = "executed" /\ UNCHANGED faults
     \/ pc[p] \in {"execute", "mark"} /\ status = "failed" /\ Spend
  /\ pending_actions' = SetStatus(row[p], status)
  /\ Goto(p, IF p \in Triages THEN "apply" ELSE "idle")
  /\ UNCHANGED <<action_permissions, world, batch, proposals, learned, row, answering, history>>

Crash(p) ==
  /\ pc[p] # "idle" /\ Spend
  /\ Goto(p, "idle")
  /\ batch' = [batch EXCEPT ![p] = {}]
  /\ proposals' = [proposals EXCEPT ![p] = << >>]
  /\ UNCHANGED <<store, world, learned, row, answering, history>>

-----------------------------------------------------------------------------
(* The user *)

(***************************************************************************)
(* One message: "3 yes" and "always no 3" name a row, in whatever status   *)
(* it is; "yes all" and "no all" mean the rows that are pending now.       *)
(***************************************************************************)
Answers(u, ids, approve, always) ==
  /\ answering[u] = NoAnswer /\ ids # {}
  /\ answering' = [answering EXCEPT ![u] =
                     [ids |-> ids, approve |-> approve, always |-> always, teach |-> FALSE]]
  /\ UNCHANGED <<store, world, mine, faults, history>>

AnswerOne(u, i, approve, always) == Answers(u, {i}, approve, always)
AnswerAll(u, approve)            == Answers(u, Pending, approve, FALSE)

(* Row i is the next one of u's message, and then u is done with it. *)
Resolves(u, i) == i \in answering[u].ids /\ \A j \in answering[u].ids : i <= j
Done(u, i) ==
  IF answering[u].ids = {i} THEN NoAnswer
  ELSE [answering[u] EXCEPT !.ids = @ \ {i}, !.teach = FALSE]

(* A mutant of the next definition: a yes is learned at every tier. *)
TeachesAnyTier(i, approve, always) == always

(* "always yes" is not learned for a high tier; "always no" is. *)
Teaches(i, approve, always) == always /\ ~(approve /\ Tier(i) = "high")

(* resolve: the UPDATE of the row's status, which is not looked at. *)
ResolveRow(u, i) ==
  /\ Resolves(u, i) /\ ~answering[u].teach
  /\ LET a == answering[u]
     IN /\ pending_actions' = SetStatus(i, IF a.approve THEN "approved" ELSE "denied")
        /\ yes' = IF a.approve THEN yes \cup {i} ELSE yes
        /\ answering' = [answering EXCEPT ![u] =
             IF Teaches(i, a.approve, a.always) THEN [a EXCEPT !.teach = TRUE] ELSE Done(u, i)]
  /\ UNCHANGED <<action_permissions, world, mine, faults, taught, performed>>

(* resolve, when always: remember. *)
Remember(u, i) ==
  /\ Resolves(u, i) /\ answering[u].teach
  /\ LET a == answering[u]
         k == pending_actions[i].key
     IN /\ action_permissions' = [action_permissions EXCEPT ![k] =
             IF a.approve THEN "always_approve" ELSE "always_deny"]
        /\ taught' = IF a.approve THEN taught \cup {<<k, pending_actions[i].kind>>} ELSE taught
  /\ answering' = [answering EXCEPT ![u] = Done(u, i)]
  /\ UNCHANGED <<pending_actions, world, mine, faults, yes, performed>>

(* forget: back to asking. *)
Forget(k) ==
  /\ action_permissions[k] # "ask"
  /\ action_permissions' = [action_permissions EXCEPT ![k] = "ask"]
  /\ UNCHANGED <<pending_actions, world, mine, answering, faults, history>>

(* 72 hours pass for row i, and so for the rows before it. *)
Age(i) ==
  /\ i \notin stale
  /\ stale' = 1 .. i
  /\ UNCHANGED <<store, inbox, mine, answering, faults, history>>

-----------------------------------------------------------------------------
(* The answers of the model: at most one proposal per message, as it is told. *)
Batches ==
  {b \in UNION {[1 .. n -> Proposal] : n \in 0 .. MaxBatch} :
     \A i, j \in DOMAIN b : i # j => b[i].message # b[j].message}

Propose(p) ==
  \/ TriageEnds(p) \/ DropProposal(p) \/ Decide(p) \/ Insert(p) \/ Perform(p)
  \/ Mark(p, "executed") \/ Mark(p, "failed")

Triage(t) ==
  TriageStart(t) \/ Collect(t) \/ ClassifyFails(t) \/ \E b \in Batches : Classify(t, b)

Resolve(u) == \E i \in Ids : ResolveRow(u, i) \/ Remember(u, i)

User(u) ==
  \/ \E i \in Ids, approve \in BOOLEAN, always \in BOOLEAN : AnswerOne(u, i, approve, always)
  \/ \E approve \in BOOLEAN : AnswerAll(u, approve)

Next ==
  \/ \E t \in Triages : Triage(t)
  \/ \E c \in Callers, p \in Proposal : CallerStart(c, p)
  \/ \E p \in Proposers : Propose(p) \/ Crash(p)
  \/ \E u \in Users : User(u) \/ Resolve(u)
  \/ \E k \in Keys : Forget(k)
  \/ \E i \in Ids : Age(i)

Spec == Init /\ [][Next]_vars

(* The triage is scheduled daily, a started triage and a user's request come to an end. *)
FairSpec ==
  /\ Spec
  /\ \A t \in Triages : WF_vars(Triage(t) \/ Propose(t))
  /\ \A u \in Users : WF_vars(Resolve(u))

-----------------------------------------------------------------------------
(* Properties *)

(* Every variable holds a value of its kind. *)
TypeOK ==
  /\ action_permissions \in [Keys -> Decisions]
  /\ pending_actions \in Seq(Action)
  /\ stale \subseteq Ids
  /\ inbox \subseteq Messages
  /\ pc \in [Proposers -> {"idle", "collect", "classify", "apply", "insert", "execute", "mark"}]
  /\ batch \in [Proposers -> SUBSET Messages]
  /\ proposals \in [Proposers -> Seq(Proposal)]
  /\ learned \in [Proposers -> Decisions]
  /\ row \in [Proposers -> 0 .. Len(pending_actions)]
  /\ answering \in [Users -> Answer]
  /\ faults \in Nat
  /\ yes \subseteq Ids /\ performed \subseteq Ids
  /\ taught \subseteq Keys \X Kinds

(***************************************************************************)
(* "high can never be auto-approved, even if Calvin says always yes"       *)
(* (core/approvals.py): whatever was learned, and for whichever action     *)
(* with the same key, a high action is approved by an answer to that very  *)
(* action, and proposing it never performs it.                             *)
(***************************************************************************)
HighAlwaysAsks ==
  \A i \in Ids : Tier(i) = "high" =>
    /\ i \notin performed
    /\ pending_actions[i].status \in {"approved", "executed"} => i \in yes

(***************************************************************************)
(* "A §0 gate is not learned away": a standing yes exists only because the *)
(* user answered "always yes" to an action below the high tier.            *)
(***************************************************************************)
StandingYesWasTaught ==
  \A k \in Keys : action_permissions[k] = "always_approve" =>
    \E kind \in Kinds : <<k, kind>> \in taught /\ TierOf[kind] # "high"

(***************************************************************************)
(* "A list that only grows is a list nobody reads" (expire_stale): what    *)
(* the user does not answer in three days stops being pending.             *)
(***************************************************************************)
StaleQuestionsRetire ==
  \A i \in 1 .. MaxRows : i \in stale /\ i \in Pending ~> i \notin Pending

=============================================================================
