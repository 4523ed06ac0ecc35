-------------------------- MODULE ApprovalsProofs --------------------------
(***************************************************************************)
(* Proofs about Approvals, for any processes, kinds, keys and bounds: its  *)
(* variables keep their types, a high action is never approved without an  *)
(* answer to it, and no standing yes was learned from one.                 *)
(***************************************************************************)
EXTENDS Approvals, TLAPS

(* The rows a user is answering exist; a yes that teaches is to no high action. *)
AnswersNameRows ==
  \A u \in Users :
    /\ answering[u].ids \subseteq Ids
    /\ answering[u].teach =>
         \E i \in Ids : Resolves(u, i) /\ (answering[u].approve => Tier(i) # "high")

(* What is being executed is a row, and not of the high tier. *)
ExecutingRows ==
  \A p \in Proposers : pc[p] \in {"execute", "mark"} =>
    row[p] \in Ids /\ Tier(row[p]) # "high"

(* propose has its proposal in hand between its two statements. *)
ProposingOne == \A p \in Proposers : pc[p] = "insert" => proposals[p] # << >>

IInv ==
  /\ TypeOK
  /\ HighAlwaysAsks
  /\ StandingYesWasTaught
  /\ AnswersNameRows
  /\ ExecutingRows
  /\ ProposingOne

-----------------------------------------------------------------------------
(* Helpers *)

(* Every proposal names a kind, a message and a key of its kind. *)
LEMMA ProposalType ==
  ASSUME NEW p \in Proposal
  PROVE  p.kind \in Kinds /\ p.message \in Messages /\ p.key \in Keys
  BY ApprovalAssumption DEF Proposal

(* A row that gets another status keeps the rest, and the other rows stay. *)
LEMMA StatusSet ==
  ASSUME pending_actions \in Seq(Action), NEW i \in Ids, NEW status \in Statuses,
         pending_actions' = SetStatus(i, status)
  PROVE  /\ pending_actions' \in Seq(Action)
         /\ Ids' = Ids
         /\ \A j \in Ids : Tier(j)' = Tier(j) /\ pending_actions'[j].key = pending_actions[j].key
         /\ \A j \in Ids \ {i} : pending_actions'[j] = pending_actions[j]
         /\ pending_actions'[i].status = status
  <1>1. pending_actions[i] \in Action
    BY DEF Ids
  <1>2. [pending_actions[i] EXCEPT !.status = status] \in Action
    BY <1>1 DEF Action
  <1>3. pending_actions' = [pending_actions EXCEPT ![i] = [pending_actions[i] EXCEPT !.status = status]]
    BY DEF SetStatus
  <1>4. pending_actions' \in Seq(Action) /\ Len(pending_actions') = Len(pending_actions)
    BY <1>2, <1>3 DEF Ids
  <1>5. pending_actions'[i] = [pending_actions[i] EXCEPT !.status = status]
    BY <1>3 DEF Ids
  <1>6. \A j \in Ids \ {i} : pending_actions'[j] = pending_actions[j]
    BY <1>3 DEF Ids
  <1>7. /\ pending_actions'[i].status = status
        /\ pending_actions'[i].kind = pending_actions[i].kind
        /\ pending_actions'[i].key = pending_actions[i].key
    BY <1>1, <1>5 DEF Action
  <1> QED BY <1>4, <1>6, <1>7 DEF Ids, Tier

(* A new row follows the others, which stay as they are. *)
LEMMA RowAppended ==
  ASSUME pending_actions \in Seq(Action), NEW new \in Action,
         pending_actions' = Append(pending_actions, new)
  PROVE  /\ pending_actions' \in Seq(Action)
         /\ Len(pending_actions') = Len(pending_actions) + 1
         /\ Ids' = Ids \cup {Len(pending_actions) + 1}
         /\ Len(pending_actions) + 1 \notin Ids
         /\ \A i \in Ids : pending_actions'[i] = pending_actions[i]
         /\ pending_actions'[Len(pending_actions) + 1] = new
  BY DEF Ids

(***************************************************************************)
(* What propose makes of a tier and a decision: high is never approved.    *)
(***************************************************************************)
LEMMA VerdictRange ==
  ASSUME NEW tier \in Tiers, NEW decision \in Decisions
  PROVE  /\ Verdict(tier, decision) \in {"approved", "denied", "pending"}
         /\ tier = "high" => Verdict(tier, decision) # "approved"
  <1>1. CASE tier = "trivial"
    BY <1>1 DEF Verdict
  <1>2. CASE tier # "trivial" /\ decision = "always_deny"
    BY <1>2 DEF Verdict
  <1>3. CASE tier # "trivial" /\ decision = "always_approve" /\ tier \in Learnable
    BY <1>3 DEF Verdict, Learnable
  <1>4. CASE tier # "trivial" /\ decision # "always_deny"
             /\ ~(decision = "always_approve" /\ tier \in Learnable)
    BY <1>4 DEF Verdict
  <1> QED BY <1>1, <1>2, <1>3, <1>4

(* The tail of a list of proposals, and its head. *)
LEMMA HeadTail ==
  ASSUME NEW s \in Seq(Proposal), s # << >>
  PROVE  Head(s) \in Proposal /\ Tail(s) \in Seq(Proposal)
  OBVIOUS

-----------------------------------------------------------------------------
(* What the steps that leave both tables alone preserve. *)
LEMMA QuietStep ==
  ASSUME IInv, UNCHANGED <<store, yes, taught>>,
         performed' = performed
         \/ \E p \in Proposers : pc[p] = "execute" /\ performed' = performed \cup {row[p]}
  PROVE  HighAlwaysAsks' /\ StandingYesWasTaught'
  <1>1. Ids' = Ids /\ \A i \in Ids : Tier(i)' = Tier(i)
    BY DEF store, Ids, Tier
  <1>2. ASSUME NEW i \in Ids, Tier(i) = "high" PROVE i \notin performed'
    BY <1>2 DEF IInv, HighAlwaysAsks, ExecutingRows
  <1> QED BY <1>1, <1>2 DEF IInv, HighAlwaysAsks, StandingYesWasTaught, store

(* Answers that are not touched still name rows when no row changes its tier. *)
LEMMA AnswersKept ==
  ASSUME IInv, UNCHANGED answering, Ids \subseteq Ids', \A i \in Ids : Tier(i)' = Tier(i)
  PROVE  AnswersNameRows'
  BY DEF IInv, AnswersNameRows, Resolves

(* So do the rows that are being executed. *)
LEMMA ExecutingKept ==
  ASSUME IInv, UNCHANGED row, Ids \subseteq Ids', \A i \in Ids : Tier(i)' = Tier(i),
         \A p \in Proposers : pc'[p] \in {"execute", "mark"} => pc[p] \in {"execute", "mark"}
  PROVE  ExecutingRows'
  BY DEF IInv, ExecutingRows

(* The initial states. *)
LEMMA InitInv == Init => IInv
  <1> SUFFICES ASSUME Init PROVE IInv
    OBVIOUS
  <1>1. Ids = {}
    BY DEF Init, Ids
  <1>2. TypeOK
    BY <1>1, ApprovalAssumption DEF Init, TypeOK, Decisions, NoAnswer, Answer
  <1>3. StandingYesWasTaught
    BY DEF Init, StandingYesWasTaught
  <1> QED
    BY <1>1, <1>2, <1>3 DEF Init, IInv, HighAlwaysAsks, AnswersNameRows, ExecutingRows,
       ProposingOne, NoAnswer

-----------------------------------------------------------------------------
(* A proposer's steps that change its own variables only. *)
LEMMA LocalSteps ==
  ASSUME IInv, NEW p \in Proposers,
         \/ Collect(p) \/ ClassifyFails(p) \/ (\E b \in Batches : Classify(p, b))
         \/ (\E a \in Proposal : CallerStart(p, a))
         \/ TriageEnds(p) \/ DropProposal(p) \/ Decide(p) \/ Crash(p)
  PROVE  IInv'
  <1> USE DEF IInv
  <1>1. UNCHANGED <<store, world, row, answering, history>>
    BY DEF Collect, ClassifyFails, Classify, CallerStart, TriageEnds, DropProposal, Decide, Crash
  <1>2. Ids' = Ids /\ \A i \in Ids : Tier(i)' = Tier(i)
    BY <1>1 DEF store, Ids, Tier
  <1>3. /\ pc' \in [Proposers -> {"idle", "collect", "classify", "apply", "insert", "execute", "mark"}]
        /\ \A q \in Proposers : pc'[q] \in {"execute", "mark"} => pc[q] \in {"execute", "mark"}
    BY DEF TypeOK, Collect, ClassifyFails, Classify, CallerStart, TriageEnds, DropProposal, Decide,
           Crash, Goto, mine
  <1>4. proposals' \in [Proposers -> Seq(Proposal)]
    <2>1. \A b \in Batches : b \in Seq(Proposal)
      BY ApprovalAssumption DEF Batches
    <2>2. CASE \E b \in Batches : Classify(p, b)
      BY <2>1, <2>2 DEF Classify, TypeOK
    <2>3. CASE \E a \in Proposal : CallerStart(p, a)
      BY <2>3 DEF CallerStart, TypeOK
    <2>4. CASE DropProposal(p)
      BY <2>4, HeadTail DEF DropProposal, TypeOK
    <2>5. CASE Collect(p) \/ ClassifyFails(p) \/ TriageEnds(p) \/ Decide(p)
      BY <2>5 DEF Collect, ClassifyFails, TriageEnds, Decide, TypeOK
    <2>6. CASE Crash(p)
      BY <2>6 DEF Crash, TypeOK
    <2> QED BY <2>2, <2>3, <2>4, <2>5, <2>6
  <1>5. batch' \in [Proposers -> SUBSET Messages]
    BY DEF TypeOK, Collect, ClassifyFails, Classify, CallerStart, TriageEnds, DropProposal, Decide,
           Crash
  <1>6. learned' \in [Proposers -> Decisions]
    <2>1. CASE Decide(p)
      <3>1. Head(proposals[p]).key \in Keys
        BY <2>1, HeadTail, ProposalType DEF Decide, TypeOK
      <3> QED BY <2>1, <3>1 DEF Decide, TypeOK
    <2>2. CASE ~Decide(p)
      BY <2>2 DEF TypeOK, Collect, ClassifyFails, Classify, CallerStart, TriageEnds,
                  DropProposal, Crash
    <2> QED BY <2>1, <2>2
  <1>7. faults' \in Nat
    BY DEF TypeOK, Collect, ClassifyFails, Classify, CallerStart, TriageEnds, DropProposal, Decide,
           Crash, Spend
  <1>8. TypeOK'
    BY <1>1, <1>2, <1>3, <1>4, <1>5, <1>6, <1>7 DEF TypeOK, store, world, history, Ids
  <1>9. ProposingOne'
    <2>1. CASE Decide(p)
      BY <2>1 DEF Decide, ProposingOne, TypeOK, Goto
    <2>2. CASE ~Decide(p)
      <3>1. pc'[p] # "insert"
        BY <2>2 DEF TypeOK, Collect, ClassifyFails, Classify, CallerStart, TriageEnds,
                    DropProposal, Crash, Goto
      <3>2. \A q \in Proposers \ {p} : pc'[q] = pc[q] /\ proposals'[q] = proposals[q]
        BY <2>2 DEF TypeOK, Collect, ClassifyFails, Classify, CallerStart, TriageEnds,
                    DropProposal, Crash, Goto
      <3> QED BY <3>1, <3>2 DEF ProposingOne
    <2> QED BY <2>1, <2>2
  <1> QED
    BY <1>1, <1>2, <1>3, <1>8, <1>9, QuietStep, AnswersKept, ExecutingKept DEF history

(* expire_stale turns pending rows into expired ones. *)
LEMMA TriageStartStep ==
  ASSUME IInv, NEW t \in Proposers, TriageStart(t)
  PROVE  IInv'
  <1> USE DEF IInv
  <1> DEFINE f == [i \in Ids |->
                    IF i \in stale \cap Pending THEN [pending_actions[i] EXCEPT !.status = "expired"]
                                                ELSE pending_actions[i]]
  <1>1. /\ pending_actions' = f
        /\ UNCHANGED <<action_permissions, world, batch, proposals, learned, row, answering,
                       faults, history>>
    BY DEF TriageStart
  <1>2. f \in [Ids -> Action]
    <2> SUFFICES ASSUME NEW i \in Ids PROVE f[i] \in Action
      OBVIOUS
    <2>1. pending_actions[i] \in Action
      BY DEF TypeOK, Ids
    <2> QED BY <2>1 DEF Action, Statuses
  <1>3. f \in Seq(Action) /\ Len(f) = Len(pending_actions)
    BY <1>2 DEF Ids, TypeOK
  <1>4. Ids' = Ids
    BY <1>1, <1>3 DEF Ids
  <1>5. \A i \in Ids : Tier(i)' = Tier(i)
    <2> SUFFICES ASSUME NEW i \in Ids PROVE f[i].kind = pending_actions[i].kind
      BY <1>1 DEF Tier
    <2>1. pending_actions[i] \in Action
      BY DEF TypeOK, Ids
    <2> QED BY <2>1 DEF Action
  <1>6. \A i \in Ids : f[i].status \in {"expired", pending_actions[i].status}
    <2> SUFFICES ASSUME NEW i \in Ids PROVE f[i].status \in {"expired", pending_actions[i].status}
      OBVIOUS
    <2>1. pending_actions[i] \in Action
      BY DEF TypeOK, Ids
    <2> QED BY <2>1 DEF Action
  <1>7. HighAlwaysAsks'
    BY <1>1, <1>4, <1>5, <1>6 DEF HighAlwaysAsks, history
  <1>8. /\ pc' \in [Proposers -> {"idle", "collect", "classify", "apply", "insert", "execute", "mark"}]
        /\ \A q \in Proposers : pc'[q] \in {"execute", "mark", "insert"} => pc[q] = pc'[q]
    BY DEF TypeOK, TriageStart, Goto
  <1>9. TypeOK'
    BY <1>1, <1>3, <1>4, <1>8 DEF TypeOK, world, history
  <1>10. ProposingOne'
    BY <1>1, <1>8 DEF ProposingOne
  <1>11. ExecutingRows' /\ AnswersNameRows'
    BY <1>1, <1>4, <1>5, <1>8, AnswersKept, ExecutingKept
  <1> QED BY <1>1, <1>7, <1>9, <1>10, <1>11 DEF StandingYesWasTaught, history

(***************************************************************************)
(* The INSERT.  Verdict is what keeps the new row's status from being      *)
(* approved when its tier is high, whatever propose had read.              *)
(***************************************************************************)
LEMMA InsertStep ==
  ASSUME IInv, NEW p \in Proposers, Insert(p)
  PROVE  IInv'
  <1> USE DEF IInv
  <1> DEFINE a      == Head(proposals[p])
             status == Verdict(TierOf[a.kind], learned[p])
             new    == [kind |-> a.kind, message |-> a.message, key |-> a.key, status |-> status]
             n      == Len(pending_actions) + 1
  <1>1. a \in Proposal /\ Tail(proposals[p]) \in Seq(Proposal)
    BY HeadTail DEF TypeOK, ProposingOne, Insert
  <1>2. a.kind \in Kinds /\ a.message \in Messages /\ a.key \in Keys
    BY <1>1, ProposalType
  <1>3. TierOf[a.kind] \in Tiers /\ learned[p] \in Decisions
    BY <1>2, ApprovalAssumption DEF TypeOK
  <1>4. status \in {"approved", "denied", "pending"}
        /\ (TierOf[a.kind] = "high" => status # "approved")
    BY <1>3, VerdictRange
  <1>5. new \in Action /\ new.status = status /\ new.kind = a.kind
    <2> HIDE DEF a, status
    <2> QED BY <1>2, <1>4 DEF Action, Statuses
  <1>6. /\ pending_actions' = Append(pending_actions, new)
        /\ row' = [row EXCEPT ![p] = n]
        /\ proposals' = [proposals EXCEPT ![p] = Tail(@)]
        /\ UNCHANGED <<action_permissions, world, batch, learned, answering, faults, history>>
        /\ Goto(p, IF status = "approved" THEN "execute"
                   ELSE IF p \in Triages THEN "apply" ELSE "idle")
    BY Zenon DEF Insert
  <1> HIDE DEF a, status, new
  <1>7. /\ pending_actions' \in Seq(Action)
        /\ Len(pending_actions') = n
        /\ Ids' = Ids \cup {n} /\ n \notin Ids
        /\ \A i \in Ids : pending_actions'[i] = pending_actions[i]
        /\ pending_actions'[n] = new
    BY <1>5, <1>6, RowAppended DEF TypeOK
  <1>8. \A i \in Ids : Tier(i)' = Tier(i)
    BY <1>7 DEF Tier
  <1>9. TierOf[pending_actions'[n].kind] = TierOf[a.kind] /\ pending_actions'[n].status = status
    BY <1>5, <1>7
  <1>10. HighAlwaysAsks'
    <2> SUFFICES ASSUME NEW i \in Ids', TierOf[pending_actions'[i].kind] = "high"
                 PROVE  /\ i \notin performed'
                        /\ pending_actions'[i].status \in {"approved", "executed"} => i \in yes'
      BY DEF HighAlwaysAsks, Tier
    <2>1. CASE i = n
      BY <1>4, <1>6, <1>7, <1>9, <2>1 DEF TypeOK, history
    <2>2. CASE i \in Ids
      BY <1>6, <1>7, <2>2 DEF HighAlwaysAsks, Tier, history
    <2> QED BY <1>7, <2>1, <2>2
  <1>11. ExecutingRows'
    <2> SUFFICES ASSUME NEW q \in Proposers, pc'[q] \in {"execute", "mark"}
                 PROVE  row'[q] \in Ids' /\ TierOf[pending_actions'[row'[q]].kind] # "high"
      BY DEF ExecutingRows, Tier
    <2>1. CASE q = p
      <3>1. status = "approved"
        BY <1>6, <2>1 DEF TypeOK, Goto
      <3>2. row'[p] = n
        BY <1>6 DEF TypeOK
      <3> QED BY <1>4, <1>7, <1>9, <2>1, <3>1, <3>2
    <2>2. CASE q # p
      <3>1. pc[q] \in {"execute", "mark"} /\ row'[q] = row[q]
        BY <1>6, <2>2 DEF TypeOK, Goto
      <3> QED BY <1>7, <3>1 DEF ExecutingRows, Tier
    <2> QED BY <2>1, <2>2
  <1>12. ProposingOne'
    <2>1. pc'[p] # "insert"
      BY <1>6 DEF TypeOK, Goto
    <2>2. \A q \in Proposers \ {p} : pc'[q] = pc[q] /\ proposals'[q] = proposals[q]
      BY <1>6 DEF TypeOK, Goto
    <2> QED BY <2>1, <2>2 DEF ProposingOne
  <1>13. row' \in [Proposers -> 0 .. Len(pending_actions')]
    BY <1>6, <1>7 DEF TypeOK, Ids
  <1>14. proposals' \in [Proposers -> Seq(Proposal)]
    BY <1>1, <1>6 DEF TypeOK
  <1>15. pc' \in [Proposers -> {"idle", "collect", "classify", "apply", "insert", "execute", "mark"}]
    BY <1>6 DEF TypeOK, Goto
  <1>16. TypeOK'
    BY <1>6, <1>7, <1>13, <1>14, <1>15 DEF TypeOK, world, history
  <1>17. AnswersNameRows'
    BY <1>6, <1>7, <1>8, AnswersKept
  <1> QED BY <1>6, <1>10, <1>11, <1>12, <1>16, <1>17 DEF StandingYesWasTaught, history

(* What takes effect is never of the high tier. *)
LEMMA PerformStep ==
  ASSUME IInv, NEW p \in Proposers, Perform(p)
  PROVE  IInv'
  <1> USE DEF IInv
  <1>1. /\ UNCHANGED <<store, stale, batch, proposals, learned, row, answering, faults, yes, taught>>
        /\ pc[p] = "execute" /\ pc' = [pc EXCEPT ![p] = "mark"]
        /\ performed' = performed \cup {row[p]}
        /\ inbox' \subseteq inbox
    BY DEF Perform, Goto
  <1>2. Ids' = Ids /\ \A i \in Ids : Tier(i)' = Tier(i)
    BY <1>1 DEF store, Ids, Tier
  <1>3. row[p] \in Ids
    BY <1>1 DEF ExecutingRows
  <1>4. TypeOK'
    BY <1>1, <1>2, <1>3 DEF TypeOK, store, Ids
  <1>5. \A q \in Proposers : pc'[q] \in {"execute", "mark"} => pc[q] \in {"execute", "mark"}
    BY <1>1 DEF TypeOK
  <1>6. ProposingOne'
    BY <1>1 DEF ProposingOne, TypeOK
  <1> QED BY <1>1, <1>2, <1>4, <1>5, <1>6, QuietStep, AnswersKept, ExecutingKept

(* mark: executed or failed, and only rows that were executed. *)
LEMMA MarkStep ==
  ASSUME IInv, NEW p \in Proposers, NEW status \in {"executed", "failed"}, Mark(p, status)
  PROVE  IInv'
  <1> USE DEF IInv
  <1>1. /\ pc[p] \in {"execute", "mark"}
        /\ pending_actions' = SetStatus(row[p], status)
        /\ pc' = [pc EXCEPT ![p] = IF p \in Triages THEN "apply" ELSE "idle"]
        /\ UNCHANGED <<action_permissions, world, batch, proposals, learned, row, answering, history>>
        /\ faults' \in Nat
    BY DEF Mark, Goto, Spend, TypeOK
  <1>2. row[p] \in Ids /\ Tier(row[p]) # "high"
    BY <1>1 DEF ExecutingRows
  <1>3. status \in Statuses
    BY DEF Statuses
  <1>4. /\ pending_actions' \in Seq(Action) /\ Ids' = Ids
        /\ \A j \in Ids : Tier(j)' = Tier(j)
        /\ \A j \in Ids \ {row[p]} : pending_actions'[j] = pending_actions[j]
    BY <1>1, <1>2, <1>3, StatusSet DEF TypeOK
  <1>5. HighAlwaysAsks'
    BY <1>1, <1>2, <1>4 DEF HighAlwaysAsks, history
  <1>6. Len(pending_actions') = Len(pending_actions)
    BY <1>1, <1>2 DEF SetStatus, TypeOK, Ids
  <1>7. TypeOK'
    BY <1>1, <1>4, <1>6 DEF TypeOK, world, history
  <1>8. \A q \in Proposers : pc'[q] \in {"execute", "mark"} => pc[q] \in {"execute", "mark"}
    BY <1>1 DEF TypeOK
  <1>9. ProposingOne'
    BY <1>1 DEF ProposingOne, TypeOK
  <1> QED
    BY <1>1, <1>4, <1>5, <1>7, <1>8, <1>9, AnswersKept, ExecutingKept
       DEF StandingYesWasTaught, history

(* A user's message names rows, and teaches nothing yet. *)
LEMMA AnswersStep ==
  ASSUME IInv, NEW u \in Users, User(u)
  PROVE  IInv'
  <1> USE DEF IInv
  <1>1. PICK ids \in SUBSET Ids, approve \in BOOLEAN, always \in BOOLEAN :
          Answers(u, ids, approve, always)
    BY DEF User, AnswerOne, AnswerAll, Pending
  <1>2. UNCHANGED <<store, world, mine, faults, history>>
    BY <1>1 DEF Answers
  <1>3. /\ answering' = [answering EXCEPT ![u] =
             [ids |-> ids, approve |-> approve, always |-> always, teach |-> FALSE]]
    BY <1>1 DEF Answers
  <1>4. Ids' = Ids /\ \A i \in Ids : Tier(i)' = Tier(i)
    BY <1>2 DEF store, Ids, Tier
  <1>5. [ids |-> ids, approve |-> approve, always |-> always, teach |-> FALSE] \in Answer
    BY DEF Answer, Ids
  <1>6. TypeOK'
    BY <1>2, <1>3, <1>4, <1>5 DEF TypeOK, store, world, mine, history, Ids
  <1>7. AnswersNameRows'
    <2>1. answering'[u].ids \subseteq Ids' /\ ~answering'[u].teach
      BY <1>3, <1>4 DEF TypeOK
    <2>2. \A v \in Users \ {u} : answering'[v] = answering[v]
      BY <1>3 DEF TypeOK
    <2> QED BY <1>4, <2>1, <2>2 DEF AnswersNameRows, Resolves
  <1>8. ProposingOne' /\ ExecutingRows'
    BY <1>2, <1>4, ExecutingKept DEF mine, ProposingOne
  <1> QED BY <1>2, <1>6, <1>7, <1>8, QuietStep DEF history

(* When row i of u's message is done, the rest of the message is still good. *)
LEMMA DoneType ==
  ASSUME IInv, NEW u \in Users, NEW i \in Ids
  PROVE  Done(u, i) \in Answer /\ Done(u, i).ids \subseteq Ids /\ ~Done(u, i).teach
  <1>1. answering[u] \in Answer /\ answering[u].ids \subseteq Ids
    BY DEF IInv, TypeOK, AnswersNameRows
  <1>2. NoAnswer \in Answer /\ NoAnswer.ids = {} /\ NoAnswer.teach = FALSE
    BY DEF NoAnswer, Answer
  <1>3. LET d == [answering[u] EXCEPT !.ids = @ \ {i}, !.teach = FALSE]
        IN d \in Answer /\ d.ids \subseteq Ids /\ ~d.teach
    BY <1>1 DEF Answer
  <1> QED BY <1>2, <1>3 DEF Done

(* An answer approves or denies its row, and says yes to no other. *)
LEMMA ResolveStep ==
  ASSUME IInv, NEW u \in Users, NEW i \in Ids, ResolveRow(u, i)
  PROVE  IInv'
  <1> USE DEF IInv
  <1> DEFINE a      == answering[u]
             status == IF a.approve THEN "approved" ELSE "denied"
             after  == IF Teaches(i, a.approve, a.always) THEN [a EXCEPT !.teach = TRUE] ELSE Done(u, i)
  <1>1. /\ Resolves(u, i)
        /\ pending_actions' = SetStatus(i, status)
        /\ yes' = IF a.approve THEN yes \cup {i} ELSE yes
        /\ answering' = [answering EXCEPT ![u] = after]
        /\ UNCHANGED <<action_permissions, world, mine, faults, taught, performed>>
    BY DEF ResolveRow
  <1>2. status \in Statuses
    BY DEF Statuses
  <1>3. /\ pending_actions' \in Seq(Action) /\ Ids' = Ids
        /\ \A j \in Ids : Tier(j)' = Tier(j)
        /\ \A j \in Ids \ {i} : pending_actions'[j] = pending_actions[j]
        /\ pending_actions'[i].status = status
    BY <1>1, <1>2, StatusSet DEF TypeOK
  <1>4. HighAlwaysAsks'
    BY <1>1, <1>3 DEF HighAlwaysAsks
  <1>5. a \in Answer
    BY DEF TypeOK
  <1>6. /\ after \in Answer /\ after.ids \subseteq Ids
        /\ after.teach => after.ids = a.ids /\ after.approve = a.approve
                           /\ Teaches(i, a.approve, a.always)
    <2>1. [a EXCEPT !.teach = TRUE] \in Answer
          /\ [a EXCEPT !.teach = TRUE].ids = a.ids /\ [a EXCEPT !.teach = TRUE].approve = a.approve
      BY <1>5 DEF Answer
    <2>2. a.ids \subseteq Ids
      BY DEF AnswersNameRows
    <2> QED BY <2>1, <2>2, DoneType
  <1>7. Len(pending_actions') = Len(pending_actions)
    BY <1>1 DEF SetStatus, TypeOK, Ids
  <1>8. yes' \subseteq Ids
    BY <1>1 DEF TypeOK
  <1>9. TypeOK'
    BY <1>1, <1>3, <1>6, <1>7, <1>8 DEF TypeOK, world, mine
  <1>10. AnswersNameRows'
    <2>1. answering'[u] = after
      BY <1>1 DEF TypeOK
    <2>2. after.teach =>
            \E j \in Ids' : Resolves(u, j)' /\ (answering'[u].approve => Tier(j)' # "high")
      BY <1>1, <1>3, <1>6, <2>1 DEF Resolves, Teaches
    <2>3. \A v \in Users \ {u} : answering'[v] = answering[v]
      BY <1>1 DEF TypeOK
    <2>4. ASSUME NEW v \in Users \ {u}, answering'[v].teach
          PROVE  \E j \in Ids' : Resolves(v, j)' /\ (answering'[v].approve => Tier(j)' # "high")
      BY <1>3, <2>3, <2>4 DEF AnswersNameRows, Resolves
    <2>5. \A v \in Users : answering'[v].ids \subseteq Ids'
      BY <1>3, <1>6, <2>1, <2>3 DEF AnswersNameRows
    <2> QED BY <2>1, <2>2, <2>4, <2>5 DEF AnswersNameRows
  <1>11. ProposingOne'
    BY <1>1 DEF ProposingOne, mine
  <1>12. ExecutingRows'
    BY <1>1, <1>3, ExecutingKept DEF mine
  <1> QED BY <1>1, <1>4, <1>9, <1>10, <1>11, <1>12 DEF StandingYesWasTaught

(* remember: the only step that makes a standing yes, and never from a high action. *)
LEMMA RememberStep ==
  ASSUME IInv, NEW u \in Users, NEW i \in Ids, Remember(u, i)
  PROVE  IInv'
  <1> USE DEF IInv
  <1> DEFINE a == answering[u]
             k == pending_actions[i].key
             kind == pending_actions[i].kind
  <1>1. /\ Resolves(u, i) /\ a.teach
        /\ action_permissions' = [action_permissions EXCEPT ![k] =
             IF a.approve THEN "always_approve" ELSE "always_deny"]
        /\ taught' = IF a.approve THEN taught \cup {<<k, kind>>} ELSE taught
        /\ answering' = [answering EXCEPT ![u] = Done(u, i)]
        /\ UNCHANGED <<pending_actions, world, mine, faults, yes, performed>>
    BY DEF Remember
  <1>2. pending_actions[i] \in Action
    BY DEF TypeOK, Ids
  <1>3. k \in Keys /\ kind \in Kinds
    BY <1>2 DEF Action
  <1>4. Ids' = Ids /\ \A j \in Ids : Tier(j)' = Tier(j)
    BY <1>1 DEF Ids, Tier
  <1>5. a.approve => TierOf[kind] # "high"
    <2>1. PICK j \in Ids : Resolves(u, j) /\ (a.approve => Tier(j) # "high")
      BY <1>1 DEF AnswersNameRows
    <2>2. i = j
      BY <1>1, <2>1 DEF Resolves, Ids
    <2> QED BY <2>1, <2>2 DEF Tier
  <1>6. StandingYesWasTaught'
    <2> SUFFICES ASSUME NEW key \in Keys, action_permissions'[key] = "always_approve"
                 PROVE  \E kk \in Kinds : <<key, kk>> \in taught' /\ TierOf[kk] # "high"
      BY DEF StandingYesWasTaught
    <2>1. CASE key = k /\ a.approve
      BY <1>1, <1>3, <1>5, <2>1
    <2>2. CASE key = k /\ ~a.approve
      BY <1>1, <1>3, <2>2 DEF TypeOK
    <2>3. CASE key # k
      <3>1. action_permissions[key] = "always_approve"
        BY <1>1, <2>3 DEF TypeOK
      <3> QED BY <1>1, <3>1 DEF StandingYesWasTaught
    <2> QED BY <2>1, <2>2, <2>3
  <1>7. Done(u, i) \in Answer /\ Done(u, i).ids \subseteq Ids /\ ~Done(u, i).teach
    BY DoneType
  <1>8. TypeOK'
    BY <1>1, <1>3, <1>4, <1>7 DEF TypeOK, world, mine, Decisions
  <1>9. AnswersNameRows'
    <2>1. answering'[u] = Done(u, i) /\ \A v \in Users \ {u} : answering'[v] = answering[v]
      BY <1>1 DEF TypeOK
    <2>2. ASSUME NEW v \in Users \ {u}, answering'[v].teach
          PROVE  \E j \in Ids' : Resolves(v, j)' /\ (answering'[v].approve => Tier(j)' # "high")
      BY <1>4, <2>1, <2>2 DEF AnswersNameRows, Resolves
    <2> QED BY <1>4, <1>7, <2>1, <2>2 DEF AnswersNameRows
  <1>10. HighAlwaysAsks'
    BY <1>1, <1>4 DEF HighAlwaysAsks
  <1>11. ProposingOne' /\ ExecutingRows'
    BY <1>1, <1>4, ExecutingKept DEF mine, ProposingOne
  <1> QED BY <1>6, <1>8, <1>9, <1>10, <1>11

(* Forgetting a pattern, and the passing of three days. *)
LEMMA ForgetAndAge ==
  ASSUME IInv, (\E k \in Keys : Forget(k)) \/ (\E i \in Ids : Age(i))
  PROVE  IInv'
  <1> USE DEF IInv
  <1>1. UNCHANGED <<pending_actions, inbox, mine, answering, faults, history>>
    BY DEF Forget, Age, world, store
  <1>2. Ids' = Ids /\ \A i \in Ids : Tier(i)' = Tier(i)
    BY <1>1 DEF Ids, Tier
  <1>3. /\ action_permissions' \in [Keys -> Decisions]
        /\ \A k \in Keys : action_permissions'[k] = "always_approve"
                             => action_permissions[k] = "always_approve"
    <2>1. CASE \E k \in Keys : Forget(k)
      BY <2>1 DEF Forget, TypeOK, Decisions
    <2>2. CASE \E i \in Ids : Age(i)
      BY <2>2 DEF Age, TypeOK, store
    <2> QED BY <2>1, <2>2
  <1>4. stale' \subseteq Ids
    <2>1. CASE \E k \in Keys : Forget(k)
      BY <2>1 DEF Forget, TypeOK, world
    <2>2. CASE \E i \in Ids : Age(i)
      <3>1. PICK i \in Ids : stale' = 1 .. i
        BY <2>2 DEF Age
      <3>2. Len(pending_actions) \in Nat
        BY DEF TypeOK
      <3> QED BY <3>1, <3>2 DEF Ids
    <2> QED BY <2>1, <2>2
  <1>5. TypeOK'
    BY <1>1, <1>2, <1>3, <1>4 DEF TypeOK, mine, history
  <1>6. HighAlwaysAsks' /\ StandingYesWasTaught'
    BY <1>1, <1>2, <1>3 DEF HighAlwaysAsks, StandingYesWasTaught, history
  <1> QED BY <1>1, <1>2, <1>5, <1>6, AnswersKept, ExecutingKept DEF mine, ProposingOne

-----------------------------------------------------------------------------
(* Every step preserves the invariant, so every reachable state satisfies it. *)
LEMMA NextInv == IInv /\ [Next]_vars => IInv'
  <1> SUFFICES ASSUME IInv, [Next]_vars PROVE IInv'
    OBVIOUS
  <1>1. ASSUME NEW t \in Triages, Triage(t) PROVE IInv'
    BY <1>1, TriageStartStep, LocalSteps DEF Triage, Proposers
  <1>2. ASSUME NEW c \in Callers, NEW p \in Proposal, CallerStart(c, p) PROVE IInv'
    BY <1>2, LocalSteps DEF Proposers
  <1>3. ASSUME NEW p \in Proposers, Propose(p) \/ Crash(p) PROVE IInv'
    BY <1>3, LocalSteps, InsertStep, PerformStep, MarkStep DEF Propose
  <1>4. ASSUME NEW u \in Users, User(u) \/ Resolve(u) PROVE IInv'
    BY <1>4, AnswersStep, ResolveStep, RememberStep DEF Resolve
  <1>5. CASE (\E k \in Keys : Forget(k)) \/ (\E i \in Ids : Age(i))
    BY <1>5, ForgetAndAge
  <1>6. CASE UNCHANGED vars
    <2>1. UNCHANGED <<store, world, mine, answering, faults, history>>
      BY <1>6 DEF vars
    <2>2. Ids' = Ids /\ \A i \in Ids : Tier(i)' = Tier(i)
      BY <2>1 DEF Ids, Tier, store
    <2>3. TypeOK'
      BY <2>1, <2>2 DEF IInv, TypeOK, store, world, mine, history, Ids
    <2> QED
      BY <2>1, <2>2, <2>3, QuietStep, AnswersKept, ExecutingKept
         DEF IInv, mine, history, ProposingOne
  <1> QED BY <1>1, <1>2, <1>3, <1>4, <1>5, <1>6 DEF Next

(* The inductive invariant holds in every reachable state. *)
LEMMA Invariance == Spec => []IInv
  BY InitInv, NextInv, PTL DEF Spec

(* The variables of the approval store and of its users keep their types. *)
THEOREM ApprovalTypes == Spec => []TypeOK
  <1>1. IInv => TypeOK
    BY DEF IInv
  <1> QED BY <1>1, Invariance, PTL

(***************************************************************************)
(* Whatever the user has taught, a high action is approved only by an      *)
(* answer to that action, and proposing it performs nothing.               *)
(***************************************************************************)
THEOREM HighTierAsks == Spec => []HighAlwaysAsks
  <1>1. IInv => HighAlwaysAsks
    BY DEF IInv
  <1> QED BY <1>1, Invariance, PTL

(* A standing yes was taught by an "always yes" to an action below the high tier. *)
THEOREM PermissionsAreTaught == Spec => []StandingYesWasTaught
  <1>1. IInv => StandingYesWasTaught
    BY DEF IInv
  <1> QED BY <1>1, Invariance, PTL

=============================================================================
