-------------------------- MODULE DealBrokerProofs --------------------------
(***************************************************************************)
(* Proofs about DealBroker, for any processes, platforms and tiers: its    *)
(* variables keep their types, and nothing is bought but through the gate, *)
(* although every transition is a check and a later write.                 *)
(*                                                                         *)
(* What a command has checked must still be so when it writes.  The gate's *)
(* facts are never withdrawn (Kept), so it is enough that a command that   *)
(* aims at PURCHASED has seen the gate, and one about to log an approved   *)
(* check has seen an agreed price and a buyer (Backed).                    *)
(*                                                                         *)
(* The last part is about commands that do not overlap (SoundInTurn): then *)
(* a check and its write do belong together, and the invariant follows the *)
(* one process that has a command in hand.                                 *)
(***************************************************************************)
EXTENDS DealBroker, TLAPS

Backed(r) ==
  /\ r.at = "gate" => agreed /\ buyers # << >>
  /\ r.goal = "PURCHASED" => gate
  /\ r.at = "write" /\ r.goal = "DELIVERED" => gate
  /\ r.at \in {"check", "write", "post", "expire"} => r.goal \in States

GateBacked == gate => agreed /\ buyers # << >>
RunsBacked == \A p \in Processes : Backed(run[p])

IInv == TypeOK /\ PurchaseGated /\ GateBacked /\ RunsBacked

Kept ==
  /\ gate => gate'
  /\ agreed => agreed'
  /\ buyers # << >> => buyers' # << >>

-----------------------------------------------------------------------------
(* A command that goes on, or ends, changes its own record only. *)
LEMMA ProceedRun ==
  ASSUME TypeOK, NEW p \in Processes, NEW label \in Labels, NEW to \in States \cup {"none"},
         NEW rows \in SUBSET Platforms, Proceed(p, label, to, rows)
  PROVE  \E r \in Run : /\ run' = [run EXCEPT ![p] = r]
                        /\ label = "idle" => r = Resting
                        /\ label # "idle" =>
                             r.at = label /\ r.goal = to /\ r.cmd = run[p].cmd
  <1>1. run[p] \in Run
    BY DEF TypeOK
  <1>2. Resting \in Run
    BY DEF Resting, Run, Commands, Labels
  <1> DEFINE r == IF label = "idle" THEN Resting
                  ELSE [run[p] EXCEPT !.at = label, !.goal = to, !.rows = rows]
  <1>3. run' = [run EXCEPT ![p] = r]
    BY DEF Proceed
  <1>4. r \in Run
    BY <1>1, <1>2 DEF Run
  <1>5. /\ label = "idle" => r = Resting
        /\ label # "idle" => r.at = label /\ r.goal = to /\ r.cmd = run[p].cmd
    BY <1>1 DEF Run
  <1> QED
    BY <1>3, <1>4, <1>5

(* The same for one that begins. *)
LEMMA StartRun ==
  ASSUME TypeOK, NEW p \in Processes, NEW command \in Commands, NEW label \in Labels,
         NEW to \in States \cup {"none"}, NEW rows \in SUBSET Platforms,
         Start(p, command, label, to, rows)
  PROVE  /\ \E r \in Run : /\ run' = [run EXCEPT ![p] = r]
                           /\ r.at = label /\ r.goal = to /\ r.cmd = command
         /\ overlap' \in BOOLEAN
  <1> DEFINE r == [cmd |-> command, at |-> label, goal |-> to, rows |-> rows]
  <1>1. r \in Run /\ r.at = label /\ r.goal = to /\ r.cmd = command
    BY DEF Run
  <1>2. run' = [run EXCEPT ![p] = r] /\ overlap' \in BOOLEAN
    BY DEF Start, TypeOK
  <1> QED
    BY <1>1, <1>2

(* An idle command owes nothing. *)
LEMMA RestingBacked == Backed(Resting)'
  BY DEF Backed, Resting

(* One record changes, to one that is backed, and what backs the others is kept. *)
LEMMA RunStep ==
  ASSUME IInv, Kept, NEW p \in Processes, NEW r \in Run,
         run' = [run EXCEPT ![p] = r], Backed(r)'
  PROVE  run' \in [Processes -> Run] /\ RunsBacked'
  <1>1. run' \in [Processes -> Run]
    BY DEF IInv, TypeOK
  <1>2. ASSUME NEW q \in Processes PROVE Backed(run[q])'
    <2>1. CASE q = p
      <3>1. run'[q] = r
        BY <2>1 DEF IInv, TypeOK
      <3> QED
        BY <3>1 DEF Backed
    <2>2. CASE q # p
      <3>1. run'[q] = run[q] /\ Backed(run[q])
        BY <2>2 DEF IInv, TypeOK, RunsBacked
      <3> QED
        BY <3>1 DEF Backed, Kept
    <2> QED BY <2>1, <2>2
  <1> QED
    BY <1>1, <1>2 DEF RunsBacked

(* A command that goes on to another statement. *)
LEMMA GoesOn ==
  ASSUME IInv, Kept, NEW p \in Processes, NEW label \in Labels, NEW to \in States \cup {"none"},
         NEW rows \in SUBSET Platforms, Proceed(p, label, to, rows),
         label = "gate" => agreed' /\ buyers' # << >>,
         to = "PURCHASED" => gate',
         label = "write" /\ to = "DELIVERED" => gate',
         label \in {"check", "write", "post", "expire"} => to \in States
  PROVE  run' \in [Processes -> Run] /\ RunsBacked'
  <1>1. PICK r \in Run : /\ run' = [run EXCEPT ![p] = r]
                         /\ (r = Resting) \/ (r.at = label /\ r.goal = to)
    BY ProceedRun DEF IInv
  <1>2. Backed(r)'
    <2>1. CASE r = Resting BY <2>1, RestingBacked DEF Backed
    <2>2. CASE r.at = label /\ r.goal = to BY <2>2 DEF Backed
    <2> QED BY <1>1, <2>1, <2>2
  <1> QED
    BY <1>1, <1>2, RunStep

(* What a command begins with is a command, a statement and a state to reach. *)
LEMMA Names ==
  /\ "list_item" \in Commands /\ "post" \in Labels /\ "LISTED" \in States
  /\ "buyer_found" \in Commands /\ "buyer" \in Labels /\ "none" \in States \cup {"none"}
  /\ "purchase_gate" \in Commands /\ "gate" \in Labels
  /\ "confirm_purchase" \in Commands /\ "check" \in Labels /\ "PURCHASED" \in States
  /\ "mark_delivered" \in Commands /\ "DELIVERED" \in States
  /\ "reject_flip" \in Commands /\ "REJECTED" \in States
  /\ "scan" \in Commands /\ "ingest" \in Labels /\ "SCORING" \in States
  /\ "expire_stale" \in Commands /\ "committed" \in Labels /\ "EXPIRED" \in States
  /\ {} \in SUBSET Platforms
  BY DEF Commands, Labels, States

(* A command that begins. *)
LEMMA Begins ==
  ASSUME IInv, Kept, NEW p \in Processes, NEW command \in Commands, NEW label \in Labels,
         NEW to \in States \cup {"none"}, NEW rows \in SUBSET Platforms,
         Start(p, command, label, to, rows),
         label = "gate" => agreed' /\ buyers' # << >>,
         to = "PURCHASED" => gate',
         label # "write",
         label \in {"check", "post", "expire"} => to \in States
  PROVE  run' \in [Processes -> Run] /\ RunsBacked' /\ overlap' \in BOOLEAN
  <1>1. PICK r \in Run : run' = [run EXCEPT ![p] = r] /\ r.at = label /\ r.goal = to
    BY StartRun DEF IInv
  <1>2. Backed(r)'
    BY <1>1 DEF Backed
  <1>3. overlap' \in BOOLEAN
    BY StartRun DEF IInv
  <1> QED
    BY <1>1, <1>2, <1>3, RunStep

-----------------------------------------------------------------------------
(* The gate's facts stay when no step touches them. *)
LEMMA Untouched ==
  ASSUME IInv, UNCHANGED <<state, agreed, gate, buyers>>
  PROVE  Kept /\ PurchaseGated' /\ GateBacked'
  BY DEF IInv, Kept, PurchaseGated, GateBacked

(* A command that keeps its goal. *)
LEMMA GoesTo ==
  ASSUME IInv, Kept, NEW p \in Processes, NEW label \in Labels, Goto(p, label),
         label # "gate",
         label = "write" /\ run[p].goal = "DELIVERED" => gate',
         label \in {"check", "write", "post", "expire"} => run[p].goal \in States
  PROVE  run' \in [Processes -> Run] /\ RunsBacked'
  <1>1. run[p] \in Run /\ Backed(run[p])
    BY DEF IInv, TypeOK, RunsBacked
  <1>2. /\ run[p].goal \in States \cup {"none"}
        /\ run[p].rows \in SUBSET Platforms
        /\ run[p].goal = "PURCHASED" => gate'
    BY <1>1 DEF Run, Backed, Kept
  <1>3. Proceed(p, label, run[p].goal, run[p].rows)
    BY DEF Goto
  <1> QED
    BY <1>2, <1>3, GoesOn

(* One that ends. *)
LEMMA Ends ==
  ASSUME IInv, Kept, NEW p \in Processes, End(p)
  PROVE  run' \in [Processes -> Run] /\ RunsBacked'
  BY GoesTo DEF End, Labels

(* One that comes to another transition, to a state other than PURCHASED. *)
LEMMA Checks ==
  ASSUME IInv, Kept, NEW p \in Processes, NEW to \in States \ {"PURCHASED"}, Check(p, to)
  PROVE  run' \in [Processes -> Run] /\ RunsBacked'
  <1>1. "check" \in Labels /\ {} \in SUBSET Platforms /\ to \in States \cup {"none"}
    BY DEF Labels
  <1>2. Proceed(p, "check", to, {})
    BY DEF Check
  <1> QED
    BY <1>1, <1>2, GoesOn

(* One that has written a row. *)
LEMMA Writes ==
  ASSUME IInv, Kept, NEW p \in Processes, NEW label \in {"post", "drop", "expire", "withdraw"},
         NEW q \in Platforms, NEW next \in {"check", "idle", "mark"},
         WriteRow(p, label, q, next),
         next = "check" => label \in {"post", "expire"}
  PROVE  run' \in [Processes -> Run] /\ RunsBacked'
  <1> DEFINE then == IF run[p].rows = {q} THEN next ELSE label
  <1>1. run[p] \in Run /\ Backed(run[p])
    BY DEF IInv, TypeOK, RunsBacked
  <1>2. run[p].at = label /\ Proceed(p, then, run[p].goal, run[p].rows \ {q})
    BY DEF WriteRow, At
  <1>3. /\ run[p].goal \in States \cup {"none"}
        /\ run[p].rows \ {q} \in SUBSET Platforms
        /\ run[p].goal = "PURCHASED" => gate'
    BY <1>1 DEF Run, Backed, Kept
  <1>4. then \in Labels /\ then \notin {"gate", "write"}
    BY DEF Labels
  <1>5. then \in {"check", "write", "post", "expire"} => run[p].goal \in States
    BY <1>1, <1>2 DEF Backed
  <1> HIDE DEF then
  <1> QED
    BY <1>2, <1>3, <1>4, <1>5, GoesOn

(* One that has made its transition, or was refused it. *)
LEMMA Continues ==
  ASSUME IInv, Kept, NEW p \in Processes, NEW granted \in BOOLEAN, Continue(p, granted)
  PROVE  run' \in [Processes -> Run] /\ RunsBacked'
  <1>1. CASE \E verdict \in {"NEGOTIATING", "REJECTED"} : Check(p, verdict)
    <2>1. PICK verdict \in {"NEGOTIATING", "REJECTED"} : Check(p, verdict)
      BY <1>1
    <2>2. verdict \in States \ {"PURCHASED"}
      BY DEF States
    <2> QED
      BY <2>1, <2>2, Checks
  <1>2. CASE Check(p, "PURCHASE_GATE")
    <2>1. "PURCHASE_GATE" \in States \ {"PURCHASED"}
      BY DEF States
    <2> QED
      BY <1>2, <2>1, Checks
  <1>3. CASE Goto(p, "open") \/ Goto(p, "mark") \/ Goto(p, "active")
    BY <1>3, GoesTo DEF Labels
  <1>4. CASE End(p)
    BY <1>4, Ends
  <1> QED
    BY <1>1, <1>2, <1>3, <1>4 DEF Continue

-----------------------------------------------------------------------------
(* The user's commands, and the ones the scheduler starts. *)
LEMMA CommandPreserves ==
  ASSUME IInv, NEW p \in Processes, Command(p) \/ Scan(p) \/ ExpireStale(p)
  PROVE  IInv'
  <1> USE DEF flip, market, history
  <1>1. CASE RecordAgreement(p)
    <2>1. Kept /\ PurchaseGated' /\ GateBacked'
      BY <1>1 DEF RecordAgreement, IInv, Kept, PurchaseGated, GateBacked
    <2>2. RunsBacked'
      BY <1>1, <2>1 DEF RecordAgreement, IInv, RunsBacked, Backed, Kept
    <2> QED
      BY <1>1, <2>1, <2>2 DEF RecordAgreement, IInv, TypeOK
  <1>2. CASE \E rows \in SUBSET Platforms : ListItem(p, rows)
    <2>1. PICK rows \in SUBSET Platforms : ListItem(p, rows)
      BY <1>2
    <2>2. Kept /\ PurchaseGated' /\ GateBacked'
      BY <2>1, Untouched DEF ListItem
    <2>3. run' \in [Processes -> Run] /\ RunsBacked' /\ overlap' \in BOOLEAN
      BY <2>1, <2>2, Begins, Names DEF ListItem
    <2> QED
      BY <2>1, <2>2, <2>3 DEF ListItem, IInv, TypeOK
  <1>3. CASE \E q \in Platforms : BuyerFound(p, q)
    <2>1. PICK q \in Platforms : BuyerFound(p, q)
      BY <1>3
    <2>2. Kept /\ PurchaseGated' /\ GateBacked'
      BY <2>1, Untouched DEF BuyerFound
    <2>3. run' \in [Processes -> Run] /\ RunsBacked' /\ overlap' \in BOOLEAN
      <3>1. Start(p, "buyer_found", "buyer", "none", {q}) /\ {q} \in SUBSET Platforms
        BY <2>1 DEF BuyerFound
      <3> QED BY <2>2, <3>1, Begins, Names
    <2> QED
      BY <2>1, <2>2, <2>3 DEF BuyerFound, IInv, TypeOK
  <1>4. CASE PurchaseGate(p)
    <2>1. Kept /\ PurchaseGated' /\ GateBacked'
      BY <1>4, Untouched DEF PurchaseGate
    <2>2. agreed' /\ buyers' # << >>
      BY <1>4 DEF PurchaseGate
    <2>3. run' \in [Processes -> Run] /\ RunsBacked' /\ overlap' \in BOOLEAN
      BY <1>4, <2>1, <2>2, Begins, Names DEF PurchaseGate
    <2> QED
      BY <1>4, <2>1, <2>3 DEF PurchaseGate, IInv, TypeOK
  <1>5. CASE ConfirmPurchase(p)
    <2>1. Kept /\ PurchaseGated' /\ GateBacked' /\ gate'
      BY <1>5, Untouched DEF ConfirmPurchase
    <2>2. run' \in [Processes -> Run] /\ RunsBacked' /\ overlap' \in BOOLEAN
      BY <1>5, <2>1, Begins, Names DEF ConfirmPurchase
    <2> QED
      BY <1>5, <2>1, <2>2 DEF ConfirmPurchase, IInv, TypeOK
  <1>6. CASE MarkDelivered(p)
    <2>1. Kept /\ PurchaseGated' /\ GateBacked'
      BY <1>6, Untouched DEF MarkDelivered
    <2>2. run' \in [Processes -> Run] /\ RunsBacked' /\ overlap' \in BOOLEAN
      BY <1>6, <2>1, Begins, Names DEF MarkDelivered
    <2> QED
      BY <1>6, <2>1, <2>2 DEF MarkDelivered, IInv, TypeOK
  <1>7. CASE RejectFlip(p)
    <2>1. Kept /\ PurchaseGated' /\ GateBacked'
      BY <1>7, Untouched DEF RejectFlip
    <2>2. run' \in [Processes -> Run] /\ RunsBacked' /\ overlap' \in BOOLEAN
      BY <1>7, <2>1, Begins, Names DEF RejectFlip
    <2> QED
      BY <1>7, <2>1, <2>2 DEF RejectFlip, IInv, TypeOK
  <1>8. CASE ScanNew(p)
    <2>1. Kept /\ PurchaseGated' /\ GateBacked'
      BY <1>8, Untouched DEF ScanNew
    <2>2. run' \in [Processes -> Run] /\ RunsBacked' /\ overlap' \in BOOLEAN
      BY <1>8, <2>1, Begins, Names DEF ScanNew
    <2> QED
      BY <1>8, <2>1, <2>2 DEF ScanNew, IInv, TypeOK
  <1>9. CASE ScanAgain(p)
    <2>1. Kept /\ PurchaseGated' /\ GateBacked'
      BY <1>9, Untouched DEF ScanAgain
    <2>2. run' \in [Processes -> Run] /\ RunsBacked' /\ overlap' \in BOOLEAN
      BY <1>9, <2>1, Begins, Names DEF ScanAgain
    <2> QED
      BY <1>9, <2>1, <2>2 DEF ScanAgain, IInv, TypeOK
  <1>10. CASE ExpireStale(p)
    <2>1. Kept /\ PurchaseGated' /\ GateBacked'
      BY <1>10, Untouched DEF ExpireStale
    <2>2. run' \in [Processes -> Run] /\ RunsBacked' /\ overlap' \in BOOLEAN
      BY <1>10, <2>1, Begins, Names DEF ExpireStale
    <2> QED
      BY <1>10, <2>1, <2>2 DEF ExpireStale, IInv, TypeOK
  <1>11. (\E rows \in {Platforms} \cup {{q} : q \in Platforms} : ListItem(p, rows))
           => \E rows \in SUBSET Platforms : ListItem(p, rows)
    OBVIOUS
  <1> QED
    BY <1>1, <1>2, <1>3, <1>4, <1>5, <1>6, <1>7, <1>8, <1>9, <1>10, <1>11 DEF Command, Scan

-----------------------------------------------------------------------------
(* The transitions: what is delivered was purchased, and was so at the check. *)
LEMMA TransitionPreserves ==
  ASSUME IInv, NEW p \in Processes, Grant(p) \/ Refuse(p) \/ SetState(p)
  PROVE  IInv'
  <1> USE DEF flip, market, history
  <1>a. run[p] \in Run /\ Backed(run[p])
    BY DEF IInv, TypeOK, RunsBacked
  <1>1. CASE Grant(p)
    <2>1. Kept /\ PurchaseGated' /\ GateBacked'
      BY <1>1, Untouched DEF Grant
    <2>2. run[p].goal \in States /\ state \in States /\ run[p].goal \in Transitions[state]
      BY <1>1, <1>a DEF Grant, At, Backed, Legal, IInv, TypeOK, Unknown
    <2>3. run[p].goal = "DELIVERED" => state = "PURCHASED"
      BY <2>2 DEF Transitions, States
    <2>4. run[p].goal = "DELIVERED" => gate'
      BY <1>1, <2>1, <2>3 DEF IInv, PurchaseGated, Kept
    <2>5. run' \in [Processes -> Run] /\ RunsBacked'
      BY <1>1, <2>1, <2>2, <2>4, GoesTo DEF Grant, Labels
    <2> QED
      BY <1>1, <2>1, <2>5 DEF Grant, IInv, TypeOK
  <1>2. CASE Refuse(p)
    <2>1. Kept /\ PurchaseGated' /\ GateBacked'
      BY <1>2, Untouched DEF Refuse
    <2>2. run' \in [Processes -> Run] /\ RunsBacked'
      BY <1>2, <2>1, Continues DEF Refuse
    <2> QED
      BY <1>2, <2>1, <2>2 DEF Refuse, IInv, TypeOK
  <1>3. CASE SetState(p)
    <2>1. Kept /\ GateBacked'
      BY <1>3 DEF SetState, IInv, Kept, GateBacked
    <2>2. state' = run[p].goal /\ run[p].goal \in States
      BY <1>3, <1>a DEF SetState, At, Backed
    <2>3. PurchaseGated'
      BY <1>3, <1>a, <2>1, <2>2 DEF SetState, At, Backed, PurchaseGated, GateBacked, Kept
    <2>4. run' \in [Processes -> Run] /\ RunsBacked'
      BY <1>3, <2>1, Continues DEF SetState
    <2> QED
      BY <1>3, <2>1, <2>2, <2>3, <2>4 DEF SetState, IInv, TypeOK
  <1> QED
    BY <1>1, <1>2, <1>3

-----------------------------------------------------------------------------
(* The other statements of the scan and of the user's commands. *)
LEMMA StatementPreserves ==
  ASSUME IInv, NEW p \in Processes,
         \/ Ingest(p) \/ ScorePending(p) \/ OpenPosition(p) \/ DelistOthers(p)
         \/ LogGateCheck(p) \/ ClosePosition(p) \/ MarkPosition(p) \/ Crash(p)
  PROVE  IInv'
  <1> USE DEF flip, market, history
  <1>a. run[p] \in Run /\ Backed(run[p])
    BY DEF IInv, TypeOK, RunsBacked
  <1>1. CASE Ingest(p)
    <2>1. Kept /\ PurchaseGated' /\ GateBacked'
      BY <1>1 DEF Ingest, IInv, Kept, PurchaseGated, GateBacked
    <2>2. run' \in [Processes -> Run] /\ RunsBacked'
      BY <1>1, <2>1, GoesTo DEF Ingest, Labels
    <2> QED
      BY <1>1, <2>1, <2>2 DEF Ingest, IInv, TypeOK, States
  <1>2. CASE ScorePending(p)
    <2>1. Kept /\ PurchaseGated' /\ GateBacked'
      BY <1>2, Untouched DEF ScorePending
    <2>2. CASE Check(p, "SCORING")
      <3>1. run' \in [Processes -> Run] /\ RunsBacked'
        BY <2>1, <2>2, Checks DEF States
      <3> QED
        BY <1>2, <2>1, <3>1 DEF ScorePending, IInv, TypeOK
    <2>3. CASE End(p)
      <3>1. run' \in [Processes -> Run] /\ RunsBacked'
        BY <2>1, <2>3, Ends
      <3> QED
        BY <1>2, <2>1, <3>1 DEF ScorePending, IInv, TypeOK
    <2> QED
      BY <1>2, <2>2, <2>3 DEF ScorePending
  <1>3. CASE OpenPosition(p) \/ ClosePosition(p)
    <2>1. Kept /\ PurchaseGated' /\ GateBacked'
      BY <1>3, Untouched DEF OpenPosition, ClosePosition
    <2>2. run' \in [Processes -> Run] /\ RunsBacked'
      BY <1>3, <2>1, Ends DEF OpenPosition, ClosePosition
    <2> QED
      BY <1>3, <2>1, <2>2 DEF OpenPosition, ClosePosition, IInv, TypeOK
  <1>4. CASE MarkPosition(p)
    <2>1. Kept /\ PurchaseGated' /\ GateBacked'
      BY <1>4, Untouched DEF MarkPosition
    <2>2. run' \in [Processes -> Run] /\ RunsBacked'
      BY <1>4, <2>1, Ends DEF MarkPosition
    <2> QED
      BY <1>4, <2>1, <2>2 DEF MarkPosition, IInv, TypeOK
  <1>5. CASE DelistOthers(p)
    <2>1. Kept /\ PurchaseGated' /\ GateBacked'
      BY <1>5, Untouched DEF DelistOthers
    <2>2. run' \in [Processes -> Run] /\ RunsBacked'
      BY <1>5, <2>1, Checks DEF DelistOthers, States
    <2>3. resale' \in [Platforms -> {"none", "active", "lapsed", "delisted", "expired"}]
      BY <1>5 DEF DelistOthers, IInv, TypeOK
    <2> QED
      BY <1>5, <2>1, <2>2, <2>3 DEF DelistOthers, IInv, TypeOK
  <1>6. CASE LogGateCheck(p)
    <2>1. agreed /\ buyers # << >>
      BY <1>6, <1>a DEF LogGateCheck, At, Backed
    <2>2. Kept /\ PurchaseGated' /\ GateBacked'
      BY <1>6, <2>1 DEF LogGateCheck, IInv, Kept, PurchaseGated, GateBacked
    <2>3. run' \in [Processes -> Run] /\ RunsBacked'
      BY <1>6, <2>2, GoesTo DEF LogGateCheck, Labels
    <2> QED
      BY <1>6, <2>2, <2>3 DEF LogGateCheck, IInv, TypeOK
  <1>7. CASE Crash(p)
    <2>1. Kept /\ PurchaseGated' /\ GateBacked'
      BY <1>7, Untouched DEF Crash
    <2>2. run' \in [Processes -> Run] /\ RunsBacked'
      BY <1>7, <2>1, Ends DEF Crash
    <2> QED
      BY <1>7, <2>1, <2>2 DEF Crash, IInv, TypeOK
  <1> QED
    BY <1>1, <1>2, <1>3, <1>4, <1>5, <1>6, <1>7

(* The sweep's statements, reject_flip's, and those that write a row. *)
LEMMA RowsPreserve ==
  ASSUME IInv, NEW p \in Processes,
         \/ SeeBuyer(p) \/ SweepRows(p) \/ RejectRows(p)
         \/ \E q \in Platforms :
              AddBuyer(p, q) \/ Post(p, q) \/ DropTier(p, q) \/ ExpireRow(p, q) \/ Withdraw(p, q)
  PROVE  IInv'
  <1> USE DEF flip, market, history
  <1>1. CASE SeeBuyer(p)
    <2>1. Kept /\ PurchaseGated' /\ GateBacked'
      BY <1>1, Untouched DEF SeeBuyer
    <2>2. run' \in [Processes -> Run] /\ RunsBacked'
      BY <1>1, <2>1, GoesTo, Ends DEF SeeBuyer, Labels
    <2> QED
      BY <1>1, <2>1, <2>2 DEF SeeBuyer, IInv, TypeOK
  <1>2. CASE SweepRows(p) \/ RejectRows(p)
    <2>1. Kept /\ PurchaseGated' /\ GateBacked'
      BY <1>2, Untouched DEF SweepRows, RejectRows
    <2>2. Active \in SUBSET Platforms
      BY DEF Active
    <2>3. CASE End(p)
      <3>1. run' \in [Processes -> Run] /\ RunsBacked'
        BY <2>1, <2>3, Ends
      <3> QED
        BY <1>2, <2>1, <3>1 DEF SweepRows, RejectRows, IInv, TypeOK
    <2>4. CASE \E label \in {"drop", "expire", "mark", "withdraw"}, to \in {"EXPIRED", "REJECTED"} :
                 Proceed(p, label, to, Active)
      <3>1. run' \in [Processes -> Run] /\ RunsBacked'
        BY <2>1, <2>2, <2>4, GoesOn DEF Labels, States
      <3> QED
        BY <1>2, <2>1, <3>1 DEF SweepRows, RejectRows, IInv, TypeOK
    <2> QED
      BY <1>2, <2>3, <2>4 DEF SweepRows, RejectRows
  <1>3. CASE \E q \in Platforms : AddBuyer(p, q)
    <2>1. PICK q \in Platforms : AddBuyer(p, q)
      BY <1>3
    <2>2. buyers \in Seq(Platforms) /\ buyers' = Append(buyers, q)
      BY <2>1 DEF AddBuyer, IInv, TypeOK
    <2>3. buyers' \in Seq(Platforms) /\ buyers' # << >>
      BY <2>2
    <2>4. Kept /\ PurchaseGated' /\ GateBacked'
      BY <2>1, <2>3 DEF AddBuyer, IInv, Kept, PurchaseGated, GateBacked
    <2>5. run' \in [Processes -> Run] /\ RunsBacked'
      BY <2>1, <2>4, GoesTo DEF AddBuyer, Labels
    <2> QED
      BY <2>1, <2>3, <2>4, <2>5 DEF AddBuyer, IInv, TypeOK
  <1>4. CASE \E q \in Platforms : Post(p, q)
    <2>1. PICK q \in Platforms : Post(p, q)
      BY <1>4
    <2>2. Kept /\ PurchaseGated' /\ GateBacked'
      BY <2>1, Untouched DEF Post
    <2>3. run' \in [Processes -> Run] /\ RunsBacked'
      BY <2>1, <2>2, Writes DEF Post
    <2> QED
      BY <2>1, <2>2, <2>3 DEF Post, IInv, TypeOK
  <1>5. CASE \E q \in Platforms : DropTier(p, q)
    <2>1. PICK q \in Platforms : DropTier(p, q)
      BY <1>5
    <2>2. Kept /\ PurchaseGated' /\ GateBacked'
      BY <2>1, Untouched DEF DropTier
    <2>3. run' \in [Processes -> Run] /\ RunsBacked'
      BY <2>1, <2>2, Writes DEF DropTier
    <2>4. /\ tier' \in [Platforms -> Nat]
          /\ resale' \in [Platforms -> {"none", "active", "lapsed", "delisted", "expired"}]
      BY <2>1 DEF DropTier, IInv, TypeOK
    <2> QED
      BY <2>1, <2>2, <2>3, <2>4 DEF DropTier, IInv, TypeOK
  <1>6. CASE \E q \in Platforms : ExpireRow(p, q) \/ Withdraw(p, q)
    <2>1. PICK q \in Platforms : ExpireRow(p, q) \/ Withdraw(p, q)
      BY <1>6
    <2>2. Kept /\ PurchaseGated' /\ GateBacked'
      BY <2>1, Untouched DEF ExpireRow, Withdraw
    <2>3. run' \in [Processes -> Run] /\ RunsBacked'
      BY <2>1, <2>2, Writes DEF ExpireRow, Withdraw
    <2> QED
      BY <2>1, <2>2, <2>3 DEF ExpireRow, Withdraw, IInv, TypeOK
  <1> QED
    BY <1>1, <1>2, <1>3, <1>4, <1>5, <1>6

-----------------------------------------------------------------------------
(* The inductive invariant. *)
LEMMA InitInv ==
  ASSUME Init
  PROVE  IInv
  <1>1. TypeOK
    <2>1. Resting \in Run
      BY DEF Run, Resting, Commands, Labels
    <2>2. run \in [Processes -> Run]
      BY <2>1 DEF Init
    <2>3. << >> \in Seq(Platforms)
      OBVIOUS
    <2>4. /\ resale \in [Platforms -> {"none", "active", "lapsed", "delisted", "expired"}]
          /\ tier \in [Platforms -> Nat]
      BY DEF Init
    <2> QED
      BY <2>2, <2>3, <2>4, BrokerAssumption DEF Init, TypeOK
  <1>2. RunsBacked
    BY DEF Init, RunsBacked, Backed, Resting
  <1> QED
    BY <1>1, <1>2 DEF Init, IInv, PurchaseGated, GateBacked, Unknown

LEMMA NextInv ==
  ASSUME IInv, [Next]_vars
  PROVE  IInv'
  <1>1. CASE UNCHANGED vars
    <2>1. TypeOK'
      BY <1>1 DEF vars, flip, market, history, IInv, TypeOK
    <2>2. PurchaseGated' /\ GateBacked' /\ RunsBacked'
      BY <1>1 DEF vars, flip, market, history, IInv, PurchaseGated, GateBacked, RunsBacked, Backed
    <2> QED
      BY <2>1, <2>2 DEF IInv
  <1>2. CASE Lapse
    <2>1. PurchaseGated' /\ GateBacked' /\ RunsBacked'
      BY <1>2 DEF Lapse, flip, history, IInv, PurchaseGated, GateBacked, RunsBacked, Backed
    <2>2. resale' \in [Platforms -> {"none", "active", "lapsed", "delisted", "expired"}]
      BY <1>2 DEF Lapse, IInv, TypeOK
    <2> QED
      BY <1>2, <2>1, <2>2 DEF Lapse, flip, history, IInv, TypeOK
  <1>3. CASE \E p \in Processes : Command(p) \/ Scan(p) \/ ExpireStale(p)
    BY <1>3, CommandPreserves
  <1>4. CASE \E p \in Processes : Step(p) \/ Crash(p)
    BY <1>4, TransitionPreserves, StatementPreserves, RowsPreserve DEF Step
  <1> QED
    BY <1>1, <1>2, <1>3, <1>4 DEF Next, Processes

(* The inductive invariant holds in every reachable state. *)
LEMMA Invariance == Spec => []IInv
  BY InitInv, NextInv, PTL DEF Spec

(* Every variable keeps its type, whatever commands overlap or die. *)
THEOREM BrokerTypes == Spec => []TypeOK
  <1>1. IInv => TypeOK
    BY DEF IInv
  <1> QED BY <1>1, Invariance, PTL

(***************************************************************************)
(* Nothing is bought but through the gate: PURCHASED and DELIVERED come    *)
(* after an approved gate check, a committed buyer and an agreed price.    *)
(***************************************************************************)
THEOREM BoughtThroughGate == Spec => []PurchaseGated
  <1>1. IInv => PurchaseGated
    BY DEF IInv
  <1> QED BY <1>1, Invariance, PTL

-----------------------------------------------------------------------------
(***************************************************************************)
(* Commands in turn.  As long as no two overlap, one process at most has a *)
(* command in hand, and what it checked is still so when it writes:        *)
(* InHand says what each command is at and what holds there.  Position     *)
(* relates the ledger to the market and the state; a command that dies     *)
(* between two of its statements leaves them apart, so it is asked for     *)
(* only while none has died.  Both speak of the one record r that is not   *)
(* at rest.                                                                *)
(***************************************************************************)
InHand(r) ==
  /\ \/ r = Resting
     \/ /\ r.cmd = "scan"
        /\ \/ r.at = "ingest" /\ listed /\ state = Unknown
           \/ r.at = "pending"
           \/ r.at \in {"check", "write"} /\ r.goal \in {"SCORING", "NEGOTIATING", "REJECTED"}
     \/ r.cmd = "list_item" /\ r.goal = "LISTED" /\ r.at \in {"post", "check", "write", "open"}
     \/ /\ r.cmd = "buyer_found"
        /\ \/ r.at = "buyer" /\ buyers = << >>
           \/ r.at = "delist"
           \/ r.at \in {"check", "write"} /\ r.goal \in {"BUYER_FOUND", "PURCHASE_GATE"}
     \/ r.cmd = "purchase_gate" /\ r.at \in {"gate", "close"}
     \/ r.cmd = "confirm_purchase" /\ r.goal = "PURCHASED" /\ r.at \in {"check", "write"}
     \/ r.cmd = "mark_delivered" /\ r.goal = "DELIVERED" /\ r.at \in {"check", "write"}
     \/ /\ r.cmd = "expire_stale" /\ r.goal = "EXPIRED"
        /\ r.at \in {"committed", "active", "drop", "expire", "check", "write", "mark"}
     \/ /\ r.cmd = "reject_flip" /\ r.goal = "REJECTED"
        /\ \/ r.at \in {"check", "write"}
           \/ r.at \in {"active", "withdraw", "mark"} /\ state = "REJECTED"
  /\ r.at = "write" => Legal(r.goal)

Good(r) == InHand(r) /\ Len(buyers) <= 1 /\ (~listed => state = Unknown)

Position(r) ==
  /\ Active # {} => ledger # "none" \/ r.cmd = "list_item"
  /\ r.cmd = "expire_stale" => ledger # "none"
  /\ state = "EXPIRED" => \/ ledger \in {"expired", "closed"}
                          \/ ledger = "open" /\ r.cmd = "expire_stale" /\ r.at = "mark"
  /\ ledger = "rejected" => state = "REJECTED"

NobodyElse(p) == \A q \in Processes \ {p} : Idle(q)
Sound(p)      == Good(run[p]) /\ (crashes = CrashBudget => Position(run[p]))

(* Everybody at rest, or one process with a command in hand. *)
InTurnInv ==
  /\ crashes <= CrashBudget
  /\ ~overlap => \/ /\ \A p \in Processes : Idle(p)
                    /\ Good(Resting) /\ (crashes = CrashBudget => Position(Resting))
                 \/ \E p \in Processes : NobodyElse(p) /\ Sound(p)

(* What the step of the process with a command in hand has to come to. *)
Moves(p) ==
  \E r \in Run : /\ run' = [run EXCEPT ![p] = r]
                 /\ Good(r)'
                 /\ Position(run[p]) => Position(r)'

(* The rejected stay rejected, and what has no state is refused. *)
LEMMA Transit ==
  ASSUME NEW to, Legal(to)
  PROVE  state # "REJECTED" /\ state # Unknown
  <1>1. "REJECTED" \in States
    BY DEF States
  <1>2. Transitions["REJECTED"] = {}
    BY <1>1 DEF Transitions
  <1> QED BY <1>2 DEF Legal

-----------------------------------------------------------------------------
(* A command that goes on where it keeps its goal. *)
LEMMA MovesTo ==
  ASSUME TypeOK, NEW p \in Processes, NEW label \in Labels, Goto(p, label)
  PROVE  \E r \in Run : /\ run' = [run EXCEPT ![p] = r]
                        /\ label = "idle" => r = Resting
                        /\ label # "idle" =>
                             r.at = label /\ r.goal = run[p].goal /\ r.cmd = run[p].cmd
  <1>1. run[p].goal \in States \cup {"none"} /\ run[p].rows \in SUBSET Platforms
    BY DEF TypeOK, Run
  <1> QED BY <1>1, ProceedRun DEF Goto

(* One that comes to a transition. *)
LEMMA MovesToCheck ==
  ASSUME TypeOK, NEW p \in Processes, NEW to \in States, Check(p, to)
  PROVE  \E r \in Run : /\ run' = [run EXCEPT ![p] = r]
                        /\ r.at = "check" /\ r.goal = to /\ r.cmd = run[p].cmd
  <1>1. "check" \in Labels /\ "check" # "idle" /\ {} \in SUBSET Platforms
        /\ to \in States \cup {"none"}
    BY DEF Labels
  <1>2. Proceed(p, "check", to, {})
    BY DEF Check
  <1> QED BY <1>1, <1>2, ProceedRun

(* One that has written a row: it is at the next one, or goes on. *)
LEMMA MovesByRow ==
  ASSUME TypeOK, NEW p \in Processes, NEW label \in {"post", "drop", "expire", "withdraw"},
         NEW q \in Platforms, NEW next \in {"check", "idle", "mark"},
         WriteRow(p, label, q, next)
  PROVE  \E r \in Run : /\ run' = [run EXCEPT ![p] = r]
                        /\ \/ next = "idle" /\ r = Resting
                           \/ /\ r.at \in {label, next} \ {"idle"}
                              /\ r.goal = run[p].goal /\ r.cmd = run[p].cmd
  <1> DEFINE then == IF run[p].rows = {q} THEN next ELSE label
  <1>1. run[p].goal \in States \cup {"none"} /\ run[p].rows \ {q} \in SUBSET Platforms
    BY DEF TypeOK, Run
  <1>2. /\ then \in Labels /\ then \in {label, next}
        /\ Proceed(p, then, run[p].goal, run[p].rows \ {q})
    BY DEF WriteRow, Labels
  <1>3. then = "idle" => next = "idle"
    OBVIOUS
  <1> HIDE DEF then
  <1>4. PICK r \in Run : /\ run' = [run EXCEPT ![p] = r]
                         /\ then = "idle" => r = Resting
                         /\ then # "idle" =>
                              r.at = then /\ r.goal = run[p].goal /\ r.cmd = run[p].cmd
    BY <1>1, <1>2, ProceedRun
  <1> QED BY <1>2, <1>3, <1>4

(* One that has made its transition, or was refused it. *)
LEMMA MovesOn ==
  ASSUME TypeOK, NEW p \in Processes, NEW granted \in BOOLEAN, Continue(p, granted),
         InHand(run[p]), run[p].at \in {"check", "write"}
  PROVE  \E r \in Run :
           /\ run' = [run EXCEPT ![p] = r]
           /\ \/ r = Resting /\ run[p].cmd \notin {"list_item", "expire_stale"}
              \/ /\ r.cmd = run[p].cmd
                 /\ \/ r.cmd = "scan" /\ r.at = "check" /\ r.goal \in {"NEGOTIATING", "REJECTED"}
                    \/ r.cmd = "buyer_found" /\ r.at = "check" /\ r.goal = "PURCHASE_GATE"
                    \/ r.cmd = "list_item" /\ r.at = "open" /\ r.goal = "LISTED"
                    \/ r.cmd = "expire_stale" /\ r.at = "mark" /\ r.goal = "EXPIRED"
                    \/ /\ r.cmd = "reject_flip" /\ r.at = "active" /\ r.goal = "REJECTED"
                       /\ granted
  <1>0. run[p] # Resting
    BY DEF Resting
  <1>2. CASE run[p].goal = "SCORING"
    <2>1. PICK verdict \in {"NEGOTIATING", "REJECTED"} : Check(p, verdict)
      BY <1>2 DEF Continue
    <2>2. verdict \in States
      BY DEF States
    <2>3. PICK r \in Run : /\ run' = [run EXCEPT ![p] = r]
                           /\ r.at = "check" /\ r.goal = verdict /\ r.cmd = run[p].cmd
      BY <2>1, <2>2, MovesToCheck
    <2>4. run[p].cmd = "scan"
      BY <1>0, <1>2 DEF InHand
    <2> QED BY <2>3, <2>4
  <1>3. CASE run[p].goal = "BUYER_FOUND"
    <2>1. Check(p, "PURCHASE_GATE") /\ "PURCHASE_GATE" \in States
      BY <1>3 DEF Continue, States
    <2>2. run[p].cmd = "buyer_found"
      BY <1>0, <1>3 DEF InHand
    <2> QED BY <2>1, <2>2, MovesToCheck
  <1>4. CASE run[p].goal = "LISTED"
    <2>1. Goto(p, "open") /\ "open" \in Labels
      BY <1>4 DEF Continue, Labels
    <2>2. run[p].cmd = "list_item"
      BY <1>0, <1>4 DEF InHand
    <2> QED BY <1>4, <2>1, <2>2, MovesTo
  <1>5. CASE run[p].goal = "EXPIRED"
    <2>1. Goto(p, "mark") /\ "mark" \in Labels
      BY <1>5 DEF Continue, Labels
    <2>2. run[p].cmd = "expire_stale"
      BY <1>0, <1>5 DEF InHand
    <2> QED BY <1>5, <2>1, <2>2, MovesTo
  <1>6. CASE run[p].goal = "REJECTED" /\ run[p].cmd = "reject_flip" /\ granted
    <2>1. Goto(p, "active") /\ "active" \in Labels
      BY <1>6 DEF Continue, Labels
    <2> QED BY <1>6, <2>1, MovesTo
  <1>7. CASE \/ run[p].goal = "REJECTED" /\ ~(run[p].cmd = "reject_flip" /\ granted)
             \/ run[p].goal \in {"NEGOTIATING", "PURCHASE_GATE", "PURCHASED", "DELIVERED"}
    <2>1. End(p)
      BY <1>7 DEF Continue
    <2>2. Goto(p, "idle") /\ "idle" \in Labels
      BY <2>1 DEF End, Labels
    <2>3. run[p].cmd \notin {"list_item", "expire_stale"}
      BY <1>0, <1>7 DEF InHand
    <2> QED BY <2>2, <2>3, MovesTo
  <1> QED BY <1>2, <1>3, <1>4, <1>5, <1>6, <1>7 DEF Continue

(* One that ends. *)
LEMMA EndRests ==
  ASSUME TypeOK, NEW p \in Processes, End(p)
  PROVE  Resting \in Run /\ run' = [run EXCEPT ![p] = Resting]
  <1>1. "idle" \in Labels /\ Goto(p, "idle")
    BY DEF End, Labels
  <1> QED BY <1>1, MovesTo

(* With nothing in hand little has to hold. *)
LEMMA RestingGood ==
  ASSUME NEW p \in Processes, Good(run[p]), UNCHANGED buyers,
         UNCHANGED <<state, listed>>
  PROVE  Good(Resting)'
  BY DEF Good, InHand, Resting

(* A command that ends, and changes nothing, owes the ledger nothing. *)
LEMMA EndMoves ==
  ASSUME TypeOK, NEW p \in Processes, Good(run[p]), End(p),
         UNCHANGED <<state, listed, ledger, buyers>>, Active' \subseteq Active,
         run[p].cmd # "list_item", run[p].at # "mark"
  PROVE  Moves(p)
  <1>1. Resting \in Run /\ run' = [run EXCEPT ![p] = Resting]
    BY EndRests
  <1>2. Good(Resting)'
    BY RestingGood
  <1>3. Position(run[p]) => Position(Resting)'
    BY DEF Position, Resting
  <1> QED BY <1>1, <1>2, <1>3 DEF Moves

-----------------------------------------------------------------------------
(* Transitions in turn: what Grant saw is still so when SetState writes. *)
LEMMA TransitionMoves ==
  ASSUME TypeOK, NEW p \in Processes, Good(run[p]), Grant(p) \/ Refuse(p) \/ SetState(p)
  PROVE  Moves(p)
  <1> USE DEF flip, market, history
  <1>0. InHand(run[p]) /\ run[p] # Resting
    <2>1. run[p].at \in {"check", "write"}
      BY DEF Grant, Refuse, SetState, At
    <2> QED BY <2>1 DEF Good, Resting
  <1>1. CASE Grant(p)
    <2>1. "write" \in Labels /\ Goto(p, "write")
      BY <1>1 DEF Grant, Labels
    <2>2. PICK r \in Run : /\ run' = [run EXCEPT ![p] = r]
                           /\ r.at = "write" /\ r.goal = run[p].goal /\ r.cmd = run[p].cmd
      BY <2>1, MovesTo
    <2>3. UNCHANGED <<listed, state, agreed, gate, ledger, resale, tier, buyers>>
      BY <1>1 DEF Grant
    <2>4. Legal(run[p].goal) /\ run[p].at = "check"
      BY <1>1 DEF Grant, At
    <2>5. InHand(r)'
      BY <1>0, <2>2, <2>3, <2>4 DEF InHand, Legal
    <2>6. Good(r)'
      BY <2>3, <2>5 DEF Good
    <2>7. Position(run[p]) => Position(r)'
      BY <2>2, <2>3, <2>4 DEF Position, Active
    <2> QED BY <2>2, <2>6, <2>7 DEF Moves
  <1>2. ASSUME Refuse(p) \/ SetState(p), NEW granted \in BOOLEAN, Continue(p, granted),
               granted <=> SetState(p)
        PROVE  Moves(p)
    <2>1. PICK r \in Run :
            /\ run' = [run EXCEPT ![p] = r]
            /\ \/ r = Resting /\ run[p].cmd \notin {"list_item", "expire_stale"}
               \/ /\ r.cmd = run[p].cmd
                  /\ \/ r.cmd = "scan" /\ r.at = "check" /\ r.goal \in {"NEGOTIATING", "REJECTED"}
                     \/ r.cmd = "buyer_found" /\ r.at = "check" /\ r.goal = "PURCHASE_GATE"
                     \/ r.cmd = "list_item" /\ r.at = "open" /\ r.goal = "LISTED"
                     \/ r.cmd = "expire_stale" /\ r.at = "mark" /\ r.goal = "EXPIRED"
                     \/ /\ r.cmd = "reject_flip" /\ r.at = "active" /\ r.goal = "REJECTED"
                        /\ granted
      <3>1. run[p].at \in {"check", "write"}
        BY <1>2 DEF Refuse, SetState, At
      <3> QED BY <1>0, <1>2, <3>1, MovesOn
    <2>2. /\ UNCHANGED <<listed, agreed, gate, ledger, resale, tier, buyers>>
          /\ granted => /\ state' = run[p].goal /\ run[p].at = "write"
                        /\ Legal(run[p].goal)
          /\ ~granted => UNCHANGED state
      BY <1>0, <1>2 DEF Refuse, SetState, At, InHand
    <2>3. granted => state # "REJECTED" /\ state # Unknown
      BY <2>2, Transit
    <2>4. granted => (state' = "EXPIRED" <=> run[p].cmd = "expire_stale")
      BY <1>0, <2>2 DEF InHand
    <2>5. granted /\ run[p].cmd = "reject_flip" => state' = "REJECTED"
      BY <1>0, <2>2 DEF InHand
    <2>6. r.at # "write" /\ InHand(r)'
      BY <2>1, <2>5 DEF InHand, Resting
    <2>7. Good(r)'
      BY <2>2, <2>3, <2>6 DEF Good
    <2>8. ASSUME Position(run[p]) PROVE Position(r)'
      <3>1. Active' = Active /\ (r.cmd = "expire_stale" => run[p].cmd = "expire_stale")
        BY <2>1, <2>2 DEF Active, Resting
      <3>2. run[p].cmd = "list_item" => r.cmd = "list_item"
        BY <2>1
      <3>3. run[p].cmd = "expire_stale" => r.cmd = "expire_stale" /\ r.at = "mark"
        BY <2>1
      <3>4. ledger \in {"none", "open", "closed", "expired", "rejected"}
        BY DEF TypeOK
      <3>5. run[p].at # "mark"
        BY <1>2 DEF Refuse, SetState, At
      <3>6. state' = "EXPIRED" => \/ ledger \in {"expired", "closed"}
                                  \/ ledger = "open" /\ r.cmd = "expire_stale" /\ r.at = "mark"
        BY <2>2, <2>3, <2>4, <2>8, <3>3, <3>4, <3>5 DEF Position
      <3> QED BY <2>2, <2>3, <2>8, <3>1, <3>2, <3>6 DEF Position
    <2> QED BY <2>1, <2>7, <2>8 DEF Moves
  <1>3. CASE Refuse(p) /\ ~SetState(p)
    BY <1>2, <1>3 DEF Refuse
  <1>4. CASE SetState(p)
    BY <1>2, <1>4 DEF SetState
  <1> QED BY <1>1, <1>3, <1>4

(* The statements that leave the market alone. *)
LEMMA LedgerMoves ==
  ASSUME TypeOK, NEW p \in Processes, Good(run[p]),
         \/ Ingest(p) \/ ScorePending(p) \/ OpenPosition(p) \/ LogGateCheck(p)
         \/ ClosePosition(p) \/ MarkPosition(p)
  PROVE  Moves(p)
  <1> USE DEF flip, market, history, At
  <1>0. /\ InHand(run[p]) /\ run[p] # Resting
        /\ UNCHANGED <<resale, buyers>> /\ Active' = Active
    BY DEF Good, Ingest, ScorePending, OpenPosition, LogGateCheck, ClosePosition,
           MarkPosition, Resting, Active
  <1>a. ledger \in {"none", "open", "closed", "expired", "rejected"}
    BY DEF TypeOK
  <1>1. CASE Ingest(p)
    <2>1. "pending" \in Labels /\ Goto(p, "pending")
      BY <1>1 DEF Ingest, Labels
    <2>2. PICK r \in Run : run' = [run EXCEPT ![p] = r] /\ r.at = "pending" /\ r.cmd = run[p].cmd
      BY <2>1, MovesTo
    <2>3. run[p].cmd = "scan" /\ state = Unknown /\ listed
      BY <1>0, <1>1 DEF Ingest, InHand
    <2>4. state' = "DISCOVERED" /\ UNCHANGED <<ledger, listed>>
      BY <1>1 DEF Ingest
    <2>5. Good(r)'
      BY <1>0, <2>2, <2>3, <2>4 DEF Good, InHand
    <2> QED BY <1>0, <2>2, <2>3, <2>4, <2>5 DEF Moves, Position, Unknown
  <1>2. CASE ScorePending(p)
    <2>0. run[p].cmd = "scan" /\ run[p].at = "pending" /\ UNCHANGED <<state, ledger, listed>>
      BY <1>0, <1>2 DEF ScorePending, InHand
    <2>1. CASE Check(p, "SCORING")
      <3>1. PICK r \in Run : /\ run' = [run EXCEPT ![p] = r]
                             /\ r.at = "check" /\ r.goal = "SCORING" /\ r.cmd = run[p].cmd
        BY <2>1, MovesToCheck DEF States
      <3>2. Good(r)'
        BY <1>0, <2>0, <3>1 DEF Good, InHand
      <3> QED BY <1>0, <2>0, <3>1, <3>2 DEF Moves, Position
    <2>2. CASE End(p)
      BY <1>0, <2>0, <2>2, EndMoves
    <2> QED BY <1>2, <2>1, <2>2 DEF ScorePending
  <1>3. CASE OpenPosition(p)
    <2>1. PICK r \in Run : run' = [run EXCEPT ![p] = r] /\ r = Resting
      BY <1>3, EndRests DEF OpenPosition
    <2>2. run[p].cmd = "list_item" /\ UNCHANGED <<state, listed>>
      BY <1>0, <1>3 DEF OpenPosition, InHand
    <2>3. Good(Resting)'
      BY <1>0, <2>2, RestingGood
    <2>4. ledger' # "none" /\ (ledger # "none" => ledger' = ledger)
      BY <1>3 DEF OpenPosition
    <2>5. ASSUME Position(run[p]) PROVE Position(Resting)'
      <3>1. state = "EXPIRED" => ledger \in {"expired", "closed"}
        BY <2>2, <2>5 DEF Position
      <3>2. ledger' = "rejected" => ledger = "rejected"
        BY <1>3 DEF OpenPosition
      <3> QED BY <2>2, <2>4, <2>5, <3>1, <3>2 DEF Position, Resting
    <2> QED BY <2>1, <2>3, <2>5 DEF Moves
  <1>4. CASE LogGateCheck(p)
    <2>1. "close" \in Labels /\ Goto(p, "close")
      BY <1>4 DEF LogGateCheck, Labels
    <2>2. PICK r \in Run : run' = [run EXCEPT ![p] = r] /\ r.at = "close" /\ r.cmd = run[p].cmd
      BY <2>1, MovesTo
    <2>3. run[p].cmd = "purchase_gate" /\ UNCHANGED <<state, ledger, listed>>
      BY <1>0, <1>4 DEF LogGateCheck, InHand
    <2>4. Good(r)'
      BY <1>0, <2>2, <2>3 DEF Good, InHand
    <2> QED BY <1>0, <2>2, <2>3, <2>4 DEF Moves, Position
  <1>5. CASE ClosePosition(p)
    <2>1. PICK r \in Run : run' = [run EXCEPT ![p] = r] /\ r = Resting
      BY <1>5, EndRests DEF ClosePosition
    <2>2. run[p].cmd = "purchase_gate" /\ UNCHANGED <<state, listed>>
      BY <1>0, <1>5 DEF ClosePosition, InHand
    <2>3. Good(Resting)'
      BY <1>0, <2>2, RestingGood
    <2>4. ledger' = IF ledger = "none" THEN "none" ELSE "closed"
      BY <1>5 DEF ClosePosition
    <2> QED BY <1>0, <2>1, <2>2, <2>3, <2>4 DEF Moves, Position, Resting
  <1>6. CASE MarkPosition(p)
    <2>1. PICK r \in Run : run' = [run EXCEPT ![p] = r] /\ r = Resting
      BY <1>6, EndRests DEF MarkPosition
    <2>2. /\ \/ run[p].cmd = "expire_stale"
             \/ run[p].cmd = "reject_flip" /\ state = "REJECTED"
          /\ UNCHANGED <<state, listed>>
      BY <1>0, <1>6 DEF MarkPosition, InHand
    <2>3. Good(Resting)'
      BY <1>0, <2>2, RestingGood
    <2>4. ledger' = IF ledger # "open" THEN ledger
                    ELSE IF run[p].cmd = "reject_flip" THEN "rejected" ELSE "expired"
      BY <1>6 DEF MarkPosition
    <2>5. ASSUME Position(run[p]) PROVE Position(Resting)'
      <3>1. CASE run[p].cmd = "expire_stale"
        BY <1>0, <1>a, <2>2, <2>4, <2>5, <3>1 DEF Position, Resting
      <3>2. CASE run[p].cmd = "reject_flip" /\ state = "REJECTED"
        BY <1>0, <1>a, <2>2, <2>4, <2>5, <3>2 DEF Position, Resting
      <3> QED BY <2>2, <3>1, <3>2
    <2> QED BY <2>1, <2>3, <2>5 DEF Moves
  <1> QED BY <1>1, <1>2, <1>3, <1>4, <1>5, <1>6

(* A command that goes on, with its goal and its place in the ledger. *)
LEMMA SameCommand ==
  ASSUME NEW p \in Processes, Good(run[p]), NEW r \in Run,
         run' = [run EXCEPT ![p] = r], InHand(r)',
         UNCHANGED <<state, listed, ledger>>, Len(buyers') <= 1,
         r.cmd = run[p].cmd, run[p].at # "mark",
         Active' # {} => Active # {} \/ r.cmd = "list_item"
  PROVE  Moves(p)
  <1>1. Good(r)'
    BY DEF Good
  <1>2. Position(run[p]) => Position(r)'
    BY DEF Position
  <1> QED BY <1>1, <1>2 DEF Moves

(* The statements of the sweep and of reject_flip that look at the market. *)
LEMMA SweepMoves ==
  ASSUME TypeOK, NEW p \in Processes, Good(run[p]),
         DelistOthers(p) \/ SeeBuyer(p) \/ SweepRows(p) \/ RejectRows(p)
  PROVE  Moves(p)
  <1> USE DEF flip, market, history, At
  <1>0. /\ InHand(run[p]) /\ run[p] # Resting /\ run[p].at \in {"delist", "committed", "active"}
        /\ UNCHANGED <<state, listed, ledger, buyers>> /\ Len(buyers') <= 1
    BY DEF Good, DelistOthers, SeeBuyer, SweepRows, RejectRows, Resting
  <1>1. CASE DelistOthers(p)
    <2>1. PICK r \in Run : /\ run' = [run EXCEPT ![p] = r]
                           /\ r.at = "check" /\ r.goal = "BUYER_FOUND" /\ r.cmd = run[p].cmd
      BY <1>1, MovesToCheck DEF DelistOthers, States
    <2>2. run[p].cmd = "buyer_found"
      BY <1>0, <1>1 DEF DelistOthers, InHand
    <2>3. InHand(r)'
      BY <2>1, <2>2 DEF InHand
    <2>4. Active' \subseteq Active
      BY <1>1 DEF DelistOthers, Active, TypeOK
    <2> QED BY <1>0, <2>1, <2>3, <2>4, SameCommand
  <1>2. CASE SeeBuyer(p)
    <2>0. run[p].cmd = "expire_stale" /\ run[p].goal = "EXPIRED" /\ Active' = Active
      BY <1>0, <1>2 DEF SeeBuyer, InHand, Active
    <2>1. CASE Goto(p, "active")
      <3>1. PICK r \in Run : /\ run' = [run EXCEPT ![p] = r]
                             /\ r.at = "active" /\ r.goal = run[p].goal /\ r.cmd = run[p].cmd
        BY <2>1, MovesTo DEF Labels
      <3>2. InHand(r)'
        BY <2>0, <3>1 DEF InHand
      <3> QED BY <1>0, <2>0, <3>1, <3>2, SameCommand
    <2>2. CASE End(p)
      <3>1. run[p].at = "committed"
        BY <1>2 DEF SeeBuyer
      <3> QED BY <1>0, <2>0, <2>2, <3>1, EndMoves
    <2> QED BY <1>2, <2>1, <2>2 DEF SeeBuyer
  <1>3. CASE SweepRows(p)
    <2>0. /\ run[p].cmd = "expire_stale" /\ run[p].goal = "EXPIRED" /\ run[p].at = "active"
          /\ Active' = Active /\ Active \in SUBSET Platforms
      BY <1>0, <1>3 DEF SweepRows, InHand, Active
    <2>1. ASSUME NEW label \in {"drop", "expire"}, Proceed(p, label, "EXPIRED", Active)
          PROVE  Moves(p)
      <3>1. PICK r \in Run : /\ run' = [run EXCEPT ![p] = r]
                             /\ r.at = label /\ r.goal = "EXPIRED" /\ r.cmd = run[p].cmd
        BY <2>0, <2>1, ProceedRun DEF Labels, States
      <3>2. InHand(r)'
        BY <2>0, <3>1 DEF InHand
      <3> QED BY <1>0, <2>0, <3>1, <3>2, SameCommand
    <2>2. CASE End(p)
      BY <1>0, <2>0, <2>2, EndMoves
    <2> QED BY <1>3, <2>1, <2>2 DEF SweepRows
  <1>4. CASE RejectRows(p)
    <2>0. /\ run[p].cmd = "reject_flip" /\ state = "REJECTED" /\ run[p].at = "active"
          /\ Active' = Active /\ Active \in SUBSET Platforms
      BY <1>0, <1>4 DEF RejectRows, InHand, Active
    <2>1. ASSUME NEW label \in {"mark", "withdraw"}, Proceed(p, label, "REJECTED", Active)
          PROVE  Moves(p)
      <3>1. PICK r \in Run : /\ run' = [run EXCEPT ![p] = r]
                             /\ r.at = label /\ r.goal = "REJECTED" /\ r.cmd = run[p].cmd
        BY <2>0, <2>1, ProceedRun DEF Labels, States
      <3>2. InHand(r)'
        BY <1>0, <2>0, <3>1 DEF InHand
      <3> QED BY <1>0, <2>0, <3>1, <3>2, SameCommand
    <2> QED BY <1>4, <2>1 DEF RejectRows
  <1> QED BY <1>1, <1>2, <1>3, <1>4

(* The statements that write one row. *)
LEMMA RowMoves ==
  ASSUME TypeOK, NEW p \in Processes, Good(run[p]), NEW q \in Platforms,
         AddBuyer(p, q) \/ Post(p, q) \/ DropTier(p, q) \/ ExpireRow(p, q) \/ Withdraw(p, q)
  PROVE  Moves(p)
  <1> USE DEF flip, market, history, At
  <1>0. /\ InHand(run[p]) /\ run[p] # Resting
        /\ run[p].at \in {"buyer", "post", "drop", "expire", "withdraw"}
        /\ UNCHANGED <<state, listed, ledger>>
    BY DEF Good, AddBuyer, Post, DropTier, ExpireRow, Withdraw, WriteRow, Resting
  <1>1. CASE AddBuyer(p, q)
    <2>1. run[p].cmd = "buyer_found" /\ buyers = << >>
      BY <1>0, <1>1 DEF AddBuyer, InHand
    <2>2. Len(buyers') <= 1 /\ Active' = Active
      BY <1>1, <2>1 DEF AddBuyer, Active
    <2>3. PICK r \in Run : /\ run' = [run EXCEPT ![p] = r]
                           /\ r.at = "delist" /\ r.cmd = run[p].cmd
      BY <1>1, MovesTo DEF AddBuyer, Labels
    <2>4. InHand(r)'
      BY <2>1, <2>3 DEF InHand
    <2> QED BY <1>0, <2>2, <2>3, <2>4, SameCommand
  <1>3. CASE Post(p, q)
    <2>1. run[p].cmd = "list_item" /\ run[p].goal = "LISTED"
      BY <1>0, <1>3 DEF Post, WriteRow, InHand
    <2>2. PICK r \in Run : /\ run' = [run EXCEPT ![p] = r]
                           /\ r.at \in {"post", "check"}
                           /\ r.goal = run[p].goal /\ r.cmd = run[p].cmd
      BY <1>3, MovesByRow DEF Post
    <2>3. InHand(r)'
      BY <2>1, <2>2 DEF InHand
    <2>4. UNCHANGED buyers /\ Len(buyers') <= 1
      BY <1>3 DEF Post, Good
    <2> QED BY <1>0, <2>1, <2>2, <2>3, <2>4, SameCommand
  <1>4. CASE DropTier(p, q)
    <2>1. run[p].cmd = "expire_stale" /\ run[p].goal = "EXPIRED"
      BY <1>0, <1>4 DEF DropTier, WriteRow, InHand
    <2>2. PICK r \in Run : /\ run' = [run EXCEPT ![p] = r]
                           /\ \/ r = Resting
                              \/ r.at = "drop" /\ r.goal = run[p].goal /\ r.cmd = run[p].cmd
      BY <1>4, MovesByRow DEF DropTier
    <2>3. /\ UNCHANGED buyers /\ Len(buyers') <= 1
          /\ run[p].at = "drop"
      BY <1>4 DEF DropTier, Good, WriteRow
    <2>4. Active' \subseteq Active
      BY <1>4 DEF DropTier, Active, TypeOK
    <2>5. CASE r = Resting
      <3>1. Good(Resting)'
        BY <1>0, <2>3, RestingGood
      <3>2. Position(run[p]) => Position(Resting)'
        BY <1>0, <2>1, <2>3, <2>4 DEF Position, Resting
      <3> QED BY <2>2, <2>5, <3>1, <3>2 DEF Moves
    <2>6. CASE r.at = "drop" /\ r.goal = run[p].goal /\ r.cmd = run[p].cmd
      <3>1. InHand(r)'
        BY <2>1, <2>6 DEF InHand
      <3> QED BY <1>0, <2>2, <2>3, <2>4, <2>6, <3>1, SameCommand
    <2> QED BY <2>2, <2>5, <2>6
  <1>5. CASE ExpireRow(p, q)
    <2>1. run[p].cmd = "expire_stale" /\ run[p].goal = "EXPIRED"
      BY <1>0, <1>5 DEF ExpireRow, WriteRow, InHand
    <2>2. PICK r \in Run : /\ run' = [run EXCEPT ![p] = r]
                           /\ r.at \in {"expire", "check"}
                           /\ r.goal = run[p].goal /\ r.cmd = run[p].cmd
      BY <1>5, MovesByRow DEF ExpireRow
    <2>3. InHand(r)'
      BY <2>1, <2>2 DEF InHand
    <2>4. UNCHANGED buyers /\ Len(buyers') <= 1
      BY <1>5 DEF ExpireRow, Good
    <2>5. Active' \subseteq Active
      BY <1>5 DEF ExpireRow, Active, TypeOK
    <2> QED BY <1>0, <2>2, <2>3, <2>4, <2>5, SameCommand
  <1>6. CASE Withdraw(p, q)
    <2>1. run[p].cmd = "reject_flip" /\ run[p].goal = "REJECTED" /\ state = "REJECTED"
      BY <1>0, <1>6 DEF Withdraw, WriteRow, InHand
    <2>2. PICK r \in Run : /\ run' = [run EXCEPT ![p] = r]
                           /\ r.at \in {"withdraw", "mark"}
                           /\ r.goal = run[p].goal /\ r.cmd = run[p].cmd
      BY <1>6, MovesByRow DEF Withdraw
    <2>3. InHand(r)'
      BY <1>0, <2>1, <2>2 DEF InHand
    <2>4. UNCHANGED buyers /\ Len(buyers') <= 1
      BY <1>6 DEF Withdraw, Good
    <2>5. Active' \subseteq Active
      BY <1>6 DEF Withdraw, Active, TypeOK
    <2> QED BY <1>0, <2>2, <2>3, <2>4, <2>5, SameCommand
  <1> QED BY <1>1, <1>3, <1>4, <1>5, <1>6

(* A command that begins while everybody rests. *)
LEMMA BeginMoves ==
  ASSUME TypeOK, NEW p \in Processes, Idle(p), Good(Resting), overlap' = FALSE,
         (Command(p) /\ ~RecordAgreement(p)) \/ Scan(p) \/ ExpireStale(p)
  PROVE  NobodyElse(p) /\ Moves(p) /\ UNCHANGED crashes
  <1> USE DEF flip, market, history
  <1>0. run[p] = Resting
    BY DEF Idle
  <1>1. ASSUME NEW command \in Commands, NEW label \in Labels, NEW to \in States \cup {"none"},
               NEW rows \in SUBSET Platforms, Start(p, command, label, to, rows),
               label # "write", command # "list_item" => label # "post",
               UNCHANGED <<state, ledger, resale, buyers, crashes>>,
               ~listed' => state' = Unknown,
               command = "expire_stale" => Active # {},
               \A r \in Run : r.cmd = command /\ r.at = label /\ r.goal = to => InHand(r)'
        PROVE  NobodyElse(p) /\ Moves(p) /\ UNCHANGED crashes
    <2>1. NobodyElse(p)
      BY <1>1 DEF Start, NobodyElse, Processes
    <2>2. PICK r \in Run : /\ run' = [run EXCEPT ![p] = r]
                           /\ r.at = label /\ r.goal = to /\ r.cmd = command
      BY <1>1, StartRun
    <2>3. InHand(r)'
      BY <1>1, <2>2
    <2>4. Good(r)'
      BY <1>1, <2>3 DEF Good
    <2>5. Active' = Active
      BY <1>1 DEF Active
    <2>6. Position(Resting) => Position(r)'
      BY <1>1, <2>2, <2>5 DEF Position, Resting
    <2> QED BY <1>0, <1>1, <2>1, <2>2, <2>4, <2>6 DEF Moves
  <1>2. ~listed => state = Unknown
    BY DEF Good
  <1>3. CASE \E rows \in {Platforms} \cup {{q} : q \in Platforms} : ListItem(p, rows)
    <2>1. PICK rows \in {Platforms} \cup {{q} : q \in Platforms} : ListItem(p, rows)
      BY <1>3
    <2>2. rows \in SUBSET Platforms
      OBVIOUS
    <2>3. \A r \in Run : r.cmd = "list_item" /\ r.at = "post" /\ r.goal = "LISTED" => InHand(r)'
      BY DEF InHand
    <2> QED BY <1>1, <1>2, <2>1, <2>2, <2>3, Names DEF ListItem
  <1>4. CASE \E q \in Platforms : BuyerFound(p, q)
    <2>1. PICK q \in Platforms : BuyerFound(p, q)
      BY <1>4
    <2>2. buyers' = << >> /\ {q} \in SUBSET Platforms
      BY <2>1 DEF BuyerFound
    <2>3. \A r \in Run : r.cmd = "buyer_found" /\ r.at = "buyer" /\ r.goal = "none" => InHand(r)'
      BY <2>2 DEF InHand
    <2> QED BY <1>1, <1>2, <2>1, <2>2, <2>3, Names DEF BuyerFound
  <1>5. CASE PurchaseGate(p)
    <2>1. \A r \in Run : r.cmd = "purchase_gate" /\ r.at = "gate" /\ r.goal = "none" => InHand(r)'
      BY DEF InHand
    <2> QED BY <1>1, <1>2, <1>5, <2>1, Names DEF PurchaseGate
  <1>6. CASE ConfirmPurchase(p)
    <2>1. \A r \in Run :
            r.cmd = "confirm_purchase" /\ r.at = "check" /\ r.goal = "PURCHASED" => InHand(r)'
      BY DEF InHand
    <2> QED BY <1>1, <1>2, <1>6, <2>1, Names DEF ConfirmPurchase
  <1>7. CASE MarkDelivered(p)
    <2>1. \A r \in Run :
            r.cmd = "mark_delivered" /\ r.at = "check" /\ r.goal = "DELIVERED" => InHand(r)'
      BY DEF InHand
    <2> QED BY <1>1, <1>2, <1>7, <2>1, Names DEF MarkDelivered
  <1>8. CASE RejectFlip(p)
    <2>1. \A r \in Run :
            r.cmd = "reject_flip" /\ r.at = "check" /\ r.goal = "REJECTED" => InHand(r)'
      BY DEF InHand
    <2> QED BY <1>1, <1>2, <1>8, <2>1, Names DEF RejectFlip
  <1>9. CASE ScanNew(p)
    <2>1. state' = Unknown /\ listed'
      BY <1>2, <1>9 DEF ScanNew
    <2>2. \A r \in Run : r.cmd = "scan" /\ r.at = "ingest" /\ r.goal = "none" => InHand(r)'
      BY <2>1 DEF InHand
    <2>3. /\ Start(p, "scan", "ingest", "none", {})
          /\ state' = state /\ ledger' = ledger /\ resale' = resale /\ buyers' = buyers
          /\ crashes' = crashes
      BY <1>9 DEF ScanNew
    <2>4. /\ "scan" \in Commands /\ "ingest" \in Labels /\ "none" \in States \cup {"none"}
          /\ {} \in SUBSET Platforms
      BY Names
    <2>5. ~listed' => state' = Unknown
      BY <2>1
    <2> QED BY SMTT(30), <1>1, <2>2, <2>3, <2>4, <2>5
  <1>10. CASE ScanAgain(p)
    <2>1. \A r \in Run : r.cmd = "scan" /\ r.at = "check" /\ r.goal = "SCORING" => InHand(r)'
      BY DEF InHand
    <2> QED BY <1>1, <1>2, <1>10, <2>1, Names DEF ScanAgain
  <1>11. CASE ExpireStale(p)
    <2>1. \A r \in Run :
            r.cmd = "expire_stale" /\ r.at = "committed" /\ r.goal = "EXPIRED" => InHand(r)'
      BY DEF InHand
    <2>2. Active # {}
      BY <1>11 DEF ExpireStale, Lapsed, Active
    <2> QED BY <1>1, <1>2, <1>11, <2>1, <2>2, Names DEF ExpireStale
  <1> QED BY <1>3, <1>4, <1>5, <1>6, <1>7, <1>8, <1>9, <1>10, <1>11 DEF Command, Scan

-----------------------------------------------------------------------------
(* Steps of processes that have nothing in hand, or of none, leave it all as it is. *)
LEMMA StillInTurn ==
  ASSUME InTurnInv, UNCHANGED <<listed, state, ledger, buyers, run, crashes, overlap>>,
         Active' = Active
  PROVE  InTurnInv'
  <1>1. \A r : (Good(r) => Good(r)') /\ (Position(r) => Position(r)')
    BY DEF Good, InHand, Legal, Position
  <1> QED BY <1>1 DEF InTurnInv, NobodyElse, Sound, Idle

(* The process with a command in hand has moved; the others rest as before. *)
LEMMA MovedInTurn ==
  ASSUME TypeOK, NEW p \in Processes, NobodyElse(p), Moves(p), crashes <= CrashBudget,
         UNCHANGED crashes, crashes = CrashBudget => Position(run[p])
  PROVE  InTurnInv'
  <1>1. PICK r \in Run : /\ run' = [run EXCEPT ![p] = r]
                         /\ Good(r)'
                         /\ Position(run[p]) => Position(r)'
    BY DEF Moves
  <1>2. run'[p] = r /\ \A q \in Processes \ {p} : run'[q] = run[q]
    BY <1>1 DEF TypeOK
  <1>3. NobodyElse(p)'
    BY <1>2 DEF NobodyElse, Idle
  <1>4. Good(run[p])' /\ (crashes = CrashBudget => Position(run[p])')
    <2>1. Good(run[p])'
      BY <1>1, <1>2 DEF Good, InHand, Legal
    <2>2. Position(r)' => Position(run[p])'
      BY <1>2 DEF Position
    <2> QED BY <1>1, <2>1, <2>2
  <1>5. Sound(p)'
    BY <1>4 DEF Sound
  <1> QED BY <1>3, <1>5 DEF InTurnInv

LEMMA InTurnInit == Init => InTurnInv
  <1> SUFFICES ASSUME Init PROVE InTurnInv
    OBVIOUS
  <1>1. Good(Resting)
    BY DEF Init, Good, InHand, Resting
  <1>2. Position(Resting)
    BY DEF Init, Position, Active, Resting, Unknown
  <1>3. \A p \in Processes : Idle(p)
    BY DEF Init, Idle
  <1> QED BY <1>1, <1>2, <1>3, BrokerAssumption DEF Init, InTurnInv

LEMMA InTurnNext ==
  ASSUME TypeOK, InTurnInv, [Next]_vars
  PROVE  InTurnInv'
  <1> USE DEF flip, market, history
  <1>0. crashes <= CrashBudget /\ crashes \in Nat /\ CrashBudget \in Nat
    BY BrokerAssumption DEF TypeOK, InTurnInv
  <1>1. CASE UNCHANGED vars
    BY <1>1, StillInTurn DEF vars, Active
  <1>2. CASE Lapse
    <2>1. Active' = Active
      BY <1>2 DEF Lapse, Active, TypeOK
    <2> QED BY <1>2, <2>1, StillInTurn DEF Lapse
  <1>3. ASSUME NEW p \in Processes, RecordAgreement(p) PROVE InTurnInv'
    BY <1>3, StillInTurn DEF RecordAgreement, Active
  <1>4. ASSUME NEW p \in Processes,
               (Command(p) /\ ~RecordAgreement(p)) \/ Scan(p) \/ ExpireStale(p)
        PROVE  InTurnInv'
    <2>1. Idle(p) /\ (overlap' = FALSE => ~overlap /\ NobodyElse(p)) /\ UNCHANGED crashes
      BY <1>4 DEF Command, Scan, ExpireStale, ListItem, BuyerFound, PurchaseGate,
                  ConfirmPurchase, MarkDelivered, RejectFlip, ScanNew, ScanAgain, Start,
                  NobodyElse, TypeOK
    <2>2. CASE overlap' = FALSE
      <3>1. \A q \in Processes : Idle(q)
        BY <2>1, <2>2 DEF NobodyElse
      <3>2. Good(Resting) /\ (crashes = CrashBudget => Position(Resting))
        BY <2>1, <2>2, <3>1 DEF InTurnInv, Sound, Idle
      <3>3. NobodyElse(p) /\ Moves(p)
        BY <1>4, <2>1, <2>2, <3>2, BeginMoves
      <3> QED BY <1>0, <2>1, <3>2, <3>3, MovedInTurn DEF Idle
    <2>3. CASE overlap' # FALSE
      <3>1. overlap' = TRUE
        BY <1>4, <2>3 DEF Command, Scan, ExpireStale, ListItem, BuyerFound, PurchaseGate,
                          ConfirmPurchase, MarkDelivered, RejectFlip, ScanNew, ScanAgain,
                          Start, TypeOK
      <3> QED BY <1>0, <2>1, <3>1 DEF InTurnInv
    <2> QED BY <2>2, <2>3
  <1>5. ASSUME NEW p \in Processes, Step(p) PROVE InTurnInv'
    <2>1. ~Idle(p) /\ UNCHANGED <<crashes, overlap>>
      <3>1. CASE \/ Grant(p) \/ Refuse(p) \/ SetState(p) \/ Ingest(p) \/ ScorePending(p)
                 \/ OpenPosition(p) \/ DelistOthers(p) \/ LogGateCheck(p) \/ ClosePosition(p)
                 \/ SeeBuyer(p) \/ SweepRows(p) \/ RejectRows(p) \/ MarkPosition(p)
        <4>1. run[p].at # "idle" /\ UNCHANGED <<crashes, overlap>>
          BY <3>1 DEF Grant, Refuse, SetState, Ingest, ScorePending, OpenPosition,
                      DelistOthers, LogGateCheck, ClosePosition, SeeBuyer, SweepRows,
                      RejectRows, MarkPosition, At
        <4> QED BY <4>1 DEF Idle, Resting
      <3>2. ASSUME NEW q \in Platforms,
                   \/ AddBuyer(p, q) \/ Post(p, q) \/ DropTier(p, q) \/ ExpireRow(p, q)
                   \/ Withdraw(p, q)
            PROVE  ~Idle(p) /\ UNCHANGED <<crashes, overlap>>
        <4>1. run[p].at # "idle" /\ UNCHANGED <<crashes, overlap>>
          BY <3>2 DEF AddBuyer, Post, DropTier, ExpireRow, Withdraw, WriteRow, At
        <4> QED BY <4>1 DEF Idle, Resting
      <3> QED BY <1>5, <3>1, <3>2 DEF Step
    <2>2. CASE ~overlap
      <3>1. NobodyElse(p) /\ Sound(p)
        BY <2>1, <2>2 DEF InTurnInv, NobodyElse
      <3>2. Moves(p)
        BY <1>5, <3>1, TransitionMoves, LedgerMoves, SweepMoves, RowMoves DEF Step, Sound
      <3> QED BY <1>0, <2>1, <3>1, <3>2, MovedInTurn DEF Sound
    <2>3. CASE overlap
      BY <1>0, <2>1, <2>3 DEF InTurnInv
    <2> QED BY <2>2, <2>3
  <1>6. ASSUME NEW p \in Processes, Crash(p) PROVE InTurnInv'
    <2>1. /\ ~Idle(p) /\ crashes' = crashes - 1 /\ crashes > 0 /\ End(p)
          /\ UNCHANGED <<flip, market, overlap>>
      BY <1>6 DEF Crash
    <2>2. CASE ~overlap
      <3>1. NobodyElse(p) /\ Good(run[p])
        BY <2>1, <2>2 DEF InTurnInv, NobodyElse, Sound
      <3>2. Good(Resting)'
        BY <2>1, <3>1, RestingGood
      <3>3. run' = [run EXCEPT ![p] = Resting]
        BY <2>1, EndRests
      <3>4. \A q \in Processes : run'[q] = Resting
        BY <3>1, <3>3 DEF NobodyElse, Idle, TypeOK
      <3>5. (\A q \in Processes : Idle(q))'
        BY <3>4 DEF Idle
      <3>6. crashes' <= CrashBudget /\ crashes' # CrashBudget
        BY <1>0, <2>1
      <3> QED BY <3>2, <3>5, <3>6 DEF InTurnInv
    <2>3. CASE overlap
      BY <1>0, <2>1, <2>3 DEF InTurnInv
    <2> QED BY <2>2, <2>3
  <1>7. \A p : Command(p) => RecordAgreement(p) \/ (Command(p) /\ ~RecordAgreement(p))
    OBVIOUS
  <1> QED BY <1>1, <1>2, <1>3, <1>4, <1>5, <1>6, <1>7 DEF Next, Processes

(***************************************************************************)
(* Commands that come one after the other keep one buyer, and the ledger   *)
(* counts every flip that expired: for any processes, platforms and tiers, *)
(* and any number of commands that die.                                    *)
(***************************************************************************)
THEOREM SoundWhenInTurn == Spec => []SoundInTurn
  <1>1. TypeOK /\ InTurnInv => SoundInTurn
    <2> SUFFICES ASSUME TypeOK, InTurnInv, ~overlap
                 PROVE  /\ Len(buyers) <= 1
                        /\ state = "EXPIRED" /\ (\A p \in Processes : Idle(p))
                             /\ crashes = CrashBudget
                           => ledger \in {"expired", "closed"}
      BY DEF SoundInTurn
    <2>1. \E r : Good(r)
      BY DEF InTurnInv, Sound
    <2>2. Len(buyers) <= 1
      BY <2>1 DEF Good
    <2>3. ASSUME state = "EXPIRED", \A p \in Processes : Idle(p), crashes = CrashBudget
          PROVE  ledger \in {"expired", "closed"}
      <3>1. Position(Resting)
        BY <2>3 DEF InTurnInv, Sound, Idle
      <3> QED BY <2>3, <3>1 DEF Position, Resting
    <2> QED BY <2>2, <2>3
  <1> QED BY <1>1, InTurnInit, InTurnNext, BrokerTypes, PTL DEF Spec
=============================================================================
