----------------------------- MODULE DealBroker -----------------------------
(***************************************************************************)
(* One marketplace listing on its way through the flash-flip pipeline      *)
(* (skills/deal_broker/skill.py, with the statements of core/memory.py):   *)
(* the user's commands, the scan that finds and scores it, and the sweep   *)
(* that looks after the flash windows.  Commands run in the API, a worker, *)
(* the bot and the CLI; none of them locks, so each statement is a step.   *)
(*                                                                         *)
(* Listings meet only in the figures the score is made of: the verdict is  *)
(* open.  Prices are left out, but for there being one that was agreed.    *)
(***************************************************************************)
EXTENDS Naturals, Sequences

CONSTANTS
  Operators,   \* processes and threads that run the user's commands
  Sweepers,    \* those that run expire_stale, every 30 minutes
  Scanners,    \* those that run scan, every 6 hours
  Platforms,   \* resale marketplaces
  Tiers,       \* len(price_drop_tiers)
  CrashBudget  \* bound: processes that die in the middle of a command

Processes == Operators \cup Sweepers \cup Scanners

ASSUME BrokerAssumption == Tiers \in Nat /\ CrashBudget \in Nat

States == {"DISCOVERED", "SCORING", "NEGOTIATING", "LISTED", "BUYER_FOUND", "PURCHASE_GATE",
           "PURCHASED", "DELIVERED", "EXPIRED", "REJECTED"}
Unknown == "unknown"  \* the listing has no row in pipeline_state

Transitions ==
  [s \in States |->
     CASE s = "DISCOVERED"    -> {"SCORING", "REJECTED"}
       [] s = "SCORING"       -> {"NEGOTIATING", "REJECTED"}
       [] s = "NEGOTIATING"   -> {"LISTED", "REJECTED", "EXPIRED"}
       [] s = "LISTED"        -> {"BUYER_FOUND", "EXPIRED", "REJECTED"}
       [] s = "BUYER_FOUND"   -> {"PURCHASE_GATE", "EXPIRED"}
       [] s = "PURCHASE_GATE" -> {"PURCHASED", "REJECTED", "EXPIRED"}
       [] s = "PURCHASED"     -> {"DELIVERED"}
       [] OTHER               -> {}]

VARIABLES
  listed,   \* the listing has a row in listings
  state,    \* its state in pipeline_state
  agreed,   \* a negotiation thread has an agreed price
  resale,   \* per platform: the status of its resale listing; "lapsed" is active, and
            \* beyond its flash deadline
  tier,     \* per platform: how often its price was dropped
  buyers,   \* the platforms of the committed buyers, in order of committed_at
  gate,     \* purchase_gate_checks has an approved row
  ledger,   \* the status of its position in margin_ledger
  run,      \* per process: the command it runs, the statement it comes to, the state
            \* _transition is to reach, the platforms whose rows are still to be written
  crashes,  \* what is left of CrashBudget
  overlap   \* history: two commands were under way at once

flip    == <<listed, state, agreed, gate, ledger>>
market  == <<resale, tier, buyers>>
history == <<crashes, overlap>>
vars    == <<flip, market, run, history>>

-----------------------------------------------------------------------------
Labels   == {"idle", "ingest", "pending", "check", "write", "post", "open", "buyer", "delist",
             "gate", "close", "committed", "active", "drop", "expire", "withdraw", "mark"}
Commands == {"none", "scan", "list_item", "buyer_found", "purchase_gate", "confirm_purchase",
             "mark_delivered", "expire_stale", "reject_flip"}

Resting == [cmd |-> "none", at |-> "idle", goal |-> "none", rows |-> {}]
Run     == [cmd : Commands, at : Labels, goal : States \cup {"none"}, rows : SUBSET Platforms]

Active  == {q \in Platforms : resale[q] \in {"active", "lapsed"}}
Lapsed  == {q \in Platforms : resale[q] = "lapsed"}
Idle(p) == run[p] = Resting
At(p, label) == run[p].at = label

(* A command begins, with its first statement. *)
Start(p, cmd, label, to, rows) ==
  /\ Idle(p)
  /\ run' = [run EXCEPT ![p] = [cmd |-> cmd, at |-> label, goal |-> to, rows |-> rows]]
  /\ overlap' = (overlap \/ \E r \in Processes \ {p} : ~Idle(r))

(* It goes on at another one, with a state to reach and rows to write, or it ends. *)
Proceed(p, label, to, rows) ==
  run' = [run EXCEPT ![p] = IF label = "idle" THEN Resting
                            ELSE [@ EXCEPT !.at = label, !.goal = to, !.rows = rows]]
Goto(p, label) == Proceed(p, label, run[p].goal, run[p].rows)
Check(p, to)   == Proceed(p, "check", to, {})
End(p)         == Goto(p, "idle")

(* The statement at label for q's row; after the last row the command goes on at next. *)
WriteRow(p, label, q, next) ==
  /\ At(p, label) /\ q \in run[p].rows
  /\ Proceed(p, IF run[p].rows = {q} THEN next ELSE label, run[p].goal, run[p].rows \ {q})

Init ==
  /\ listed = FALSE /\ state = Unknown
  /\ agreed = FALSE /\ gate = FALSE
  /\ resale = [q \in Platforms |-> "none"]
  /\ tier = [q \in Platforms |-> 0]
  /\ buyers = << >>
  /\ ledger = "none"
  /\ run = [p \in Processes |-> Resting]
  /\ crashes = CrashBudget
  /\ overlap = FALSE

-----------------------------------------------------------------------------
(* _transition *)

(* A listing without a state is refused too. *)
Legal(to) == state # Unknown /\ to \in Transitions[state]

(***************************************************************************)
(* After _transition: the scan goes on to its verdict, buyer_found to the  *)
(* gate and list_item to its ledger, whether it was granted or not, and so *)
(* does the sweep; reject_flip only when it was.                           *)
(***************************************************************************)
Continue(p, granted) ==
  LET goal == run[p].goal
      abandoned == run[p].cmd = "reject_flip" /\ granted
  IN \/ goal = "SCORING" /\ \E verdict \in {"NEGOTIATING", "REJECTED"} : Check(p, verdict)
     \/ goal = "BUYER_FOUND" /\ Check(p, "PURCHASE_GATE")
     \/ goal = "LISTED" /\ Goto(p, "open")
     \/ goal = "EXPIRED" /\ Goto(p, "mark")
     \/ goal = "REJECTED" /\ abandoned /\ Goto(p, "active")
     \/ goal = "REJECTED" /\ ~abandoned /\ End(p)
     \/ goal \in {"NEGOTIATING", "PURCHASE_GATE", "PURCHASED", "DELIVERED"} /\ End(p)

(* get_state, and what the table of transitions says of it. *)
Grant(p) ==
  /\ At(p, "check") /\ Legal(run[p].goal)
  /\ Goto(p, "write")
  /\ UNCHANGED <<flip, market, history>>

Refuse(p) ==
  /\ At(p, "check") /\ ~Legal(run[p].goal)
  /\ Continue(p, FALSE)
  /\ UNCHANGED <<flip, market, history>>

(* set_state, whatever the state has become since. *)
SetState(p) ==
  /\ At(p, "write")
  /\ state' = run[p].goal
  /\ Continue(p, TRUE)
  /\ UNCHANGED <<listed, agreed, gate, ledger, market, history>>

-----------------------------------------------------------------------------
(* scan *)

(* upsert_listing: the INSERT of a listing not seen before, once only. *)
ScanNew(p) ==
  /\ ~listed /\ Start(p, "scan", "ingest", "none", {})
  /\ listed' = TRUE
  /\ UNCHANGED <<state, agreed, gate, ledger, market, crashes>>

Ingest(p) ==
  /\ At(p, "ingest")
  /\ state' = "DISCOVERED"
  /\ Goto(p, "pending")
  /\ UNCHANGED <<listed, agreed, gate, ledger, market, history>>

(* _score_pending: what is DISCOVERED by now goes on to SCORING. *)
ScorePending(p) ==
  /\ At(p, "pending")
  /\ IF state = "DISCOVERED" THEN Check(p, "SCORING") ELSE End(p)
  /\ UNCHANGED <<flip, market, history>>

(* A scan that brings nothing new. *)
ScanAgain(p) ==
  /\ state = "DISCOVERED" /\ Start(p, "scan", "check", "SCORING", {})
  /\ UNCHANGED <<flip, market, crashes>>

-----------------------------------------------------------------------------
(* The user's commands.  A command that refuses at once changes nothing. *)

(***************************************************************************)
(* record_agreement, with or without a thread drafted before: the row it   *)
(* may insert first says nothing until it has its price.                   *)
(***************************************************************************)
RecordAgreement(p) ==
  /\ Idle(p) /\ listed /\ agreed' = TRUE
  /\ UNCHANGED <<listed, state, gate, ledger, market, run, history>>

(* list_item, on one platform or on all, once a price is agreed. *)
ListItem(p, platforms) ==
  /\ listed /\ agreed /\ Start(p, "list_item", "post", "LISTED", platforms)
  /\ UNCHANGED <<flip, market, crashes>>

(* add_resale_listing: a row there is becomes active again, and keeps its tier. *)
Post(p, q) ==
  /\ WriteRow(p, "post", q, "check")
  /\ resale' = [resale EXCEPT ![q] = "active"]
  /\ UNCHANGED <<flip, tier, buyers, history>>

(* A mutant of the next definition: a position that was closed is opened again. *)
ReopenPosition(p) ==
  /\ At(p, "open") /\ End(p)
  /\ ledger' = "open"
  /\ UNCHANGED <<listed, state, agreed, gate, market, history>>

(* open_position: a position there is keeps its status. *)
OpenPosition(p) ==
  /\ At(p, "open") /\ End(p)
  /\ ledger' = IF ledger = "none" THEN "open" ELSE ledger
  /\ UNCHANGED <<listed, state, agreed, gate, market, history>>

(* buyer_found, of a buyer who committed or paid: refused when there is one. *)
BuyerFound(p, q) ==
  /\ listed /\ buyers = << >> /\ Start(p, "buyer_found", "buyer", "none", {q})
  /\ UNCHANGED <<flip, market, crashes>>

(* add_buyer, with the clock of the INSERT. *)
AddBuyer(p, q) ==
  /\ At(p, "buyer") /\ q \in run[p].rows /\ Goto(p, "delist")
  /\ buyers' = Append(buyers, q)
  /\ UNCHANGED <<flip, resale, tier, history>>

(* delist_others: one UPDATE of what is active elsewhere. *)
DelistOthers(p) ==
  /\ At(p, "delist") /\ Check(p, "BUYER_FOUND")
  /\ resale' = [q \in Platforms |-> IF q \in Active \ run[p].rows THEN "delisted" ELSE resale[q]]
  /\ UNCHANGED <<flip, tier, buyers, history>>

(* purchase_gate, when nothing blocks it: the user confirms and approves in the command. *)
PurchaseGate(p) ==
  /\ listed /\ buyers # << >> /\ agreed /\ Start(p, "purchase_gate", "gate", "none", {})
  /\ UNCHANGED <<flip, market, crashes>>

LogGateCheck(p) ==
  /\ At(p, "gate") /\ Goto(p, "close")
  /\ gate' = TRUE
  /\ UNCHANGED <<listed, state, agreed, ledger, market, history>>

ClosePosition(p) ==
  /\ At(p, "close") /\ End(p)
  /\ ledger' = IF ledger = "none" THEN "none" ELSE "closed"
  /\ UNCHANGED <<listed, state, agreed, gate, market, history>>

(* A mutant of the next definition: the state alone decides. *)
ConfirmUngated(p) ==
  /\ listed /\ Start(p, "confirm_purchase", "check", "PURCHASED", {})
  /\ UNCHANGED <<flip, market, crashes>>

(* has_passing_gate, before the transition. *)
ConfirmPurchase(p) ==
  /\ gate /\ Start(p, "confirm_purchase", "check", "PURCHASED", {})
  /\ UNCHANGED <<flip, market, crashes>>

MarkDelivered(p) ==
  /\ listed /\ Start(p, "mark_delivered", "check", "DELIVERED", {})
  /\ UNCHANGED <<flip, market, crashes>>

RejectFlip(p) ==
  /\ listed /\ Start(p, "reject_flip", "check", "REJECTED", {})
  /\ UNCHANGED <<flip, market, crashes>>

-----------------------------------------------------------------------------
(* expire_stale, and the end of a flip *)

(***************************************************************************)
(* Deadlines pass, two days after the posting: no command takes so long.   *)
(* The sweep treats the rows of a listing alike as soon as one has lapsed, *)
(* so it makes no difference which lapse first.                            *)
(***************************************************************************)
Lapse ==
  /\ \A p \in Processes : Idle(p)
  /\ Active # Lapsed
  /\ resale' = [q \in Platforms |-> IF q \in Active THEN "lapsed" ELSE resale[q]]
  /\ UNCHANGED <<flip, tier, buyers, run, history>>

(* listings_with_expiring_windows *)
ExpireStale(p) ==
  /\ Lapsed # {} /\ Start(p, "expire_stale", "committed", "EXPIRED", {})
  /\ UNCHANGED <<flip, market, crashes>>

(* committed_buyer: "a buyer exists; not a stall". *)
SeeBuyer(p) ==
  /\ At(p, "committed")
  /\ IF buyers = << >> THEN Goto(p, "active") ELSE End(p)
  /\ UNCHANGED <<flip, market, history>>

(* resale_listings: the rows that are active now, and their lowest tier. *)
SweepRows(p) ==
  /\ At(p, "active") /\ run[p].cmd = "expire_stale"
  /\ \/ Active = {} /\ End(p)
     \/ (\E q \in Active : tier[q] < Tiers) /\ Proceed(p, "drop", "EXPIRED", Active)
     \/ Active # {} /\ (\A q \in Active : tier[q] >= Tiers) /\ Proceed(p, "expire", "EXPIRED", Active)
  /\ UNCHANGED <<flip, market, history>>

RejectRows(p) ==
  /\ At(p, "active") /\ run[p].cmd = "reject_flip"
  /\ Proceed(p, IF Active = {} THEN "mark" ELSE "withdraw", "REJECTED", Active)
  /\ UNCHANGED <<flip, market, history>>

(* A mutant of the next definition: the price drops, the tier and the deadline stay. *)
DropPrice(p, q) ==
  /\ WriteRow(p, "drop", q, "idle")
  /\ UNCHANGED <<flip, market, history>>

(* drop_resale_tier: a lower price, with a new deadline, whatever the row's status. *)
DropTier(p, q) ==
  /\ WriteRow(p, "drop", q, "idle")
  /\ tier' = [tier EXCEPT ![q] = @ + 1]
  /\ resale' = [resale EXCEPT ![q] = IF @ = "lapsed" THEN "active" ELSE @]
  /\ UNCHANGED <<flip, buyers, history>>

(* set_resale_status, by id: of a sweep that has no tier left, or of reject_flip. *)
ExpireRow(p, q) ==
  /\ WriteRow(p, "expire", q, "check")
  /\ resale' = [resale EXCEPT ![q] = "expired"]
  /\ UNCHANGED <<flip, tier, buyers, history>>

Withdraw(p, q) ==
  /\ WriteRow(p, "withdraw", q, "mark")
  /\ resale' = [resale EXCEPT ![q] = "delisted"]
  /\ UNCHANGED <<flip, tier, buyers, history>>

(* mark_position: only a position that is open changes. *)
MarkPosition(p) ==
  /\ At(p, "mark") /\ End(p)
  /\ ledger' = IF ledger # "open" THEN ledger
               ELSE IF run[p].cmd = "reject_flip" THEN "rejected" ELSE "expired"
  /\ UNCHANGED <<listed, state, agreed, gate, market, history>>

-----------------------------------------------------------------------------
Crash(p) ==
  /\ ~Idle(p) /\ crashes > 0
  /\ crashes' = crashes - 1
  /\ End(p)
  /\ UNCHANGED <<flip, market, overlap>>

Scan(p) == ScanNew(p) \/ ScanAgain(p)

Command(p) ==
  \/ RecordAgreement(p)
  \/ \E platforms \in {Platforms} \cup {{q} : q \in Platforms} : ListItem(p, platforms)
  \/ \E q \in Platforms : BuyerFound(p, q)
  \/ PurchaseGate(p) \/ ConfirmPurchase(p) \/ MarkDelivered(p) \/ RejectFlip(p)

(* The next statement of the command that p runs. *)
Step(p) ==
  \/ Grant(p) \/ Refuse(p) \/ SetState(p) \/ Ingest(p) \/ ScorePending(p)
  \/ OpenPosition(p) \/ DelistOthers(p) \/ LogGateCheck(p) \/ ClosePosition(p)
  \/ SeeBuyer(p) \/ SweepRows(p) \/ RejectRows(p) \/ MarkPosition(p)
  \/ \E q \in Platforms :
       AddBuyer(p, q) \/ Post(p, q) \/ DropTier(p, q) \/ ExpireRow(p, q) \/ Withdraw(p, q)

Next ==
  \/ \E p \in Operators : Command(p)
  \/ \E p \in Scanners : Scan(p)
  \/ \E p \in Sweepers : ExpireStale(p)
  \/ \E p \in Processes : Step(p) \/ Crash(p)
  \/ Lapse

Spec == Init /\ [][Next]_vars

(* What has begun goes on, and the scheduler starts the scan and the sweep. *)
FairSpec ==
  /\ Spec
  /\ \A p \in Processes : WF_vars(Step(p))
  /\ \A p \in Scanners : WF_vars(Scan(p))
  /\ \A p \in Sweepers : WF_vars(ExpireStale(p))

-----------------------------------------------------------------------------
(* Properties *)

(* Every variable holds a value of its kind. *)
TypeOK ==
  /\ listed \in BOOLEAN /\ agreed \in BOOLEAN /\ gate \in BOOLEAN
  /\ state \in States \cup {Unknown}
  /\ resale \in [Platforms -> {"none", "active", "lapsed", "delisted", "expired"}]
  /\ tier \in [Platforms -> Nat]
  /\ buyers \in Seq(Platforms)
  /\ ledger \in {"none", "open", "closed", "expired", "rejected"}
  /\ run \in [Processes -> Run]
  /\ crashes \in Nat /\ overlap \in BOOLEAN

(***************************************************************************)
(* "purchase is impossible without an approved gate" and "a buyer never    *)
(* pays against inventory that isn't locked in" (tests/test_deal_broker):  *)
(* a flip is bought only with an approved gate check on record, a          *)
(* committed buyer and an agreed price, whatever commands overlap or die.  *)
(***************************************************************************)
PurchaseGated ==
  state \in {"PURCHASED", "DELIVERED"} => gate /\ agreed /\ buyers # << >>

(***************************************************************************)
(* "FIRST-COMMITTED-BUYER WINS (hard rule)" and "counts toward the true    *)
(* hit rate": as long as no two commands overlap, one item has at most one *)
(* committed buyer, and the position of a flip that has expired is not     *)
(* open -- also when it is listed again -- once its command is over,       *)
(* unless a command died.                                                  *)
(***************************************************************************)
SoundInTurn ==
  ~overlap =>
    /\ Len(buyers) <= 1
    /\ state = "EXPIRED" /\ (\A p \in Processes : Idle(p)) /\ crashes = CrashBudget
       => ledger \in {"expired", "closed"}

(***************************************************************************)
(* The flash window is no dead end: what is active beyond its deadline is  *)
(* renewed at a lower price, taken down, or has a buyer.                   *)
(***************************************************************************)
LapsedWindowsHandled ==
  \A q \in Platforms :
    q \in Lapsed ~> q \notin Lapsed \/ buyers # << >>

=============================================================================
