----------------------------- MODULE JobsProofs -----------------------------
(***************************************************************************)
(* What holds of the hunt for jobs for every value of the constants: its   *)
(* rows are typed, what was closed stays closed, and the table of          *)
(* applications tells what companies got.                                  *)
(***************************************************************************)
EXTENDS Jobs, FiniteSetTheorems, SequenceTheorems, WellFoundedInduction, TLAPS

-----------------------------------------------------------------------------
(* The invariants *)

JobRows  == [status : Statuses \cup {"absent"}, score : 0..MaxScore, fresh : BOOLEAN,
             window : Windows, cover : BOOLEAN, variant : {"none", "ready"}]
AppRows  == [rows : Nat, state : {"none", "applied", "tracked", "replied", "interview"}]
Hunters  == [pc : {"idle", "sight", "sift", "scoring"}, unseen : SUBSET Postings,
             at : Postings \cup {0}, found : Seq(Postings), keepers : SUBSET Postings]
Scorers  == [pc : {"idle", "score", "skip", "draft"}, at : Postings \cup {0}]
Sweepers == [pc : {"idle", "retire", "cap"}, due : SUBSET Postings, done : SUBSET Postings]
Taps     == [pc : {"idle", "tailor", "apply", "record", "settle"}, at : Postings \cup {0}]

(* The postings, and those who look for them and score them. *)
HuntTyped ==
  /\ jobs \in [Postings -> JobRows]
  /\ hunter \in Hunters /\ (hunter.pc = "sift" => hunter.at \in Postings)
  /\ scorer \in [{"hunt", "worker"} -> Scorers]
  /\ \A p \in {"hunt", "worker"} : scorer[p].pc # "idle" => scorer[p].at \in Postings
  /\ scoreRows \in [Postings -> {"none", "queued", "running"}]
  /\ sweeper \in Sweepers

(* The applications, and those who send them. *)
FrontTyped ==
  /\ apps \in [Postings -> AppRows]
  /\ front \in [Fronts -> Taps]
  /\ \A f \in Fronts : front[f].pc # "idle" => front[f].at \in Postings
  /\ mailed \in [Postings -> Nat]
  /\ taps \in 0..MaxTaps /\ faults \in Nat

(* The watch for what companies answer. *)
WatchTyped ==
  /\ told \subseteq replies /\ replies \subseteq Postings \X Labels
  /\ checker.becomes \in {"none", "replied", "interview"}

Typed == HuntTyped /\ FrontTyped /\ WatchTyped

(* What was closed is in nobody's hand, and nobody takes it up again: a hunt   *)
(* sights only postings that have no row, a worker scores only new ones.       *)
ClosedInv == \A j \in closed : /\ j \in Postings /\ jobs[j].status \in Resolved
                               /\ ~InHand(j)

(* An approval that is about to settle has its row. *)
SettleInv == \A f \in Fronts : front[f].pc = "settle" => apps[front[f].at].rows > 0

(* The mails on their way from the company's inbox to the table. *)
Between(j) == {f \in Fronts : front[f] = [pc |-> "record", at |-> j]}
MailInv ==
  \A j \in Postings : RouteOf[j] = "email" =>
    /\ apps[j].rows + Cardinality(Between(j)) <= mailed[j]
    /\ mailed[j] <= apps[j].rows + Cardinality(Between(j)) + faults

AppliedInv == \A j \in Postings : jobs[j].status = "applied" => apps[j].rows > 0

AllInv == Typed /\ ClosedInv /\ SettleInv /\ MailInv /\ AppliedInv

-----------------------------------------------------------------------------
(* Small facts *)

(* Some postings have a least, which is what Least chooses. *)
LEMMA LeastIsOne ==
  ASSUME NEW S \in SUBSET Postings, S # {}
  PROVE  Least(S) \in S
  <1>1. S \subseteq Nat
    BY JobsAssumption
  <1>2. PICK j \in S : \A k \in S : <<k, j>> \notin OpToRel(<, Nat)
    BY <1>1, NatLessThanWellFounded, WFMin
  <1>3. \A k \in S : ~(k < j)
    BY <1>1, <1>2 DEF OpToRel
  <1>4. \A k \in S : j <= k
    BY <1>1, <1>3
  <1> QED BY <1>4 DEF Least

(* A row whose status, score, window, letter or CV is replaced is a row, and   *)
(* keeps the rest.                                                             *)
LEMMA RowsStay ==
  ASSUME NEW r \in JobRows
  PROVE  /\ \A x \in Statuses :
              [r EXCEPT !.status = x] \in JobRows /\ [r EXCEPT !.status = x].status = x
         /\ \A x \in Windows :
              [r EXCEPT !.window = x] \in JobRows /\ [r EXCEPT !.window = x].status = r.status
         /\ \A x \in {"none", "ready"} :
              [r EXCEPT !.variant = x] \in JobRows /\ [r EXCEPT !.variant = x].status = r.status
         /\ \A x \in 0..MaxScore :
              [r EXCEPT !.score = x] \in JobRows /\ [r EXCEPT !.score = x].status = r.status
         /\ [r EXCEPT !.fresh = FALSE] \in JobRows /\ [r EXCEPT !.fresh = FALSE].status = r.status
         /\ [r EXCEPT !.cover = TRUE] \in JobRows /\ [r EXCEPT !.cover = TRUE].status = r.status
  <1>1. \A x \in Statuses :
         [r EXCEPT !.status = x] \in JobRows /\ [r EXCEPT !.status = x].status = x
    BY DEF JobRows
  <1>2. \A x \in Windows :
         [r EXCEPT !.window = x] \in JobRows /\ [r EXCEPT !.window = x].status = r.status
    BY DEF JobRows
  <1>3. \A x \in {"none", "ready"} :
         [r EXCEPT !.variant = x] \in JobRows /\ [r EXCEPT !.variant = x].status = r.status
    BY DEF JobRows
  <1>4. \A x \in 0..MaxScore :
         [r EXCEPT !.score = x] \in JobRows /\ [r EXCEPT !.score = x].status = r.status
    BY DEF JobRows
  <1>5. [r EXCEPT !.fresh = FALSE] \in JobRows /\ [r EXCEPT !.fresh = FALSE].status = r.status
    BY DEF JobRows
  <1>6. [r EXCEPT !.cover = TRUE] \in JobRows /\ [r EXCEPT !.cover = TRUE].status = r.status
    BY DEF JobRows
  <1> QED BY <1>1, <1>2, <1>3, <1>4, <1>5, <1>6

(* The row of j gets the status st, and the other rows stay. *)
Becomes(j, st) ==
  /\ jobs' \in [Postings -> JobRows] /\ jobs'[j].status = st
  /\ \A k \in Postings \ {j} : jobs'[k] = jobs[k]

(* A status that is set. *)
LEMMA SetStatusDoes ==
  ASSUME NEW j \in Postings, NEW s \in Statuses, jobs \in [Postings -> JobRows], SetStatus(j, s)
  PROVE  Becomes(j, s)
  <1> DEFINE r == [jobs[j] EXCEPT !.status = s]
  <1>1. r \in JobRows /\ r.status = s
    BY RowsStay
  <1>2. jobs' = [jobs EXCEPT ![j] = r]
    BY DEF SetStatus
  <1> HIDE DEF r
  <1> QED BY <1>1, <1>2 DEF Becomes

(* A window, a CV or an age that is set leaves the status. *)
LEMMA SetWindowDoes ==
  ASSUME NEW j \in Postings, NEW w \in Windows, jobs \in [Postings -> JobRows],
         jobs' = [jobs EXCEPT ![j].window = w]
  PROVE  Becomes(j, jobs[j].status)
  <1> DEFINE r == [jobs[j] EXCEPT !.window = w]
  <1>1. r \in JobRows /\ r.status = jobs[j].status
    BY RowsStay
  <1>2. jobs' = [jobs EXCEPT ![j] = r]
    OBVIOUS
  <1> HIDE DEF r
  <1> QED BY <1>1, <1>2 DEF Becomes

LEMMA SetVariantDoes ==
  ASSUME NEW j \in Postings, NEW v \in Tailored(jobs[j].variant), jobs \in [Postings -> JobRows],
         jobs' = [jobs EXCEPT ![j].variant = v]
  PROVE  Becomes(j, jobs[j].status)
  <1> DEFINE r == [jobs[j] EXCEPT !.variant = v]
  <1>0. jobs[j] \in JobRows /\ v \in {"none", "ready"}
    BY DEF Tailored, JobRows
  <1>1. r \in JobRows /\ r.status = jobs[j].status
    BY <1>0, RowsStay
  <1>2. jobs' = [jobs EXCEPT ![j] = r]
    OBVIOUS
  <1> HIDE DEF r
  <1> QED BY <1>1, <1>2 DEF Becomes

LEMMA PassDoes ==
  ASSUME NEW j \in Postings, jobs \in [Postings -> JobRows], Pass(j)
  PROVE  Becomes(j, jobs[j].status)
  <1>1. CASE jobs' = [jobs EXCEPT ![j].window = "shut"]
    BY <1>1, SetWindowDoes DEF Windows
  <1>2. CASE jobs' = [jobs EXCEPT ![j].fresh = FALSE]
    <2> DEFINE r == [jobs[j] EXCEPT !.fresh = FALSE]
    <2>1. r \in JobRows /\ r.status = jobs[j].status
      BY RowsStay
    <2>2. jobs' = [jobs EXCEPT ![j] = r]
      BY <1>2
    <2> HIDE DEF r
    <2> QED BY <2>1, <2>2 DEF Becomes
  <1> QED BY <1>1, <1>2 DEF Pass

(* A score, and a letter, each with the status that goes with it. *)
LEMMA ScoreDoes ==
  ASSUME NEW j \in Postings, NEW n \in 0..MaxScore, jobs \in [Postings -> JobRows],
         jobs' = [jobs EXCEPT ![j].status = "scored", ![j].score = n]
  PROVE  Becomes(j, "scored")
  <1> DEFINE r == [jobs[j] EXCEPT !.status = "scored", !.score = n]
  <1>1. jobs[j] \in JobRows
    OBVIOUS
  <1>2. r \in JobRows /\ r.status = "scored"
    BY <1>1 DEF JobRows, Statuses, Pending
  <1>3. jobs' = [jobs EXCEPT ![j] = r]
    OBVIOUS
  <1> HIDE DEF r
  <1> QED BY <1>2, <1>3 DEF Becomes

LEMMA SaveCoverDoes ==
  ASSUME NEW p, scorer[p].at \in Postings, jobs \in [Postings -> JobRows], SaveCover(p)
  PROVE  Becomes(scorer[p].at, "drafted")
  <1> DEFINE j == scorer[p].at
  <1>0. PICK w \in Enriched(jobs[j].window) :
           jobs' = [jobs EXCEPT ![j] = [@ EXCEPT !.status = "drafted", !.window = w,
                                                 !.cover = HasCover, !.variant = "none"]]
    BY DEF SaveCover
  <1> HIDE DEF j
  <1>j. j \in Postings
    BY DEF j
  <1>w. w \in Windows
    BY <1>j DEF Enriched, Window, JobRows, Windows
  <1> DEFINE r == [jobs[j] EXCEPT !.status = "drafted", !.window = w, !.cover = HasCover,
                                  !.variant = "none"]
  <1>1. jobs[j] \in JobRows
    BY <1>j
  <1>2. r \in JobRows /\ r.status = "drafted"
    BY <1>1, <1>w DEF JobRows, Statuses, Pending, HasCover
  <1>3. jobs' = [jobs EXCEPT ![j] = r]
    BY <1>0
  <1> HIDE DEF r
  <1>7. Becomes(j, "drafted")
    BY <1>2, <1>3, <1>j DEF Becomes
  <1> QED BY <1>7 DEF j

(* What a hunt takes from either end of its list was on it, and so is the rest. *)
LEMMA FoundShrinks ==
  ASSUME NEW s \in Seq(Postings), s # << >>
  PROVE  /\ Head(s) \in Postings /\ Tail(s) \in Seq(Postings)
         /\ \E k \in DOMAIN s : s[k] = Head(s)
         /\ \A i \in DOMAIN Tail(s) : \E k \in DOMAIN s : s[k] = Tail(s)[i]
         /\ s[Len(s)] \in Postings
         /\ LET t == SubSeq(s, 1, Len(s) - 1) IN
            t \in Seq(Postings) /\ \A i \in DOMAIN t : \E k \in DOMAIN s : s[k] = t[i]
  <1>1. Len(s) \in Nat \ {0} /\ DOMAIN s = 1..Len(s) /\ \A i \in 1..Len(s) : s[i] \in Postings
    BY LenProperties, EmptySeq, ElementOfSeq
  <1>2. /\ Head(s) = s[1] /\ Tail(s) \in Seq(Postings) /\ Len(Tail(s)) = Len(s) - 1
        /\ \A i \in 1..Len(Tail(s)) : Tail(s)[i] = s[i + 1]
    BY <1>1, HeadTailProperties
  <1>3. DOMAIN Tail(s) = 1..(Len(s) - 1)
    BY <1>2, LenProperties
  <1>4. \A i \in DOMAIN Tail(s) : i + 1 \in DOMAIN s /\ Tail(s)[i] = s[i + 1]
    BY <1>1, <1>2, <1>3
  <1> DEFINE t == SubSeq(s, 1, Len(s) - 1)
  <1>5. /\ t \in Seq(Postings) /\ Len(t) = Len(s) - 1
        /\ \A i \in 1..(Len(s) - 1) : t[i] = s[i]
    <2>1. \A i \in 1..(Len(s) - 1) : s[i] \in Postings
      BY <1>1
    <2>2. 1 \in Int /\ Len(s) - 1 \in Int
      BY <1>1
    <2>3. /\ t \in Seq(Postings) /\ Len(t) = IF 1 <= Len(s) - 1 THEN Len(s) - 1 - 1 + 1 ELSE 0
          /\ \A i \in 1..(Len(s) - 1 - 1 + 1) : t[i] = s[1 + i - 1]
      BY <2>1, <2>2, SubSeqProperties
    <2> HIDE DEF t
    <2>4. Len(t) = Len(s) - 1
      <3> DEFINE n == Len(s)
      <3>1. n \in Nat /\ n >= 1
        BY <1>1
      <3>2. Len(t) = IF 1 <= n - 1 THEN n - 1 - 1 + 1 ELSE 0
        BY <2>3
      <3> HIDE DEF n
      <3>3. Len(t) = n - 1
        BY <3>1, <3>2
      <3> QED BY <3>3 DEF n
    <2>5. \A i \in 1..(Len(s) - 1) : t[i] = s[i]
      <3>1. \A i \in 1..(Len(s) - 1) : i \in 1..(Len(s) - 1 - 1 + 1) /\ 1 + i - 1 = i
        BY <1>1
      <3> QED BY <2>3, <3>1
    <2> QED BY <2>3, <2>4, <2>5
  <1> HIDE DEF t
  <1>6. DOMAIN t = 1..(Len(s) - 1)
    BY <1>5, LenProperties
  <1>7. \A i \in DOMAIN t : i \in DOMAIN s /\ t[i] = s[i]
    BY <1>1, <1>5, <1>6
  <1>8. t \in Seq(Postings) /\ \A i \in DOMAIN t : \E k \in DOMAIN s : s[k] = t[i]
    BY <1>5, <1>7
  <1>9. Head(s) \in Postings /\ 1 \in DOMAIN s /\ s[Len(s)] \in Postings
    BY <1>1, <1>2
  <1> QED BY <1>2, <1>4, <1>8, <1>9 DEF t

-----------------------------------------------------------------------------
(* The hunt, the workers and the retirement *)

HunterHas(j) == \/ j \in {hunter.at} \cup hunter.keepers
                \/ \E i \in DOMAIN hunter.found : hunter.found[i] = j
ScorerHas(j) == \E p \in {"hunt", "worker"} : scorer[p].pc # "idle" /\ scorer[p].at = j

(* Who may have a posting in hand. *)
LEMMA InHandIs ==
  ASSUME HuntTyped
  PROVE  \A j : InHand(j) <=> HunterHas(j) \/ ScorerHas(j)
  <1>1. DOMAIN scorer = {"hunt", "worker"}
    BY DEF HuntTyped
  <1> QED BY <1>1 DEF InHand, HunterHas, ScorerHas

(* What is closed stays resolved and out of everybody's hands, and nothing is  *)
(* said to be applied for that was not.                                        *)
Kept        == \A j \in closed : jobs'[j].status \in Resolved /\ ~InHand(j)'
NoneApplied == \A j \in Postings : jobs'[j].status = "applied" => jobs[j].status = "applied"

(* One row changes its status, if at all: to resolved, or of a posting that is *)
(* not closed.                                                                 *)
Careful ==
  \/ jobs' = jobs
  \/ \E k \in Postings, s \in Statuses \cup {"absent"} :
       /\ Becomes(k, s)
       /\ s # "applied" \/ s = jobs[k].status
       /\ s \in Resolved \/ s = jobs[k].status \/ k \notin closed

LEMMA CarefulKeeps ==
  ASSUME HuntTyped, HuntTyped', ClosedInv, Careful,
         \A j \in closed : HunterHas(j)' \/ ScorerHas(j)' => InHand(j)
  PROVE  Kept /\ NoneApplied
  <1>1. \A j \in closed : ~InHand(j)'
    <2>1. \A j : InHand(j)' <=> HunterHas(j)' \/ ScorerHas(j)'
      <3>1. (DOMAIN scorer)' = {"hunt", "worker"}
        BY DEF HuntTyped
      <3> QED BY <3>1 DEF InHand, HunterHas, ScorerHas
    <2> QED BY <2>1 DEF ClosedInv
  <1>2. CASE jobs' = jobs
    BY <1>1, <1>2 DEF Kept, NoneApplied, ClosedInv
  <1>3. ASSUME NEW k \in Postings, NEW s \in Statuses \cup {"absent"}, Becomes(k, s),
               s # "applied" \/ s = jobs[k].status,
               s \in Resolved \/ s = jobs[k].status \/ k \notin closed
        PROVE  Kept /\ NoneApplied
    <2>1. jobs'[k].status = s /\ \A j \in Postings \ {k} : jobs'[j] = jobs[j]
      BY <1>3 DEF Becomes
    <2>2. NoneApplied
      BY <1>3, <2>1 DEF NoneApplied
    <2>3. Kept
      BY <1>1, <1>3, <2>1 DEF Kept, ClosedInv
    <2> QED BY <2>2, <2>3
  <1> QED BY <1>2, <1>3 DEF Careful

(* What is not resolved is not closed. *)
LEMMA OpenNotClosed ==
  ASSUME ClosedInv, NEW j, jobs[j].status \notin Resolved
  PROVE  j \notin closed
  BY DEF ClosedInv

(* The rows of the queue to score, a hunter and two scorers that are some. *)
LEMMA NoneOfThem ==
  /\ NoHunt \in Hunters /\ NoScore \in Scorers /\ NoSweep \in Sweepers
  /\ NoHunt.pc = "idle" /\ NoHunt.at = 0 /\ NoHunt.keepers = {} /\ NoHunt.found = << >>
  /\ NoScore.pc = "idle"
  BY EmptySeq DEF NoHunt, NoScore, NoSweep, Hunters, Scorers, Sweepers

HuntKeeps == HuntTyped' /\ Kept /\ NoneApplied

(* A hunt that starts has nothing in hand. *)
LEMMA HuntStartKeeps ==
  ASSUME HuntTyped, ClosedInv, HuntStart, UNCHANGED sweeper
  PROVE  HuntKeeps
  <1>0. 0 \notin closed
    BY JobsAssumption DEF ClosedInv
  <1>1. PICK fetched \in SUBSET Postings :
           hunter' = [NoHunt EXCEPT !.pc = "sight", !.unseen = fetched]
    BY DEF HuntStart
  <1>2. /\ hunter' \in Hunters /\ hunter'.pc = "sight" /\ hunter'.at = 0 /\ hunter'.keepers = {}
        /\ hunter'.found = << >>
    BY <1>1, NoneOfThem DEF Hunters
  <1>3. HuntTyped'
    BY <1>2 DEF HuntTyped, HuntStart
  <1>4. \A j \in closed : ~HunterHas(j)'
    BY <1>0, <1>2 DEF HunterHas
  <1>5. \A j \in closed : ScorerHas(j)' => InHand(j)
    BY InHandIs DEF HuntStart, ScorerHas
  <1>6. Careful
    BY DEF HuntStart, Careful
  <1> QED BY <1>3, <1>4, <1>5, <1>6, CarefulKeeps DEF HuntKeeps

(* Only a posting without a row is taken up. *)
LEMMA SightKeeps ==
  ASSUME HuntTyped, ClosedInv, Sight, UNCHANGED sweeper
  PROVE  HuntKeeps
  <1>t. /\ jobs \in [Postings -> JobRows] /\ hunter \in Hunters
        /\ hunter.unseen \in SUBSET Postings
    BY DEF HuntTyped, Hunters
  <1> DEFINE j == Least(hunter.unseen)
  <1>j. j \in Postings /\ hunter.pc = "sight" /\ UNCHANGED <<scoreRows, scorer>>
    BY <1>t, LeastIsOne DEF Sight
  <1>s. \A k \in closed : ScorerHas(k)' => InHand(k)
    BY <1>j, InHandIs DEF ScorerHas
  <1>1. CASE jobs[j].status = "absent"
    <2>1. /\ SetStatus(j, "new")
          /\ hunter' = [hunter EXCEPT !.pc = "sift", !.at = j, !.unseen = @ \ {j}]
      BY <1>1 DEF Sight
    <2>2. j \notin closed
      BY <1>1, OpenNotClosed DEF Resolved
    <2> HIDE DEF j
    <2>3. "new" \in Statuses /\ "new" # "applied"
      BY DEF Statuses, Pending
    <2>4. Becomes(j, "new")
      BY <1>t, <1>j, <2>1, <2>3, SetStatusDoes
    <2>5. Careful
      BY <1>j, <2>2, <2>3, <2>4 DEF Careful
    <2>6. /\ hunter' \in Hunters /\ hunter'.at = j /\ hunter'.found = hunter.found
          /\ hunter'.keepers = hunter.keepers
      BY <1>t, <1>j, <2>1 DEF Hunters
    <2>7. HuntTyped'
      BY <1>j, <2>4, <2>6 DEF HuntTyped, Becomes
    <2>8. \A k \in closed : HunterHas(k)' => InHand(k)
      BY <2>2, <2>6, InHandIs DEF HunterHas
    <2> QED BY <1>s, <2>5, <2>7, <2>8, CarefulKeeps DEF HuntKeeps
  <1>2. CASE jobs[j].status # "absent"
    <2>1. hunter' = [hunter EXCEPT !.unseen = @ \ {j}] /\ UNCHANGED jobs
      BY <1>2 DEF Sight
    <2> HIDE DEF j
    <2>2. /\ hunter' \in Hunters /\ hunter'.at = hunter.at /\ hunter'.found = hunter.found
          /\ hunter'.keepers = hunter.keepers /\ hunter'.pc = "sight"
      BY <1>t, <1>j, <2>1 DEF Hunters
    <2>3. HuntTyped'
      BY <1>j, <2>1, <2>2 DEF HuntTyped
    <2>4. \A k \in closed : HunterHas(k)' => InHand(k)
      BY <2>2, InHandIs DEF HunterHas
    <2> QED BY <1>s, <2>1, <2>3, <2>4, CarefulKeeps DEF HuntKeeps, Careful
  <1> QED BY <1>1, <1>2

(* A new row is skipped as a twin, or goes on the hunt's list. *)
LEMMA SiftKeeps ==
  ASSUME HuntTyped, ClosedInv, Sift, UNCHANGED sweeper
  PROVE  HuntKeeps
  <1>t. jobs \in [Postings -> JobRows] /\ hunter \in Hunters /\ hunter.found \in Seq(Postings)
    BY DEF HuntTyped, Hunters
  <1> DEFINE j == hunter.at
  <1>j. j \in Postings /\ UNCHANGED <<scoreRows, scorer>>
    BY DEF HuntTyped, Sift
  <1>s. \A k \in closed : ScorerHas(k)' => InHand(k)
    BY <1>j, InHandIs DEF ScorerHas
  <1>h. j \notin closed /\ 0 \notin closed
    BY InHandIs, JobsAssumption DEF ClosedInv, HunterHas
  <1>1. CASE DuplicateOf(j) # {}
    <2>1. SetStatus(j, "skipped") /\ hunter' = [hunter EXCEPT !.pc = "sight", !.at = 0]
      BY <1>1 DEF Sift
    <2> HIDE DEF j
    <2>2. "skipped" \in Statuses /\ "skipped" \in Resolved /\ "skipped" # "applied"
      BY DEF Statuses, Resolved
    <2>3. Becomes(j, "skipped")
      BY <1>t, <1>j, <2>1, <2>2, SetStatusDoes
    <2>4. Careful
      BY <1>j, <2>2, <2>3 DEF Careful
    <2>5. /\ hunter' \in Hunters /\ hunter'.pc = "sight" /\ hunter'.at = 0
          /\ hunter'.found = hunter.found /\ hunter'.keepers = hunter.keepers
      BY <1>t, <2>1 DEF Hunters
    <2>6. HuntTyped'
      BY <1>j, <2>3, <2>5 DEF HuntTyped, Becomes
    <2>7. \A k \in closed : HunterHas(k)' => InHand(k)
      BY <1>h, <2>5, InHandIs DEF HunterHas
    <2> QED BY <1>s, <2>4, <2>6, <2>7, CarefulKeeps DEF HuntKeeps
  <1>2. CASE DuplicateOf(j) = {}
    <2>1. PICK w \in Window("none") : jobs' = [jobs EXCEPT ![j].window = w]
      BY <1>2 DEF Sift
    <2>2. hunter' = [hunter EXCEPT !.pc = "sight", !.at = 0, !.found = Append(@, j)]
      BY <1>2 DEF Sift
    <2> HIDE DEF j
    <2>3. w \in Windows
      BY DEF Window, Windows
    <2>4. Becomes(j, jobs[j].status)
      BY <1>t, <1>j, <2>1, <2>3, SetWindowDoes
    <2>5. Careful
      BY <1>t, <1>j, <2>4 DEF Careful, JobRows
    <2> DEFINE longer == Append(hunter.found, j)
    <2>6. /\ longer \in Seq(Postings)
          /\ \A i \in DOMAIN longer :
               longer[i] = j \/ \E k \in DOMAIN hunter.found : hunter.found[k] = longer[i]
      <3>1. /\ longer \in Seq(Postings) /\ Len(longer) = Len(hunter.found) + 1
            /\ \A i \in 1..Len(hunter.found) : longer[i] = hunter.found[i]
            /\ longer[Len(hunter.found) + 1] = j
        BY <1>t, <1>j, AppendProperties
      <3> HIDE DEF longer
      <3>2. /\ DOMAIN longer = 1..(Len(hunter.found) + 1) /\ Len(hunter.found) \in Nat
            /\ DOMAIN hunter.found = 1..Len(hunter.found)
        BY <1>t, <3>1, LenProperties
      <3> QED BY <3>1, <3>2
    <2> HIDE DEF longer
    <2>7. /\ hunter' \in Hunters /\ hunter'.pc = "sight" /\ hunter'.at = 0
          /\ hunter'.found = longer /\ hunter'.keepers = hunter.keepers
      BY <1>t, <2>2, <2>6 DEF Hunters, longer
    <2>8. HuntTyped'
      BY <1>j, <2>4, <2>7 DEF HuntTyped, Becomes
    <2>9. \A k \in closed : HunterHas(k)' => InHand(k)
      BY <1>h, <2>6, <2>7, InHandIs DEF HunterHas
    <2> QED BY <1>s, <2>5, <2>8, <2>9, CarefulKeeps DEF HuntKeeps
  <1> QED BY <1>1, <1>2

(* What is beyond the hunt's share goes from its list to the queue. *)
LEMMA OverflowKeeps ==
  ASSUME HuntTyped, ClosedInv, Overflow, UNCHANGED sweeper
  PROVE  HuntKeeps
  <1>t. /\ hunter \in Hunters /\ hunter.found \in Seq(Postings)
        /\ scoreRows \in [Postings -> {"none", "queued", "running"}]
    BY DEF HuntTyped, Hunters
  <1>0. hunter.found # << >> /\ hunter.pc = "sight" /\ UNCHANGED <<jobs, scorer>>
    <2>1. Len(hunter.found) > PerRun /\ PerRun \in Nat
      BY JobsAssumption DEF Overflow
    <2>2. hunter.found # << >>
      BY <1>t, <2>1, EmptySeq, LenProperties
    <2> QED BY <2>2 DEF Overflow
  <1> DEFINE shorter == SubSeq(hunter.found, 1, Len(hunter.found) - 1)
             j == hunter.found[Len(hunter.found)]
  <1>1. /\ shorter \in Seq(Postings) /\ j \in Postings
        /\ \A i \in DOMAIN shorter : \E k \in DOMAIN hunter.found : hunter.found[k] = shorter[i]
    BY <1>t, <1>0, FoundShrinks
  <1>2. /\ hunter' = [hunter EXCEPT !.found = shorter]
        /\ \/ scoreRows' = [scoreRows EXCEPT ![j] = IF @ = "none" THEN "queued" ELSE @]
           \/ UNCHANGED scoreRows
    BY DEF Overflow
  <1> HIDE DEF shorter, j
  <1>3. /\ hunter' \in Hunters /\ hunter'.pc = "sight" /\ hunter'.at = hunter.at
        /\ hunter'.found = shorter /\ hunter'.keepers = hunter.keepers
    BY <1>t, <1>0, <1>1, <1>2 DEF Hunters
  <1>4. scoreRows' \in [Postings -> {"none", "queued", "running"}]
    BY <1>t, <1>1, <1>2
  <1>5. HuntTyped'
    BY <1>0, <1>3, <1>4 DEF HuntTyped
  <1>6. \A k \in closed : HunterHas(k)' \/ ScorerHas(k)' => InHand(k)
    BY <1>0, <1>1, <1>3, InHandIs DEF HunterHas, ScorerHas
  <1> QED BY <1>0, <1>5, <1>6, CarefulKeeps DEF HuntKeeps, Careful

(* What the hunt scores itself goes from its list to its scorer. *)
LEMMA HuntScoresKeeps ==
  ASSUME HuntTyped, ClosedInv, HuntScores, UNCHANGED sweeper
  PROVE  HuntKeeps
  <1>t. /\ hunter \in Hunters /\ hunter.found \in Seq(Postings)
        /\ scorer \in [{"hunt", "worker"} -> Scorers]
    BY DEF HuntTyped, Hunters
  <1>0. hunter.found # << >> /\ UNCHANGED <<jobs, scoreRows>>
    <2>1. Len(hunter.found) >= 1
      BY JobsAssumption DEF HuntScores
    <2>2. hunter.found # << >>
      BY <1>t, <2>1, EmptySeq, LenProperties
    <2> QED BY <2>2 DEF HuntScores
  <1> DEFINE shorter == Tail(hunter.found)
             j == Head(hunter.found)
  <1>1. /\ shorter \in Seq(Postings) /\ j \in Postings
        /\ \E k \in DOMAIN hunter.found : hunter.found[k] = j
        /\ \A i \in DOMAIN shorter : \E k \in DOMAIN hunter.found : hunter.found[k] = shorter[i]
    BY <1>t, <1>0, FoundShrinks
  <1>2. /\ scorer' = [scorer EXCEPT !["hunt"] = [pc |-> "score", at |-> j]]
        /\ hunter' = [hunter EXCEPT !.found = shorter, !.pc = "scoring"]
    BY DEF HuntScores
  <1> HIDE DEF shorter, j
  <1>3. /\ hunter' \in Hunters /\ hunter'.pc = "scoring" /\ hunter'.at = hunter.at
        /\ hunter'.found = shorter /\ hunter'.keepers = hunter.keepers
    BY <1>t, <1>0, <1>1, <1>2 DEF Hunters
  <1>4. [pc |-> "score", at |-> j] \in Scorers
    BY <1>1 DEF Scorers
  <1>5. /\ scorer' \in [{"hunt", "worker"} -> Scorers] /\ scorer'["hunt"].at = j
        /\ scorer'["worker"] = scorer["worker"]
    BY <1>t, <1>2, <1>4
  <1>6. HuntTyped'
    BY <1>0, <1>1, <1>3, <1>5 DEF HuntTyped
  <1>7. \A k \in closed : HunterHas(k)' \/ ScorerHas(k)' => InHand(k)
    <2>1. InHand(j)
      BY <1>1, InHandIs DEF HunterHas
    <2> QED BY <1>1, <1>3, <1>5, <2>1, InHandIs DEF HunterHas, ScorerHas
  <1> QED BY <1>0, <1>6, <1>7, CarefulKeeps DEF HuntKeeps, Careful

(* The digest offers keepers, which the hunt has in hand. *)
LEMMA DigestKeeps ==
  ASSUME HuntTyped, ClosedInv, Digest, UNCHANGED sweeper
  PROVE  HuntKeeps
  <1>t. /\ hunter \in Hunters /\ hunter.keepers \in SUBSET Postings
        /\ jobs \in [Postings -> JobRows]
    BY DEF HuntTyped, Hunters
  <1>0. UNCHANGED <<scoreRows, scorer>> /\ hunter.pc = "sight"
    BY DEF Digest
  <1>s. \A k \in closed : ScorerHas(k)' => InHand(k)
    BY <1>0, InHandIs DEF ScorerHas
  <1>1. CASE hunter.keepers = {}
    <2>1. hunter' = NoHunt /\ UNCHANGED jobs
      BY <1>1 DEF Digest
    <2>2. HuntTyped'
      BY <1>0, <2>1, NoneOfThem DEF HuntTyped
    <2>3. \A k \in closed : ~HunterHas(k)'
      BY <2>1, NoneOfThem, JobsAssumption DEF HunterHas, ClosedInv
    <2> QED BY <1>s, <2>1, <2>2, <2>3, CarefulKeeps DEF HuntKeeps, Careful
  <1>2. CASE hunter.keepers # {}
    <2> DEFINE j == Least(hunter.keepers)
    <2>1. j \in hunter.keepers /\ j \in Postings
      BY <1>t, <1>2, LeastIsOne
    <2>2. SetStatus(j, "notified") /\ hunter' = [hunter EXCEPT !.keepers = @ \ {j}]
      BY <1>2 DEF Digest
    <2> HIDE DEF j
    <2>3. j \notin closed
      BY <2>1, InHandIs DEF ClosedInv, HunterHas
    <2>4. "notified" \in Statuses /\ "notified" # "applied"
      BY DEF Statuses, Pending
    <2>5. Becomes(j, "notified")
      BY <1>t, <2>1, <2>2, <2>4, SetStatusDoes
    <2>6. Careful
      BY <2>1, <2>3, <2>4, <2>5 DEF Careful
    <2>7. /\ hunter' \in Hunters /\ hunter'.pc = "sight" /\ hunter'.at = hunter.at
          /\ hunter'.found = hunter.found /\ hunter'.keepers = hunter.keepers \ {j}
      BY <1>t, <1>0, <2>2 DEF Hunters
    <2>8. HuntTyped'
      BY <1>0, <2>5, <2>7 DEF HuntTyped, Becomes
    <2>9. \A k \in closed : HunterHas(k)' => InHand(k)
      BY <2>7, InHandIs DEF HunterHas
    <2> QED BY <1>s, <2>6, <2>8, <2>9, CarefulKeeps DEF HuntKeeps
  <1> QED BY <1>1, <1>2

(* A worker takes up only a job that is new. *)
LEMMA ScoreOneKeeps ==
  ASSUME HuntTyped, ClosedInv, NEW j \in Postings, ScoreOne(j), UNCHANGED sweeper
  PROVE  HuntKeeps
  <1>t. /\ scorer \in [{"hunt", "worker"} -> Scorers]
        /\ scoreRows \in [Postings -> {"none", "queued", "running"}]
    BY DEF HuntTyped
  <1>0. UNCHANGED <<jobs, hunter>>
    BY DEF ScoreOne
  <1>h. \A k \in closed : HunterHas(k)' => InHand(k)
    BY <1>0, InHandIs DEF HunterHas
  <1>1. scoreRows' \in [Postings -> {"none", "queued", "running"}]
    BY <1>t DEF ScoreOne
  <1>2. CASE jobs[j].status = "new"
    <2>1. scorer' = [scorer EXCEPT !["worker"] = [pc |-> "score", at |-> j]]
      BY <1>2 DEF ScoreOne
    <2>2. [pc |-> "score", at |-> j] \in Scorers
      BY DEF Scorers
    <2>3. /\ scorer' \in [{"hunt", "worker"} -> Scorers] /\ scorer'["worker"].at = j
          /\ scorer'["hunt"] = scorer["hunt"]
      BY <1>t, <2>1, <2>2
    <2>4. HuntTyped'
      BY <1>0, <1>1, <2>3 DEF HuntTyped
    <2>5. j \notin closed
      BY <1>2, OpenNotClosed DEF Resolved
    <2>6. \A k \in closed : ScorerHas(k)' => InHand(k)
      BY <2>3, <2>5, InHandIs DEF ScorerHas
    <2> QED BY <1>0, <1>h, <2>4, <2>6, CarefulKeeps DEF HuntKeeps, Careful
  <1>3. CASE jobs[j].status # "new"
    <2>1. UNCHANGED scorer
      BY <1>3 DEF ScoreOne
    <2>2. HuntTyped'
      BY <1>0, <1>1, <2>1 DEF HuntTyped
    <2>3. \A k \in closed : ScorerHas(k)' => InHand(k)
      BY <2>1, InHandIs DEF ScorerHas
    <2> QED BY <1>0, <1>h, <2>2, <2>3, CarefulKeeps DEF HuntKeeps, Careful
  <1> QED BY <1>2, <1>3

(* A score goes to a posting in hand. *)
LEMMA ScoreKeeps ==
  ASSUME HuntTyped, ClosedInv, NEW p \in {"hunt", "worker"}, Score(p), UNCHANGED sweeper
  PROVE  HuntKeeps
  <1>t. scorer \in [{"hunt", "worker"} -> Scorers] /\ jobs \in [Postings -> JobRows]
    BY DEF HuntTyped
  <1> DEFINE j == scorer[p].at
  <1>0. /\ j \in Postings /\ UNCHANGED <<scoreRows, hunter>> /\ scorer[p].pc = "score"
        /\ j \notin closed
    <2>1. scorer[p].pc = "score" /\ UNCHANGED <<scoreRows, hunter>>
      BY DEF Score
    <2>2. ScorerHas(j)
      BY <2>1 DEF ScorerHas
    <2> QED BY <2>1, <2>2, InHandIs DEF HuntTyped, ClosedInv
  <1>1. Careful
    <2>1. CASE UNCHANGED jobs
      BY <2>1 DEF Careful
    <2>2. ASSUME NEW n \in Scores, jobs' = [jobs EXCEPT ![j].status = "scored", ![j].score = n]
          PROVE  Careful
      <3> HIDE DEF j
      <3>1. Becomes(j, "scored")
        BY <1>t, <1>0, <2>2, ScoreDoes DEF Scores
      <3>2. "scored" \in Statuses
        BY DEF Statuses, Pending
      <3> QED BY <1>0, <3>1, <3>2 DEF Careful
    <2> QED BY <2>1, <2>2 DEF Score
  <1>2. PICK pc \in {"skip", "draft"} : scorer' = [scorer EXCEPT ![p].pc = pc]
    <2>1. CASE RouteOf[j] = "signup"
      BY <2>1 DEF Score
    <2>2. CASE RouteOf[j] # "signup"
      BY <2>2 DEF Score
    <2> QED BY <2>1, <2>2
  <1>3. /\ scorer' \in [{"hunt", "worker"} -> Scorers] /\ scorer'[p].at = j
        /\ \A q \in {"hunt", "worker"} \ {p} : scorer'[q] = scorer[q]
    <2> DEFINE r == [scorer[p] EXCEPT !.pc = pc]
    <2>1. scorer[p] \in Scorers
      BY <1>t
    <2>2. r \in Scorers /\ r.at = j
      BY <2>1 DEF Scorers
    <2>3. scorer' = [scorer EXCEPT ![p] = r]
      BY <1>2
    <2> HIDE DEF r
    <2> QED BY <1>t, <2>2, <2>3
  <1>4. jobs' \in [Postings -> JobRows]
    BY <1>t, <1>1 DEF Careful, Becomes
  <1>5. HuntTyped'
    BY <1>0, <1>3, <1>4 DEF HuntTyped
  <1>6. \A k \in closed : HunterHas(k)' \/ ScorerHas(k)' => InHand(k)
    BY <1>0, <1>3, InHandIs DEF HunterHas, ScorerHas
  <1> QED BY <1>1, <1>5, <1>6, CarefulKeeps DEF HuntKeeps

(* A scorer that is done gives up what it had; the hunt may keep it. *)
LEMMA DoneDoes ==
  ASSUME HuntTyped, NEW p \in {"hunt", "worker"}, scorer[p].pc # "idle",
         NEW kept \in BOOLEAN, Done(p, scorer[p].at, kept)
  PROVE  /\ hunter' \in Hunters /\ (hunter'.pc = "sift" => hunter'.at \in Postings)
         /\ scorer' \in [{"hunt", "worker"} -> Scorers]
         /\ \A q \in {"hunt", "worker"} : scorer'[q].pc # "idle" => scorer'[q].at \in Postings
         /\ scoreRows' \in [Postings -> {"none", "queued", "running"}]
         /\ \A k : HunterHas(k)' \/ ScorerHas(k)' => InHand(k)
  <1>t. /\ scorer \in [{"hunt", "worker"} -> Scorers] /\ hunter \in Hunters
        /\ scoreRows \in [Postings -> {"none", "queued", "running"}]
        /\ \A q \in {"hunt", "worker"} : scorer[q].pc # "idle" => scorer[q].at \in Postings
    BY DEF HuntTyped
  <1> DEFINE j == scorer[p].at
  <1>j. j \in Postings
    BY <1>t
  <1>1. /\ scorer' \in [{"hunt", "worker"} -> Scorers] /\ scorer'[p].pc = "idle"
        /\ \A q \in {"hunt", "worker"} \ {p} : scorer'[q] = scorer[q]
    BY <1>t, NoneOfThem DEF Done
  <1>2. InHand(j)
    BY InHandIs DEF ScorerHas
  <1>3. \A k : ScorerHas(k)' => InHand(k)
    BY <1>1, InHandIs DEF ScorerHas
  <1>4. CASE p = "hunt"
    <2>1. /\ UNCHANGED scoreRows
          /\ \/ hunter' = [hunter EXCEPT !.pc = "sight", !.keepers = @ \cup {j}]
             \/ hunter' = [hunter EXCEPT !.pc = "sight"]
      <3>1. hunter' = [hunter EXCEPT !.pc = "sight",
                                     !.keepers = IF kept THEN @ \cup {j} ELSE @]
        BY <1>4 DEF Done
      <3>2. CASE kept = TRUE
        <4>1. hunter' = [hunter EXCEPT !.pc = "sight", !.keepers = @ \cup {j}]
          BY <3>1, <3>2
        <4> QED BY <1>4, <4>1 DEF Done
      <3>3. CASE kept = FALSE
        <4>1. hunter' = [hunter EXCEPT !.pc = "sight", !.keepers = @]
          BY <3>1, <3>3
        <4>2. hunter' = [hunter EXCEPT !.pc = "sight"]
          BY <1>t, <4>1 DEF Hunters
        <4> QED BY <1>4, <4>2 DEF Done
      <3> QED BY <3>2, <3>3
    <2> HIDE DEF j
    <2>2. /\ hunter' \in Hunters /\ hunter'.pc = "sight" /\ hunter'.at = hunter.at
          /\ hunter'.found = hunter.found
          /\ hunter'.keepers = hunter.keepers \/ hunter'.keepers = hunter.keepers \cup {j}
      <3>1. CASE hunter' = [hunter EXCEPT !.pc = "sight", !.keepers = @ \cup {j}]
        BY <1>t, <1>j, <3>1 DEF Hunters
      <3>2. CASE hunter' = [hunter EXCEPT !.pc = "sight"]
        BY <1>t, <3>2 DEF Hunters
      <3> QED BY <2>1, <3>1, <3>2
    <2>3. \A k : HunterHas(k)' => InHand(k)
      BY <1>2, <2>2, InHandIs DEF HunterHas
    <2> QED BY <1>t, <1>1, <1>3, <2>1, <2>2, <2>3
  <1>5. CASE p = "worker"
    <2>1. scoreRows' = [scoreRows EXCEPT ![j] = "none"] /\ UNCHANGED hunter
      BY <1>5 DEF Done
    <2>2. \A k : HunterHas(k)' => InHand(k)
      BY <2>1, InHandIs DEF HunterHas
    <2>3. hunter' \in Hunters /\ (hunter'.pc = "sift" => hunter'.at \in Postings)
      BY <2>1 DEF HuntTyped
    <2> QED BY <1>t, <1>1, <1>3, <2>1, <2>2, <2>3
  <1> QED BY <1>4, <1>5

(* A low score skips a posting in hand, a letter offers one. *)
LEMMA ScoredKeeps ==
  ASSUME HuntTyped, ClosedInv, NEW p \in {"hunt", "worker"}, SkipLow(p) \/ SaveCover(p),
         UNCHANGED sweeper
  PROVE  HuntKeeps
  <1>t. scorer \in [{"hunt", "worker"} -> Scorers] /\ jobs \in [Postings -> JobRows]
    BY DEF HuntTyped
  <1> DEFINE j == scorer[p].at
  <1>0. scorer[p].pc # "idle" /\ \E kept \in BOOLEAN : Done(p, j, kept)
    BY DEF SkipLow, SaveCover
  <1>1. j \in Postings /\ j \notin closed
    <2>1. ScorerHas(j)
      BY <1>0 DEF ScorerHas
    <2> QED BY <1>0, <2>1, InHandIs DEF HuntTyped, ClosedInv
  <1>2. Becomes(j, "skipped") \/ Becomes(j, "drafted")
    <2>1. CASE SkipLow(p)
      <3>1. "skipped" \in Statuses /\ SetStatus(j, "skipped")
        BY <2>1 DEF Statuses, Resolved, SkipLow
      <3> HIDE DEF j
      <3> QED BY <1>t, <1>1, <3>1, SetStatusDoes
    <2>2. CASE SaveCover(p)
      BY <1>t, <1>1, <2>2, SaveCoverDoes
    <2> QED BY <2>1, <2>2
  <1>3. /\ hunter' \in Hunters /\ (hunter'.pc = "sift" => hunter'.at \in Postings)
        /\ scorer' \in [{"hunt", "worker"} -> Scorers]
        /\ \A q \in {"hunt", "worker"} : scorer'[q].pc # "idle" => scorer'[q].at \in Postings
        /\ scoreRows' \in [Postings -> {"none", "queued", "running"}]
        /\ \A k : HunterHas(k)' \/ ScorerHas(k)' => InHand(k)
    BY <1>0, DoneDoes
  <1> HIDE DEF j
  <1>4. Careful
    BY <1>1, <1>2 DEF Careful, Statuses, Pending, Resolved
  <1>5. HuntTyped'
    BY <1>2, <1>3 DEF HuntTyped, Becomes
  <1> QED BY <1>3, <1>4, <1>5, CarefulKeeps DEF HuntKeeps

(* A hunt or a worker that dies drops what it had. *)
LEMMA DeathsKeep ==
  ASSUME HuntTyped, ClosedInv, HuntDies \/ WorkerDies, UNCHANGED sweeper
  PROVE  HuntKeeps
  <1>t. /\ scorer \in [{"hunt", "worker"} -> Scorers] /\ jobs \in [Postings -> JobRows]
        /\ scoreRows \in [Postings -> {"none", "queued", "running"}]
        /\ \A q \in {"hunt", "worker"} : scorer[q].pc # "idle" => scorer[q].at \in Postings
    BY DEF HuntTyped
  <1>1. CASE HuntDies
    <2>1. /\ hunter' = NoHunt /\ scorer' = [scorer EXCEPT !["hunt"] = NoScore]
          /\ UNCHANGED <<jobs, scoreRows>>
      BY <1>1 DEF HuntDies
    <2>2. /\ scorer' \in [{"hunt", "worker"} -> Scorers] /\ scorer'["hunt"].pc = "idle"
          /\ scorer'["worker"] = scorer["worker"]
      BY <1>t, <2>1, NoneOfThem
    <2>3. HuntTyped'
      BY <1>t, <2>1, <2>2, NoneOfThem DEF HuntTyped
    <2>4. \A k \in closed : ~HunterHas(k)'
      BY <2>1, NoneOfThem, JobsAssumption DEF HunterHas, ClosedInv
    <2>5. \A k \in closed : ScorerHas(k)' => InHand(k)
      BY <2>2, InHandIs DEF ScorerHas
    <2> QED BY <2>1, <2>3, <2>4, <2>5, CarefulKeeps DEF HuntKeeps, Careful
  <1>2. CASE WorkerDies
    <2>1. /\ scorer' = [scorer EXCEPT !["worker"] = NoScore] /\ UNCHANGED <<jobs, hunter>>
          /\ \E s \in {"queued", "none"} :
               scoreRows' = [scoreRows EXCEPT ![scorer["worker"].at] = s]
      BY <1>2 DEF WorkerDies
    <2>2. /\ scorer' \in [{"hunt", "worker"} -> Scorers] /\ scorer'["worker"].pc = "idle"
          /\ scorer'["hunt"] = scorer["hunt"]
      BY <1>t, <2>1, NoneOfThem
    <2>3. scoreRows' \in [Postings -> {"none", "queued", "running"}]
      BY <1>t, <2>1
    <2>4. HuntTyped'
      BY <1>t, <2>1, <2>2, <2>3 DEF HuntTyped
    <2>5. \A k \in closed : HunterHas(k)' \/ ScorerHas(k)' => InHand(k)
      BY <2>1, <2>2, InHandIs DEF ScorerHas, HunterHas
    <2> QED BY <2>1, <2>4, <2>5, CarefulKeeps DEF HuntKeeps, Careful
  <1> QED BY <1>1, <1>2

(* A retirement sets a pending posting aside, were it in somebody's hand.      *)
LEMMA SweepKeeps ==
  ASSUME HuntTyped, ClosedInv, Sweeping, UNCHANGED scoring
  PROVE  HuntKeeps
  <1>t. /\ jobs \in [Postings -> JobRows] /\ sweeper \in Sweepers
        /\ sweeper.due \in SUBSET Postings
    BY DEF HuntTyped, Sweepers
  <1>h. \A k \in closed : HunterHas(k)' \/ ScorerHas(k)' => InHand(k)
    BY InHandIs DEF scoring, HunterHas, ScorerHas
  <1>1. sweeper' \in Sweepers /\ Careful
    <2>1. CASE SweepStart
      <3>1. {j \in Postings : Due(j)} \in SUBSET Postings
        OBVIOUS
      <3> QED BY <2>1, <3>1 DEF SweepStart, Sweepers, Careful
    <2>2. CASE Retire
      <3> DEFINE j == Least(sweeper.due)
      <3>1. j \in Postings
        BY <1>t, <2>2, LeastIsOne DEF Retire
      <3>2. SetStatus(j, "expired") /\ sweeper' = [sweeper EXCEPT !.due = @ \ {j}]
        BY <2>2 DEF Retire
      <3> HIDE DEF j
      <3>3. "expired" \in Statuses /\ "expired" \in Resolved /\ "expired" # "applied"
        BY DEF Statuses, Resolved
      <3>4. Becomes(j, "expired")
        BY <1>t, <3>1, <3>2, <3>3, SetStatusDoes
      <3>5. sweeper' \in Sweepers
        BY <1>t, <3>2 DEF Sweepers
      <3> QED BY <3>1, <3>3, <3>4, <3>5 DEF Careful
    <2>3. CASE SelectCap
      <3> DEFINE due == Overfull({j \in Postings : jobs[j].status \in Active} \ sweeper.done)
      <3>1. due \in SUBSET Postings
        BY DEF Overfull
      <3>2. sweeper' = [sweeper EXCEPT !.pc = "cap", !.due = due] /\ UNCHANGED jobs
        BY <2>3 DEF SelectCap
      <3> HIDE DEF due
      <3> QED BY <1>t, <3>1, <3>2 DEF Sweepers, Careful
    <2>4. CASE SweepEnd
      BY <2>4, NoneOfThem DEF SweepEnd, Careful
    <2> QED BY <2>1, <2>2, <2>3, <2>4 DEF Sweeping
  <1>2. jobs' \in [Postings -> JobRows]
    BY <1>t, <1>1 DEF Careful, Becomes
  <1>3. HuntTyped'
    BY <1>1, <1>2 DEF HuntTyped, scoring
  <1> QED BY <1>1, <1>3, <1>h, CarefulKeeps DEF HuntKeeps

(* Nobody's hands are touched: a posting changes, if at all, only its window,  *)
(* its age or its CV, or is skipped.                                           *)
LEMMA OthersKeep ==
  ASSUME HuntTyped, ClosedInv, UNCHANGED scoring, UNCHANGED sweeper,
         \/ jobs' = jobs
         \/ \E j \in Postings : Becomes(j, jobs[j].status) \/ Becomes(j, "skipped")
  PROVE  HuntKeeps
  <1>1. \A k \in closed : HunterHas(k)' \/ ScorerHas(k)' => InHand(k)
    BY InHandIs DEF scoring, HunterHas, ScorerHas
  <1>2. Careful
    <2>1. ASSUME NEW j \in Postings, Becomes(j, jobs[j].status)
          PROVE  Careful
      <3>1. jobs[j] \in JobRows
        BY DEF HuntTyped
      <3>2. jobs[j].status \in Statuses \cup {"absent"}
        BY <3>1 DEF JobRows
      <3> QED BY <2>1, <3>2 DEF Careful
    <2>2. ASSUME NEW j \in Postings, Becomes(j, "skipped")
          PROVE  Careful
      BY <2>2 DEF Careful, Statuses, Resolved
    <2> QED BY <2>1, <2>2 DEF Careful
  <1>3. jobs' \in [Postings -> JobRows]
    BY DEF HuntTyped, Becomes
  <1>4. HuntTyped'
    BY <1>3 DEF HuntTyped, scoring
  <1> QED BY <1>1, <1>2, <1>4, CarefulKeeps DEF HuntKeeps

(* What was kept stays so when more is closed. *)
LEMMA ClosedKept ==
  ASSUME ClosedInv, Kept, Close
  PROVE  ClosedInv'
  <1>1. Known' \subseteq Postings
    BY DEF Known
  <1> QED BY <1>1 DEF ClosedInv, Kept, Close

(* Every step of the hunt, of a worker and of the retirement. *)
LEMMA ScoreStepKeeps ==
  ASSUME HuntTyped, ClosedInv,
         \/ HuntStart \/ HuntGoesOn \/ Scoring("hunt") \/ Working
         \/ HuntDies \/ WorkerDies,
         UNCHANGED sweeper
  PROVE  HuntKeeps
  <1>1. CASE HuntStart \/ HuntGoesOn
    BY <1>1, HuntStartKeeps, SightKeeps, SiftKeeps, OverflowKeeps, HuntScoresKeeps, DigestKeeps
       DEF HuntGoesOn
  <1>2. ASSUME NEW p \in {"hunt", "worker"}, Scoring(p)
        PROVE  HuntKeeps
    BY <1>2, ScoreKeeps, ScoredKeeps DEF Scoring
  <1>3. CASE Working
    BY <1>2, <1>3, ScoreOneKeeps DEF Working
  <1>4. CASE HuntDies \/ WorkerDies
    BY <1>4, DeathsKeep
  <1> QED BY <1>1, <1>2, <1>3, <1>4

-----------------------------------------------------------------------------
(* The applications *)

(* The approvals whose mail is sent and not yet recorded are some of the       *)
(* channels.                                                                   *)
LEMMA BetweenSmall ==
  ASSUME NEW j
  PROVE  IsFiniteSet(Between(j)) /\ Cardinality(Between(j)) \in Nat
  <1>1. Between(j) \subseteq Fronts /\ IsFiniteSet(Fronts)
    BY JobsAssumption DEF Between
  <1> QED BY <1>1, FS_Subset, FS_CardinalityType

(* The sets before and after are the same, or differ in one channel. *)
LEMMA BetweenCounts ==
  ASSUME NEW S, NEW T, IsFiniteSet(S), NEW f
  PROVE  /\ (T = S \cup {f} /\ f \notin S => Cardinality(T) = Cardinality(S) + 1)
         /\ (T = S \ {f} /\ f \in S => Cardinality(T) = Cardinality(S) - 1)
  BY FS_AddElement, FS_RemoveElement

(* One channel goes on; the others stay where they are. *)
Moves(f, t) == /\ front' = [front EXCEPT ![f] = t]
               /\ t \in Taps /\ (t.pc # "idle" => t.at \in Postings)
               /\ (t.pc = "settle" => apps'[t.at].rows > 0)

LEMMA MovesTyped ==
  ASSUME FrontTyped, NEW f \in Fronts, NEW t, Moves(f, t)
  PROVE  /\ front' \in [Fronts -> Taps]
         /\ \A g \in Fronts : front'[g].pc # "idle" => front'[g].at \in Postings
         /\ front'[f] = t /\ \A g \in Fronts \ {f} : front'[g] = front[g]
  BY DEF FrontTyped, Moves

(* Rows of applications are added, never taken away. *)
RowsGrow == /\ apps' \in [Postings -> AppRows]
            /\ \A j \in Postings : apps'[j].rows >= apps[j].rows

(* An approval that is about to settle keeps its row. *)
LEMMA SettleKept ==
  ASSUME FrontTyped, SettleInv, RowsGrow, NEW f \in Fronts, NEW t, Moves(f, t)
  PROVE  SettleInv'
  <1>1. ASSUME NEW g \in Fronts, front'[g].pc = "settle"
        PROVE  apps'[front'[g].at].rows > 0
    <2>1. CASE g = f
      BY <1>1, <2>1, MovesTyped DEF Moves
    <2>2. CASE g # f
      <3>1. front'[g] = front[g] /\ front[g].at \in Postings /\ apps[front[g].at].rows > 0
        BY <1>1, <2>2, MovesTyped DEF SettleInv, FrontTyped
      <3> DEFINE a == front[g].at
      <3>2. a \in Postings /\ apps \in [Postings -> AppRows] /\ apps' \in [Postings -> AppRows]
        BY <3>1 DEF FrontTyped, RowsGrow
      <3>3. apps[a] \in AppRows /\ apps'[a] \in AppRows
        BY <3>2
      <3>4. apps[a].rows \in Nat /\ apps'[a].rows \in Nat
        BY <3>3 DEF AppRows
      <3>5. apps'[a].rows >= apps[a].rows /\ apps[a].rows > 0
        BY <3>1, <3>2 DEF RowsGrow
      <3>6. apps'[a].rows > 0
        BY <3>4, <3>5
      <3> QED BY <3>1, <3>6
    <2> QED BY <2>1, <2>2
  <1> QED BY <1>1 DEF SettleInv

(* Who is between the mail and the row, after one channel has moved. *)
LEMMA BetweenMoves ==
  ASSUME FrontTyped, NEW f \in Fronts, NEW t, Moves(f, t), NEW j
  PROVE  /\ f \in Between(j) <=> front[f].pc = "record" /\ front[f].at = j
         /\ f \in Between(j)' <=> t.pc = "record" /\ t.at = j
         /\ \A g \in Fronts \ {f} : g \in Between(j)' <=> g \in Between(j)
         /\ Between(j) \subseteq Fronts /\ Between(j)' \subseteq Fronts
  <1>1. front[f] \in Taps /\ t \in Taps /\ front'[f] = t
    BY MovesTyped DEF FrontTyped, Moves
  <1>2. /\ front[f] = [pc |-> "record", at |-> j] <=> front[f].pc = "record" /\ front[f].at = j
        /\ t = [pc |-> "record", at |-> j] <=> t.pc = "record" /\ t.at = j
    BY <1>1 DEF Taps
  <1>3. \A g \in Fronts \ {f} : front'[g] = front[g]
    BY MovesTyped
  <1> QED BY <1>1, <1>2, <1>3 DEF Between

(* Sets of channels that differ, if at all, in one. *)
LEMMA SetsByOne ==
  ASSUME NEW F, NEW f \in F, NEW S, NEW T, S \subseteq F, T \subseteq F,
         \A g \in F \ {f} : g \in T <=> g \in S
  PROVE  /\ (f \in S <=> f \in T) => T = S
         /\ (f \notin S /\ f \in T) => T = S \cup {f}
         /\ (f \in S /\ f \notin T) => T = S \ {f}
  OBVIOUS

LEMMA BetweenAfter ==
  ASSUME FrontTyped, NEW f \in Fronts, NEW t, Moves(f, t), NEW j
  PROVE  LET was == front[f].pc = "record" /\ front[f].at = j
             is  == t.pc = "record" /\ t.at = j IN
         /\ (was <=> is) => Between(j)' = Between(j)
         /\ (~was /\ is) => Between(j)' = Between(j) \cup {f} /\ f \notin Between(j)
         /\ (was /\ ~is) => Between(j)' = Between(j) \ {f} /\ f \in Between(j)
  <1> DEFINE S == Between(j)
             T == Between(j)'
  <1>1. /\ f \in S <=> front[f].pc = "record" /\ front[f].at = j
        /\ f \in T <=> t.pc = "record" /\ t.at = j
        /\ \A g \in Fronts \ {f} : g \in T <=> g \in S
        /\ S \subseteq Fronts /\ T \subseteq Fronts
    BY BetweenMoves
  <1> HIDE DEF S, T
  <1>2. /\ (f \in S <=> f \in T) => T = S
        /\ (f \notin S /\ f \in T) => T = S \cup {f}
        /\ (f \in S /\ f \notin T) => T = S \ {f}
    BY <1>1, SetsByOne
  <1> QED BY <1>1, <1>2 DEF S, T

(* More faults explain no fewer mails without a row. *)
LEMMA MoreFaults ==
  \A r, n, m, a, b \in Nat : r + n <= m /\ m <= r + n + a /\ b >= a => m <= r + n + b
  OBVIOUS

(* Nothing that the table or the company knows changes. *)
LEMMA MailKept ==
  ASSUME FrontTyped, MailInv, faults' \in Nat, faults' >= faults,
         \A j \in Postings : RouteOf[j] = "email" =>
           /\ apps'[j].rows = apps[j].rows /\ mailed'[j] = mailed[j]
           /\ Between(j)' = Between(j)
  PROVE  MailInv'
  <1>1. ASSUME NEW j \in Postings, RouteOf[j] = "email"
        PROVE  /\ apps'[j].rows + Cardinality(Between(j)') <= mailed'[j]
               /\ mailed'[j] <= apps'[j].rows + Cardinality(Between(j)') + faults'
    <2> DEFINE n == Cardinality(Between(j))  m == mailed[j]  r == apps[j].rows
    <2>1. apps[j] \in AppRows
      BY DEF FrontTyped
    <2>2. n \in Nat /\ m \in Nat /\ r \in Nat /\ faults \in Nat
      BY <2>1, BetweenSmall DEF FrontTyped, AppRows
    <2>3. r + n <= m /\ m <= r + n + faults
      BY <1>1 DEF MailInv
    <2>4. apps'[j].rows = r /\ mailed'[j] = m /\ Cardinality(Between(j)') = n
      BY <1>1
    <2> HIDE DEF n, m, r
    <2>5. r + n <= m /\ m <= r + n + faults'
      BY <2>2, <2>3, MoreFaults
    <2> QED BY <2>4, <2>5
  <1> QED BY <1>1 DEF MailInv

(* A channel that neither enters nor leaves that stage leaves the mails. *)
LEMMA MailAside ==
  ASSUME FrontTyped, MailInv, NEW f \in Fronts, NEW t, Moves(f, t), UNCHANGED mailed,
         faults' \in Nat, faults' >= faults,
         \A j \in Postings : apps'[j].rows = apps[j].rows,
         front[f].pc # "record", t.pc # "record" \/ RouteOf[t.at] # "email"
  PROVE  MailInv'
  <1>1. ASSUME NEW j \in Postings, RouteOf[j] = "email"
        PROVE  Between(j)' = Between(j)
    BY <1>1, BetweenMoves
  <1> QED BY <1>1, MailKept

(* The next stage of the same approval. *)
LEMMA StageIs ==
  ASSUME FrontTyped, NEW f \in Fronts, NEW pc, front' = [front EXCEPT ![f].pc = pc]
  PROVE  front' = [front EXCEPT ![f] = [pc |-> pc, at |-> front[f].at]]
  <1>1. front[f] \in Taps
    BY DEF FrontTyped
  <1>2. [front[f] EXCEPT !.pc = pc] = [pc |-> pc, at |-> front[f].at]
    BY <1>1 DEF Taps
  <1> QED BY <1>2

FrontKeeps == FrontTyped' /\ SettleInv' /\ MailInv' /\ RowsGrow

(* What the lemmas of the actions have in common. *)
LEMMA FrontMoves ==
  ASSUME FrontTyped, SettleInv, NEW f \in Fronts, NEW t, Moves(f, t), RowsGrow, MailInv',
         mailed' \in [Postings -> Nat], taps' \in 0..MaxTaps, faults' \in Nat
  PROVE  FrontKeeps
  BY MovesTyped, SettleKept DEF FrontKeeps, FrontTyped, RowsGrow

(* The table stays. *)
LEMMA RowsAsWere ==
  ASSUME FrontTyped, UNCHANGED apps
  PROVE  RowsGrow /\ \A j \in Postings : apps'[j].rows = apps[j].rows
  <1>1. \A j \in Postings : apps[j] \in AppRows
    BY DEF FrontTyped
  <1>2. \A j \in Postings : apps[j].rows \in Nat
    BY <1>1 DEF AppRows
  <1> QED BY <1>2 DEF FrontTyped, RowsGrow

LEMMA ApproveKeeps ==
  ASSUME FrontTyped, SettleInv, MailInv, NEW f \in Fronts, NEW j \in Postings, Approve(f, j),
         UNCHANGED daily
  PROVE  FrontKeeps
  <1> DEFINE t == [pc |-> IF jobs[j].variant = "none" THEN "tailor" ELSE "apply", at |-> j]
  <1>1. /\ front' = [front EXCEPT ![f] = t] /\ UNCHANGED <<apps, mailed>>
        /\ front[f].pc = "idle" /\ taps < MaxTaps /\ taps' = taps + 1
    BY DEF Approve, Tap
  <1>2. t \in Taps /\ t.pc \notin {"idle", "record", "settle"} /\ t.at = j
    BY DEF Taps
  <1> HIDE DEF t
  <1>3. Moves(f, t)
    BY <1>1, <1>2 DEF Moves
  <1>4. faults' = faults /\ faults \in Nat /\ mailed' \in [Postings -> Nat]
        /\ taps' \in 0..MaxTaps
    BY <1>1, JobsAssumption DEF daily, FrontTyped
  <1>5. MailInv'
    BY <1>1, <1>2, <1>3, <1>4, RowsAsWere, MailAside
  <1> QED BY <1>1, <1>3, <1>4, <1>5, RowsAsWere, FrontMoves

(* The user skips, or asks for a CV, beside any approval under way. *)
LEMMA AsideKeeps ==
  ASSUME FrontTyped, SettleInv, MailInv, UNCHANGED <<apps, front, mailed>>,
         taps' \in 0..MaxTaps, faults' \in Nat, faults' >= faults
  PROVE  FrontKeeps
  <1>1. \A j : Between(j)' = Between(j)
    BY DEF Between
  <1>2. MailInv'
    BY <1>1, RowsAsWere, MailKept
  <1> QED BY <1>2, RowsAsWere DEF FrontKeeps, FrontTyped, SettleInv

LEMMA AutoTailorKeeps ==
  ASSUME FrontTyped, SettleInv, MailInv, NEW f \in Fronts, AutoTailor(f), UNCHANGED daily
  PROVE  FrontKeeps
  <1> DEFINE t == [pc |-> "apply", at |-> front[f].at]
  <1>1. /\ front' = [front EXCEPT ![f] = t] /\ UNCHANGED <<apps, mailed, taps>>
        /\ front[f].pc = "tailor"
    BY StageIs DEF AutoTailor
  <1>2. t \in Taps /\ t.pc = "apply" /\ t.at \in Postings
    BY <1>1 DEF Taps, FrontTyped
  <1> HIDE DEF t
  <1>3. Moves(f, t)
    BY <1>1, <1>2 DEF Moves
  <1>4. faults' = faults /\ faults \in Nat /\ mailed' \in [Postings -> Nat]
        /\ taps' \in 0..MaxTaps
    BY <1>1 DEF daily, FrontTyped
  <1>5. MailInv'
    BY <1>1, <1>2, <1>3, <1>4, RowsAsWere, MailAside
  <1> QED BY <1>1, <1>3, <1>4, <1>5, RowsAsWere, FrontMoves

(* One posting's mails after a step, from the numbers before. *)
LEMMA MailSum ==
  ASSUME FrontTyped, MailInv, NEW j \in Postings, RouteOf[j] = "email"
  PROVE  /\ apps[j].rows \in Nat /\ mailed[j] \in Nat /\ faults \in Nat
         /\ Cardinality(Between(j)) \in Nat
         /\ apps[j].rows + Cardinality(Between(j)) <= mailed[j]
         /\ mailed[j] <= apps[j].rows + Cardinality(Between(j)) + faults
  <1>1. apps[j] \in AppRows
    BY DEF FrontTyped
  <1> QED BY <1>1, BetweenSmall DEF MailInv, FrontTyped, AppRows

(* The mails of every posting but one stay as they were. *)
LEMMA MailOne ==
  ASSUME FrontTyped, MailInv, NEW f \in Fronts, NEW t, Moves(f, t), NEW j \in Postings,
         front[f].at = j, t.at = j \/ t.pc # "record", faults' \in Nat, faults' >= faults,
         \A k \in Postings \ {j} : apps'[k].rows = apps[k].rows /\ mailed'[k] = mailed[k],
         RouteOf[j] = "email" =>
           /\ apps'[j].rows + Cardinality(Between(j)') <= mailed'[j]
           /\ mailed'[j] <= apps'[j].rows + Cardinality(Between(j)') + faults'
  PROVE  MailInv'
  <1>1. ASSUME NEW k \in Postings \ {j}, RouteOf[k] = "email"
        PROVE  /\ apps'[k].rows + Cardinality(Between(k)') <= mailed'[k]
               /\ mailed'[k] <= apps'[k].rows + Cardinality(Between(k)') + faults'
    <2>1. Between(k)' = Between(k)
      BY BetweenAfter
    <2> DEFINE n == Cardinality(Between(k))  m == mailed[k]  r == apps[k].rows
    <2>2. /\ r \in Nat /\ m \in Nat /\ faults \in Nat /\ n \in Nat
          /\ r + n <= m /\ m <= r + n + faults
      BY <1>1, MailSum
    <2>3. apps'[k].rows = r /\ mailed'[k] = m /\ Cardinality(Between(k)') = n
      BY <2>1
    <2> HIDE DEF n, m, r
    <2>4. r + n <= m /\ m <= r + n + faults'
      BY <2>2, MoreFaults
    <2> QED BY <2>3, <2>4
  <1> QED BY <1>1 DEF MailInv

(* A mail that went out is one more, and so is the channel that sent it. *)
LEMMA SendKeeps ==
  ASSUME FrontTyped, SettleInv, MailInv, NEW f \in Fronts, Send(f), UNCHANGED daily
  PROVE  FrontKeeps
  <1>p. PICK j \in Postings : j = front[f].at
    BY DEF Send, FrontTyped
  <1> DEFINE t == [pc |-> "record", at |-> j]
  <1>0. /\ j \in Postings /\ front[f].pc = "apply" /\ front[f] \in Taps
        /\ UNCHANGED <<apps, taps, faults>> /\ faults \in Nat /\ taps \in 0..MaxTaps
        /\ mailed \in [Postings -> Nat]
    BY <1>p DEF Send, FrontTyped, daily
  <1>t. t \in Taps /\ t.pc = "record" /\ t.at = j
    BY <1>0 DEF Taps
  <1>n. NoTap \in Taps /\ NoTap.pc = "idle"
    BY DEF NoTap, Taps
  <1>1. CASE front' = [front EXCEPT ![f] = NoTap] /\ UNCHANGED mailed
    <2>1. Moves(f, NoTap)
      BY <1>1, <1>n DEF Moves
    <2>2. MailInv'
      BY <1>0, <1>1, <1>n, <2>1, RowsAsWere, MailAside
    <2> QED BY <1>0, <1>1, <2>1, <2>2, RowsAsWere, FrontMoves
  <1>2. CASE ByLink(j) /\ front' = [front EXCEPT ![f].pc = "record"] /\ UNCHANGED mailed
    <2>1. front' = [front EXCEPT ![f] = t]
      BY <1>p, <1>2, StageIs
    <2> HIDE DEF t
    <2>2. Moves(f, t)
      BY <1>0, <1>t, <2>1 DEF Moves
    <2>3. MailInv'
      BY <1>0, <1>2, <1>t, <2>2, RowsAsWere, MailAside DEF ByLink
    <2> QED BY <1>0, <1>2, <2>2, <2>3, RowsAsWere, FrontMoves
  <1>3. CASE /\ mailed' = [mailed EXCEPT ![j] = @ + 1]
             /\ front' = [front EXCEPT ![f].pc = "record"]
    <2>1. front' = [front EXCEPT ![f] = t]
      BY <1>p, <1>3, StageIs
    <2>2. Moves(f, t)
      BY <1>0, <1>t, <2>1 DEF Moves
    <2>3. ASSUME RouteOf[j] = "email"
          PROVE  /\ apps'[j].rows + Cardinality(Between(j)') <= mailed'[j]
                 /\ mailed'[j] <= apps'[j].rows + Cardinality(Between(j)') + faults'
      <3>1. Between(j)' = Between(j) \cup {f} /\ f \notin Between(j)
        BY <1>p, <1>0, <1>t, <2>2, BetweenAfter
      <3> DEFINE n == Cardinality(Between(j))  m == mailed[j]  r == apps[j].rows
      <3>2. Cardinality(Between(j)') = n + 1
        BY <3>1, BetweenSmall, BetweenCounts
      <3>3. /\ r \in Nat /\ m \in Nat /\ faults \in Nat /\ n \in Nat
            /\ r + n <= m /\ m <= r + n + faults
        BY <1>0, <2>3, MailSum
      <3>4. apps'[j].rows = r /\ mailed'[j] = m + 1 /\ faults' = faults
        BY <1>0, <1>3
      <3> HIDE DEF n, m, r
      <3> QED BY <3>2, <3>3, <3>4
    <2>4. mailed' \in [Postings -> Nat] /\ \A k \in Postings \ {j} : mailed'[k] = mailed[k]
      BY <1>0, <1>3
    <2> HIDE DEF t
    <2>5. front[f].at = j /\ faults' \in Nat /\ faults' >= faults
      BY <1>p, <1>0
    <2>6. MailInv'
      <3>1. \A k \in Postings \ {j} : apps'[k].rows = apps[k].rows /\ mailed'[k] = mailed[k]
        BY <1>0, <2>4
      <3> QED BY <1>0, <1>t, <2>2, <2>3, <2>5, <3>1, MailOne
    <2> QED BY <1>0, <2>2, <2>4, <2>6, RowsAsWere, FrontMoves
  <1> QED BY <1>p, <1>1, <1>2, <1>3 DEF Send

(* The channel that sent it hands over to the row. *)
LEMMA RecordKeeps ==
  ASSUME FrontTyped, SettleInv, MailInv, NEW f \in Fronts, Record(f), UNCHANGED daily
  PROVE  FrontKeeps
  <1>p. PICK j \in Postings : j = front[f].at
    BY DEF Record, FrontTyped
  <1> DEFINE t == [pc |-> "settle", at |-> j]
             r == apps[j].rows
             row == [rows |-> r + 1, state |-> IF ByLink(j) THEN "tracked" ELSE "applied"]
  <1>0. /\ j \in Postings /\ front[f].pc = "record" /\ front[f] \in Taps
        /\ apps \in [Postings -> AppRows]
        /\ UNCHANGED <<mailed, taps, faults>> /\ faults \in Nat /\ taps \in 0..MaxTaps
        /\ mailed \in [Postings -> Nat] /\ front' = [front EXCEPT ![f] = t]
    BY <1>p, StageIs DEF Record, FrontTyped, daily
  <1>t. t \in Taps /\ t.pc = "settle" /\ t.at = j
    BY <1>0 DEF Taps
  <1>1. apps' = [apps EXCEPT ![j] = row]
    BY <1>p DEF Record
  <1>2. \A k \in Postings : apps[k] \in AppRows
    BY <1>0
  <1>3. \A k \in Postings : apps[k].rows \in Nat
    BY <1>2 DEF AppRows
  <1>4. row \in AppRows /\ row.rows = r + 1 /\ r \in Nat
    BY <1>0, <1>3 DEF AppRows
  <1> HIDE DEF row, t, r
  <1>5. /\ apps' \in [Postings -> AppRows] /\ apps'[j].rows = r + 1
        /\ \A k \in Postings \ {j} : apps'[k].rows = apps[k].rows
    BY <1>0, <1>1, <1>4
  <1>6. RowsGrow
    <2>1. ASSUME NEW k \in Postings
          PROVE  apps'[k].rows >= apps[k].rows
      <3>1. CASE k = j
        BY <1>4, <1>5, <3>1 DEF r
      <3>2. CASE k # j
        BY <1>3, <1>5, <3>2
      <3> QED BY <3>1, <3>2
    <2> QED BY <1>5, <2>1 DEF RowsGrow
  <1>7. Moves(f, t)
    BY <1>0, <1>4, <1>5, <1>t DEF Moves
  <1>8. ASSUME RouteOf[j] = "email"
        PROVE  /\ apps'[j].rows + Cardinality(Between(j)') <= mailed'[j]
               /\ mailed'[j] <= apps'[j].rows + Cardinality(Between(j)') + faults'
    <2>1. Between(j)' = Between(j) \ {f} /\ f \in Between(j)
      BY <1>p, <1>0, <1>t, <1>7, BetweenAfter
    <2> DEFINE n == Cardinality(Between(j))  m == mailed[j]
    <2>2. Cardinality(Between(j)') = n - 1
      BY <2>1, BetweenSmall, BetweenCounts
    <2>3. /\ m \in Nat /\ faults \in Nat /\ n \in Nat
          /\ r + n <= m /\ m <= r + n + faults
      BY <1>0, <1>8, MailSum DEF r
    <2>4. apps'[j].rows = r + 1 /\ mailed'[j] = m /\ faults' = faults
      BY <1>0, <1>5
    <2> HIDE DEF n, m
    <2> QED BY <1>4, <2>2, <2>3, <2>4
  <1>9. front[f].at = j /\ faults' \in Nat /\ faults' >= faults
    BY <1>p, <1>0
  <1>10. MailInv'
    <2>1. \A k \in Postings \ {j} : apps'[k].rows = apps[k].rows /\ mailed'[k] = mailed[k]
      BY <1>0, <1>5
    <2> QED BY <1>0, <1>7, <1>8, <1>9, <1>t, <2>1, MailOne
  <1> QED BY <1>0, <1>6, <1>7, <1>10, FrontMoves

LEMMA SettleKeeps ==
  ASSUME FrontTyped, SettleInv, MailInv, NEW f \in Fronts, Settle(f), UNCHANGED daily
  PROVE  FrontKeeps
  <1>1. NoTap \in Taps /\ NoTap.pc = "idle"
    BY DEF NoTap, Taps
  <1>2. /\ front' = [front EXCEPT ![f] = NoTap] /\ UNCHANGED <<apps, mailed, taps, faults>>
        /\ front[f].pc = "settle"
        /\ mailed \in [Postings -> Nat] /\ taps \in 0..MaxTaps /\ faults \in Nat
    BY DEF Settle, daily, FrontTyped
  <1>3. Moves(f, NoTap)
    BY <1>1, <1>2 DEF Moves
  <1>4. MailInv'
    BY <1>1, <1>2, <1>3, RowsAsWere, MailAside
  <1> QED BY <1>2, <1>3, <1>4, RowsAsWere, FrontMoves

(* A channel that dies between the mail and the row leaves a mail without one, *)
(* and is a fault.                                                             *)
LEMMA FrontDiesKeeps ==
  ASSUME FrontTyped, SettleInv, MailInv, NEW f \in Fronts, FrontDies(f)
  PROVE  FrontKeeps
  <1>p. PICK j \in Postings : j = front[f].at
    BY DEF FrontDies, FrontTyped
  <1>1. NoTap \in Taps /\ NoTap.pc = "idle"
    BY DEF NoTap, Taps
  <1>2. /\ front' = [front EXCEPT ![f] = NoTap] /\ UNCHANGED <<apps, mailed, taps>>
        /\ front[f].pc # "idle" /\ j \in Postings /\ front[f] \in Taps
        /\ mailed \in [Postings -> Nat] /\ taps \in 0..MaxTaps
        /\ faults \in Nat /\ faults' = faults + 1
    BY <1>p DEF FrontDies, Fault, FrontTyped
  <1>3. Moves(f, NoTap)
    BY <1>1, <1>2 DEF Moves
  <1>4. CASE front[f].pc # "record"
    <2>1. MailInv'
      BY <1>1, <1>2, <1>3, <1>4, RowsAsWere, MailAside
    <2> QED BY <1>2, <1>3, <2>1, RowsAsWere, FrontMoves
  <1>5. CASE front[f].pc = "record"
    <2>1. ASSUME RouteOf[j] = "email"
          PROVE  /\ apps'[j].rows + Cardinality(Between(j)') <= mailed'[j]
                 /\ mailed'[j] <= apps'[j].rows + Cardinality(Between(j)') + faults'
      <3>1. Between(j)' = Between(j) \ {f} /\ f \in Between(j)
        BY <1>p, <1>1, <1>2, <1>3, <1>5, BetweenAfter
      <3> DEFINE n == Cardinality(Between(j))  m == mailed[j]  r == apps[j].rows
      <3>2. Cardinality(Between(j)') = n - 1
        BY <3>1, BetweenSmall, BetweenCounts
      <3>3. /\ r \in Nat /\ m \in Nat /\ faults \in Nat /\ n \in Nat
            /\ r + n <= m /\ m <= r + n + faults
        BY <1>2, <2>1, MailSum
      <3>4. apps'[j].rows = r /\ mailed'[j] = m /\ faults' = faults + 1
        BY <1>2
      <3> HIDE DEF n, m, r
      <3> QED BY <3>2, <3>3, <3>4
    <2>2. front[f].at = j /\ faults' \in Nat /\ faults' >= faults /\ NoTap.pc # "record"
      BY <1>p, <1>1, <1>2
    <2>4. \A k \in Postings \ {j} : apps'[k].rows = apps[k].rows /\ mailed'[k] = mailed[k]
      BY <1>2
    <2>3. MailInv'
      BY <1>2, <1>3, <2>1, <2>2, <2>4, MailOne
    <2> QED BY <1>2, <1>3, <2>3, RowsAsWere, FrontMoves
  <1> QED BY <1>4, <1>5

-----------------------------------------------------------------------------
(* The steps *)

(* Who is said to have applied has a row, when no other posting is said to.    *)
LEMMA AppliedKept ==
  ASSUME FrontTyped, AppliedInv, RowsGrow,
         \A j \in Postings : jobs'[j].status = "applied" =>
            jobs[j].status = "applied" \/ apps'[j].rows > 0
  PROVE  AppliedInv'
  <1>1. ASSUME NEW j \in Postings, jobs'[j].status = "applied"
        PROVE  apps'[j].rows > 0
    <2>1. apps[j] \in AppRows /\ apps'[j] \in AppRows
      BY DEF FrontTyped, RowsGrow
    <2>2. apps[j].rows \in Nat /\ apps'[j].rows \in Nat /\ apps'[j].rows >= apps[j].rows
      BY <2>1 DEF AppRows, RowsGrow
    <2>3. jobs[j].status = "applied" \/ apps'[j].rows > 0
      BY <1>1
    <2>4. jobs[j].status = "applied" => apps[j].rows > 0
      BY DEF AppliedInv
    <2> QED BY <2>2, <2>3, <2>4
  <1> QED BY <1>1 DEF AppliedInv

(* What the invariant keeps, step for step. *)
Upholds == HuntTyped' /\ Kept /\ FrontKeeps /\ AppliedInv'

(* A step of the hunt, a worker, the retirement or the clock leaves the        *)
(* applications, but for its faults.                                           *)
LEMMA FrontAside ==
  ASSUME FrontTyped, SettleInv, MailInv, AppliedInv, HuntKeeps,
         UNCHANGED apps, UNCHANGED deciding, faults' \in Nat, faults' >= faults
  PROVE  Upholds
  <1>1. UNCHANGED <<apps, front, mailed>> /\ taps' \in 0..MaxTaps
    BY DEF deciding, FrontTyped
  <1>2. FrontKeeps
    BY <1>1, AsideKeeps
  <1>3. AppliedInv'
    BY <1>2, AppliedKept DEF FrontKeeps, HuntKeeps, NoneApplied
  <1> QED BY <1>2, <1>3 DEF Upholds, HuntKeeps

(* What a channel does to the postings. *)
LEMMA DecidedKeeps ==
  ASSUME HuntTyped, ClosedInv, FrontTyped, AppliedInv, FrontKeeps, NEW f \in Fronts,
         UNCHANGED sweeper, UNCHANGED scoring,
         \/ jobs' = jobs
         \/ \E j \in Postings : Becomes(j, jobs[j].status) \/ Becomes(j, "skipped")
  PROVE  Upholds
  <1>1. HuntKeeps
    BY OthersKeep
  <1>2. AppliedInv'
    BY <1>1, AppliedKept DEF FrontKeeps, HuntKeeps, NoneApplied
  <1> QED BY <1>1, <1>2 DEF Upholds, HuntKeeps

(* A settled approval closes a posting that has its row. *)
LEMMA SettledKeeps ==
  ASSUME HuntTyped, ClosedInv, FrontTyped, SettleInv, AppliedInv, FrontKeeps, NEW f \in Fronts,
         Settle(f), UNCHANGED sweeper, UNCHANGED scoring
  PROVE  Upholds
  <1>p. PICK j \in Postings : j = front[f].at
    BY DEF Settle, FrontTyped
  <1>1. "applied" \in Statuses /\ "applied" \in Resolved
    BY DEF Statuses, Resolved
  <1>2. SetStatus(j, "applied") /\ apps[j].rows > 0 /\ UNCHANGED apps
    BY <1>p DEF Settle, SettleInv
  <1>3. Becomes(j, "applied")
    BY <1>1, <1>2, SetStatusDoes DEF HuntTyped
  <1>4. HuntTyped'
    BY <1>3 DEF HuntTyped, scoring, Becomes
  <1>5. \A k : InHand(k)' => InHand(k)
    BY DEF InHand, scoring
  <1>6. Kept
    BY <1>1, <1>3, <1>5 DEF Kept, ClosedInv, Becomes
  <1>7. AppliedInv'
    BY <1>2, <1>3, AppliedKept DEF FrontKeeps, Becomes
  <1> QED BY <1>4, <1>6, <1>7 DEF Upholds

(* A channel that decides, applies or dies. *)
LEMMA FrontUpholds ==
  ASSUME HuntTyped, ClosedInv, FrontTyped, SettleInv, MailInv, AppliedInv, NEW f \in Fronts,
         ((Deciding(f) \/ Applying(f)) /\ UNCHANGED daily) \/ FrontDies(f),
         UNCHANGED sweeper, UNCHANGED scoring
  PROVE  Upholds
  <1>j. jobs \in [Postings -> JobRows]
    BY DEF HuntTyped
  <1>1. ASSUME NEW j \in Postings, Approve(f, j), UNCHANGED daily
        PROVE  Upholds
    <2>1. FrontKeeps /\ jobs' = jobs
      BY <1>1, ApproveKeeps DEF Approve
    <2> QED BY <2>1, DecidedKeeps
  <1>2. ASSUME NEW j \in Postings, Skip(f, j) \/ Tailor(f, j), UNCHANGED daily
        PROVE  Upholds
    <2>1. /\ UNCHANGED <<apps, front, mailed>> /\ taps' \in 0..MaxTaps
          /\ faults' \in Nat /\ faults' >= faults
      BY <1>2, JobsAssumption DEF Skip, Tailor, Tap, FrontTyped, daily
    <2>2. FrontKeeps
      BY <2>1, AsideKeeps
    <2>3. CASE Skip(f, j)
      <3>1. "skipped" \in Statuses /\ SetStatus(j, "skipped")
        BY <2>3 DEF Skip, Statuses, Resolved
      <3>2. Becomes(j, "skipped")
        BY <1>j, <3>1, SetStatusDoes
      <3> QED BY <2>2, <3>2, DecidedKeeps
    <2>4. CASE Tailor(f, j)
      <3>1. PICK v \in Tailored(jobs[j].variant) : jobs' = [jobs EXCEPT ![j].variant = v]
        BY <2>4 DEF Tailor
      <3>2. Becomes(j, jobs[j].status)
        BY <1>j, <3>1, SetVariantDoes
      <3> QED BY <2>2, <3>2, DecidedKeeps
    <2> QED BY <1>2, <2>3, <2>4
  <1>3. ASSUME AutoTailor(f), UNCHANGED daily
        PROVE  Upholds
    <2>1. FrontKeeps
      BY <1>3, AutoTailorKeeps
    <2>2. PICK j \in Postings : j = front[f].at
      BY <1>3 DEF AutoTailor, FrontTyped
    <2>3. PICK v \in Tailored(jobs[j].variant) : jobs' = [jobs EXCEPT ![j].variant = v]
      BY <1>3, <2>2 DEF AutoTailor
    <2>4. Becomes(j, jobs[j].status)
      BY <1>j, <2>3, SetVariantDoes
    <2> QED BY <2>1, <2>4, DecidedKeeps
  <1>4. ASSUME Send(f) \/ Record(f), UNCHANGED daily
        PROVE  Upholds
    <2>1. FrontKeeps /\ jobs' = jobs
      BY <1>4, SendKeeps, RecordKeeps DEF Send, Record
    <2> QED BY <2>1, DecidedKeeps
  <1>5. ASSUME Settle(f), UNCHANGED daily
        PROVE  Upholds
    BY <1>5, SettleKeeps, SettledKeeps
  <1>6. ASSUME FrontDies(f)
        PROVE  Upholds
    <2>1. FrontKeeps /\ jobs' = jobs
      BY <1>6, FrontDiesKeeps DEF FrontDies
    <2> QED BY <2>1, DecidedKeeps
  <1> QED BY <1>1, <1>2, <1>3, <1>4, <1>5, <1>6 DEF Deciding, Applying

(* The watch writes the state of an application, never how many there are. *)
LEMMA WatchUpholds ==
  ASSUME HuntTyped, ClosedInv, FrontTyped, WatchTyped, SettleInv, MailInv, AppliedInv,
         ((Checking \/ Answering) /\ UNCHANGED daily) \/ CheckDies, WatchersOnly
  PROVE  Upholds /\ WatchTyped'
  <1>0. /\ UNCHANGED <<jobs, sweeper, front, taps, mailed>> /\ UNCHANGED scoring
        /\ faults' \in Nat /\ faults' >= faults /\ taps' \in 0..MaxTaps
    BY DEF WatchersOnly, deciding, FrontTyped, Checking, Answering, CheckDies, Fault, daily
  <1>k. NoCheck.becomes = "none" /\ \A r : [NoCheck EXCEPT !.pc = "read", !.todo = r,
                                                          !.known = alerted].becomes = "none"
    BY DEF NoCheck
  <1>1. /\ RowsGrow /\ \A j \in Postings : apps'[j].rows = apps[j].rows
        /\ WatchTyped'
    <2>1. CASE CheckStart
      <3>1. UNCHANGED <<apps, replies, told>> /\ checker'.becomes = "none"
        BY <2>1, <1>k DEF CheckStart
      <3> QED BY <3>1, RowsAsWere DEF WatchTyped
    <2>2. ASSUME NEW m \in replies, CheckMail(m)
          PROVE  RowsGrow /\ (\A j \in Postings : apps'[j].rows = apps[j].rows) /\ WatchTyped'
      <3>1. /\ UNCHANGED <<apps, replies>> /\ told' \subseteq told \cup {m}
            /\ checker'.becomes \in {checker.becomes, "replied", "interview"}
        <4> DEFINE becomes == IF m[2] = "response" THEN "replied" ELSE "interview"
        <4>1. checker' = [checker EXCEPT
                !.todo = @ \ {m}, !.known = @ \cup {m},
                !.pc = IF Rank[becomes] > Rank[apps[m[1]].state] THEN "link" ELSE "read",
                !.at = m[1], !.becomes = becomes]
          BY <2>2 DEF CheckMail
        <4>2. becomes \in {"replied", "interview"}
          OBVIOUS
        <4> HIDE DEF becomes
        <4>3. checker'.becomes = checker.becomes \/ checker'.becomes = becomes
          BY <4>1
        <4> QED BY <2>2, <4>2, <4>3 DEF CheckMail
      <3> QED BY <2>2, <3>1, RowsAsWere DEF WatchTyped
    <2>3. CASE Link
      <3>1. /\ apps' = [apps EXCEPT ![checker.at].state = checker.becomes]
            /\ UNCHANGED <<replies, told>> /\ checker' = [checker EXCEPT !.pc = "read"]
        BY <2>3 DEF Link
      <3> DEFINE b == checker.becomes  a == checker.at
      <3>2. b \in {"none", "replied", "interview"} /\ apps \in [Postings -> AppRows]
        BY DEF WatchTyped, FrontTyped
      <3>3. checker'.becomes = b
        BY <3>1
      <3>4. apps' = [apps EXCEPT ![a].state = b]
        BY <3>1
      <3> HIDE DEF a, b
      <3>5. \A j \in Postings : apps[j] \in AppRows
        BY <3>2
      <3>6. \A j \in Postings : [apps[j] EXCEPT !.state = b] \in AppRows
                                /\ [apps[j] EXCEPT !.state = b].rows = apps[j].rows
        BY <3>2, <3>5 DEF AppRows
      <3>7. /\ apps' \in [Postings -> AppRows]
            /\ \A j \in Postings : apps'[j].rows = apps[j].rows
        BY <3>2, <3>4, <3>5, <3>6
      <3>8. \A j \in Postings : apps[j].rows \in Nat
        BY <3>5 DEF AppRows
      <3> QED BY <3>1, <3>2, <3>3, <3>7, <3>8 DEF RowsGrow, WatchTyped, b
    <2>4. CASE CheckEnd \/ CheckDies
      BY <1>k, <2>4, RowsAsWere DEF CheckEnd, CheckDies, WatchTyped
    <2>5. ASSUME NEW j \in Postings, NEW label \in Labels, Answered(j, label)
          PROVE  RowsGrow /\ (\A k \in Postings : apps'[k].rows = apps[k].rows) /\ WatchTyped'
      <3>1. <<j, label>> \in Postings \X Labels
        OBVIOUS
      <3> QED BY <2>5, <3>1, RowsAsWere DEF Answered, WatchTyped
    <2> QED BY <2>1, <2>2, <2>3, <2>4, <2>5 DEF Checking, Answering
  <1>2. \A j : Between(j)' = Between(j)
    BY <1>0 DEF Between
  <1>3. MailInv'
    BY <1>0, <1>1, <1>2, MailKept
  <1>4. FrontTyped' /\ SettleInv'
    BY <1>0, <1>1 DEF FrontTyped, RowsGrow, SettleInv
  <1>5. HuntKeeps
    BY <1>0, OthersKeep
  <1>6. AppliedInv'
    BY <1>0, <1>1, AppliedKept
  <1> QED BY <1>1, <1>3, <1>4, <1>5, <1>6 DEF Upholds, FrontKeeps, HuntKeeps

(* The table of postings, and that of applications, when a behaviour begins. *)
LEMMA InitUpholds == Init => AllInv
  <1> SUFFICES ASSUME Init PROVE AllInv
    OBVIOUS
  <1>0. DailyInit /\ JobsInit
    BY DEF Init
  <1>1. jobs \in [Postings -> JobRows] /\ \A j \in Postings : jobs[j].status # "applied"
    <2>1. /\ Absent \in JobRows /\ Offered \in JobRows
          /\ Absent.status # "applied" /\ Offered.status # "applied"
      <3>1. 0 \in 0..MaxScore /\ MaxScore \in 0..MaxScore
        BY JobsAssumption
      <3>2. Absent \in JobRows /\ Absent.status = "absent"
        BY <3>1 DEF Absent, JobRows, Windows
      <3>3. Offered \in JobRows /\ Offered.status = "notified"
        BY <3>1 DEF Offered, JobRows, Statuses, Pending, Windows
      <3> QED BY <3>2, <3>3
    <2>2. jobs = [j \in Postings |-> IF Goes("listed") THEN Offered ELSE Absent]
      BY <1>0 DEF JobsInit
    <2> QED BY <2>1, <2>2
  <1>2. /\ apps \in [Postings -> AppRows] /\ mailed \in [Postings -> Nat]
        /\ \A j \in Postings : mailed[j] = apps[j].rows
    <2>1. CASE Goes("watch")
      <3>1. /\ apps = [j \in Postings |-> [rows |-> 1, state |-> "applied"]]
            /\ mailed = [j \in Postings |-> 1]
        BY <1>0, <2>1 DEF JobsInit
      <3> QED BY <3>1 DEF AppRows
    <2>2. CASE ~Goes("watch")
      <3>1. /\ apps = [j \in Postings |-> [rows |-> 0, state |-> "none"]]
            /\ mailed = [j \in Postings |-> 0]
        BY <1>0, <2>2 DEF JobsInit
      <3> QED BY <3>1 DEF AppRows
    <2> QED BY <2>1, <2>2
  <1>3. HuntTyped
    BY <1>0, <1>1, NoneOfThem DEF JobsInit, HuntTyped
  <1>4. /\ front \in [Fronts -> Taps] /\ \A f \in Fronts : front[f].pc = "idle"
        /\ faults = 0 /\ taps = 0 /\ closed = {}
    BY <1>0 DEF JobsInit, DailyInit, NoTap, Taps
  <1>5. FrontTyped
    BY <1>2, <1>4, JobsAssumption DEF FrontTyped
  <1>6. WatchTyped
    BY <1>0 DEF JobsInit, WatchTyped, NoCheck
  <1>7. ASSUME NEW j \in Postings
        PROVE  /\ apps[j].rows + Cardinality(Between(j)) <= mailed[j]
               /\ mailed[j] <= apps[j].rows + Cardinality(Between(j)) + faults
    <2>1. Between(j) = {}
      BY <1>4 DEF Between
    <2>2. Cardinality(Between(j)) = 0
      BY <2>1, FS_EmptySet
    <2>3. apps[j] \in AppRows
      BY <1>2
    <2>4. apps[j].rows \in Nat /\ mailed[j] = apps[j].rows
      BY <1>2, <2>3 DEF AppRows
    <2> QED BY <1>4, <2>2, <2>4
  <1>8. MailInv /\ SettleInv /\ AppliedInv /\ ClosedInv
    BY <1>1, <1>4, <1>7 DEF MailInv, SettleInv, AppliedInv, ClosedInv
  <1> QED BY <1>3, <1>5, <1>6, <1>8 DEF AllInv, Typed

LEMMA NextUpholds == AllInv /\ [JobsNext]_<<daily, jobsVars>> => AllInv'
  <1> SUFFICES ASSUME AllInv, [JobsNext]_<<daily, jobsVars>> PROVE AllInv'
    OBVIOUS
  <1>i. /\ HuntTyped /\ FrontTyped /\ WatchTyped
        /\ ClosedInv /\ SettleInv /\ MailInv /\ AppliedInv
    BY DEF AllInv, Typed
  <1>f. faults \in Nat
    BY <1>i DEF FrontTyped
  <1>a. ASSUME Upholds, Close, WatchTyped'
        PROVE  AllInv'
    BY <1>a, <1>i, ClosedKept DEF AllInv, Typed, Upholds, FrontKeeps
  <1>w. ASSUME UNCHANGED watching
        PROVE  WatchTyped'
    BY <1>w, <1>i DEF watching, WatchTyped
  <1>1. CASE ScoreStep
    <2>1. HuntKeeps
      BY <1>1, <1>i, ScoreStepKeeps DEF ScoreStep, ScorersOnly
    <2>2. faults' \in Nat /\ faults' >= faults
      BY <1>1, <1>f DEF ScoreStep, daily
    <2> QED BY <1>1, <1>i, <1>a, <1>w, <2>1, <2>2, FrontAside DEF ScoreStep, ScorersOnly
  <1>2. CASE ScoreElse
    <2>1. HuntKeeps
      BY <1>2, <1>i, ScoreStepKeeps DEF ScoreElse, ScorersOnly
    <2>2. faults' \in Nat /\ faults' >= faults
      BY <1>2, <1>f DEF ScoreElse, daily, HuntDies, WorkerDies, Fault
    <2> QED BY <1>2, <1>i, <1>a, <1>w, <2>1, <2>2, FrontAside DEF ScoreElse, ScorersOnly
  <1>3. CASE SweepStep
    <2>1. HuntKeeps
      BY <1>3, <1>i, SweepKeeps DEF SweepStep
    <2>2. faults' \in Nat /\ faults' >= faults
      BY <1>3, <1>f DEF SweepStep, daily
    <2> QED BY <1>3, <1>i, <1>a, <1>w, <2>1, <2>2, FrontAside DEF SweepStep
  <1>4. CASE FrontStep
    BY <1>4, <1>i, <1>a, <1>w, FrontUpholds DEF FrontStep
  <1>5. CASE CheckStep \/ WatchElse
    BY <1>5, <1>i, <1>a, WatchUpholds DEF CheckStep, WatchElse, WatchersOnly
  <1>6. CASE TimeStep
    <2>1. HuntKeeps
      <3>1. \E j \in Postings : Becomes(j, jobs[j].status)
        BY <1>6, <1>i, PassDoes DEF TimeStep, HuntTyped
      <3> QED BY <1>6, <1>i, <3>1, OthersKeep DEF TimeStep
    <2>2. faults' \in Nat /\ faults' >= faults
      BY <1>6, <1>f DEF TimeStep, daily
    <2> QED BY <1>6, <1>i, <1>a, <1>w, <2>1, <2>2, FrontAside DEF TimeStep
  <1>7. CASE UNCHANGED <<daily, jobsVars>>
    <2>1. /\ UNCHANGED <<jobs, apps, scoreRows, hunter, scorer, sweeper, front, taps, mailed>>
          /\ UNCHANGED <<replies, told, checker, closed, faults>>
      BY <1>7 DEF daily, jobsVars
    <2>2. HuntTyped' /\ FrontTyped' /\ WatchTyped'
      BY <1>i, <2>1 DEF HuntTyped, FrontTyped, WatchTyped
    <2>3. ClosedInv'
      BY <1>i, <2>1 DEF ClosedInv, InHand
    <2>4. SettleInv' /\ AppliedInv'
      BY <1>i, <2>1 DEF SettleInv, AppliedInv
    <2>5. \A j : Between(j)' = Between(j)
      BY <2>1 DEF Between
    <2>6. MailInv'
      BY <1>i, <1>f, <2>1, <2>5, MailKept
    <2> QED BY <2>2, <2>3, <2>4, <2>6 DEF AllInv, Typed
  <1> QED BY <1>1, <1>2, <1>3, <1>4, <1>5, <1>6, <1>7 DEF JobsNext

-----------------------------------------------------------------------------
(* The theorems *)

LEMMA Invariant == Spec => []AllInv
  BY InitUpholds, NextUpholds, PTL DEF Spec

(* Every row, list and local variable of the hunt has its type, whoever fails  *)
(* or dies.                                                                    *)
THEOREM TypeCorrect == Spec => []JobsTypeOK
  <1>1. AllInv => JobsTypeOK
    <2> SUFFICES ASSUME AllInv PROVE JobsTypeOK
      OBVIOUS
    <2>i. HuntTyped /\ FrontTyped /\ WatchTyped
      BY DEF AllInv, Typed
    <2>1. ASSUME NEW j \in Postings
          PROVE  /\ jobs[j].status \in Statuses \cup {"absent"}
                 /\ jobs[j].score \in 0..MaxScore /\ jobs[j].window \in Windows
                 /\ jobs[j].variant \in {"none", "ready"}
                 /\ apps[j].rows \in Nat /\ apps[j].state \in DOMAIN Rank
                 /\ scoreRows[j] \in {"none", "queued", "running"}
                 /\ mailed[j] \in Nat
      <3>1. jobs[j] \in JobRows /\ apps[j] \in AppRows
        BY <2>i DEF HuntTyped, FrontTyped
      <3>2. DOMAIN Rank = {"none", "applied", "tracked", "replied", "interview"}
        BY DEF Rank
      <3>3. apps[j].rows \in Nat /\ apps[j].state \in DOMAIN Rank
        BY <3>1, <3>2 DEF AppRows
      <3>4. /\ jobs[j].status \in Statuses \cup {"absent"}
            /\ jobs[j].score \in 0..MaxScore /\ jobs[j].window \in Windows
            /\ jobs[j].variant \in {"none", "ready"}
        BY <3>1 DEF JobRows
      <3> QED BY <2>i, <3>3, <3>4 DEF HuntTyped, FrontTyped
    <2>2. sweeper.due \subseteq Postings
      BY <2>i DEF HuntTyped, Sweepers
    <2> QED BY <2>i, <2>1, <2>2 DEF JobsTypeOK, FrontTyped, WatchTyped
  <1> QED BY <1>1, Invariant, PTL

(* A posting that was skipped, expired or applied for, while no hunt and no    *)
(* worker had it in hand, is never offered again: not for a source that lists  *)
(* it once more, nor for a row of the queue that comes late.                   *)
THEOREM ClosedStays == Spec => []ClosedStaysClosed
  <1>1. AllInv => ClosedStaysClosed
    BY DEF AllInv, ClosedInv, ClosedStaysClosed
  <1> QED BY <1>1, Invariant, PTL

(* The table of applications tells what the companies got, but for a mail whose *)
(* process died before its row, and what is said to be applied for has a row.   *)
THEOREM ApplicationsTrue == Spec => []ApplicationsAreTrue
  <1>1. AllInv => ApplicationsAreTrue
    BY DEF AllInv, MailInv, AppliedInv, Between, ApplicationsAreTrue
  <1> QED BY <1>1, Invariant, PTL
=============================================================================
