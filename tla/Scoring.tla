------------------------------ MODULE Scoring -------------------------------
(***************************************************************************)
(* Which listings of a marketplace are worth pursuing                      *)
(* (skills/deal_broker/scoring.py and the scan of skill.py).  A listing is *)
(* stored as it was when a scan first saw it, compared once with what the  *)
(* others of its model were offered for, and pursued or rejected for good; *)
(* what becomes of it then is the module DealBroker.  Prices are whole and *)
(* points thousandths, where the code has floats and rounds to a tenth.    *)
(***************************************************************************)
EXTENDS Daily

CONSTANTS
  Asked,        \* the prices listings may ask; 0 where none could be parsed
  Others,       \* the listings of the same model that are known, as in rows
  DayCounts,    \* how old a listing is, in days
  MaxUrges,     \* bound on price drops
  SettledSlow   \* the settings call its category a slow one

ScoringAssumption ==
  Asked \subseteq Nat /\ DayCounts \subseteq Nat /\ MaxUrges \in Nat /\ SettledSlow \in BOOLEAN
  /\ IsFiniteSet(Others) /\ Others = 1..Cardinality(Others)
ASSUME ScoringAssumption

VARIABLES
  ad,           \* external: the listing as the marketplace shows it
  row,          \* what is stored of it, and its state
  comps,        \* the prices of the others, 0 where there is none
  sold,         \* external: how fast its category has turned out to sell
  floor         \* the margin floor of his standing instructions, 0 without one

scoringVars == <<ad, row, comps, sold, floor>>

Paces == {"unknown", "fast", "slow"}
NoRow == [state |-> "none", price |-> 0, urges |-> 0, points |-> 0]

ScoringInit ==
  /\ row = NoRow
  /\ IF Goes("scoring")
     THEN /\ comps \in {c \in [Others -> Asked] : \A i, j \in Others : i < j => c[i] <= c[j]}
          /\ ad \in [price : Asked, age : DayCounts, urges : {0}] /\ floor \in {0, 40} /\ sold \in Paces
     ELSE /\ comps = [i \in Others |-> 0] /\ ad = [price |-> 0, age |-> 0, urges |-> 0]
          /\ floor = 0 /\ sold = "unknown"

-----------------------------------------------------------------------------
(* comp_median: what the listings of its model ask, itself excluded, those without a price *)
(* left out; twice the median, as it may be halfway between two.                           *)
Priced == {i \in Others : comps[i] # 0}

(* A mutant of the next definition: the mean, which one dear listing moves. *)
TwiceMean ==
  LET sum[i \in 0..Cardinality(Others)] == IF i = 0 THEN 0 ELSE comps[i] + sum[i - 1]
  IN (2 * sum[Cardinality(Others)]) \div Cardinality(Priced)

TwiceMedian ==
  LET n == Cardinality(Priced)
      AtRank(k) == comps[Cardinality(Others) - n + k]
  IN AtRank((n + 1) \div 2) + AtRank(n \div 2 + 1)

(* score_listing: how far below the median it is, and points for that, for its age and for *)
(* its seller's urges.                                                                      *)
Below == TwiceMedian - 2 * row.price
AtLeast(percent) == 100 * Below >= percent * TwiceMedian
Least2(a, b) == IF a <= b THEN a ELSE b
Points == 40000 + Least2(35000, (35000 * (10 * Below - 2 * TwiceMedian)) \div (3 * TwiceMedian))
                + Least2(15000, 500 * ad.age) + Least2(10000, (10000 * row.urges) \div 3)

(* What is observed of a category counts before what the settings say of it. *)
Slow  == IF sold = "unknown" THEN SettledSlow ELSE sold = "slow"
Stale == ad.age >= 14 \/ row.urges > 0
Scores == IF row.price = 0 \/ Priced = {} THEN 0
          ELSE IF Slow \/ ~AtLeast(20) \/ ~Stale THEN 0
          ELSE Points

-----------------------------------------------------------------------------
(* The seller posts it, drops its price or posts it again; days pass. *)
Drop ==
  /\ ad.urges < MaxUrges
  /\ \E p \in Asked : p < ad.price /\ ad' = [ad EXCEPT !.price = p, !.urges = @ + 1]
  /\ UNCHANGED <<row, comps, sold, floor>>
Wait ==
  /\ \E a \in DayCounts : a > ad.age /\ ad' = [ad EXCEPT !.age = a]
  /\ UNCHANGED <<row, comps, sold, floor>>

(* upsert_listing: only a first sighting is stored. *)
Sight ==
  /\ row.state = "none"
  /\ row' = [NoRow EXCEPT !.state = "DISCOVERED", !.price = ad.price, !.urges = ad.urges]
  /\ UNCHANGED <<ad, comps, sold, floor>>

Judge ==
  /\ row.state = "DISCOVERED"
  /\ row' = [row EXCEPT !.state = "SCORING", !.points = Scores]
  /\ UNCHANGED <<ad, comps, sold, floor>>

(* His instructions have the last word. *)
Settle ==
  /\ row.state = "SCORING"
  /\ row' = [row EXCEPT !.state = IF row.points >= 59950 /\ (floor = 0 \/ AtLeast(floor))
                                  THEN "NEGOTIATING" ELSE "REJECTED"]
  /\ UNCHANGED <<ad, comps, sold, floor>>

ScoringNext ==
  /\ Goes("scoring") /\ UNCHANGED daily
  /\ Drop \/ Wait \/ Sight \/ Judge \/ Settle

-----------------------------------------------------------------------------
(* A listing is pursued only when at least half of the others of its model were offered for *)
(* a quarter more than it, however dear a few of them are, when its margin respects his     *)
(* floor, its category sells fast, and it was old or its seller urged (scoring.py:4).       *)
OnlyBargainsArePursued ==
  row.state = "NEGOTIATING" =>
    /\ 2 * Cardinality({i \in Priced : 4 * comps[i] >= 5 * row.price}) >= Cardinality(Priced)
    /\ row.price # 0 /\ Priced # {}
    /\ AtLeast(floor) /\ ~Slow
    /\ ad.age >= 14 \/ row.urges > 0
=============================================================================
