----------------------------- MODULE PlanProofs -----------------------------
(***************************************************************************)
(* Proofs about a goal plan, from its validation to its end: the module's  *)
(* first part is about PlanValidation, the second about PlanExecution.     *)
(*                                                                         *)
(* The validation is computed by functions defined recursively, over the   *)
(* steps or over a list.  Each is shown to exist (TableExists) and to do   *)
(* what its name says by induction on a set of numbers (Induction): what   *)
(* Chosen, DropDependents and Ancestors return, and what Kahn's algorithm  *)
(* keeps true from pop to pop (KahnInv).  From there the two properties of *)
(* validate_plan follow, for plans of any size, and that what it lets      *)
(* through meets what PlanExecution assumes of its plans.                  *)
(*                                                                         *)
(* The execution, for any plans, limits, fronts and workers: Typed holds   *)
(* of all of them; so does DepInv, from which every step runs after those  *)
(* it depends on.  Fresh, Asked and InlineInv are about who may still save *)
(* which rows.  The last two need OneFront: a front's late save of its     *)
(* whole copy would undo what another front has recorded.                  *)
(*                                                                         *)
(* Each invariant is carried over every action by a lemma per group of     *)
(* actions (Front..., Flush..., Walk..., Work..., Fault...), which in turn *)
(* rest on one lemma about a process that saves a copy (StepTyped,         *)
(* StepDeps, SaveFresh, SaveAsked, SaveInline, SaveDone).                  *)
(***************************************************************************)
EXTENDS PlanValidation, PlanExecution, SequenceTheorems, FiniteSetTheorems, TLAPS

-----------------------------------------------------------------------------
(* The validation *)

LEMMA Induction ==
  ASSUME NEW n \in Nat, NEW S, 0 \in S, \A k \in 0 .. n - 1 : k \in S => k + 1 \in S
  PROVE  \A k \in 0 .. n : k \in S
PROOF
  <1> DEFINE Bad == {k \in 0 .. n : k \notin S}
  <1> SUFFICES ASSUME Bad # {} PROVE FALSE
    OBVIOUS
  <1>1. Bad \subseteq Nat
    OBVIOUS
  <1>2. PICK k \in Bad : \A j \in Bad : ~(j < k)
    <2> HIDE DEF Bad
    <2>1. PICK k \in Bad : \A j \in Bad : <<j, k>> \notin OpToRel(<, Nat)
      BY <1>1, NatLessThanWellFounded, WFMin
    <2>2. \A j \in Bad : ~(j < k)
      BY <1>1, <2>1 DEF OpToRel
    <2> QED BY <2>2
  <1>3. k - 1 \in 0 .. n - 1 /\ k - 1 \notin Bad
    BY <1>2
  <1> QED BY <1>3

(* n steps on values of Z, the k-th being F[k], and a table of the values they lead to from z0. *)
AreSteps(F, n, Z) == F \in [1 .. n -> [Z -> Z]]
IsTable(g, F, n, Z, z0) ==
  /\ g \in [0 .. n -> Z]
  /\ g[0] = z0
  /\ \A k \in 1 .. n : g[k] = F[k][g[k - 1]]

LEMMA TableExists ==
  ASSUME NEW n \in Nat, NEW Z, NEW z0 \in Z, NEW F, AreSteps(F, n, Z)
  PROVE  \E g : IsTable(g, F, n, Z, z0)
PROOF
  <1> DEFINE S == {m \in 0 .. n : \E g : IsTable(g, F, m, Z, z0)}
  <1>1. 0 \in S
    <2>1. IsTable([k \in 0 .. 0 |-> z0], F, 0, Z, z0)
      BY DEF IsTable
    <2> QED BY <2>1
  <1>2. ASSUME NEW m \in 0 .. n - 1, m \in S
        PROVE  m + 1 \in S
    <2>1. PICK g : IsTable(g, F, m, Z, z0)
      BY <1>2
    <2> DEFINE h == [k \in 0 .. m + 1 |-> IF k = m + 1 THEN F[k][g[m]] ELSE g[k]]
    <2>2. h \in [0 .. m + 1 -> Z]
      BY <2>1 DEF IsTable, AreSteps
    <2>3. \A k \in 1 .. m + 1 : h[k] = F[k][h[k - 1]]
      BY <2>1 DEF IsTable
    <2>4. IsTable(h, F, m + 1, Z, z0)
      BY <2>1, <2>2, <2>3 DEF IsTable
    <2> HIDE DEF h
    <2> QED BY <2>4
  <1>3. n \in S
    <2>1. \A m \in 0 .. n - 1 : m \in S => m + 1 \in S
      BY <1>2
    <2> HIDE DEF S
    <2>2. \A m \in 0 .. n : m \in S
      BY <1>1, <2>1, Induction
    <2> QED BY <2>2
  <1> QED BY <1>3

Distinct(list) == \A i, j \in 1 .. Len(list) : list[i] = list[j] => i = j

(* Appending something new. *)
LEMMA RangeAppend ==
  ASSUME NEW X, NEW t \in Seq(X), NEW x
  PROVE  Range(Append(t, x)) = Range(t) \cup {x}
PROOF
  <1>1. Len(t) \in Nat /\ DOMAIN t = 1 .. Len(t)
    BY LenProperties
  <1>2. DOMAIN Append(t, x) = (1 .. Len(t)) \cup {Len(t) + 1}
    OBVIOUS
  <1>3. \A i \in 1 .. Len(t) : Append(t, x)[i] = t[i]
    OBVIOUS
  <1>4. Append(t, x)[Len(t) + 1] = x
    OBVIOUS
  <1> QED BY <1>1, <1>2, <1>3, <1>4 DEF Range

LEMMA DistinctAppend ==
  ASSUME NEW X, NEW t \in Seq(X), NEW x, Distinct(t), x \notin Range(t)
  PROVE  Distinct(Append(t, x))
PROOF
  <1>1. Len(t) \in Nat /\ DOMAIN t = 1 .. Len(t)
    BY LenProperties
  <1>2. Len(Append(t, x)) = Len(t) + 1
    OBVIOUS
  <1>3. \A i \in 1 .. Len(t) : Append(t, x)[i] = t[i] /\ t[i] # x
    BY <1>1 DEF Range
  <1>4. Append(t, x)[Len(t) + 1] = x
    OBVIOUS
  <1> QED BY <1>1, <1>2, <1>3, <1>4 DEF Distinct

IsTaken(f, list, S) ==
  f = [i \in 0 .. Len(list) |->
         IF i = 0 THEN << >>
         ELSE IF list[i] \in S THEN Append(f[i - 1], list[i]) ELSE f[i - 1]]

LEMMA TakeExists ==
  ASSUME NEW X, NEW list \in Seq(X), NEW S
  PROVE  \E f : IsTaken(f, list, S)
PROOF
  <1> DEFINE n == Len(list)
             F == [k \in 1 .. n |-> [z \in Seq(X) |->
                     IF list[k] \in S THEN Append(z, list[k]) ELSE z]]
  <1>n. n \in Nat /\ \A k \in 1 .. n : list[k] \in X
    BY LenProperties
  <1> HIDE DEF n
  <1>1. AreSteps(F, n, Seq(X))
    <2>1. \A k \in 1 .. n, z \in Seq(X) :
            (IF list[k] \in S THEN Append(z, list[k]) ELSE z) \in Seq(X)
      BY <1>n, AppendProperties
    <2> QED BY <2>1 DEF AreSteps
  <1>2. PICK g : IsTable(g, F, n, Seq(X), << >>)
    <2>1. << >> \in Seq(X)
      OBVIOUS
    <2> HIDE DEF F
    <2> QED BY <1>n, <1>1, <2>1, TableExists
  <1>3. g \in [0 .. n -> Seq(X)] /\ g[0] = << >> /\ \A k \in 1 .. n : g[k] = F[k][g[k - 1]]
    <2> HIDE DEF F
    <2> QED BY <1>2 DEF IsTable
  <1>4. ASSUME NEW k \in 1 .. n
        PROVE  g[k] = IF list[k] \in S THEN Append(g[k - 1], list[k]) ELSE g[k - 1]
    <2>1. g[k - 1] \in Seq(X)
      BY <1>3, <1>n
    <2>2. F[k][g[k - 1]] = IF list[k] \in S THEN Append(g[k - 1], list[k]) ELSE g[k - 1]
      BY <2>1
    <2> HIDE DEF F
    <2> QED BY <1>3, <2>2
  <1>5. g = [i \in 0 .. n |->
               IF i = 0 THEN << >>
               ELSE IF list[i] \in S THEN Append(g[i - 1], list[i]) ELSE g[i - 1]]
    <2> HIDE DEF F
    <2> DEFINE h == [i \in 0 .. n |->
               IF i = 0 THEN << >>
               ELSE IF list[i] \in S THEN Append(g[i - 1], list[i]) ELSE g[i - 1]]
    <2>1. ASSUME NEW i \in 0 .. n
          PROVE  g[i] = h[i]
      <3>1. CASE i = 0
        BY <1>3, <3>1
      <3>2. CASE i # 0
        <4>1. i \in 1 .. n
          BY <3>2, <1>n
        <4>2. h[i] = IF list[i] \in S THEN Append(g[i - 1], list[i]) ELSE g[i - 1]
          BY <3>2
        <4> QED BY <1>4, <4>1, <4>2
      <3> QED BY <3>1, <3>2
    <2>2. DOMAIN h = 0 .. n /\ h = [i \in DOMAIN h |-> h[i]]
      OBVIOUS
    <2>3. DOMAIN g = 0 .. n /\ g = [i \in DOMAIN g |-> g[i]]
      BY <1>3
    <2>4. g = h
      <3> HIDE DEF h
      <3> QED BY <2>1, <2>2, <2>3
    <2> QED BY <2>4
  <1>6. IsTaken(g, list, S)
    <2> HIDE DEF F
    <2> QED BY <1>5, Zenon DEF n, IsTaken
  <1> QED BY <1>6

(* What Chosen keeps of a list: the members in S, each once if the list has each once. *)
LEMMA ChosenIs ==
  ASSUME NEW X, NEW list \in Seq(X), NEW S
  PROVE  /\ Chosen(list, S) \in Seq(X)
         /\ Range(Chosen(list, S)) = Range(list) \cap S
         /\ Distinct(list) => Distinct(Chosen(list, S))
PROOF
  <1> DEFINE n == Len(list)
             take[i \in 0 .. n] ==
               IF i = 0 THEN << >>
               ELSE IF list[i] \in S THEN Append(take[i - 1], list[i]) ELSE take[i - 1]
  <1>n. n \in Nat /\ list \in [1 .. n -> X]
    BY LenProperties
  <1>1. take = [i \in 0 .. n |->
                  IF i = 0 THEN << >>
                  ELSE IF list[i] \in S THEN Append(take[i - 1], list[i]) ELSE take[i - 1]]
    <2>1. \E f : f = [i \in 0 .. n |->
                       IF i = 0 THEN << >>
                       ELSE IF list[i] \in S THEN Append(f[i - 1], list[i]) ELSE f[i - 1]]
      <3>1. \E f : IsTaken(f, list, S)
        BY TakeExists
      <3> QED BY <3>1, Zenon DEF IsTaken
    <2> QED BY <2>1, ZenonT(40)
  <1>2. Chosen(list, S) = take[n]
    BY Zenon DEF Chosen
  <1> HIDE DEF n, take
  <1>3. take[0] = << >>
    BY <1>1, <1>n
  <1>4. \A k \in 1 .. n : take[k] = IF list[k] \in S THEN Append(take[k - 1], list[k]) ELSE take[k - 1]
    <2> SUFFICES ASSUME NEW k \in 1 .. n
                 PROVE  take[k] = IF list[k] \in S THEN Append(take[k - 1], list[k]) ELSE take[k - 1]
      OBVIOUS
    <2>1. k \in 0 .. n /\ k # 0
      BY <1>n
    <2> QED BY <1>1, <2>1, Zenon
  <1> DEFINE Before(k) == {list[j] : j \in 1 .. k} \cap S
             Good(k) == /\ take[k] \in Seq(X)
                        /\ Range(take[k]) = Before(k)
                        /\ Distinct(list) => Distinct(take[k])
             G == {k \in 0 .. n : Good(k)}
  <1>5. 0 \in G
    <2>1. Range(<< >>) = {} /\ Before(0) = {}
      BY DEF Range
    <2>2. Distinct(<< >>) /\ << >> \in Seq(X)
      BY DEF Distinct
    <2>3. Good(0)
      BY <1>3, <2>1, <2>2, Zenon
    <2>4. 0 \in 0 .. n
      BY <1>n
    <2> HIDE DEF Good
    <2> QED BY <2>3, <2>4
  <1>6. ASSUME NEW k \in 0 .. n - 1, k \in G
        PROVE  k + 1 \in G
    <2>1. k + 1 \in 1 .. n /\ k \in 0 .. n /\ Good(k) /\ list[k + 1] \in X
      BY <1>6, <1>n
    <2>2. take[k + 1] = IF list[k + 1] \in S THEN Append(take[k], list[k + 1]) ELSE take[k]
      BY <1>4, <2>1
    <2>3. Before(k + 1) = IF list[k + 1] \in S THEN Before(k) \cup {list[k + 1]} ELSE Before(k)
      <3>1. 1 .. k + 1 = (1 .. k) \cup {k + 1}
        OBVIOUS
      <3> QED BY <3>1
    <2>4. CASE list[k + 1] \notin S
      BY <2>1, <2>2, <2>3, <2>4
    <2>5. CASE list[k + 1] \in S
      <3> DEFINE t == take[k]
      <3>1. take[k + 1] = Append(t, list[k + 1]) /\ t \in Seq(X) /\ Range(t) = Before(k)
        BY <2>1, <2>2, <2>5
      <3>2. Append(t, list[k + 1]) \in Seq(X)
        BY <3>1, <2>1, AppendProperties
      <3>3. Range(Append(t, list[k + 1])) = Range(t) \cup {list[k + 1]}
        BY <3>1, <2>1, RangeAppend
      <3>4. ASSUME Distinct(list) PROVE Distinct(Append(t, list[k + 1]))
        <4>1. list[k + 1] \notin {list[j] : j \in 1 .. k}
          BY <3>4, <1>n, <2>1 DEF Distinct, n
        <4>2. list[k + 1] \notin Range(t)
          BY <3>1, <4>1
        <4>3. Distinct(t)
          BY <2>1, <3>4
        <4>4. t \in Seq(X)
          BY <3>1
        <4> HIDE DEF t
        <4> QED BY <4>2, <4>3, <4>4, DistinctAppend
      <3>5. Before(k + 1) = Before(k) \cup {list[k + 1]}
        BY <2>3, <2>5
      <3>6. Good(k + 1)
        <4> HIDE DEF Before
        <4> QED BY <3>1, <3>2, <3>3, <3>4, <3>5
      <3> HIDE DEF Good
      <3> QED BY <2>1, <1>n, <3>6
    <2> QED BY <2>4, <2>5
  <1>7. n \in G
    <2>1. \A k \in 0 .. n - 1 : k \in G => k + 1 \in G
      BY <1>6
    <2> HIDE DEF G
    <2>2. \A k \in 0 .. n : k \in G
      BY <1>n, <1>5, <2>1, Induction
    <2> QED BY <1>n, <2>2
  <1>8. Before(n) = Range(list) \cap S
    BY <1>n DEF Range
  <1> QED BY <1>2, <1>7, <1>8

(* No step of list outside C needs one in C. *)
ClosedIn(list, C) == \A s \in Range(list) : Needs(s) \cap C # {} => s \in C

(* What DropNext adds, if anything, is the step it looks at. *)
LEMMA DropNextIs ==
  ASSUME NEW D \in SUBSET Proposed, NEW s \in Proposed
  PROVE  /\ DropNext(D, s) \in SUBSET Proposed
         /\ D \subseteq DropNext(D, s)
         /\ DropNext(D, s) = D => (Needs(s) \cap D # {} => s \in D)
         /\ \A C : D \subseteq C /\ (Needs(s) \cap C # {} => s \in C) => DropNext(D, s) \subseteq C
PROOF
  BY DEF DropNext

LEMMA LookExists ==
  ASSUME NEW list \in Seq(Proposed), NEW D \in SUBSET Proposed
  PROVE  \E f : f = [i \in 0 .. Len(list) |-> IF i = 0 THEN D ELSE DropNext(f[i - 1], list[i])]
PROOF
  <1> DEFINE n == Len(list)
             Z == SUBSET Proposed
             F == [k \in 1 .. n |-> [z \in Z |-> DropNext(z, list[k])]]
  <1>n. n \in Nat /\ \A k \in 1 .. n : list[k] \in Proposed
    BY LenProperties
  <1> HIDE DEF n
  <1>1. AreSteps(F, n, Z)
    <2>1. \A k \in 1 .. n, z \in Z : DropNext(z, list[k]) \in Z
      BY <1>n, DropNextIs
    <2> HIDE DEF Z
    <2> QED BY <2>1 DEF AreSteps
  <1>2. PICK g : IsTable(g, F, n, Z, D)
    <2>1. D \in Z
      OBVIOUS
    <2> HIDE DEF F, Z
    <2> QED BY <1>n, <1>1, <2>1, TableExists
  <1> HIDE DEF Z
  <1>3. g \in [0 .. n -> Z] /\ g[0] = D /\ \A k \in 1 .. n : g[k] = F[k][g[k - 1]]
    <2> HIDE DEF F
    <2> QED BY <1>2 DEF IsTable
  <1>4. ASSUME NEW k \in 1 .. n
        PROVE  g[k] = DropNext(g[k - 1], list[k])
    <2>1. g[k - 1] \in Z
      BY <1>3, <1>n
    <2>2. F[k][g[k - 1]] = DropNext(g[k - 1], list[k])
      BY <2>1
    <2> HIDE DEF F
    <2> QED BY <1>3, <2>2
  <1> HIDE DEF F
  <1> DEFINE h == [i \in 0 .. n |-> IF i = 0 THEN D ELSE DropNext(g[i - 1], list[i])]
  <1>5. ASSUME NEW i \in 0 .. n
        PROVE  g[i] = h[i]
    <2>1. CASE i = 0
      BY <1>3, <2>1
    <2>2. CASE i # 0
      <3>1. i \in 1 .. n
        BY <2>2, <1>n
      <3> QED BY <1>4, <2>2, <3>1
    <2> QED BY <2>1, <2>2
  <1>6. DOMAIN h = 0 .. n /\ h = [i \in DOMAIN h |-> h[i]]
    OBVIOUS
  <1>7. DOMAIN g = 0 .. n /\ g = [i \in DOMAIN g |-> g[i]]
    BY <1>3
  <1>8. g = h
    <2> HIDE DEF h
    <2> QED BY <1>5, <1>6, <1>7
  <1> QED BY <1>8 DEF n

(* A pass drops what has to go, no more, and changes nothing only if nothing is left to drop. *)
LEMMA DropPassIs ==
  ASSUME NEW list \in Seq(Proposed), NEW D \in SUBSET Proposed
  PROVE  /\ DropPass(list, D) \in SUBSET Proposed
         /\ D \subseteq DropPass(list, D)
         /\ DropPass(list, D) = D => ClosedIn(list, D)
         /\ \A C : D \subseteq C /\ ClosedIn(list, C) => DropPass(list, D) \subseteq C
PROOF
  <1> DEFINE n == Len(list)
             look[i \in 0 .. n] == IF i = 0 THEN D ELSE DropNext(look[i - 1], list[i])
  <1>n. n \in Nat /\ (\A k \in 1 .. n : list[k] \in Proposed) /\ Range(list) = {list[k] : k \in 1 .. n}
    BY LenProperties DEF Range
  <1>1. look = [i \in 0 .. n |-> IF i = 0 THEN D ELSE DropNext(look[i - 1], list[i])]
    <2>1. \E f : f = [i \in 0 .. n |-> IF i = 0 THEN D ELSE DropNext(f[i - 1], list[i])]
      BY LookExists
    <2> QED BY <2>1, Zenon
  <1>2. DropPass(list, D) = look[n]
    BY Zenon DEF DropPass
  <1> HIDE DEF n, look
  <1>3. look[0] = D
    BY <1>1, <1>n
  <1>4. ASSUME NEW k \in 1 .. n
        PROVE  look[k] = DropNext(look[k - 1], list[k])
    <2>1. k \in 0 .. n /\ k # 0
      BY <1>n
    <2> QED BY <1>1, <2>1, Zenon
  <1> DEFINE Fine(k) == /\ look[k] \in SUBSET Proposed
                        /\ D \subseteq look[k]
                        /\ look[k] = D =>
                             \A i \in 1 .. k : Needs(list[i]) \cap D # {} => list[i] \in D
                        /\ \A C : D \subseteq C /\ ClosedIn(list, C) => look[k] \subseteq C
             G == {k \in 0 .. n : Fine(k)}
  <1>5. 0 \in G
    <2>1. Fine(0)
      BY <1>3
    <2>2. 0 \in 0 .. n
      BY <1>n
    <2> HIDE DEF Fine
    <2> QED BY <2>1, <2>2
  <1>6. ASSUME NEW k \in 0 .. n - 1, k \in G
        PROVE  k + 1 \in G
    <2>1. k + 1 \in 1 .. n /\ k + 1 \in 0 .. n /\ Fine(k) /\ list[k + 1] \in Proposed
      BY <1>6, <1>n
    <2> DEFINE l == look[k]
               s == list[k + 1]
    <2>2. look[k + 1] = DropNext(l, s)
      BY <1>4, <2>1
    <2>3. l \in SUBSET Proposed /\ s \in Proposed /\ D \subseteq l /\ s \in Range(list)
      BY <2>1, <1>n
    <2>4. /\ DropNext(l, s) \in SUBSET Proposed
          /\ l \subseteq DropNext(l, s)
          /\ DropNext(l, s) = l => (Needs(s) \cap l # {} => s \in l)
          /\ \A C : l \subseteq C /\ (Needs(s) \cap C # {} => s \in C) => DropNext(l, s) \subseteq C
      <3> HIDE DEF l, s
      <3> QED BY <2>3, DropNextIs
    <2>5. look[k + 1] \in SUBSET Proposed /\ D \subseteq look[k + 1]
      BY <2>2, <2>3, <2>4
    <2>6. ASSUME look[k + 1] = D, NEW i \in 1 .. k + 1, Needs(list[i]) \cap D # {}
          PROVE  list[i] \in D
      <3>1. l = D
        BY <2>2, <2>3, <2>4, <2>6
      <3>2. CASE i \in 1 .. k
        BY <2>1, <2>6, <3>1, <3>2
      <3>3. CASE i = k + 1
        BY <2>2, <2>4, <2>6, <3>1, <3>3
      <3> QED BY <3>2, <3>3
    <2>7. ASSUME NEW C, D \subseteq C, ClosedIn(list, C)
          PROVE  look[k + 1] \subseteq C
      <3>1. l \subseteq C
        BY <2>1, <2>7
      <3>2. Needs(s) \cap C # {} => s \in C
        BY <2>3, <2>7 DEF ClosedIn
      <3> HIDE DEF l, s
      <3> QED BY <2>2, <2>4, <3>1, <3>2
    <2>8. Fine(k + 1)
      BY <2>5, <2>6, <2>7
    <2> HIDE DEF Fine
    <2> QED BY <2>1, <2>8
  <1>7. Fine(n)
    <2>1. \A k \in 0 .. n - 1 : k \in G => k + 1 \in G
      BY <1>6
    <2> HIDE DEF G
    <2>2. \A k \in 0 .. n : k \in G
      BY <1>n, <1>5, <2>1, Induction
    <2> USE DEF G
    <2> HIDE DEF Fine
    <2> QED BY <1>n, <2>2
  <1>8. look[n] = D => ClosedIn(list, D)
    BY <1>n, <1>7 DEF ClosedIn
  <1> QED BY <1>2, <1>7, <1>8

LEMMA PassExists ==
  ASSUME NEW list \in Seq(Proposed), NEW D \in SUBSET Proposed
  PROVE  \E f : f = [k \in 0 .. Size |-> IF k = 0 THEN D ELSE DropPass(list, f[k - 1])]
PROOF
  <1> DEFINE Z == SUBSET Proposed
             F == [k \in 1 .. Size |-> [z \in Z |-> DropPass(list, z)]]
  <1>n. Size \in Nat
    BY ProposalAssumption
  <1>1. AreSteps(F, Size, Z)
    <2>1. \A z \in Z : DropPass(list, z) \in Z
      BY DropPassIs
    <2> HIDE DEF Z
    <2> QED BY <2>1 DEF AreSteps
  <1>2. PICK g : IsTable(g, F, Size, Z, D)
    <2>1. D \in Z
      OBVIOUS
    <2> HIDE DEF F, Z
    <2> QED BY <1>n, <1>1, <2>1, TableExists
  <1> HIDE DEF Z
  <1>3. g \in [0 .. Size -> Z] /\ g[0] = D /\ \A k \in 1 .. Size : g[k] = F[k][g[k - 1]]
    <2> HIDE DEF F
    <2> QED BY <1>2 DEF IsTable
  <1>4. ASSUME NEW k \in 1 .. Size
        PROVE  g[k] = DropPass(list, g[k - 1])
    <2>1. g[k - 1] \in Z
      BY <1>3, <1>n
    <2>2. F[k][g[k - 1]] = DropPass(list, g[k - 1])
      BY <2>1
    <2> HIDE DEF F
    <2> QED BY <1>3, <2>2
  <1> HIDE DEF F
  <1> DEFINE h == [k \in 0 .. Size |-> IF k = 0 THEN D ELSE DropPass(list, g[k - 1])]
  <1>5. ASSUME NEW k \in 0 .. Size
        PROVE  g[k] = h[k]
    <2>1. CASE k = 0
      BY <1>3, <2>1
    <2>2. CASE k # 0
      <3>1. k \in 1 .. Size
        BY <2>2, <1>n
      <3> QED BY <1>4, <2>2, <3>1
    <2> QED BY <2>1, <2>2
  <1>6. DOMAIN h = 0 .. Size /\ h = [i \in DOMAIN h |-> h[i]]
    OBVIOUS
  <1>7. DOMAIN g = 0 .. Size /\ g = [i \in DOMAIN g |-> g[i]]
    BY <1>3
  <1>8. g = h
    <2> HIDE DEF h
    <2> QED BY <1>5, <1>6, <1>7
  <1> QED BY <1>8

(* Size passes are enough, as each that is needed drops a step: what they drop is the least set *)
(* that is closed.                                                                              *)
LEMMA DropDependentsIs ==
  ASSUME NEW list \in Seq(Proposed), NEW D \in SUBSET Proposed
  PROVE  /\ DropDependents(list, D) \in SUBSET Proposed
         /\ D \subseteq DropDependents(list, D)
         /\ ClosedIn(list, DropDependents(list, D))
         /\ \A C : D \subseteq C /\ ClosedIn(list, C) => DropDependents(list, D) \subseteq C
PROOF
  <1> DEFINE pass[k \in 0 .. Size] == IF k = 0 THEN D ELSE DropPass(list, pass[k - 1])
  <1>n. Size \in Nat /\ IsFiniteSet(Proposed) /\ Cardinality(Proposed) = Size
    BY ProposalAssumption, FS_Interval DEF Proposed
  <1>f. \A S \in SUBSET Proposed : IsFiniteSet(S) /\ Cardinality(S) \in Nat
    BY <1>n, FS_Subset, FS_CardinalityType
  <1>1. pass = [k \in 0 .. Size |-> IF k = 0 THEN D ELSE DropPass(list, pass[k - 1])]
    <2>1. \E f : f = [k \in 0 .. Size |-> IF k = 0 THEN D ELSE DropPass(list, f[k - 1])]
      BY PassExists
    <2> QED BY <2>1, Zenon
  <1>2. DropDependents(list, D) = pass[Size]
    BY Zenon DEF DropDependents
  <1> HIDE DEF pass
  <1>3. pass[0] = D
    BY <1>1, <1>n
  <1>4. ASSUME NEW k \in 1 .. Size
        PROVE  pass[k] = DropPass(list, pass[k - 1])
    <2>1. k \in 0 .. Size /\ k # 0
      BY <1>n
    <2> QED BY <1>1, <2>1, Zenon
  <1> DEFINE Fine(k) == /\ pass[k] \in SUBSET Proposed
                        /\ D \subseteq pass[k]
                        /\ ClosedIn(list, pass[k]) \/ Cardinality(pass[k]) >= k
                        /\ \A C : D \subseteq C /\ ClosedIn(list, C) => pass[k] \subseteq C
             G == {k \in 0 .. Size : Fine(k)}
  <1>5. 0 \in G
    <2>1. Cardinality(D) >= 0
      BY <1>f
    <2>2. Fine(0)
      BY <1>3, <2>1
    <2>3. 0 \in 0 .. Size
      BY <1>n
    <2> HIDE DEF Fine
    <2> QED BY <2>2, <2>3
  <1>6. ASSUME NEW k \in 0 .. Size - 1, k \in G
        PROVE  k + 1 \in G
    <2>1. k + 1 \in 1 .. Size /\ k + 1 \in 0 .. Size /\ Fine(k)
      BY <1>6, <1>n
    <2> DEFINE p == pass[k]
               q == pass[k + 1]
    <2>2. q = DropPass(list, p)
      BY <1>4, <2>1
    <2>3. p \in SUBSET Proposed /\ D \subseteq p
      BY <2>1
    <2>4. /\ q \in SUBSET Proposed
          /\ p \subseteq q
          /\ q = p => ClosedIn(list, p)
          /\ \A C : p \subseteq C /\ ClosedIn(list, C) => q \subseteq C
      <3> HIDE DEF p, q
      <3> QED BY <2>2, <2>3, DropPassIs
    <2>5. ASSUME NEW C, D \subseteq C, ClosedIn(list, C)
          PROVE  q \subseteq C
      <3>1. p \subseteq C
        BY <2>1, <2>5
      <3> HIDE DEF p, q
      <3> QED BY <2>4, <2>5, <3>1
    <2>6. ClosedIn(list, q) \/ Cardinality(q) >= k + 1
      <3>1. ClosedIn(list, p) \/ Cardinality(p) >= k
        BY <2>1
      <3> HIDE DEF p, q
      <3>2. CASE ClosedIn(list, p)
        <4>1. q = p
          BY <2>4, <3>2
        <4> QED BY <3>2, <4>1
      <3>3. CASE ~ClosedIn(list, p)
        <4>1. q # p /\ p \in SUBSET q /\ IsFiniteSet(q)
          BY <2>4, <3>3, <1>f
        <4>2. Cardinality(p) <= Cardinality(q) /\ Cardinality(p) # Cardinality(q)
          BY <4>1, FS_Subset
        <4> QED BY <1>f, <2>3, <2>4, <3>1, <3>3, <4>2
      <3> QED BY <3>2, <3>3
    <2>7. Fine(k + 1)
      BY <2>3, <2>4, <2>5, <2>6
    <2> HIDE DEF Fine
    <2> QED BY <2>1, <2>7
  <1>7. Fine(Size)
    <2>1. \A k \in 0 .. Size - 1 : k \in G => k + 1 \in G
      BY <1>6
    <2> HIDE DEF G
    <2>2. \A k \in 0 .. Size : k \in G
      BY <1>n, <1>5, <2>1, Induction
    <2> USE DEF G
    <2> HIDE DEF Fine
    <2> QED BY <1>n, <2>2
  <1>8. ClosedIn(list, pass[Size])
    <2>1. CASE ClosedIn(list, pass[Size])
      BY <2>1
    <2>2. CASE Cardinality(pass[Size]) >= Size
      <3>1. Cardinality(pass[Size]) <= Cardinality(Proposed)
        BY <1>7, <1>n, FS_Subset
      <3>2. Cardinality(pass[Size]) = Cardinality(Proposed)
        BY <1>7, <1>n, <1>f, <2>2, <3>1
      <3>3. pass[Size] = Proposed
        BY <1>7, <1>n, <3>2, FS_Subset
      <3>4. Range(list) \subseteq Proposed
        BY LenProperties DEF Range
      <3> QED BY <3>3, <3>4 DEF ClosedIn
    <2> QED BY <1>7, <2>1, <2>2
  <1> QED BY <1>2, <1>7, <1>8

-----------------------------------------------------------------------------
(* The order of a plan that can be carried out: every step once, after those it needs. *)
Before(o, i) == {o[j] : j \in 1 .. i - 1}
IsOrder(o) ==
  /\ o \in Seq(Proposed) /\ Len(o) = Size /\ Range(o) = Proposed /\ Distinct(o)
  /\ \A i \in 1 .. Size : Needs(o[i]) \subseteq Before(o, i)

Grown(z) == [s \in Proposed |-> Needs(s) \cup UNION {z[d] : d \in Needs(s)}]

LEMMA GrownTyped ==
  ASSUME \A s \in Proposed : Needs(s) \subseteq Proposed,
         NEW z \in [Proposed -> SUBSET Proposed]
  PROVE  Grown(z) \in [Proposed -> SUBSET Proposed]
PROOF
  <1>1. ASSUME NEW s \in Proposed
        PROVE  Needs(s) \cup UNION {z[d] : d \in Needs(s)} \subseteq Proposed
    <2>1. \A d \in Needs(s) : z[d] \subseteq Proposed
      OBVIOUS
    <2> QED BY <2>1
  <1> QED BY <1>1 DEF Grown

LEMMA VisitExists ==
  ASSUME \A s \in Proposed : Needs(s) \subseteq Proposed
  PROVE  \E f : f = [k \in 0 .. Size |->
                       IF k = 0 THEN [s \in Proposed |-> {}]
                       ELSE [s \in Proposed |-> Needs(s) \cup UNION {f[k - 1][d] : d \in Needs(s)}]]
PROOF
  <1> DEFINE Z == [Proposed -> SUBSET Proposed]
             none == [s \in Proposed |-> {}]
             F == [k \in 1 .. Size |-> [z \in Z |-> Grown(z)]]
  <1>n. Size \in Nat
    BY ProposalAssumption
  <1>1. AreSteps(F, Size, Z)
    <2>1. \A z \in Z : Grown(z) \in Z
      BY GrownTyped
    <2> HIDE DEF Z
    <2> QED BY <2>1 DEF AreSteps
  <1>2. PICK g : IsTable(g, F, Size, Z, none)
    <2>1. none \in Z
      OBVIOUS
    <2> HIDE DEF F, Z, none
    <2> QED BY <1>n, <1>1, <2>1, TableExists
  <1> HIDE DEF Z, none
  <1>3. g \in [0 .. Size -> Z] /\ g[0] = none /\ \A k \in 1 .. Size : g[k] = F[k][g[k - 1]]
    <2> HIDE DEF F
    <2> QED BY <1>2 DEF IsTable
  <1>4. ASSUME NEW k \in 1 .. Size
        PROVE  g[k] = Grown(g[k - 1])
    <2>1. g[k - 1] \in Z
      BY <1>3, <1>n
    <2>2. F[k][g[k - 1]] = Grown(g[k - 1])
      BY <2>1
    <2> HIDE DEF F
    <2> QED BY <1>3, <2>2
  <1> HIDE DEF F
  <1> DEFINE h == [k \in 0 .. Size |-> IF k = 0 THEN none ELSE Grown(g[k - 1])]
  <1>5. ASSUME NEW k \in 0 .. Size
        PROVE  g[k] = h[k]
    <2>1. CASE k = 0
      BY <1>3, <2>1
    <2>2. CASE k # 0
      <3>1. k \in 1 .. Size
        BY <2>2, <1>n
      <3> QED BY <1>4, <2>2, <3>1
    <2> QED BY <2>1, <2>2
  <1>6. DOMAIN h = 0 .. Size /\ h = [i \in DOMAIN h |-> h[i]]
    OBVIOUS
  <1>7. DOMAIN g = 0 .. Size /\ g = [i \in DOMAIN g |-> g[i]]
    BY <1>3
  <1>8. g = h
    <2> HIDE DEF h
    <2> QED BY <1>5, <1>6, <1>7
  <1> QED BY <1>8, Zenon DEF Grown, none

(* Size rounds reach every ancestor, as a step's lie before it: the ancestors are what a step  *)
(* needs with the ancestors of that, and lie in every set that holds all its members need.     *)
LEMMA AncestorsIs ==
  ASSUME \A s \in Proposed : Needs(s) \subseteq Proposed, NEW o, IsOrder(o)
  PROVE  /\ Ancestors \in [Proposed -> SUBSET Proposed]
         /\ \A s \in Proposed : Ancestors[s] = Needs(s) \cup UNION {Ancestors[d] : d \in Needs(s)}
         /\ \A s \in Proposed, C \in SUBSET Proposed :
              Needs(s) \subseteq C /\ (\A c \in C : Needs(c) \subseteq C) => Ancestors[s] \subseteq C
PROOF
  <1> DEFINE visit[k \in 0 .. Size] ==
               IF k = 0 THEN [s \in Proposed |-> {}]
               ELSE [s \in Proposed |-> Needs(s) \cup UNION {visit[k - 1][d] : d \in Needs(s)}]
  <1>n. Size \in Nat
    BY ProposalAssumption
  <1>1. visit = [k \in 0 .. Size |->
                   IF k = 0 THEN [s \in Proposed |-> {}]
                   ELSE [s \in Proposed |-> Needs(s) \cup UNION {visit[k - 1][d] : d \in Needs(s)}]]
    <2>1. \E f : f = [k \in 0 .. Size |->
                   IF k = 0 THEN [s \in Proposed |-> {}]
                   ELSE [s \in Proposed |-> Needs(s) \cup UNION {f[k - 1][d] : d \in Needs(s)}]]
      BY VisitExists
    <2> QED BY <2>1, Zenon
  <1>2. Ancestors = visit[Size]
    BY Zenon DEF Ancestors
  <1> HIDE DEF visit
  <1>3. visit[0] = [s \in Proposed |-> {}]
    <2>1. 0 \in 0 .. Size
      BY <1>n
    <2> QED BY <1>1, <2>1, Zenon
  <1>4. ASSUME NEW k \in 1 .. Size
        PROVE  visit[k] = Grown(visit[k - 1])
    <2>1. k \in 0 .. Size /\ k # 0
      BY <1>n
    <2> QED BY <1>1, <2>1, Zenon DEF Grown
  <1> DEFINE Inside(v) == \A s \in Proposed, C \in SUBSET Proposed :
               Needs(s) \subseteq C /\ (\A c \in C : Needs(c) \subseteq C) => v[s] \subseteq C
             Same(k) == \A i \in 1 .. k - 1 : visit[k][o[i]] = visit[k - 1][o[i]]
             Fine(k) == /\ visit[k] \in [Proposed -> SUBSET Proposed]
                        /\ Inside(visit[k])
                        /\ Same(k)
             G == {k \in 0 .. Size : Fine(k)}
  <1>o. \A i \in 1 .. Size : o[i] \in Proposed
    BY <1>n DEF IsOrder
  <1>5. 0 \in G
    <2>1. visit[0] \in [Proposed -> SUBSET Proposed] /\ Inside(visit[0])
      BY <1>3
    <2>2. Same(0)
      OBVIOUS
    <2>3. 0 \in 0 .. Size
      BY <1>n
    <2> HIDE DEF Inside, Same
    <2> QED BY <2>1, <2>2, <2>3
  <1>6. ASSUME NEW k \in 0 .. Size - 1, k \in G
        PROVE  k + 1 \in G
    <2>1. k + 1 \in 1 .. Size /\ k + 1 \in 0 .. Size /\ Fine(k)
      BY <1>6, <1>n
    <2> DEFINE v == visit[k]
               w == visit[k + 1]
    <2>2. w = Grown(v)
      BY <1>4, <2>1
    <2>3. v \in [Proposed -> SUBSET Proposed] /\ Inside(v)
      BY <2>1
    <2>s. Same(k)
      BY <2>1
    <2>4. w \in [Proposed -> SUBSET Proposed]
      <3> HIDE DEF v, w
      <3> QED BY <2>2, <2>3, GrownTyped
    <2>5. \A s \in Proposed : w[s] = Needs(s) \cup UNION {v[d] : d \in Needs(s)}
      <3> HIDE DEF v, w
      <3> QED BY <2>2 DEF Grown
    <2>6. Inside(w)
      <3> SUFFICES ASSUME NEW s \in Proposed, NEW C \in SUBSET Proposed, Needs(s) \subseteq C,
                          \A c \in C : Needs(c) \subseteq C
                   PROVE  w[s] \subseteq C
        OBVIOUS
      <3>1. \A d \in Needs(s) : v[d] \subseteq C
        BY <2>3
      <3> HIDE DEF v, w
      <3> QED BY <2>5, <3>1
    <2>7. Same(k + 1)
      <3> SUFFICES ASSUME NEW i \in 1 .. k
                   PROVE  w[o[i]] = v[o[i]]
        OBVIOUS
      <3>1. k \in 1 .. Size /\ i \in 1 .. Size /\ o[i] \in Proposed
        BY <1>o, <1>n
      <3> DEFINE u == visit[k - 1]
      <3>2. v = Grown(u)
        BY <1>4, <3>1
      <3>3. v[o[i]] = Needs(o[i]) \cup UNION {u[d] : d \in Needs(o[i])}
        <4> HIDE DEF u, v
        <4> QED BY <3>1, <3>2 DEF Grown
      <3>4. \A d \in Needs(o[i]) : v[d] = u[d]
        <4>1. \A d \in Needs(o[i]) : \E j \in 1 .. k - 1 : d = o[j]
          BY <3>1 DEF IsOrder, Before
        <4> QED BY <2>s, <4>1
      <3> HIDE DEF u, v, w
      <3> QED BY <2>5, <3>1, <3>3, <3>4
    <2>8. Fine(k + 1)
      <3>1. (k + 1) - 1 = k
        OBVIOUS
      <3> HIDE DEF Inside, Same
      <3> QED BY <2>4, <2>6, <2>7
    <2> HIDE DEF Fine
    <2> QED BY <2>1, <2>8
  <1>7. Fine(Size)
    <2>1. \A k \in 0 .. Size - 1 : k \in G => k + 1 \in G
      BY <1>6
    <2> HIDE DEF G
    <2>2. \A k \in 0 .. Size : k \in G
      BY <1>n, <1>5, <2>1, Induction
    <2> USE DEF G
    <2> HIDE DEF Fine
    <2> QED BY <1>n, <2>2
  <1>8. ASSUME NEW s \in Proposed
        PROVE  Ancestors[s] = Needs(s) \cup UNION {Ancestors[d] : d \in Needs(s)}
    <2>1. PICK i \in 1 .. Size : s = o[i]
      BY LenProperties DEF IsOrder, Range
    <2>2. Size \in 1 .. Size
      BY <1>n
    <2> DEFINE u == visit[Size - 1]
    <2>3. Ancestors = Grown(u)
      BY <1>2, <1>4, <2>2
    <2>4. Ancestors[s] = Needs(s) \cup UNION {u[d] : d \in Needs(s)}
      <3> HIDE DEF u
      <3> QED BY <2>3 DEF Grown
    <2>5. \A d \in Needs(s) : Ancestors[d] = u[d]
      <3>1. \A d \in Needs(s) : \E j \in 1 .. i - 1 : d = o[j]
        BY <2>1 DEF IsOrder, Before
      <3>2. Same(Size)
        BY <1>7
      <3>3. \A j \in 1 .. i - 1 : j \in 1 .. Size - 1
        BY <1>n
      <3> QED BY <1>2, <3>1, <3>2, <3>3
    <2> HIDE DEF u
    <2> QED BY <2>4, <2>5
  <1> QED BY <1>2, <1>7, <1>8

-----------------------------------------------------------------------------
(* Taking the head of a list, and putting one list behind another. *)
LEMMA HeadAndTail ==
  ASSUME NEW X, NEW q \in Seq(X), q # << >>
  PROVE  /\ Head(q) \in X /\ Tail(q) \in Seq(X)
         /\ Range(q) = {Head(q)} \cup Range(Tail(q))
         /\ Distinct(q) => Distinct(Tail(q)) /\ Head(q) \notin Range(Tail(q))
PROOF
  <1> DEFINE n == Len(q)
             t == Tail(q)
  <1>1. n \in Nat /\ n # 0 /\ DOMAIN q = 1 .. n
    BY LenProperties, EmptySeq
  <1>2. Head(q) \in X /\ t \in Seq(X) /\ Len(t) = n - 1 /\ DOMAIN t = 1 .. n - 1
    BY HeadTailProperties, LenProperties
  <1>3. \A i \in 1 .. n - 1 : t[i] = q[i + 1]
    BY HeadTailProperties
  <1>4. Head(q) = q[1]
    OBVIOUS
  <1>r. Range(q) = {q[i] : i \in 1 .. n} /\ Range(t) = {t[i] : i \in 1 .. n - 1}
    BY <1>1, <1>2 DEF Range
  <1>d. Distinct(q) = (\A i, j \in 1 .. n : q[i] = q[j] => i = j)
    BY DEF Distinct
  <1>e. Distinct(t) = (\A i, j \in 1 .. n - 1 : t[i] = t[j] => i = j)
    BY <1>2 DEF Distinct
  <1> HIDE DEF n, t
  <1>5. Range(q) = {Head(q)} \cup Range(t)
    <2>1. \A i \in 1 .. n : q[i] \in {Head(q)} \cup Range(t)
      <3> SUFFICES ASSUME NEW i \in 1 .. n, i # 1
                   PROVE  q[i] \in Range(t)
        BY <1>4
      <3>1. i - 1 \in 1 .. n - 1 /\ (i - 1) + 1 = i
        BY <1>1
      <3>2. t[i - 1] = q[i]
        BY <1>3, <3>1
      <3> QED BY <1>r, <3>1, <3>2
    <2>2. \A i \in 1 .. n - 1 : t[i] \in Range(q)
      <3> SUFFICES ASSUME NEW i \in 1 .. n - 1
                   PROVE  t[i] \in Range(q)
        OBVIOUS
      <3>1. i + 1 \in 1 .. n
        BY <1>1
      <3> QED BY <1>3, <1>r, <3>1
    <2>3. 1 \in 1 .. n
      BY <1>1
    <2> QED BY <1>4, <1>r, <2>1, <2>2, <2>3
  <1>6. ASSUME Distinct(q)
        PROVE  Distinct(t) /\ Head(q) \notin Range(t)
    <2>1. \A i \in 1 .. n - 1 : i + 1 \in 1 .. n /\ i + 1 # 1
      BY <1>1
    <2>2. \A i, j \in 1 .. n - 1 : t[i] = t[j] => i = j
      <3> SUFFICES ASSUME NEW i \in 1 .. n - 1, NEW j \in 1 .. n - 1, t[i] = t[j]
                   PROVE  i = j
        OBVIOUS
      <3>1. q[i + 1] = q[j + 1] /\ i + 1 \in 1 .. n /\ j + 1 \in 1 .. n
        BY <1>3, <2>1
      <3>2. i + 1 = j + 1
        BY <1>6, <1>d, <3>1
      <3> QED BY <3>2, <1>1
    <2>3. \A i \in 1 .. n - 1 : t[i] # q[1]
      <3> SUFFICES ASSUME NEW i \in 1 .. n - 1, t[i] = q[1]
                   PROVE  FALSE
        OBVIOUS
      <3>1. q[i + 1] = q[1] /\ 1 \in 1 .. n
        BY <1>1, <1>3
      <3> QED BY <1>6, <1>d, <2>1, <3>1
    <2> QED BY <1>4, <1>e, <1>r, <2>2, <2>3
  <1> QED BY <1>2, <1>5, <1>6 DEF t

LEMMA Concatenation ==
  ASSUME NEW X, NEW p \in Seq(X), NEW q \in Seq(X)
  PROVE  /\ p \o q \in Seq(X)
         /\ Range(p \o q) = Range(p) \cup Range(q)
         /\ Distinct(p) /\ Distinct(q) /\ Range(p) \cap Range(q) = {} => Distinct(p \o q)
PROOF
  <1> DEFINE m == Len(p)
             n == Len(q)
             r == p \o q
  <1>1. m \in Nat /\ n \in Nat /\ r \in Seq(X) /\ Len(r) = m + n
    BY LenProperties, ConcatProperties
  <1>r. /\ Range(p) = {p[i] : i \in 1 .. m} /\ Range(q) = {q[i] : i \in 1 .. n}
        /\ Range(r) = {r[i] : i \in 1 .. m + n}
    BY <1>1, LenProperties DEF Range
  <1>d. /\ Distinct(p) = (\A i, j \in 1 .. m : p[i] = p[j] => i = j)
        /\ Distinct(q) = (\A i, j \in 1 .. n : q[i] = q[j] => i = j)
    BY <1>1 DEF Distinct
  <1>e. Distinct(r) <=> \A i, j \in 1 .. m + n : r[i] = r[j] => i = j
    BY <1>1 DEF Distinct
  <1>2. \A i \in 1 .. m : r[i] = p[i] /\ i \in 1 .. m + n
    BY <1>1, ConcatProperties
  <1>3. \A i \in 1 .. n : r[m + i] = q[i] /\ m + i \in 1 .. m + n
    <2> SUFFICES ASSUME NEW i \in 1 .. n
                 PROVE  r[m + i] = q[i] /\ m + i \in 1 .. m + n
      OBVIOUS
    <2>1. m + i \in 1 .. m + n /\ ~(m + i <= m) /\ (m + i) - m = i
      BY <1>1
    <2> QED BY <2>1, ConcatProperties
  <1> HIDE DEF m, n, r
  <1>4. \A i \in 1 .. m + n : i \in 1 .. m \/ \E k \in 1 .. n : i = m + k
    <2> SUFFICES ASSUME NEW i \in 1 .. m + n, i \notin 1 .. m
                 PROVE  \E k \in 1 .. n : i = m + k
      OBVIOUS
    <2>1. i - m \in 1 .. n /\ i = m + (i - m)
      BY <1>1
    <2> QED BY <2>1
  <1>5. Range(r) = Range(p) \cup Range(q)
    BY <1>2, <1>3, <1>4, <1>r
  <1>6. ASSUME Distinct(p), Distinct(q), Range(p) \cap Range(q) = {}
        PROVE  Distinct(r)
    <2> SUFFICES ASSUME NEW i \in 1 .. m + n, NEW j \in 1 .. m + n, r[i] = r[j]
                 PROVE  i = j
      BY <1>e
    <2>1. CASE i \in 1 .. m /\ j \in 1 .. m
      BY <1>2, <1>6, <1>d, <2>1
    <2>2. CASE \E k, l \in 1 .. n : i = m + k /\ j = m + l
      <3>1. PICK k \in 1 .. n, l \in 1 .. n : i = m + k /\ j = m + l
        BY <2>2
      <3>2. q[k] = q[l]
        BY <1>3, <3>1
      <3>3. k = l
        BY <1>6, <1>d, <3>2
      <3> QED BY <3>1, <3>3
    <2>3. CASE i \in 1 .. m /\ \E k \in 1 .. n : j = m + k
      BY <1>2, <1>3, <1>6, <1>r, <2>3
    <2>4. CASE j \in 1 .. m /\ \E k \in 1 .. n : i = m + k
      BY <1>2, <1>3, <1>6, <1>r, <2>4
    <2> QED BY <1>4, <2>1, <2>2, <2>3, <2>4
  <1> QED BY <1>1, <1>5, <1>6 DEF r

(* A list without repetitions is as long as its members are many; no list is shorter. *)
LEMMA HowMany ==
  ASSUME NEW X, NEW q \in Seq(X)
  PROVE  /\ IsFiniteSet(Range(q))
         /\ Cardinality(Range(q)) \in 0 .. Len(q)
         /\ Distinct(q) => Cardinality(Range(q)) = Len(q)
PROOF
  <1> DEFINE n == Len(q)
             R == Range(q)
  <1>1. n \in Nat /\ R = {q[i] : i \in 1 .. n} /\ q \in [1 .. n -> R]
    <2>1. n \in Nat /\ DOMAIN q = 1 .. n /\ q \in [1 .. n -> X]
      BY LenProperties
    <2>2. R = {q[i] : i \in 1 .. n}
      BY <2>1 DEF Range
    <2> QED BY <2>1, <2>2
  <1>2. Distinct(q) = (\A i, j \in 1 .. n : q[i] = q[j] => i = j)
    BY DEF Distinct
  <1> HIDE DEF n, R
  <1>3. IsFiniteSet(1 .. n) /\ Cardinality(1 .. n) = n
    <2>1. 1 \in Int /\ n \in Int
      BY <1>1
    <2>2. IsFiniteSet(1 .. n) /\ Cardinality(1 .. n) = IF 1 > n THEN 0 ELSE n - 1 + 1
      BY <2>1, FS_Interval
    <2> QED BY <1>1, <2>2
  <1>4. q \in Surjection(1 .. n, R)
    BY <1>1 DEF Surjection
  <1>5. IsFiniteSet(R) /\ Cardinality(R) <= n
    BY <1>3, <1>4, FS_Surjection
  <1>6. Cardinality(R) \in Nat
    BY <1>5, FS_CardinalityType
  <1>7. ASSUME Distinct(q) PROVE Cardinality(R) = n
    <2>1. q \in Injection(1 .. n, R)
      BY <1>1, <1>2, <1>7 DEF Injection, IsInjective
    <2> QED BY <1>3, <1>4, <2>1, FS_Surjection
  <1> QED BY <1>1, <1>5, <1>6, <1>7 DEF n, R

-----------------------------------------------------------------------------
(* _topological.  What is ready or out is what no step that is still in keeps waiting: a     *)
(* step's degree is the length of its list without the steps that are out.                    *)
DepsTyped == depends_on \in [Proposed -> Seq(Nat)]

Round == [degree : [Proposed -> Int], ready : Seq(Proposed), out : Seq(Proposed)]

Reached(r)    == Range(r.ready) \cup Range(r.out)
ReachedOnce(r)   == Distinct(r.ready) /\ Distinct(r.out) /\ Range(r.ready) \cap Range(r.out) = {}
Counted(r)    == \A s \in Proposed :
                   r.degree[s] = Len(depends_on[s]) - Cardinality(Needs(s) \cap Range(r.out))
FreeOnes(list, r) == Reached(r) = {s \in Range(list) : r.degree[s] = 0}
InOrder(q)    == \A i \in 1 .. Len(q) : Needs(q[i]) \subseteq Before(q, i)
KahnInv(list, r) == r \in Round /\ ReachedOnce(r) /\ Counted(r) /\ FreeOnes(list, r) /\ InOrder(r.out)

LEMMA NeedsFacts ==
  ASSUME DepsTyped, NEW s \in Proposed
  PROVE  /\ depends_on[s] \in Seq(Nat) /\ Len(depends_on[s]) \in Nat
         /\ Needs(s) \subseteq Nat /\ IsFiniteSet(Needs(s))
         /\ Cardinality(Needs(s)) \in 0 .. Len(depends_on[s])
         /\ depends_on[s] = << >> <=> Len(depends_on[s]) = 0
PROOF
  <1>1. depends_on[s] \in Seq(Nat)
    BY DEF DepsTyped
  <1>2. Len(depends_on[s]) \in Nat /\ Needs(s) \subseteq Nat
    BY <1>1, LenProperties DEF Needs, Range
  <1>3. IsFiniteSet(Needs(s)) /\ Cardinality(Needs(s)) \in 0 .. Len(depends_on[s])
    BY <1>1, HowMany DEF Needs
  <1>4. depends_on[s] = << >> <=> Len(depends_on[s]) = 0
    BY <1>1, EmptySeq
  <1> QED BY <1>1, <1>2, <1>3, <1>4

(* A step without a degree left needs only what is out, and its list repeats nothing. *)
LEMMA DegreeZero ==
  ASSUME DepsTyped, NEW r \in Round, Counted(r), NEW s \in Proposed
  PROVE  r.degree[s] = 0 <=> /\ Needs(s) \subseteq Range(r.out)
                             /\ Cardinality(Needs(s)) = Len(depends_on[s])
PROOF
  <1> DEFINE T == Needs(s) \cap Range(r.out)
  <1>1. /\ Len(depends_on[s]) \in Nat /\ IsFiniteSet(Needs(s))
        /\ Cardinality(Needs(s)) \in 0 .. Len(depends_on[s])
    BY NeedsFacts
  <1>2. /\ Cardinality(T) <= Cardinality(Needs(s))
        /\ Cardinality(Needs(s)) = Cardinality(T) => Needs(s) = T
        /\ Cardinality(T) \in Nat
    BY <1>1, FS_Subset, FS_CardinalityType
  <1>3. r.degree[s] = Len(depends_on[s]) - Cardinality(T)
    BY DEF Counted
  <1>4. Needs(s) = T <=> Needs(s) \subseteq Range(r.out)
    OBVIOUS
  <1> HIDE DEF T
  <1>5. ASSUME r.degree[s] = 0
        PROVE  Needs(s) = T /\ Cardinality(Needs(s)) = Len(depends_on[s])
    BY <1>1, <1>2, <1>3, <1>5
  <1>6. ASSUME Needs(s) = T, Cardinality(Needs(s)) = Len(depends_on[s])
        PROVE  r.degree[s] = 0
    BY <1>1, <1>3, <1>6
  <1> QED BY <1>4, <1>5, <1>6

LEMMA StartInv ==
  ASSUME DepsTyped, NEW list \in Seq(Proposed), Distinct(list)
  PROVE  KahnInv(list, Start(list))
PROOF
  <1> DEFINE r == Start(list)
             E == {s \in Proposed : depends_on[s] = << >>}
  <1>1. /\ r.degree = [s \in Proposed |-> Len(depends_on[s])]
        /\ r.ready = Chosen(list, E) /\ r.out = << >>
        /\ r = [degree |-> r.degree, ready |-> r.ready, out |-> r.out]
    BY DEF Start
  <1>2. r.ready \in Seq(Proposed) /\ Range(r.ready) = Range(list) \cap E /\ Distinct(r.ready)
    BY <1>1, ChosenIs
  <1>3. Range(list) \subseteq Proposed
    BY LenProperties DEF Range
  <1>4. r.out \in Seq(Proposed) /\ Len(r.out) = 0 /\ Range(r.out) = {} /\ Distinct(r.out)
    BY <1>1 DEF Range, Distinct
  <1>5. \A s \in Proposed : r.degree[s] = Len(depends_on[s]) /\ Len(depends_on[s]) \in Nat
    BY <1>1, NeedsFacts
  <1> HIDE DEF r
  <1>6. r \in Round
    <2>1. r.degree \in [Proposed -> Int]
      BY <1>1, <1>5
    <2> QED BY <1>1, <1>2, <1>4, <2>1 DEF Round
  <1>7. Counted(r)
    <2> SUFFICES ASSUME NEW s \in Proposed
                 PROVE  r.degree[s] = Len(depends_on[s]) - Cardinality(Needs(s) \cap Range(r.out))
      BY DEF Counted
    <2>1. Needs(s) \cap Range(r.out) = {}
      BY <1>4
    <2>2. Cardinality(Needs(s) \cap Range(r.out)) = 0
      BY <2>1, FS_EmptySet
    <2>3. \A n \in Nat : n = n - 0
      OBVIOUS
    <2> QED BY <1>5, <2>2, <2>3
  <1>8. FreeOnes(list, r)
    <2>1. \A s \in Proposed : s \in E <=> r.degree[s] = 0
      BY <1>5, NeedsFacts
    <2> HIDE DEF E
    <2> QED BY <1>2, <1>3, <1>4, <2>1 DEF FreeOnes, Reached
  <1> QED BY <1>2, <1>4, <1>6, <1>7, <1>8 DEF r, KahnInv, ReachedOnce, InOrder

LEMMA PopTyped ==
  ASSUME DepsTyped, NEW list \in Seq(Proposed), NEW r \in Round, r.ready # << >>
  PROVE  Pop(list, r) \in Round
PROOF
  <1> DEFINE sid == Head(r.ready)
             degree == [s \in Proposed |-> IF sid \in Needs(s) THEN r.degree[s] - 1 ELSE r.degree[s]]
             freed == {s \in Proposed : sid \in Needs(s) /\ degree[s] = 0}
  <1>1. /\ r.degree \in [Proposed -> Int] /\ r.ready \in Seq(Proposed) /\ r.out \in Seq(Proposed)
    BY DEF Round
  <1>2. sid \in Proposed /\ Tail(r.ready) \in Seq(Proposed)
    BY <1>1, HeadAndTail
  <1>3. degree \in [Proposed -> Int]
    BY <1>1
  <1>4. Chosen(list, freed) \in Seq(Proposed)
    BY ChosenIs
  <1>5. Append(r.out, sid) \in Seq(Proposed)
    BY <1>1, <1>2, AppendProperties
  <1>6. Tail(r.ready) \o Chosen(list, freed) \in Seq(Proposed)
    BY <1>2, <1>4, ConcatProperties
  <1>7. Pop(list, r) = [degree |-> degree, ready |-> Tail(r.ready) \o Chosen(list, freed),
                        out |-> Append(r.out, sid)]
    BY DEF Pop
  <1> HIDE DEF sid, degree, freed
  <1> QED BY <1>3, <1>5, <1>6, <1>7 DEF Round

LEMMA PopInv ==
  ASSUME DepsTyped, NEW list \in Seq(Proposed), Distinct(list), NEW r, KahnInv(list, r),
         r.ready # << >>
  PROVE  KahnInv(list, Pop(list, r)) /\ Len(Pop(list, r).out) = Len(r.out) + 1
PROOF
  <1> DEFINE sid == Head(r.ready)
             degree == [s \in Proposed |-> IF sid \in Needs(s) THEN r.degree[s] - 1 ELSE r.degree[s]]
             freed == {s \in Proposed : sid \in Needs(s) /\ degree[s] = 0}
             p == Pop(list, r)
  <1>0. r \in Round /\ ReachedOnce(r) /\ Counted(r) /\ FreeOnes(list, r) /\ InOrder(r.out)
    BY DEF KahnInv
  <1>1. r.degree \in [Proposed -> Int] /\ r.ready \in Seq(Proposed) /\ r.out \in Seq(Proposed)
    BY <1>0 DEF Round
  <1>2. /\ p.degree = degree /\ p.out = Append(r.out, sid)
        /\ p.ready = Tail(r.ready) \o Chosen(list, freed)
    BY DEF Pop
  <1>3. p \in Round
    BY <1>0, PopTyped
  <1>4. /\ sid \in Proposed /\ Tail(r.ready) \in Seq(Proposed)
        /\ Range(r.ready) = {sid} \cup Range(Tail(r.ready))
        /\ Distinct(Tail(r.ready)) /\ sid \notin Range(Tail(r.ready))
    BY <1>0, <1>1, HeadAndTail DEF ReachedOnce
  <1>5. sid \notin Range(r.out)
    BY <1>0, <1>4 DEF ReachedOnce
  <1>6. /\ Range(p.out) = Range(r.out) \cup {sid} /\ Distinct(p.out)
        /\ Len(p.out) = Len(r.out) + 1 /\ Len(r.out) \in Nat
        /\ p.out[Len(r.out) + 1] = sid /\ \A i \in 1 .. Len(r.out) : p.out[i] = r.out[i]
    <2>1. Range(p.out) = Range(r.out) \cup {sid} /\ Distinct(p.out)
      BY <1>0, <1>1, <1>2, <1>5, RangeAppend, DistinctAppend DEF ReachedOnce
    <2> QED BY <1>1, <1>2, <1>4, <2>1, AppendProperties, LenProperties
  <1>7. \A s \in Proposed :
          p.degree[s] = IF sid \in Needs(s) THEN r.degree[s] - 1 ELSE r.degree[s]
    BY <1>2
  <1>8. Range(list) \subseteq Proposed
    BY LenProperties DEF Range
  <1>9. /\ Chosen(list, freed) \in Seq(Proposed) /\ Distinct(Chosen(list, freed))
        /\ Range(Chosen(list, freed)) = {s \in Range(list) : sid \in Needs(s) /\ p.degree[s] = 0}
    <2>1. /\ Chosen(list, freed) \in Seq(Proposed) /\ Distinct(Chosen(list, freed))
          /\ Range(Chosen(list, freed)) = Range(list) \cap freed
      BY ChosenIs
    <2>2. freed = {s \in Proposed : sid \in Needs(s) /\ p.degree[s] = 0}
      BY <1>2
    <2> QED BY <1>8, <2>1, <2>2
  <1> HIDE DEF sid, degree, freed, p
  (* What is ready or out already had no degree left, so nothing it needs is taken again. *)
  <1>10. \A s \in Reached(r) : s \in Range(list) /\ s \in Proposed /\ r.degree[s] = 0 /\ sid \notin Needs(s)
    <2>1. \A s \in Reached(r) : s \in Range(list) /\ s \in Proposed /\ r.degree[s] = 0
      BY <1>0, <1>8 DEF FreeOnes
    <2>2. \A s \in Reached(r) : Needs(s) \subseteq Range(r.out)
      BY <1>0, <2>1, DegreeZero
    <2> QED BY <1>5, <2>1, <2>2
  <1>11. Counted(p)
    <2> SUFFICES ASSUME NEW s \in Proposed
                 PROVE  p.degree[s] = Len(depends_on[s]) - Cardinality(Needs(s) \cap Range(p.out))
      BY DEF Counted
    <2> DEFINE T == Needs(s) \cap Range(r.out)
    <2>1. r.degree[s] = Len(depends_on[s]) - Cardinality(T)
      BY <1>0 DEF Counted
    <2>2. IsFiniteSet(T) /\ Cardinality(T) \in Nat /\ Len(depends_on[s]) \in Nat /\ sid \notin T
      BY <1>5, NeedsFacts, FS_Subset, FS_CardinalityType
    <2>3. Needs(s) \cap Range(p.out) = IF sid \in Needs(s) THEN T \cup {sid} ELSE T
      BY <1>6
    <2> HIDE DEF T
    <2>4. Cardinality(T \cup {sid}) = Cardinality(T) + 1
      BY <2>2, FS_AddElement
    <2>5. r.degree[s] \in Int
      BY <1>1
    <2>6. CASE sid \in Needs(s)
      <3>1. Cardinality(Needs(s) \cap Range(p.out)) = Cardinality(T) + 1 /\ p.degree[s] = r.degree[s] - 1
        BY <1>7, <2>3, <2>4, <2>6
      <3> QED BY <2>1, <2>2, <3>1
    <2>7. CASE sid \notin Needs(s)
      <3>1. Cardinality(Needs(s) \cap Range(p.out)) = Cardinality(T) /\ p.degree[s] = r.degree[s]
        BY <1>7, <2>3, <2>7
      <3> QED BY <2>1, <3>1
    <2> QED BY <2>6, <2>7
  <1>12. /\ Range(p.ready) = Range(Tail(r.ready)) \cup Range(Chosen(list, freed))
         /\ Range(Tail(r.ready)) \cap Range(Chosen(list, freed)) = {} => Distinct(p.ready)
    <2> DEFINE t == Tail(r.ready)
               c == Chosen(list, freed)
    <2>1. /\ t \in Seq(Proposed) /\ c \in Seq(Proposed) /\ Distinct(t) /\ Distinct(c)
          /\ p.ready = t \o c
      BY <1>2, <1>4, <1>9
    <2> HIDE DEF t, c
    <2>2. /\ Range(p.ready) = Range(t) \cup Range(c)
          /\ Range(t) \cap Range(c) = {} => Distinct(p.ready)
      BY <2>1, Concatenation
    <2> QED BY <2>2 DEF t, c
  <1>13. \A s \in Range(Chosen(list, freed)) : s \notin Reached(r)
    BY <1>9, <1>10
  <1>14. ReachedOnce(p)
    <2>1. Distinct(p.ready)
      <3>1. Range(Tail(r.ready)) \cap Range(Chosen(list, freed)) = {}
        BY <1>4, <1>13 DEF Reached
      <3> QED BY <1>12, <3>1
    <2>2. sid \notin Range(Chosen(list, freed))
      BY <1>4, <1>13 DEF Reached
    <2>3. Range(p.ready) \cap Range(p.out) = {}
      <3>1. Range(Tail(r.ready)) \cap Range(r.out) = {}
        BY <1>0, <1>4 DEF ReachedOnce
      <3>2. Range(Chosen(list, freed)) \cap Range(r.out) = {}
        BY <1>13 DEF Reached
      <3> QED BY <1>4, <1>6, <1>12, <2>2, <3>1, <3>2
    <2> QED BY <1>6, <2>1, <2>3 DEF ReachedOnce
  <1>15. FreeOnes(list, p)
    <2>1. Reached(p) = Reached(r) \cup Range(Chosen(list, freed))
      BY <1>4, <1>6, <1>12 DEF Reached
    <2>2. \A s \in Reached(r) : p.degree[s] = 0
      BY <1>7, <1>10
    <2>3. ASSUME NEW s \in Range(list), p.degree[s] = 0
          PROVE  s \in Reached(p)
      <3>1. CASE sid \in Needs(s)
        BY <1>9, <2>1, <2>3, <3>1
      <3>2. CASE sid \notin Needs(s)
        <4>1. r.degree[s] = 0
          BY <1>7, <1>8, <2>3, <3>2
        <4> QED BY <1>0, <2>1, <4>1 DEF FreeOnes
      <3> QED BY <3>1, <3>2
    <2>4. \A s \in Range(Chosen(list, freed)) : s \in Range(list) /\ p.degree[s] = 0
      BY <1>9
    <2> QED BY <1>10, <2>1, <2>2, <2>3, <2>4 DEF FreeOnes
  <1>16. InOrder(p.out)
    <2> SUFFICES ASSUME NEW i \in 1 .. Len(r.out) + 1
                 PROVE  Needs(p.out[i]) \subseteq Before(p.out, i)
      BY <1>6 DEF InOrder
    <2>1. \A j \in 1 .. i - 1 : p.out[j] = r.out[j]
      BY <1>6
    <2>2. Before(p.out, i) = Before(r.out, i)
      BY <2>1 DEF Before
    <2>3. CASE i \in 1 .. Len(r.out)
      BY <1>0, <1>6, <2>2, <2>3 DEF InOrder
    <2>4. CASE i = Len(r.out) + 1
      <3>1. Needs(sid) \subseteq Range(r.out)
        <4>1. sid \in Reached(r)
          BY <1>4 DEF Reached
        <4> QED BY <1>0, <1>10, <4>1, DegreeZero
      <3>2. Range(r.out) = Before(r.out, i)
        BY <1>1, <1>6, <2>4, LenProperties DEF Range, Before
      <3> QED BY <1>6, <2>2, <2>4, <3>1, <3>2
    <2> QED BY <1>6, <2>3, <2>4
  <1> QED BY <1>3, <1>6, <1>11, <1>14, <1>15, <1>16 DEF KahnInv, p

Popped(list, z) == IF z.ready = << >> THEN z ELSE Pop(list, z)

LEMMA RoundExists ==
  ASSUME DepsTyped, NEW list \in Seq(Proposed)
  PROVE  \E f : f = [k \in 0 .. Size |->
                       IF k = 0 THEN Start(list)
                       ELSE IF f[k - 1].ready = << >> THEN f[k - 1] ELSE Pop(list, f[k - 1])]
PROOF
  <1> DEFINE Z == Round
             F == [k \in 1 .. Size |-> [z \in Z |-> Popped(list, z)]]
  <1>n. Size \in Nat
    BY ProposalAssumption
  <1>1. AreSteps(F, Size, Z)
    <2>1. \A z \in Z : Popped(list, z) \in Z
      BY PopTyped DEF Popped
    <2> HIDE DEF Z
    <2> QED BY <2>1 DEF AreSteps
  <1>2. PICK g : IsTable(g, F, Size, Z, Start(list))
    <2>1. Start(list) \in Z
      <3>1. [s \in Proposed |-> Len(depends_on[s])] \in [Proposed -> Int]
        BY NeedsFacts
      <3>2. Chosen(list, {s \in Proposed : depends_on[s] = << >>}) \in Seq(Proposed)
        BY ChosenIs
      <3>3. << >> \in Seq(Proposed)
        OBVIOUS
      <3> QED BY <3>1, <3>2, <3>3 DEF Start, Round
    <2> HIDE DEF F, Z
    <2> QED BY <1>n, <1>1, <2>1, TableExists
  <1> HIDE DEF Z
  <1>3. /\ g \in [0 .. Size -> Z] /\ g[0] = Start(list)
        /\ \A k \in 1 .. Size : g[k] = F[k][g[k - 1]]
    <2> HIDE DEF F
    <2> QED BY <1>2 DEF IsTable
  <1>4. ASSUME NEW k \in 1 .. Size
        PROVE  g[k] = Popped(list, g[k - 1])
    <2>1. g[k - 1] \in Z
      BY <1>3, <1>n
    <2>2. F[k][g[k - 1]] = Popped(list, g[k - 1])
      BY <2>1
    <2> HIDE DEF F
    <2> QED BY <1>3, <2>2
  <1> HIDE DEF F
  <1> DEFINE h == [k \in 0 .. Size |-> IF k = 0 THEN Start(list) ELSE Popped(list, g[k - 1])]
  <1>5. ASSUME NEW k \in 0 .. Size
        PROVE  g[k] = h[k]
    <2>1. CASE k = 0
      BY <1>3, <2>1
    <2>2. CASE k # 0
      <3>1. k \in 1 .. Size
        BY <2>2, <1>n
      <3> QED BY <1>4, <2>2, <3>1
    <2> QED BY <2>1, <2>2
  <1>6. DOMAIN h = 0 .. Size /\ h = [i \in DOMAIN h |-> h[i]]
    OBVIOUS
  <1>7. DOMAIN g = 0 .. Size /\ g = [i \in DOMAIN g |-> g[i]]
    BY <1>3
  <1>8. g = h
    <2> HIDE DEF h
    <2> QED BY <1>5, <1>6, <1>7
  <1> QED BY <1>8, Zenon DEF Popped

(* _topological lists each step it can reach once, after those it needs, and reaches every step *)
(* whose needs it reaches, unless its list repeats one.                                         *)
LEMMA TopologicalIs ==
  ASSUME DepsTyped, NEW list \in Seq(Proposed), Distinct(list)
  PROVE  /\ Topological(list) \in Seq(Proposed) /\ Distinct(Topological(list))
         /\ Range(Topological(list)) \subseteq Range(list)
         /\ InOrder(Topological(list))
         /\ \A s \in Range(list) :
              s \in Range(Topological(list)) <=>
                /\ Needs(s) \subseteq Range(Topological(list))
                /\ Cardinality(Needs(s)) = Len(depends_on[s])
PROOF
  <1> DEFINE round[k \in 0 .. Size] ==
               IF k = 0 THEN Start(list)
               ELSE IF round[k - 1].ready = << >> THEN round[k - 1] ELSE Pop(list, round[k - 1])
  <1>n. Size \in Nat /\ IsFiniteSet(Proposed) /\ Cardinality(Proposed) = Size
    BY ProposalAssumption, FS_Interval DEF Proposed
  <1>1. round = [k \in 0 .. Size |->
                   IF k = 0 THEN Start(list)
                   ELSE IF round[k - 1].ready = << >> THEN round[k - 1] ELSE Pop(list, round[k - 1])]
    <2>1. \E f : f = [k \in 0 .. Size |->
                   IF k = 0 THEN Start(list)
                   ELSE IF f[k - 1].ready = << >> THEN f[k - 1] ELSE Pop(list, f[k - 1])]
      BY RoundExists
    <2> QED BY <2>1, Zenon
  <1>2. Topological(list) = round[Size].out
    BY Zenon DEF Topological
  <1> HIDE DEF round
  <1>3. round[0] = Start(list)
    <2>1. 0 \in 0 .. Size
      BY <1>n
    <2> QED BY <1>1, <2>1, Zenon
  <1>4. ASSUME NEW k \in 1 .. Size
        PROVE  round[k] = Popped(list, round[k - 1])
    <2>1. k \in 0 .. Size /\ k # 0
      BY <1>n
    <2> QED BY <1>1, <2>1, Zenon DEF Popped
  <1> DEFINE Fine(k) == /\ KahnInv(list, round[k])
                        /\ round[k].ready = << >> \/ Len(round[k].out) = k
             G == {k \in 0 .. Size : Fine(k)}
  <1>5. 0 \in G
    <2>1. KahnInv(list, round[0])
      BY <1>3, StartInv
    <2>2. Len(round[0].out) = 0
      BY <1>3 DEF Start
    <2>3. 0 \in 0 .. Size
      BY <1>n
    <2> QED BY <2>1, <2>2, <2>3
  <1>6. ASSUME NEW k \in 0 .. Size - 1, k \in G
        PROVE  k + 1 \in G
    <2>1. k + 1 \in 1 .. Size /\ k + 1 \in 0 .. Size /\ Fine(k)
      BY <1>6, <1>n
    <2> DEFINE r == round[k]
               p == round[k + 1]
    <2>2. p = Popped(list, r)
      BY <1>4, <2>1
    <2>3. KahnInv(list, r) /\ (r.ready = << >> \/ Len(r.out) = k)
      BY <2>1
    <2>4. KahnInv(list, p) /\ (p.ready = << >> \/ Len(p.out) = k + 1)
      <3> HIDE DEF r, p
      <3>1. CASE r.ready = << >>
        BY <2>2, <2>3, <3>1 DEF Popped
      <3>2. CASE r.ready # << >>
        BY <2>2, <2>3, <3>2, PopInv DEF Popped
      <3> QED BY <3>1, <3>2
    <2>5. Fine(k + 1)
      BY <2>4
    <2> HIDE DEF Fine
    <2> QED BY <2>1, <2>5
  <1>7. Fine(Size)
    <2>1. \A k \in 0 .. Size - 1 : k \in G => k + 1 \in G
      BY <1>6
    <2> HIDE DEF G
    <2>2. \A k \in 0 .. Size : k \in G
      BY <1>n, <1>5, <2>1, Induction
    <2> USE DEF G
    <2> HIDE DEF Fine
    <2> QED BY <1>n, <2>2
  <1> DEFINE r == round[Size]
  <1>8. /\ KahnInv(list, r) /\ (r.ready = << >> \/ Len(r.out) = Size)
        /\ Topological(list) = r.out
    BY <1>2, <1>7
  <1> HIDE DEF r, Fine
  <1>9. /\ r \in Round /\ ReachedOnce(r) /\ Counted(r) /\ FreeOnes(list, r) /\ InOrder(r.out)
        /\ r.out \in Seq(Proposed) /\ r.ready \in Seq(Proposed)
    BY <1>8 DEF KahnInv, Round
  <1>10. Range(r.out) \subseteq Proposed /\ Range(r.ready) \subseteq Proposed /\ Range(list) \subseteq Proposed
    BY <1>9, LenProperties DEF Range
  <1>11. Range(r.ready) = {}
    <2>1. CASE r.ready = << >>
      BY <2>1 DEF Range
    <2>2. CASE Len(r.out) = Size
      <3>1. Cardinality(Range(r.out)) = Cardinality(Proposed)
        BY <1>9, <1>n, <2>2, HowMany DEF ReachedOnce
      <3>2. Range(r.out) = Proposed
        BY <1>10, <1>n, <3>1, FS_Subset
      <3> QED BY <1>9, <1>10, <3>2 DEF ReachedOnce
    <2> QED BY <1>8, <2>1, <2>2
  <1>12. Range(r.out) = {s \in Range(list) : r.degree[s] = 0}
    BY <1>9, <1>11 DEF FreeOnes, Reached
  <1>13. \A s \in Range(list) :
           s \in Range(r.out) <=> /\ Needs(s) \subseteq Range(r.out)
                                  /\ Cardinality(Needs(s)) = Len(depends_on[s])
    BY <1>9, <1>10, <1>12, DegreeZero
  <1> QED BY <1>8, <1>9, <1>12, <1>13 DEF ReachedOnce

-----------------------------------------------------------------------------
(* The plan as it was proposed. *)
Sound == \A s \in Proposed : Needs(s) \subseteq Proposed /\ s \notin Needs(s)

LEMMA ListedIs ==
  Listed \in Seq(Proposed) /\ Distinct(Listed) /\ Range(Listed) = Proposed /\ Len(Listed) = Size
PROOF
  <1>1. Size \in Nat /\ Proposed = 1 .. Size
    BY ProposalAssumption DEF Proposed
  <1>2. Listed = [s \in 1 .. Size |-> s]
    BY <1>1 DEF Listed
  <1>3. Listed \in Seq(1 .. Size) /\ Len(Listed) = Size
    BY <1>1, <1>2
  <1>4. Distinct(Listed) /\ Range(Listed) = 1 .. Size
    BY <1>1, <1>2, <1>3 DEF Distinct, Range
  <1> QED BY <1>1, <1>3, <1>4

(* What is not malformed has an order that holds every step. *)
LEMMA OrderOfAll ==
  ASSUME DepsTyped, ~Malformed
  PROVE  /\ Sound
         /\ IsOrder(Topological(Listed))
         /\ \A s \in Proposed : Cardinality(Needs(s)) = Len(depends_on[s])
PROOF
  <1> DEFINE o == Topological(Listed)
  <1>n. Size \in Nat /\ IsFiniteSet(Proposed) /\ Cardinality(Proposed) = Size
    BY ProposalAssumption, FS_Interval DEF Proposed
  <1>1. Sound /\ Len(o) = Size
    BY DEF Malformed, Sound
  <1>2. /\ o \in Seq(Proposed) /\ Distinct(o) /\ Range(o) \subseteq Proposed /\ InOrder(o)
        /\ \A s \in Proposed : s \in Range(o) => Cardinality(Needs(s)) = Len(depends_on[s])
    BY ListedIs, TopologicalIs
  <1> HIDE DEF o
  <1>3. Range(o) = Proposed
    <2>1. Cardinality(Range(o)) = Cardinality(Proposed)
      BY <1>n, <1>1, <1>2, HowMany
    <2> QED BY <1>n, <1>2, <2>1, FS_Subset
  <1> QED BY <1>1, <1>2, <1>3 DEF IsOrder, InOrder, o

(* What is left of it, if it is all that any of it needs, has an order too. *)
LEMMA OrderOfRest ==
  ASSUME DepsTyped, ~Malformed, NEW list \in Seq(Proposed), Distinct(list),
         \A s \in Range(list) : Needs(s) \subseteq Range(list)
  PROVE  Range(Topological(list)) = Range(list)
PROOF
  <1> DEFINE o == Topological(Listed)
             q == Topological(list)
             S == {k \in 0 .. Size : \A i \in 1 .. k : o[i] \in Range(list) => o[i] \in Range(q)}
  <1>n. Size \in Nat
    BY ProposalAssumption
  <1>1. IsOrder(o) /\ \A s \in Proposed : Cardinality(Needs(s)) = Len(depends_on[s])
    BY OrderOfAll
  <1>2. /\ Range(q) \subseteq Range(list)
        /\ \A s \in Range(list) : Needs(s) \subseteq Range(q) /\ Cardinality(Needs(s)) = Len(depends_on[s])
             => s \in Range(q)
    BY TopologicalIs
  <1>3. Range(list) \subseteq Proposed
    BY LenProperties DEF Range
  <1> HIDE DEF o, q
  <1>4. 0 \in S
    BY <1>n
  <1>5. ASSUME NEW k \in 0 .. Size - 1, k \in S
        PROVE  k + 1 \in S
    <2>1. k + 1 \in 1 .. Size /\ k + 1 \in 0 .. Size /\ (k + 1) - 1 = k
      BY <1>n
    <2>2. \A i \in 1 .. k : o[i] \in Range(list) => o[i] \in Range(q)
      BY <1>5
    <2>3. ASSUME o[k + 1] \in Range(list)
          PROVE  o[k + 1] \in Range(q)
      <3>1. \A d \in Needs(o[k + 1]) : \E j \in 1 .. k : d = o[j]
        BY <1>1, <2>1 DEF IsOrder, Before
      <3>2. Needs(o[k + 1]) \subseteq Range(q)
        BY <2>2, <2>3, <3>1
      <3> QED BY <1>1, <1>2, <1>3, <2>3, <3>2
    <2>4. \A i \in 1 .. k + 1 : i \in 1 .. k \/ i = k + 1
      BY <2>1
    <2> QED BY <2>1, <2>2, <2>3, <2>4
  <1>6. Size \in S
    <2>1. \A k \in 0 .. Size - 1 : k \in S => k + 1 \in S
      BY <1>5
    <2> HIDE DEF S
    <2>2. \A k \in 0 .. Size : k \in S
      BY <1>n, <1>4, <2>1, Induction
    <2> QED BY <1>n, <2>2
  <1>7. \A s \in Proposed : \E i \in 1 .. Size : s = o[i]
    BY <1>1, LenProperties DEF IsOrder, Range
  <1>8. Range(list) \subseteq Range(q)
    BY <1>3, <1>6, <1>7
  <1> QED BY <1>2, <1>8 DEF q

LEMMA RejectedForAReason ==
  ASSUME DepsTyped, Malformed
  PROVE  HasCycle \/ Repeats \/ \E s \in Proposed : ~ Needs(s) \subseteq Proposed
PROOF
  <1> SUFFICES ASSUME ~Repeats, \A s \in Proposed : Needs(s) \subseteq Proposed
               PROVE  HasCycle
    OBVIOUS
  <1>n. Size \in Nat /\ IsFiniteSet(Proposed) /\ Cardinality(Proposed) = Size
    BY ProposalAssumption, FS_Interval DEF Proposed
  <1>1. CASE \E s \in Proposed : s \in Needs(s)
    <2>1. PICK s \in Proposed : s \in Needs(s)
      BY <1>1
    <2>2. {s} \in SUBSET Proposed /\ {s} # {} /\ \A t \in {s} : Needs(t) \cap {s} # {}
      BY <2>1
    <2> QED BY <2>2 DEF HasCycle
  <1>2. CASE Len(Topological(Listed)) # Size
    <2> DEFINE o == Topological(Listed)
               C == Proposed \ Range(o)
    <2>1. /\ o \in Seq(Proposed) /\ Distinct(o) /\ Range(o) \subseteq Proposed
          /\ \A s \in Proposed : Needs(s) \subseteq Range(o) /\ Cardinality(Needs(s)) = Len(depends_on[s])
               => s \in Range(o)
      BY ListedIs, TopologicalIs
    <2>2. Len(o) # Size
      BY <1>2
    <2> HIDE DEF o
    <2>3. C # {}
      <3> SUFFICES ASSUME Range(o) = Proposed PROVE FALSE
        BY <2>1
      <3> QED BY <1>n, <2>1, <2>2, HowMany
    <2>4. \A s \in Proposed : Cardinality(Needs(s)) = Len(depends_on[s])
      BY DEF Repeats
    <2>5. \A s \in C : Needs(s) \cap C # {}
      BY <2>1, <2>4
    <2>6. C \in SUBSET Proposed
      OBVIOUS
    <2> HIDE DEF C
    <2> QED BY <2>3, <2>5, <2>6 DEF HasCycle
  <1> QED BY <1>1, <1>2 DEF Malformed

-----------------------------------------------------------------------------
(* The cuts.  The steps that must go with those of S are the least closed set that holds S. *)
Closed(C) == \A s \in Proposed : Needs(s) \cap C # {} => s \in C

LEMMA ClosureIs ==
  ASSUME NEW S \in SUBSET Proposed
  PROVE  /\ Closure(S) \in SUBSET Proposed
         /\ S \subseteq Closure(S)
         /\ Closed(Closure(S))
         /\ \A D : S \subseteq D /\ Closed(D) => Closure(S) \subseteq D
PROOF
  <1> DEFINE Holds(D) == S \subseteq D /\ \A s \in Proposed : Needs(s) \cap D # {} => s \in D
             Least(C) == Holds(C) /\ \A D \in SUBSET Proposed : Holds(D) => C \subseteq D
             K == {s \in Proposed : \A D \in SUBSET Proposed : Holds(D) => s \in D}
  <1>1. Closure(S) = CHOOSE C \in SUBSET Proposed : Least(C)
    BY Zenon DEF Closure
  <1>2. Holds(K)
    <2>1. S \subseteq K
      OBVIOUS
    <2>2. ASSUME NEW s \in Proposed, Needs(s) \cap K # {}
          PROVE  s \in K
      <3>1. PICK d \in Needs(s) : d \in K
        BY <2>2
      <3>2. ASSUME NEW D \in SUBSET Proposed, Holds(D)
            PROVE  s \in D
        <4>1. d \in D
          BY <3>1, <3>2
        <4> QED BY <3>1, <3>2, <4>1
      <3> QED BY <3>2
    <2> QED BY <2>1, <2>2
  <1>3. Least(K) /\ K \in SUBSET Proposed
    BY <1>2
  <1> HIDE DEF Least, K
  <1>4. Least(Closure(S)) /\ Closure(S) \in SUBSET Proposed
    BY <1>1, <1>3
  <1> USE DEF Least
  <1>5. ASSUME NEW D, S \subseteq D, Closed(D)
        PROVE  Closure(S) \subseteq D
    <2>1. D \cap Proposed \in SUBSET Proposed
      OBVIOUS
    <2>2. Holds(D \cap Proposed)
      BY <1>5 DEF Closed
    <2> HIDE DEF Holds
    <2> QED BY <1>4, <2>1, <2>2
  <1> QED BY <1>4, <1>5 DEF Closed

LEMMA ListedClosed ==
  ASSUME NEW C
  PROVE  ClosedIn(Listed, C) <=> Closed(C)
PROOF
  BY ListedIs DEF ClosedIn, Closed

(* _drop_dependents over the whole plan cuts just that. *)
LEMMA CutIsClosure ==
  ASSUME NEW S \in SUBSET Proposed
  PROVE  DropDependents(Listed, S) = Closure(S)
PROOF
  <1> DEFINE D == DropDependents(Listed, S)
             K == Closure(S)
  <1>1. /\ S \subseteq D /\ Closed(D)
        /\ \A C : S \subseteq C /\ Closed(C) => D \subseteq C
    BY ListedIs, ListedClosed, DropDependentsIs
  <1>2. /\ S \subseteq K /\ Closed(K)
        /\ \A C : S \subseteq C /\ Closed(C) => K \subseteq C
    BY ClosureIs
  <1> HIDE DEF D, K
  <1>3. D \subseteq K /\ K \subseteq D
    BY <1>1, <1>2
  <1> QED BY <1>3 DEF D, K

(* The steps that go with d are d and the steps that have it among their ancestors. *)
LEMMA Descendants ==
  ASSUME DepsTyped, ~Malformed, NEW d \in Proposed, NEW s \in Proposed
  PROVE  d \in Ancestors[s] <=> s \in Closure({d}) /\ s # d
PROOF
  <1> DEFINE o == Topological(Listed)
             K == Closure({d})
  <1>1. Sound /\ IsOrder(o)
    BY OrderOfAll
  <1> HIDE DEF o
  <1>2. /\ Ancestors \in [Proposed -> SUBSET Proposed]
        /\ \A t \in Proposed : Ancestors[t] = Needs(t) \cup UNION {Ancestors[e] : e \in Needs(t)}
        /\ \A t \in Proposed, C \in SUBSET Proposed :
             Needs(t) \subseteq C /\ (\A c \in C : Needs(c) \subseteq C) => Ancestors[t] \subseteq C
    BY <1>1, AncestorsIs DEF Sound
  <1>3. /\ K \in SUBSET Proposed /\ d \in K /\ Closed(K)
        /\ \A C : {d} \subseteq C /\ Closed(C) => K \subseteq C
    BY ClosureIs
  <1> HIDE DEF K
  <1>4. ASSUME d \in Ancestors[s]
        PROVE  s \in K
    <2> SUFFICES ASSUME s \notin K PROVE FALSE
      OBVIOUS
    <2> DEFINE C == Proposed \ K
    <2>1. \A t \in C : Needs(t) \subseteq C
      BY <1>1, <1>3 DEF Closed, Sound
    <2>2. Needs(s) \subseteq C /\ C \in SUBSET Proposed
      BY <2>1
    <2>3. Ancestors[s] \subseteq C
      <3> HIDE DEF C
      <3> QED BY <1>2, <2>1, <2>2
    <2> QED BY <1>3, <1>4, <2>3
  <1>5. d \notin Ancestors[d]
    <2>1. PICK i \in 1 .. Size : d = o[i]
      BY <1>1, LenProperties DEF IsOrder, Range
    <2> DEFINE C == Before(o, i)
    <2>2. C \in SUBSET Proposed
      <3>1. Size \in Nat /\ Len(o) = Size /\ o \in [1 .. Size -> Proposed]
        BY <1>1, ProposalAssumption, LenProperties DEF IsOrder
      <3> QED BY <3>1 DEF Before
    <2>3. \A c \in C : Needs(c) \subseteq C
      <3>1. ASSUME NEW j \in 1 .. i - 1
            PROVE  Needs(o[j]) \subseteq C
        <4>1. j \in 1 .. Size /\ \A k \in 1 .. j - 1 : k \in 1 .. i - 1
          BY <2>1, ProposalAssumption
        <4> QED BY <1>1, <4>1 DEF IsOrder, Before
      <3> QED BY <3>1 DEF Before
    <2>4. Needs(d) \subseteq C
      BY <1>1, <2>1 DEF IsOrder
    <2>5. Ancestors[d] \subseteq C
      <3> HIDE DEF C
      <3> QED BY <1>2, <2>2, <2>3, <2>4
    <2>6. d \notin C
      BY <1>1, <2>1, ProposalAssumption DEF IsOrder, Distinct, Before
    <2> QED BY <2>5, <2>6
  <1>6. ASSUME s \in K, s # d
        PROVE  d \in Ancestors[s]
    <2> DEFINE C == {d} \cup {t \in Proposed : d \in Ancestors[t]}
    <2>1. ASSUME NEW t \in Proposed, Needs(t) \cap C # {}
          PROVE  t \in C
      <3>1. PICK e \in Needs(t) : e = d \/ (e \in Proposed /\ d \in Ancestors[e])
        BY <2>1
      <3>2. d \in Ancestors[t]
        BY <1>2, <3>1
      <3> QED BY <3>2
    <2>2. {d} \subseteq C /\ Closed(C)
      BY <2>1 DEF Closed
    <2>3. s \in C
      <3> HIDE DEF C
      <3> QED BY <1>3, <1>6, <2>2
    <2> QED BY <1>6, <2>3
  <1> QED BY <1>4, <1>5, <1>6 DEF K

(* A proposal as ProposalInit admits it. *)
ProposalTyped ==
  /\ DepsTyped
  /\ ref \in [Proposed -> {r \in Reference : r.step # 0} \cup {NoReference}]
  /\ unknown \in SUBSET Proposed /\ denied \in SUBSET Proposed

(* The references of OnlyNecessaryCuts that cannot be kept. *)
BadReferences ==
  {s \in Proposed : ref[s] # NoReference /\
     \/ ref[s].step \in Closure(unknown) \/ s \notin Closure({ref[s].step}) \/ s = ref[s].step
     \/ ref[s].field = "wrong"}

LEMMA InvalidIsBad ==
  ASSUME ProposalTyped, ~Malformed, NEW s \in Proposed \ Closure(unknown)
  PROVE  InvalidReference(s, Proposed \ Closure(unknown)) <=> s \in BadReferences
PROOF
  <1>1. CASE ref[s] = NoReference
    BY <1>1 DEF InvalidReference, BadReferences
  <1>2. CASE ref[s] # NoReference
    <2>1. ref[s] \in Reference /\ ref[s].step # 0
      BY <1>2 DEF ProposalTyped
    <2>2. ref[s].step \in Proposed
      BY <2>1, ProposalAssumption DEF Reference, Proposed
    <2>3. ref[s].step \in Ancestors[s] <=> s \in Closure({ref[s].step}) /\ s # ref[s].step
      BY <2>2, Descendants DEF ProposalTyped
    <2> QED BY <1>2, <2>2, <2>3 DEF InvalidReference, BadReferences
  <1> QED BY <1>1, <1>2

(* What the three cuts leave. *)
Gone == Closure(Closure(unknown) \cup BadReferences \cup denied)

LEMMA ValidatedIs ==
  ASSUME ProposalTyped, ~Malformed
  PROVE  /\ Validated \in Seq(Proposed) /\ Distinct(Validated)
         /\ Range(Validated) = Proposed \ Gone
PROOF
  <1> DEFINE cut1 == DropDependents(Listed, unknown)
             bad  == {s \in Proposed \ cut1 : InvalidReference(s, Proposed \ cut1)}
             cut2 == DropDependents(Listed, cut1 \cup bad)
             left == Chosen(Listed, Proposed \ cut2)
             cut3 == DropDependents(left, denied \ cut2)
             G    == Closure(unknown)
  <1>1. Validated = Chosen(left, Proposed \ cut3)
    BY Zenon DEF Validated
  <1>2. cut1 = G /\ G \in SUBSET Proposed
    BY CutIsClosure, ClosureIs DEF ProposalTyped
  <1>3. G \cup bad = G \cup BadReferences /\ bad \in SUBSET Proposed
    <2>1. bad = {s \in Proposed \ G : InvalidReference(s, Proposed \ G)}
      BY <1>2
    <2>2. \A s \in Proposed \ G : InvalidReference(s, Proposed \ G) <=> s \in BadReferences
      BY InvalidIsBad
    <2>3. BadReferences \subseteq Proposed
      BY DEF BadReferences
    <2> HIDE DEF bad, G
    <2> QED BY <2>1, <2>2, <2>3
  <1> HIDE DEF bad, cut1, G
  <1>4. cut2 = Closure(G \cup BadReferences)
    <2>1. cut1 \cup bad \in SUBSET Proposed /\ cut1 \cup bad = G \cup BadReferences
      BY <1>2, <1>3
    <2> QED BY <2>1, CutIsClosure
  <1> HIDE DEF cut2
  <1>5. /\ cut2 \in SUBSET Proposed /\ G \cup BadReferences \subseteq cut2 /\ Closed(cut2)
        /\ \A C : G \cup BadReferences \subseteq C /\ Closed(C) => cut2 \subseteq C
    <2>1. G \cup BadReferences \in SUBSET Proposed
      BY <1>2 DEF BadReferences
    <2> QED BY <1>4, <2>1, ClosureIs
  <1>6. left \in Seq(Proposed) /\ Distinct(left) /\ Range(left) = Proposed \ cut2
    BY ListedIs, ChosenIs
  <1> HIDE DEF left
  <1>7. /\ cut3 \in SUBSET Proposed /\ denied \ cut2 \subseteq cut3 /\ ClosedIn(left, cut3)
        /\ \A C : denied \ cut2 \subseteq C /\ ClosedIn(left, C) => cut3 \subseteq C
    <2>1. denied \ cut2 \in SUBSET Proposed
      BY DEF ProposalTyped
    <2> QED BY <1>6, <2>1, DropDependentsIs
  <1> HIDE DEF cut3
  <1>8. /\ Gone \in SUBSET Proposed /\ G \cup BadReferences \cup denied \subseteq Gone /\ Closed(Gone)
        /\ \A C : G \cup BadReferences \cup denied \subseteq C /\ Closed(C) => Gone \subseteq C
    <2>1. G \cup BadReferences \cup denied \in SUBSET Proposed
      BY <1>2 DEF BadReferences, ProposalTyped
    <2>2. Gone = Closure(G \cup BadReferences \cup denied)
      BY DEF Gone, G
    <2> QED BY <2>1, <2>2, ClosureIs
  <1>9. cut2 \cup cut3 \subseteq Gone
    <2>1. cut2 \subseteq Gone
      BY <1>5, <1>8
    <2>2. ClosedIn(left, Gone)
      BY <1>6, <1>8 DEF ClosedIn, Closed
    <2> QED BY <1>7, <1>8, <2>1, <2>2
  <1>10. Gone \subseteq cut2 \cup cut3
    <2>1. Closed(cut2 \cup cut3)
      BY <1>5, <1>6, <1>7 DEF ClosedIn, Closed
    <2>2. G \cup BadReferences \cup denied \subseteq cut2 \cup cut3
      BY <1>5, <1>7
    <2> QED BY <1>8, <2>1, <2>2
  <1>11. /\ Validated \in Seq(Proposed) /\ Distinct(Validated)
         /\ Range(Validated) = Range(left) \cap (Proposed \ cut3)
    BY <1>1, <1>6, ChosenIs
  <1> QED BY <1>6, <1>7, <1>9, <1>10, <1>11

(* What is left needs only what is left, and refers only to what is left. *)
LEMMA ValidatedResolves ==
  ASSUME ProposalTyped, ~Malformed
  PROVE  LET order == Topological(Validated)
         IN /\ order \in Seq(Proposed) /\ Distinct(order)
            /\ Range(order) = Range(Validated)
            /\ \A i \in 1 .. Len(order) :
                 /\ Needs(order[i]) \subseteq Before(order, i)
                 /\ ref[order[i]] # NoReference =>
                      ref[order[i]].field = "ok" /\ ref[order[i]].step \in Before(order, i)
PROOF
  <1> DEFINE v == Validated
             q == Topological(v)
             o == Topological(Listed)
  <1>1. DepsTyped /\ v \in Seq(Proposed) /\ Distinct(v) /\ Range(v) = Proposed \ Gone
    BY ValidatedIs DEF ProposalTyped
  <1>2. Sound /\ IsOrder(o)
    BY <1>1, OrderOfAll
  <1>3. Gone \in SUBSET Proposed /\ Closed(Gone) /\ Closure(unknown) \cup BadReferences \subseteq Gone
    <2>1. Closure(unknown) \cup BadReferences \cup denied \in SUBSET Proposed
      BY ClosureIs DEF ProposalTyped, BadReferences
    <2> QED BY <2>1, ClosureIs DEF Gone
  <1> HIDE DEF v, o
  <1>4. \A s \in Range(v) : Needs(s) \subseteq Range(v)
    BY <1>1, <1>2, <1>3 DEF Sound, Closed
  <1>5. q \in Seq(Proposed) /\ Distinct(q) /\ InOrder(q) /\ Range(q) = Range(v)
    BY <1>1, <1>4, TopologicalIs, OrderOfRest
  <1> HIDE DEF q
  <1>6. ASSUME NEW i \in 1 .. Len(q)
        PROVE  /\ Needs(q[i]) \subseteq Before(q, i)
               /\ ref[q[i]] # NoReference => ref[q[i]].field = "ok" /\ ref[q[i]].step \in Before(q, i)
    <2> DEFINE C == Before(q, i)
               s == q[i]
    <2>1. Len(q) \in Nat /\ q \in [1 .. Len(q) -> Proposed]
      BY <1>5, LenProperties
    <2>2. Needs(s) \subseteq C
      BY <1>5 DEF InOrder
    <2>3. C \in SUBSET Proposed
      BY <2>1 DEF Before
    <2>4. \A c \in C : Needs(c) \subseteq C
      <3>1. ASSUME NEW j \in 1 .. i - 1
            PROVE  Needs(q[j]) \subseteq C
        <4>1. j \in 1 .. Len(q) /\ \A k \in 1 .. j - 1 : k \in 1 .. i - 1
          BY <2>1
        <4> QED BY <1>5, <4>1 DEF InOrder, Before
      <3> QED BY <3>1 DEF Before
    <2>5. s \in Proposed /\ s \notin Gone
      BY <1>1, <1>5, <2>1 DEF Range
    <2>6. Ancestors[s] \subseteq C
      <3> HIDE DEF C, s
      <3> QED BY <1>2, <2>2, <2>3, <2>4, <2>5, AncestorsIs DEF Sound
    <2>7. ASSUME ref[s] # NoReference
          PROVE  ref[s].field = "ok" /\ ref[s].step \in C
      <3> HIDE DEF C, s
      <3>1. ref[s] \in Reference /\ ref[s].field \in {"ok", "wrong"}
        BY <2>5, <2>7 DEF ProposalTyped, Reference
      <3>2. s \in Proposed \ Closure(unknown) /\ s \notin BadReferences
        BY <1>3, <2>5
      <3>3. ~InvalidReference(s, Proposed \ Closure(unknown))
        BY <3>2, InvalidIsBad
      <3>4. ref[s].step \in Ancestors[s] /\ ref[s].field # "wrong"
        BY <2>7, <3>3 DEF InvalidReference
      <3> QED BY <2>6, <3>1, <3>4
    <2> QED BY <2>2, <2>7
  <1> QED BY <1>5, <1>6 DEF q, v

-----------------------------------------------------------------------------
(* The invariant of the validation, and the two properties. *)
ValidationInv ==
  /\ ProposalTyped
  /\ \/ verdict = "proposed" /\ steps = << >>
     \/ verdict = "rejected" /\ steps = << >> /\ Malformed
     \/ verdict = "valid" /\ steps = Validated /\ ~Malformed

LEMMA NothingInOrder ==
  ASSUME DepsTyped
  PROVE  Topological(<< >>) = << >>
PROOF
  <1>1. << >> \in Seq(Proposed) /\ Distinct(<< >>) /\ Range(<< >>) = {}
    BY DEF Distinct, Range
  <1> DEFINE q == Topological(<< >>)
  <1>2. q \in Seq(Proposed) /\ Range(q) \subseteq {}
    BY <1>1, TopologicalIs
  <1> HIDE DEF q
  <1>3. Len(q) \in Nat /\ q \in [1 .. Len(q) -> Proposed]
    BY <1>2, LenProperties
  <1>4. \A i \in 1 .. Len(q) : FALSE
    BY <1>2, <1>3 DEF Range
  <1>5. Len(q) = 0
    BY <1>3, <1>4
  <1>6. q = << >>
    BY <1>2, <1>5, EmptySeq
  <1> QED BY <1>6 DEF q

THEOREM ValidationInvariant == ValidationSpec => []ValidationInv
PROOF
  <1>1. ASSUME ProposalInit
        PROVE  ValidationInv
    <2>1. DepsTyped
      BY <1>1, ProposalAssumption DEF ProposalInit, DepsTyped
    <2>2. ref \in [Proposed -> {r \in Reference : r.step # 0} \cup {NoReference}]
      <3>1. CASE Malformed
        BY <1>1, <3>1 DEF ProposalInit
      <3>2. CASE ~Malformed
        BY <1>1, <3>2 DEF ProposalInit
      <3> QED BY <3>1, <3>2
    <2>3. unknown \in SUBSET Proposed /\ denied \in SUBSET Proposed
      BY <1>1, ProposalAssumption DEF ProposalInit
    <2> QED BY <1>1, <2>1, <2>2, <2>3 DEF ProposalInit, ValidationInv, ProposalTyped
  <1>2. ASSUME ValidationInv, [ValidationNext]_validationVars
        PROVE  ValidationInv'
    <2>s. ASSUME UNCHANGED proposal
          PROVE  /\ ProposalTyped' <=> ProposalTyped
                 /\ Malformed' <=> Malformed
                 /\ Validated' = Validated
      <3>1. \A s : Needs(s)' = Needs(s)
        BY <2>s DEF proposal, Needs
      <3> QED BY <2>s, <3>1 DEF proposal, ProposalTyped, DepsTyped, Malformed, Validated, Topological,
            Start, Pop, Needs, InvalidReference, Ancestors, DropDependents, DropPass, DropNext
    <2>1. CASE Reject
      BY <1>2, <2>1, <2>s DEF Reject, ValidationInv
    <2>2. CASE Validate
      BY <1>2, <2>2, <2>s DEF Validate, ValidationInv
    <2>3. CASE UNCHANGED validationVars
      <3>1. UNCHANGED proposal /\ UNCHANGED <<verdict, steps>>
        BY <2>3 DEF validationVars, proposal
      <3> QED BY <1>2, <2>s, <3>1 DEF ValidationInv
    <2> QED BY <1>2, <2>1, <2>2, <2>3 DEF ValidationNext
  <1> QED BY <1>1, <1>2, PTL DEF ValidationSpec

THEOREM ReferencesAlwaysResolve == ValidationSpec => []ReferencesResolve
PROOF
  <1>1. ASSUME ValidationInv
        PROVE  ReferencesResolve
    <2>1. CASE steps = << >>
      <3>1. Topological(steps) = << >>
        BY <1>1, <2>1, NothingInOrder DEF ValidationInv, ProposalTyped
      <3> QED BY <2>1, <3>1 DEF ReferencesResolve
    <2>2. CASE steps = Validated /\ ~Malformed
      BY <1>1, <2>2, ValidatedResolves DEF ValidationInv, ReferencesResolve, Before
    <2> QED BY <1>1, <2>1, <2>2 DEF ValidationInv
  <1> QED BY <1>1, ValidationInvariant, PTL

THEOREM OnlyNecessaryCutsAlways == ValidationSpec => []OnlyNecessaryCuts
PROOF
  <1>1. ASSUME ValidationInv
        PROVE  OnlyNecessaryCuts
    <2>1. ASSUME verdict = "rejected"
          PROVE  HasCycle \/ Repeats \/ \E s \in Proposed : ~ Needs(s) \subseteq Proposed
      BY <1>1, <2>1, RejectedForAReason DEF ValidationInv, ProposalTyped
    <2>2. ASSUME verdict = "valid"
          PROVE  Proposed \ Range(steps) = Gone
      <3>1. Range(steps) = Proposed \ Gone
        BY <1>1, <2>2, ValidatedIs DEF ValidationInv
      <3>2. Gone \in SUBSET Proposed
        <4>1. Closure(unknown) \cup BadReferences \cup denied \in SUBSET Proposed
          BY <1>1, ClosureIs DEF ValidationInv, ProposalTyped, BadReferences
        <4> QED BY <4>1, ClosureIs DEF Gone
      <3> QED BY <3>1, <3>2
    <2> QED BY <2>1, <2>2 DEF OnlyNecessaryCuts, Gone, BadReferences
  <1> QED BY <1>1, ValidationInvariant, PTL

(* The plan as execute_plan takes it: its steps numbered in the order of _topological. *)
Executed ==
  LET order == Topological(steps)
  IN [i \in 1 .. Len(order) |-> {j \in 1 .. Len(order) : order[j] \in Needs(order[i])}]

(***************************************************************************)
(* What is assumed of the plans of PlanExecution (PlanAssumption) is what  *)
(* the validation leaves: a step depends on steps before it, and on all it *)
(* was proposed to depend on.                                              *)
(***************************************************************************)
THEOREM ValidPlansCanBeExecuted ==
  ValidationSpec =>
    [](/\ Executed \in Seq(SUBSET Nat)
       /\ \A i \in DOMAIN Executed :
            /\ \A d \in Executed[i] : d \in 1 .. i - 1
            /\ Needs(Topological(steps)[i]) = {Topological(steps)[d] : d \in Executed[i]})
PROOF
  <1> DEFINE q == Topological(steps)
             n == Len(q)
  <1>1. ASSUME ValidationInv
        PROVE  q \in Seq(Proposed) /\ Distinct(q) /\ \A i \in 1 .. n : Needs(q[i]) \subseteq Before(q, i)
    <2>1. CASE steps = << >>
      <3>1. q = << >>
        BY <1>1, <2>1, NothingInOrder DEF ValidationInv, ProposalTyped
      <3> QED BY <3>1 DEF Distinct
    <2>2. CASE steps = Validated /\ ~Malformed
      BY <1>1, <2>2, ValidatedResolves DEF ValidationInv
    <2> QED BY <1>1, <2>1, <2>2 DEF ValidationInv
  <1>2. ASSUME ValidationInv
        PROVE  /\ Executed \in Seq(SUBSET Nat)
               /\ \A i \in DOMAIN Executed :
                    /\ \A d \in Executed[i] : d \in 1 .. i - 1
                    /\ Needs(q[i]) = {q[d] : d \in Executed[i]}
    <2>1. /\ q \in Seq(Proposed) /\ Distinct(q)
          /\ \A i \in 1 .. n : Needs(q[i]) \subseteq Before(q, i)
      BY <1>1, <1>2
    <2>2. Executed = [i \in 1 .. n |-> {j \in 1 .. n : q[j] \in Needs(q[i])}]
      BY DEF Executed
    <2> HIDE DEF q
    <2>3. n \in Nat
      BY <2>1, LenProperties
    <2>4. Executed \in Seq(SUBSET Nat) /\ DOMAIN Executed = 1 .. n
      <3>1. 1 .. n \subseteq Nat
        BY <2>3
      <3>2. Executed \in [1 .. n -> SUBSET Nat]
        BY <2>2, <3>1
      <3> HIDE DEF n
      <3> QED BY <2>3, <3>2
    <2>5. ASSUME NEW i \in 1 .. n
          PROVE  /\ \A d \in Executed[i] : d \in 1 .. i - 1
                 /\ Needs(q[i]) = {q[d] : d \in Executed[i]}
      <3>1. Executed[i] = {j \in 1 .. n : q[j] \in Needs(q[i])}
        BY <2>2
      <3>2. \A d \in Executed[i] : d \in 1 .. i - 1
        <4>1. ASSUME NEW d \in 1 .. n, q[d] \in Needs(q[i])
              PROVE  d \in 1 .. i - 1
          <5>1. PICK j \in 1 .. i - 1 : q[d] = q[j]
            BY <2>1, <4>1 DEF Before
          <5>2. j \in 1 .. n
            BY <2>3
          <5> QED BY <2>1, <5>1, <5>2 DEF Distinct
        <4> QED BY <3>1, <4>1
      <3>3. ASSUME NEW m \in Needs(q[i])
            PROVE  \E d \in Executed[i] : m = q[d]
        <4>1. PICK j \in 1 .. i - 1 : m = q[j]
          BY <2>1 DEF Before
        <4>2. j \in 1 .. n
          BY <2>3
        <4> QED BY <3>1, <4>1, <4>2
      <3> QED BY <3>1, <3>2, <3>3
    <2> HIDE DEF n
    <2> QED BY <2>4, <2>5
  <1> HIDE DEF q, n
  <1>3. ValidationInv =>
          /\ Executed \in Seq(SUBSET Nat)
          /\ \A i \in DOMAIN Executed :
               /\ \A d \in Executed[i] : d \in 1 .. i - 1
               /\ Needs(Topological(steps)[i]) = {Topological(steps)[d] : d \in Executed[i]}
    BY <1>2 DEF q
  <1> QED BY <1>3, ValidationInvariant, PTL

-----------------------------------------------------------------------------
(* The execution *)

Rows == {0} \cup Steps
Owes(p, row) == \E i \in 1 .. Len(todo[p]) : todo[p][i] = row

CurLabels == {"dispatch", "insert", "advance", "enqueued"}
Walking   == CurLabels \cup {"execute", "loop", "paused", "gaveup", "finished", "work"}
Saving    == Walking \cup {"replied"}

Limited      == \A k \in FaultKinds : budget[k] <= goal.limits[k]
Busy         == \A w \in Workers : pc[w] # "idle" => held[w] \in 1 .. Len(tasks)
CurSet       == \A p \in Processes : pc[p] \in CurLabels => cur[p] \in Steps
SavingOnly   == \A p \in Processes : todo[p] # << >> => pc[p] \in Saving
FrontLabels  == \A f \in Fronts : pc[f] \notin {"load", "loaded", "work", "complete", "gaveup"}
WorkerLabels == \A w \in Workers : pc[w] \notin {"reply", "resume", "replied"}

Typed == /\ goal \in Goals /\ TypeOK /\ Limited
         /\ Busy /\ CurSet /\ SavingOnly /\ FrontLabels /\ WorkerLabels

-----------------------------------------------------------------------------
(* The steps of a plan are numbered, and its own row comes first when all is saved. *)
LEMMA WholeFacts ==
  ASSUME goal \in Goals
  PROVE  /\ Whole \in Seq(Rows) /\ Whole # << >> /\ Head(Whole) = 0
         /\ \A r \in Rows : \E i \in 1 .. Len(Whole) : Whole[i] = r
  <1>1. goal.deps \in Seq(SUBSET Nat) /\ Steps = 1 .. Len(goal.deps) /\ Len(goal.deps) \in Nat
    BY PlanAssumption DEF Steps
  <1> DEFINE q == [s \in Steps |-> s]
  <1>2. q \in Seq(Rows) /\ Len(q) = Len(goal.deps)
    <2>1. q \in [1 .. Len(goal.deps) -> Rows]
      BY <1>1 DEF Rows
    <2>2. q \in Seq(Rows)
      BY <1>1, <2>1, SeqDef
    <2> QED BY <1>1, <2>2
  <1>3. <<0>> \in Seq(Rows) /\ Len(<<0>>) = 1 /\ <<0>>[1] = 0
    BY DEF Rows
  <1>4. /\ Whole = <<0>> \o q /\ Whole \in Seq(Rows) /\ Len(Whole) = 1 + Len(q)
        /\ \A i \in 1 .. Len(Whole) : Whole[i] = IF i <= 1 THEN 0 ELSE q[i - 1]
    <2> HIDE DEF q
    <2>1. Whole = <<0>> \o q
      BY DEF Whole, q
    <2> QED BY <1>2, <1>3, <2>1, ConcatProperties
  <1>5. ASSUME NEW r \in Rows PROVE \E i \in 1 .. Len(Whole) : Whole[i] = r
    <2>1. CASE r = 0
      BY <1>1, <1>2, <1>4, <2>1
    <2>2. CASE r \in Steps
      <3>1. r + 1 \in 1 .. Len(Whole) /\ q[r] = r
        BY <1>1, <1>2, <1>4, <2>2
      <3>2. Whole[r + 1] = q[r + 1 - 1] /\ r + 1 - 1 = r
        BY <1>1, <1>2, <1>4, <2>2, <3>1
      <3> QED BY <3>1, <3>2
    <2> QED BY <2>1, <2>2 DEF Rows
  <1>6. Whole # << >> /\ Head(Whole) = 0
    BY <1>1, <1>2, <1>4
  <1> QED BY <1>4, <1>5, <1>6

(* One row before others. *)
LEMMA ConsFacts ==
  ASSUME NEW x \in Rows, NEW q \in Seq(Rows)
  PROVE  /\ <<x>> \o q \in Seq(Rows) /\ <<x>> \o q # << >> /\ Head(<<x>> \o q) = x
         /\ \E i \in 1 .. Len(<<x>> \o q) : (<<x>> \o q)[i] = x
         /\ \A j \in 1 .. Len(q) : \E i \in 1 .. Len(<<x>> \o q) : (<<x>> \o q)[i] = q[j]
         /\ \A i \in 1 .. Len(<<x>> \o q) :
              \/ (<<x>> \o q)[i] = x
              \/ \E j \in 1 .. Len(q) : (<<x>> \o q)[i] = q[j]
  <1>1. <<x>> \in Seq(Rows) /\ Len(<<x>>) = 1 /\ <<x>>[1] = x
    OBVIOUS
  <1> DEFINE c == <<x>> \o q
  <1>2. /\ c \in Seq(Rows) /\ Len(c) = 1 + Len(q)
        /\ \A i \in 1 .. Len(c) : c[i] = IF i <= 1 THEN x ELSE q[i - 1]
    BY <1>1, ConcatProperties
  <1>3. Len(q) \in Nat
    OBVIOUS
  <1> HIDE DEF c
  <1>4. c # << >> /\ Head(c) = x /\ 1 \in 1 .. Len(c) /\ c[1] = x
    BY <1>2, <1>3
  <1>5. ASSUME NEW j \in 1 .. Len(q) PROVE j + 1 \in 1 .. Len(c) /\ c[j + 1] = q[j]
    BY <1>2, <1>3
  <1>6. ASSUME NEW i \in 1 .. Len(c), i # 1 PROVE i - 1 \in 1 .. Len(q) /\ c[i] = q[i - 1]
    BY <1>2, <1>3, <1>6
  <1> QED BY <1>2, <1>4, <1>5, <1>6 DEF c

(* The first row is taken off. *)
LEMMA TailFacts ==
  ASSUME NEW q \in Seq(Rows), q # << >>
  PROVE  /\ Head(q) \in Rows /\ Tail(q) \in Seq(Rows)
         /\ \A i \in 1 .. Len(q) :
              \/ q[i] = Head(q)
              \/ \E j \in 1 .. Len(Tail(q)) : Tail(q)[j] = q[i]
         /\ \A j \in 1 .. Len(Tail(q)) : \E i \in 1 .. Len(q) : q[i] = Tail(q)[j]
  <1>1. /\ Head(q) \in Rows /\ Tail(q) \in Seq(Rows) /\ Len(q) \in Nat /\ Len(Tail(q)) = Len(q) - 1
        /\ Head(q) = q[1] /\ \A j \in 1 .. Len(Tail(q)) : Tail(q)[j] = q[j + 1]
    BY HeadTailProperties
  <1>2. ASSUME NEW i \in 1 .. Len(q), i # 1
        PROVE  i - 1 \in 1 .. Len(Tail(q)) /\ Tail(q)[i - 1] = q[i]
    BY <1>1, <1>2
  <1>3. ASSUME NEW j \in 1 .. Len(Tail(q)) PROVE j + 1 \in 1 .. Len(q) /\ q[j + 1] = Tail(q)[j]
    BY <1>1
  <1> QED BY <1>1, <1>2, <1>3

(* Marking one step of a plan touches nothing else. *)
LEMMA SetStatusFacts ==
  ASSUME NEW plan \in Plan, NEW s \in Steps, NEW status \in StepStates
  PROVE  /\ SetStatus(plan, s, status) \in Plan
         /\ SetStatus(plan, s, status).status = plan.status
         /\ SetStatus(plan, s, status).step[s].status = status
         /\ \A r \in Steps \ {s} : SetStatus(plan, s, status).step[r] = plan.step[r]
  <1>1. [plan.step[s] EXCEPT !.status = status] \in StepRow
    BY DEF Plan, StepRow
  <1>2. [plan.step EXCEPT ![s] = [plan.step[s] EXCEPT !.status = status]] \in [Steps -> StepRow]
    BY <1>1 DEF Plan
  <1>3. plan.step[s] \in StepRow
    BY DEF Plan
  <1> QED BY <1>1, <1>2, <1>3 DEF SetStatus, Plan, StepRow

(* What is left of the limits, and what the history has counted. *)
Counters == /\ budget \in [FaultKinds -> Nat] /\ Limited
            /\ approved \in BOOLEAN /\ started \in [Steps -> Nat] /\ effects \in [Steps -> Nat]

(* A plan nobody has worked on, in memory and in the database. *)
LEMMA BlankFacts ==
  ASSUME goal \in Goals
  PROVE  /\ NewPlan \in Plan /\ NewPlan.status = "none"
         /\ \A s \in Steps : NewPlan.step[s].status = "pending"
         /\ Blank(Unsaved) \in Plan /\ Blank(Unsaved).status = "none"
         /\ \A s \in Steps : Blank(Unsaved).step[s].status = Unsaved
  BY DEF NewPlan, Blank, Plan, StepRow, StepStates, Unsaved

(* A process saves its copy: nobody else's changes. *)
LEMMA SaveFacts ==
  ASSUME Typed, NEW p \in Processes, NEW plan, NEW rows, NEW label, Save(p, plan, rows, label)
  PROVE  /\ copy'[p] = plan /\ todo'[p] = rows /\ pc'[p] = label
         /\ \A q \in Processes \ {p} : copy'[q] = copy[q] /\ todo'[q] = todo[q] /\ pc'[q] = pc[q]
  BY DEF Typed, TypeOK, Save

(* A process saves a copy of the right type, and goes on where it may. *)
LEMMA SaveTyped ==
  ASSUME Typed, NEW p \in Processes, NEW plan \in Plan, NEW rows \in Seq(Rows),
         NEW label \in Labels,
         Save(p, plan, rows, label), UNCHANGED goal,
         rows # << >> => label \in Saving,
         p \in Fronts => label \notin {"load", "loaded", "work", "complete", "gaveup"},
         p \in Workers => label \notin {"reply", "resume", "replied"}
  PROVE  /\ copy' \in [Processes -> Plan]' /\ todo' \in [Processes -> Seq(Rows)]'
         /\ pc' \in [Processes -> Labels]'
         /\ SavingOnly' /\ FrontLabels' /\ WorkerLabels'
  <1>1. Plan' = Plan /\ Rows' = Rows
    BY DEF Plan, StepRow, Rows, Steps
  <1>2. /\ copy' \in [Processes -> Plan] /\ todo' \in [Processes -> Seq(Rows)]
        /\ pc' \in [Processes -> Labels]
    BY DEF Typed, TypeOK, Save, Rows
  <1>3. SavingOnly' /\ FrontLabels' /\ WorkerLabels'
    BY SaveFacts DEF Typed, SavingOnly, FrontLabels, WorkerLabels, Processes
  <1> QED BY <1>1, <1>2, <1>3

(* A step of p that changes no row, of the queue or of the plan. *)
LEMMA StepTyped ==
  ASSUME Typed, NEW p \in Processes, NEW plan \in Plan, NEW rows \in Seq(Rows),
         NEW label \in Labels,
         Save(p, plan, rows, label), UNCHANGED <<goal, db, tasks, held, payload>>,
         rows # << >> => label \in Saving,
         p \in Fronts => label \notin {"load", "loaded", "work", "complete", "gaveup"},
         p \in Workers => pc[p] # "idle" /\ label \notin {"reply", "resume", "replied"},
         cur' = cur \/ \E s \in Rows : cur' = [cur EXCEPT ![p] = s],
         label \in CurLabels => cur'[p] \in Steps,
         Counters'
  PROVE  Typed'
  <1>1. Plan' = Plan /\ Steps' = Steps
    BY DEF Plan, StepRow, Rows, Steps
  <1>2. cur' \in [Processes -> {0} \cup Steps]
    BY DEF Typed, TypeOK, Rows
  <1>3. CurSet'
    <2>1. \A q \in Processes \ {p} : cur'[q] = cur[q]
      BY DEF Typed, TypeOK
    <2> QED BY <1>1, <2>1, SaveFacts DEF Typed, CurSet
  <1>4. Busy'
    BY SaveFacts DEF Typed, Busy, Processes
  <1>5. TypeOK'
    BY <1>1, <1>2, SaveTyped DEF Typed, TypeOK, Rows, Counters
  <1> QED BY <1>1, <1>3, <1>4, <1>5, SaveTyped DEF Typed, Counters

(* Fail saves the step, marked failed, and the plan, marked paused. *)
LEMMA FailFacts ==
  ASSUME Typed, NEW p \in Processes, NEW s \in Steps, NEW label, Fail(p, s, label)
  PROVE  \E plan \in Plan, rows \in Seq(Rows) :
           /\ Save(p, plan, rows, label) /\ rows # << >>
           /\ plan.status = "paused" /\ plan.step[s].status = "failed"
           /\ \A r \in Steps \ {s} : plan.step[r] = copy[p].step[r]
           /\ \A r \in Rows : \E i \in 1 .. Len(rows) : rows[i] = r
  <1> DEFINE plan == [SetStatus(copy[p], s, "failed") EXCEPT !.status = "paused"]
             rows == <<s>> \o Whole
  <1>1. copy[p] \in Plan /\ "failed" \in StepStates /\ goal \in Goals
    BY DEF Typed, TypeOK, StepStates
  <1>2. /\ plan \in Plan /\ plan.status = "paused"
        /\ plan.step = SetStatus(copy[p], s, "failed").step
    <2>1. SetStatus(copy[p], s, "failed") \in Plan
      BY <1>1, SetStatusFacts
    <2> QED BY <2>1 DEF Plan, PlanStates
  <1>3. /\ plan.step[s].status = "failed"
        /\ \A r \in Steps \ {s} : plan.step[r] = copy[p].step[r]
    BY <1>1, <1>2, SetStatusFacts
  <1>4. s \in Rows /\ Whole \in Seq(Rows)
    BY <1>1, WholeFacts DEF Rows
  <1>5. rows \in Seq(Rows) /\ rows # << >>
    BY <1>4, ConsFacts
  <1>6. ASSUME NEW r \in Rows PROVE \E i \in 1 .. Len(rows) : rows[i] = r
    <2>1. PICK j \in 1 .. Len(Whole) : Whole[j] = r
      BY <1>1, WholeFacts
    <2>2. \A k \in 1 .. Len(Whole) : \E i \in 1 .. Len(<<s>> \o Whole) : (<<s>> \o Whole)[i] = Whole[k]
      BY <1>4, ConsFacts
    <2> QED BY <2>1, <2>2
  <1>7. Save(p, plan, rows, label)
    BY DEF Fail
  <1> HIDE DEF plan, rows
  <1> QED BY <1>2, <1>3, <1>5, <1>6, <1>7

(* A message or a fault uses up one of its kind. *)
LEMMA SpendFacts ==
  ASSUME Typed, NEW kind \in FaultKinds, Spend(kind), UNCHANGED <<goal, history>>
  PROVE  Counters' /\ budget'[kind] < goal.limits[kind]
  <1>1. goal.limits \in [FaultKinds -> Nat]
    BY PlanAssumption DEF Typed
  <1>2. budget[kind] \in Nat /\ budget[kind] - 1 \in Nat /\ budget[kind] <= goal.limits[kind]
    BY DEF Typed, TypeOK, Limited, Spend
  <1>3. Steps' = Steps
    BY DEF Steps
  <1> QED BY <1>1, <1>2, <1>3 DEF Typed, TypeOK, Limited, Counters, Spend, history

(* Steps that count nothing. *)
LEMMA SameCounters ==
  ASSUME Typed, UNCHANGED <<goal, budget, history>>
  PROVE  Counters'
  BY DEF Typed, TypeOK, Limited, Counters, history, Steps

(* A dispatch of the step s. *)
LEMMA DispatchCounters ==
  ASSUME Typed, NEW s \in Steps, UNCHANGED <<goal, budget, approved>>,
         started' = [started EXCEPT ![s] = @ + 1],
         effects' = effects \/ effects' = [effects EXCEPT ![s] = @ + 1]
  PROVE  Counters' /\ \A r \in Steps : effects'[r] >= effects[r]
  <1>1. started \in [Steps -> Nat] /\ effects \in [Steps -> Nat] /\ Steps' = Steps
    BY DEF Typed, TypeOK, Steps
  <1>2. started' \in [Steps -> Nat]
    BY <1>1
  <1>3. effects' \in [Steps -> Nat] /\ \A r \in Steps : effects'[r] >= effects[r]
    BY <1>1
  <1> QED BY <1>1, <1>2, <1>3 DEF Typed, TypeOK, Limited, Counters
(* A process reads the rows of the steps into its copy. *)
LEMMA LoadedFacts ==
  ASSUME Typed, NEW p \in Processes
  PROVE  Loaded(p) \in Plan /\ Loaded(p).step = db.step /\ Loaded(p).status = copy[p].status
  <1>1. copy[p] \in Plan /\ db \in Plan
    BY DEF Typed, TypeOK
  <1> QED BY <1>1 DEF Loaded, Plan

(* A copy with another status for the plan. *)
LEMMA PlanStatusFacts ==
  ASSUME NEW plan \in Plan, NEW status \in PlanStates \cup {"none"}
  PROVE  /\ [plan EXCEPT !.status = status] \in Plan
         /\ [plan EXCEPT !.status = status].status = status
         /\ [plan EXCEPT !.status = status].step = plan.step
  BY DEF Plan

(* The call returns and its copy is dropped. *)
LEMMA LeaveTyped ==
  ASSUME Typed, NEW p \in Processes, NEW label \in {"idle", "complete"}, Leave(p, label),
         UNCHANGED <<goal, db, tasks, held, payload>>,
         label = "complete" => p \in Workers,
         p \in Workers => pc[p] # "idle",
         Counters'
  PROVE  Typed'
  <1>1. NewPlan \in Plan /\ << >> \in Seq(Rows) /\ 0 \in Rows
    BY BlankFacts DEF Typed, Rows
  <1>2. Save(p, NewPlan, << >>, label) /\ cur' = [cur EXCEPT ![p] = 0]
    BY DEF Leave
  <1>3. label \in Labels /\ label \notin CurLabels /\ (p \in Fronts => p \notin Workers)
    BY PlanAssumption DEF Typed, Labels, CurLabels
  <1> HIDE DEF NewPlan
  <1> QED BY <1>1, <1>2, <1>3, StepTyped

(* Only one thing is in hand: p is a front or a worker. *)
LEMMA Apart ==
  ASSUME Typed, NEW p \in Processes
  PROVE  (p \in Fronts /\ p \notin Workers) \/ (p \in Workers /\ p \notin Fronts)
  BY PlanAssumption DEF Processes, Typed

(* The user's messages, and what a front makes of them, keep the types. *)
LEMMA FrontTyped ==
  ASSUME Typed, NEW f \in Fronts, UNCHANGED goal, User(f) \/ Answer(f)
  PROVE  Typed'
  <1>1. f \in Processes /\ f \notin Workers
    BY Apart DEF Processes
  <1>2. copy[f] \in Plan /\ db \in Plan /\ goal \in Goals /\ NewPlan \in Plan /\ Loaded(f) \in Plan
    BY <1>1, LoadedFacts, BlankFacts DEF Typed, TypeOK
  <1>3. Whole \in Seq(Rows) /\ << >> \in Seq(Rows)
    BY <1>2, WholeFacts
  <1>4. \A s \in Steps : <<s>> \in Seq(Rows) /\ <<s>> \o Whole \in Seq(Rows)
    BY <1>3, ConsFacts DEF Rows
  <1>5. ASSUME NEW plan \in Plan, NEW rows \in Seq(Rows),
               NEW label \in {"reply", "resume", "replied", "execute", "idle"},
               Save(f, plan, rows, label), UNCHANGED <<db, queue>>,
               rows # << >> => label \in {"replied", "execute"},
               cur' = cur \/ cur' = [cur EXCEPT ![f] = 0], Counters'
        PROVE  Typed'
    <2>1. label \in Labels /\ label \notin CurLabels
      BY <1>5 DEF Labels, CurLabels
    <2>2. rows # << >> => label \in Saving
      BY <1>5 DEF Saving, Walking
    <2> QED BY <1>1, <1>5, <2>1, <2>2, StepTyped DEF queue, Rows
  <1> HIDE DEF Whole, NewPlan, Loaded, Save
  <1>6. CASE Run(f)
    <2>1. Counters'
      BY <1>6, SameCounters DEF Run
    <2>2. CASE Save(f, [NewPlan EXCEPT !.status = "awaiting_approval"], Whole, "replied")
      BY <1>2, <1>3, <1>5, <1>6, <2>1, <2>2, PlanStatusFacts DEF Run, PlanStates
    <2>3. CASE Save(f, [NewPlan EXCEPT !.status = "planning"], Whole, "execute")
      BY <1>2, <1>3, <1>5, <1>6, <2>1, <2>3, PlanStatusFacts DEF Run, PlanStates
    <2> QED BY <1>6, <2>2, <2>3 DEF Run
  <1>7. ASSUME NEW kind \in {"reply", "resume"}, NEW statuses, ReadPlan(f, kind, statuses)
        PROVE  Typed'
    <2>1. Counters'
      BY <1>7, SpendFacts DEF ReadPlan, FaultKinds
    <2>2. [NewPlan EXCEPT !.status = db.status] \in Plan
      BY <1>2, PlanStatusFacts DEF Plan
    <2> QED BY <1>3, <1>5, <1>7, <2>1, <2>2 DEF ReadPlan
  <1>8. CASE ReplyAbort(f)
    BY <1>2, <1>3, <1>5, <1>8, SameCounters, PlanStatusFacts DEF ReplyAbort, PlanStates
  <1>9. CASE ReplyYes(f)
    <2>1. Counters'
      BY <1>9 DEF ReplyYes, Typed, TypeOK, Limited, Counters, Steps
    <2> QED BY <1>2, <1>3, <1>5, <1>9, <2>1 DEF ReplyYes
  <1>10. ASSUME NEW s \in Steps, ReplySkip(f, s) PROVE Typed'
    <2>1. SetStatus(Loaded(f), s, "skipped") \in Plan
      BY <1>2, SetStatusFacts DEF StepStates
    <2>2. Counters'
      BY <1>10, SameCounters DEF ReplySkip
    <2>3. CASE Save(f, SetStatus(Loaded(f), s, "skipped"), <<s>> \o Whole, "replied")
      BY <1>4, <1>5, <1>10, <2>1, <2>2, <2>3 DEF ReplySkip
    <2>4. CASE Save(f, SetStatus(Loaded(f), s, "skipped"), <<s>>, "execute")
      BY <1>4, <1>5, <1>10, <2>1, <2>2, <2>4 DEF ReplySkip
    <2> QED BY <1>10, <2>3, <2>4 DEF ReplySkip
  <1>11. CASE ReplyContinue(f)
    <2>1. Counters'
      BY <1>11, SameCounters DEF ReplyContinue
    <2>2. CASE Save(f, Loaded(f), << >>, "execute")
      BY <1>2, <1>3, <1>5, <1>11, <2>1, <2>2 DEF ReplyContinue
    <2>3. ASSUME NEW s \in Steps, Save(f, SetStatus(Loaded(f), s, "pending"), <<s>>, "execute")
          PROVE  Typed'
      <3>1. SetStatus(Loaded(f), s, "pending") \in Plan
        BY <1>2, SetStatusFacts DEF StepStates
      <3> QED BY <1>4, <1>5, <1>11, <2>1, <2>3, <3>1 DEF ReplyContinue
    <2> QED BY <1>11, <2>2, <2>3 DEF ReplyContinue
  <1>12. CASE ReplyIgnored(f)
    BY <1>1, <1>12, LeaveTyped, SameCounters DEF ReplyIgnored, queue
  <1>13. CASE ResumeSteps(f)
    <2> DEFINE saved == [s \in Steps |->
                   IF db.step[s].status \in {"failed", "running"}
                   THEN [db.step[s] EXCEPT !.status = "pending"] ELSE db.step[s]]
    <2>1. \A s \in Steps : saved[s] \in StepRow
      BY SMTT(20), <1>2 DEF Plan, StepRow, StepStates
    <2>2. [copy[f] EXCEPT !.step = saved] \in Plan
      BY <1>2, <2>1 DEF Plan
    <2>3. Save(f, [copy[f] EXCEPT !.step = saved], << >>, "execute")
      BY <1>13 DEF ResumeSteps
    <2> HIDE DEF saved
    <2> QED BY <1>3, <1>5, <1>13, <2>2, <2>3, SameCounters DEF ResumeSteps
  <1> QED BY <1>6, <1>7, <1>8, <1>9, <1>10, <1>11, <1>12, <1>13
          DEF User, Answer, Reply, Resume
(* The row that is saved first. *)
LEMMA FlushTyped ==
  ASSUME Typed, NEW p \in Processes, UNCHANGED goal, Flush(p)
  PROVE  Typed'
  <1>1. /\ todo[p] \in Seq(Rows) /\ todo[p] # << >> /\ db \in Plan /\ copy[p] \in Plan
        /\ Steps' = Steps /\ Plan' = Plan /\ Rows' = Rows
    BY DEF Typed, TypeOK, Flush, Rows, Steps, Plan, StepRow
  <1>2. Head(todo[p]) \in Rows /\ Tail(todo[p]) \in Seq(Rows)
    BY <1>1, TailFacts
  <1>3. db' \in Plan
    <2>1. CASE Head(todo[p]) = 0
      BY <1>1, <2>1 DEF Flush, Plan
    <2>2. CASE Head(todo[p]) \in Steps /\ Head(todo[p]) # 0
      BY <1>1, <2>2 DEF Flush, Plan
    <2> QED BY <1>2, <2>1, <2>2 DEF Rows
  <1>4. todo' \in [Processes -> Seq(Rows)] /\ \A q \in Processes \ {p} : todo'[q] = todo[q]
    BY <1>2 DEF Typed, TypeOK, Flush, Rows
  <1>5. SavingOnly'
    BY <1>1, <1>4 DEF Typed, SavingOnly, Flush
  <1>6. TypeOK'
    BY <1>1, <1>3, <1>4 DEF Typed, TypeOK, Flush, Rows, queue, history
  <1> QED BY <1>1, <1>5, <1>6
       DEF Typed, Flush, queue, history, Limited, Busy, CurSet, FrontLabels, WorkerLabels

(* So do the steps of execute_plan. *)
LEMMA WalkTyped ==
  ASSUME Typed, NEW p \in Processes, UNCHANGED goal, Walk(p)
  PROVE  Typed'
  <1>1. p \in Fronts => p \notin Workers
    BY Apart
  <1>2. copy[p] \in Plan /\ db \in Plan /\ goal \in Goals
    BY DEF Typed, TypeOK
  <1>3. Whole \in Seq(Rows) /\ << >> \in Seq(Rows)
    BY <1>2, WholeFacts
  <1>4. \A s \in Steps : <<s>> \in Seq(Rows) /\ <<s>> \o Whole \in Seq(Rows)
    BY <1>3, ConsFacts DEF Rows
  <1>5. ASSUME NEW plan \in Plan, NEW rows \in Seq(Rows),
               NEW label \in {"loop", "dispatch", "insert", "advance", "enqueued", "paused", "finished"},
               Save(p, plan, rows, label), UNCHANGED <<db, queue>>, pc[p] # "idle",
               rows # << >> => label # "insert",
               \/ cur' = cur /\ pc[p] \in CurLabels
               \/ cur' = cur /\ label \in {"loop", "finished"}
               \/ \E s \in Steps : cur' = [cur EXCEPT ![p] = s],
               Counters'
        PROVE  Typed'
    <2>1. label \in Labels \ {"load", "loaded", "work", "complete", "gaveup", "reply", "resume", "replied"}
      BY DEF Labels
    <2>2. label \in Saving
      BY DEF Saving, Walking, CurLabels
    <2>3. label \in CurLabels => cur'[p] \in Steps
      BY <1>5 DEF Typed, TypeOK, CurSet, CurLabels
    <2> QED BY <1>1, <1>5, <2>1, <2>2, <2>3, StepTyped DEF queue, Rows
  <1> HIDE DEF Whole, Save
  <1>6. CASE Flush(p)
    BY <1>6, FlushTyped
  <1>7. CASE Execute(p)
    BY <1>2, <1>3, <1>5, <1>7, SameCounters, PlanStatusFacts DEF Execute, At, PlanStates
  <1>8. CASE Advance(p)
    <2>1. /\ Save(p, copy[p], todo[p], "loop") /\ todo[p] \in Seq(Rows)
          /\ UNCHANGED <<db, queue, cur, budget, history>> /\ pc[p] = "advance"
      BY <1>2, <1>3, <1>8 DEF Advance, At, Save, Typed, TypeOK
    <2> QED BY <1>2, <1>5, <2>1, SameCounters
  <1>9. CASE Finish(p)
    BY <1>2, <1>3, <1>5, <1>9, SameCounters, PlanStatusFacts DEF Finish, At, PlanStates
  <1>10. CASE Return(p)
    <2>1. pc[p] # "idle"
      BY <1>10 DEF Return, At
    <2> QED BY <1>1, <1>10, <2>1, LeaveTyped, SameCounters DEF Return, queue
  <1>11. ASSUME NEW s \in Steps, SkipStep(p, s) PROVE Typed'
    BY <1>2, <1>4, <1>5, <1>11, SameCounters, SetStatusFacts DEF SkipStep, At, StepStates
  <1>12. ASSUME NEW s \in Steps, BeginStep(p, s) PROVE Typed'
    <2> DEFINE row == [status |-> "running", attempts |-> copy[p].step[s].attempts + 1]
               plan == [copy[p] EXCEPT !.step = [@ EXCEPT ![s] = row]]
    <2>1. row \in StepRow
      BY <1>2 DEF Plan, StepRow, StepStates
    <2>2. plan \in Plan
      BY <1>2, <2>1 DEF Plan
    <2>3. Save(p, plan, <<s>>, "dispatch") /\ pc[p] = "loop" /\ cur' = [cur EXCEPT ![p] = s]
      BY <1>12 DEF BeginStep, At
    <2> HIDE DEF plan
    <2> QED BY <1>4, <1>5, <1>12, <2>2, <2>3, SameCounters DEF BeginStep
  <1>13. ASSUME pc[p] \in CurLabels PROVE cur[p] \in Steps
    BY <1>13 DEF Typed, CurSet
  <1>14. CASE DispatchSucceeds(p)
    <2>1. cur[p] \in Steps /\ pc[p] = "dispatch"
      BY <1>13, <1>14 DEF DispatchSucceeds, At, CurLabels
    <2>2. Counters'
      BY <1>14, <2>1, DispatchCounters DEF DispatchSucceeds
    <2> QED BY <1>2, <1>4, <1>5, <1>14, <2>1, <2>2, SetStatusFacts DEF DispatchSucceeds,
               CurLabels, StepStates
  <1>15. CASE DispatchFails(p)
    <2>1. cur[p] \in Steps /\ pc[p] = "dispatch"
      BY <1>13, <1>15 DEF DispatchFails, At, CurLabels
    <2>2. Counters'
      BY <1>15, <2>1, DispatchCounters DEF DispatchFails
    <2>3. PICK plan \in Plan, rows \in Seq(Rows) : Save(p, plan, rows, "paused")
      BY <1>15, <2>1, FailFacts DEF DispatchFails
    <2> QED BY <1>5, <1>15, <2>1, <2>2, <2>3 DEF DispatchFails, CurLabels
  <1>16. CASE EnqueueSelect(p)
    <2>1. cur[p] \in Steps /\ pc[p] = "dispatch"
      BY <1>13, <1>16 DEF EnqueueSelect, At, CurLabels
    <2>2. CASE Save(p, copy[p], <<cur[p]>> \o Whole, "enqueued")
      BY <1>2, <1>4, <1>5, <1>16, <2>1, <2>2, SameCounters DEF EnqueueSelect, CurLabels
    <2>3. CASE Save(p, copy[p], << >>, "insert")
      BY <1>2, <1>3, <1>5, <1>16, <2>1, <2>3, SameCounters DEF EnqueueSelect, CurLabels
    <2> QED BY <1>16, <2>2, <2>3 DEF EnqueueSelect
  <1>17. CASE EnqueueInsert(p)
    <2>1. cur[p] \in Steps /\ pc[p] = "insert"
      BY <1>13, <1>17 DEF EnqueueInsert, At, CurLabels
    <2>2. /\ copy' \in [Processes -> Plan]' /\ todo' \in [Processes -> Seq(Rows)]'
          /\ pc' \in [Processes -> Labels]'
          /\ SavingOnly' /\ FrontLabels' /\ WorkerLabels'
      <3>1. <<cur[p]>> \o Whole \in Seq(Rows) /\ "enqueued" \in Labels \cap Saving
        BY <1>4, <2>1 DEF Labels, Saving, Walking, CurLabels
      <3> QED BY <1>2, <1>17, <3>1, SaveTyped DEF EnqueueInsert
    <2>3. Key(p) \in [step : Steps, attempts : Nat]
      BY <1>2, <2>1 DEF Key, Plan, StepRow
    <2>4. /\ tasks' = Append(tasks, "queued") /\ held' = held /\ payload' = Append(payload, Key(p))
          /\ UNCHANGED <<goal, db, cur, budget, history>>
      BY <1>17 DEF EnqueueInsert, Queue!Add
    <2>5. Steps' = Steps /\ Plan' = Plan /\ Rows' = Rows
      BY <2>4 DEF Rows, Steps, Plan, StepRow
    <2>6. /\ tasks' \in Seq({"queued", "running", "done", "failed"}) /\ Len(tasks') = Len(tasks) + 1
          /\ payload' \in Seq([step : Steps, attempts : Nat]) /\ Len(payload') = Len(tasks')
          /\ held' \in [Workers -> 0 .. Len(tasks')] /\ Len(tasks) \in Nat
      <3>1. /\ tasks \in Seq({"queued", "running", "done", "failed"}) /\ Len(tasks) \in Nat
            /\ payload \in Seq([step : Steps, attempts : Nat]) /\ Len(payload) = Len(tasks)
            /\ held \in [Workers -> 0 .. Len(tasks)]
        BY DEF Typed, TypeOK
      <3>2. tasks' \in Seq({"queued", "running", "done", "failed"}) /\ Len(tasks') = Len(tasks) + 1
        BY <2>4, <3>1
      <3>3. payload' \in Seq([step : Steps, attempts : Nat]) /\ Len(payload') = Len(payload) + 1
        BY <2>3, <2>4, <3>1
      <3> QED BY <2>4, <3>1, <3>2, <3>3
    <2>7. Busy' /\ CurSet'
      <3>1. pc'[p] = "enqueued" /\ \A q \in Processes \ {p} : pc'[q] = pc[q]
        BY <1>17, SaveFacts DEF EnqueueInsert
      <3>2. CurSet'
        BY <2>1, <2>4, <2>5, <3>1 DEF Typed, CurSet
      <3>3. Busy'
        BY <2>1, <2>4, <2>6, <3>1 DEF Typed, Busy, Processes
      <3> QED BY <3>2, <3>3
    <2>8. TypeOK' /\ Limited'
      <3>1. Limited'
        BY <2>4 DEF Typed, Limited
      <3>2. TypeOK'
        BY <2>2, <2>4, <2>5, <2>6 DEF Typed, TypeOK, history, Rows
      <3> QED BY <3>1, <3>2
    <2> QED BY <2>2, <2>4, <2>7, <2>8 DEF Typed
  <1> QED BY <1>6, <1>7, <1>8, <1>9, <1>10, <1>11, <1>12, <1>14, <1>15, <1>16, <1>17 DEF Walk
(* A worker that is not idle holds a row for one of the steps. *)
LEMMA JobFacts ==
  ASSUME Typed, NEW w \in Workers, pc[w] # "idle"
  PROVE  held[w] \in 1 .. Len(payload) /\ JobStep(w) \in Steps
  <1> DEFINE Job == [step : Steps, attempts : Nat]
  <1>1. held[w] \in 1 .. Len(payload) /\ payload \in Seq(Job)
    BY DEF Typed, TypeOK, Busy
  <1> HIDE DEF Job
  <1>2. payload[held[w]] \in Job
    BY <1>1
  <1> QED BY <1>1, <1>2 DEF JobStep, Job

(* A worker changes the status of a row, or lets go of it, and is idle if it holds none. *)
LEMMA HeldTyped ==
  ASSUME Typed, NEW w \in Workers, NEW row \in 0 .. Len(tasks), NEW label \in {"load", "idle"},
         UNCHANGED <<goal, db, payload>>,
         held' = [held EXCEPT ![w] = row],
         tasks' \in Seq({"queued", "running", "done", "failed"}), Len(tasks') = Len(tasks),
         label = "load" => row # 0,
         (UNCHANGED <<copy, cur, todo>> /\ todo[w] = << >>) \/ Leave(w, "idle"),
         pc' = [pc EXCEPT ![w] = label],
         Counters'
  PROVE  Typed'
  <1>1. w \in Processes /\ w \notin Fronts /\ goal \in Goals
    BY Apart DEF Processes, Typed
  <1>2. Steps' = Steps /\ Plan' = Plan /\ Rows' = Rows
    BY DEF Rows, Steps, Plan, StepRow
  <1>3. /\ copy' \in [Processes -> Plan] /\ todo' \in [Processes -> Seq(Rows)]
        /\ cur' \in [Processes -> {0} \cup Steps] /\ todo'[w] = << >>
        /\ \A q \in Processes \ {w} : todo'[q] = todo[q] /\ cur'[q] = cur[q]
    <2>1. NewPlan \in Plan /\ << >> \in Seq(Rows)
      BY <1>1, BlankFacts
    <2> HIDE DEF NewPlan
    <2>2. CASE UNCHANGED <<copy, cur, todo>> /\ todo[w] = << >>
      BY <2>2 DEF Typed, TypeOK, Rows
    <2>3. CASE Leave(w, "idle")
      BY <1>1, <2>1, <2>3 DEF Typed, TypeOK, Leave, Save, Rows
    <2> QED BY <2>2, <2>3
  <1>4. pc' \in [Processes -> Labels] /\ pc'[w] = label /\ \A q \in Processes \ {w} : pc'[q] = pc[q]
    BY <1>1 DEF Typed, TypeOK, Labels
  <1>5. /\ held' \in [Workers -> 0 .. Len(tasks')] /\ held'[w] = row
        /\ \A v \in Workers \ {w} : held'[v] = held[v]
    BY DEF Typed, TypeOK
  <1>6. Busy'
    <2>1. label # "idle" => row \in 1 .. Len(tasks)
      OBVIOUS
    <2> QED BY <1>4, <1>5, <2>1 DEF Typed, Busy, Processes
  <1>7. CurSet'
    BY <1>2, <1>3, <1>4 DEF Typed, CurSet, CurLabels
  <1>8. SavingOnly'
    BY <1>3, <1>4 DEF Typed, SavingOnly
  <1>9. FrontLabels' /\ WorkerLabels'
    BY <1>1, <1>4 DEF Typed, FrontLabels, WorkerLabels, Processes
  <1>10. TypeOK'
    <2>1. db \in Plan /\ payload \in Seq([step : Steps, attempts : Nat]) /\ Len(payload) = Len(tasks)
      BY DEF Typed, TypeOK
    <2> QED BY <1>2, <1>3, <1>4, <1>5, <2>1 DEF TypeOK, Counters, Rows
  <1> QED BY <1>1, <1>6, <1>7, <1>8, <1>9, <1>10 DEF Typed, Counters

(* So do a worker's. *)
LEMMA WorkTyped ==
  ASSUME Typed, NEW w \in Workers, UNCHANGED goal, Work(w)
  PROVE  Typed'
  <1>1. w \in Processes /\ w \notin Fronts
    BY Apart DEF Processes
  <1>2. copy[w] \in Plan /\ db \in Plan /\ goal \in Goals /\ NewPlan \in Plan /\ Loaded(w) \in Plan
    BY <1>1, LoadedFacts, BlankFacts DEF Typed, TypeOK
  <1>3. << >> \in Seq(Rows) /\ \A s \in Steps : <<s>> \in Seq(Rows)
    BY DEF Rows
  <1>4. tasks \in Seq({"queued", "running", "done", "failed"}) /\ Len(tasks) \in Nat
    BY DEF Typed, TypeOK
  <1>5. ASSUME NEW plan \in Plan, NEW rows \in Seq(Rows),
               NEW label \in {"loaded", "work", "execute", "gaveup"},
               Save(w, plan, rows, label), UNCHANGED <<db, queue, cur>>,
               rows # << >> => label \in {"execute", "gaveup"},
               pc[w] # "idle", Counters'
        PROVE  Typed'
    <2>1. /\ label \in Labels \ (CurLabels \cup {"reply", "resume", "replied"})
          /\ rows # << >> => label \in Saving
      BY <1>5 DEF Labels, CurLabels, Saving, Walking
    <2> QED BY <1>1, <1>5, <2>1, StepTyped DEF queue
  <1> HIDE DEF NewPlan, Loaded, Save
  <1>6. ASSUME NEW i \in 1 .. Len(tasks), Take(w, i) PROVE Typed'
    <2>1. /\ held' = [held EXCEPT ![w] = i] /\ tasks' = [tasks EXCEPT ![i] = "running"]
          /\ pc' = [pc EXCEPT ![w] = "load"] /\ todo[w] = << >>
          /\ UNCHANGED <<goal, db, payload, copy, cur, todo, budget, history>>
      BY <1>6 DEF Take, Queue!Take, At
    <2>2. tasks' \in Seq({"queued", "running", "done", "failed"}) /\ Len(tasks') = Len(tasks)
      BY <1>4, <2>1
    <2>3. Counters'
      BY <2>1, SameCounters
    <2>4. i \in 0 .. Len(tasks) /\ i # 0
      BY <1>4, <2>1
    <2> QED BY <2>1, <2>2, <2>3, <2>4, HeldTyped
  <1>7. CASE LoadPlan(w)
    <2>1. [NewPlan EXCEPT !.status = db.status] \in Plan
      BY <1>2, PlanStatusFacts DEF Plan
    <2> QED BY <1>3, <1>5, <1>7, <2>1, SameCounters DEF LoadPlan, At
  <1>8. CASE LoadSteps(w)
    <2>1. pc[w] # "idle" /\ UNCHANGED <<goal, db, queue, budget, history>>
      BY <1>8 DEF LoadSteps, At
    <2>2. CASE Leave(w, "complete")
      BY <1>1, <2>1, <2>2, LeaveTyped, SameCounters DEF queue
    <2>3. CASE Save(w, Loaded(w), << >>, "work") /\ UNCHANGED cur
      BY <1>2, <1>3, <1>5, <2>1, <2>3, SameCounters
    <2> QED BY <1>8, <2>2, <2>3 DEF LoadSteps
  <1>9. CASE WorkSucceeds(w)
    <2>1. pc[w] # "idle" /\ JobStep(w) \in Steps
      BY <1>9, JobFacts DEF WorkSucceeds, At
    <2>2. Counters'
      BY <1>9, <2>1, DispatchCounters DEF WorkSucceeds
    <2>3. SetStatus(copy[w], JobStep(w), "done") \in Plan
      BY <1>2, <2>1, SetStatusFacts DEF StepStates
    <2> QED BY <1>3, <1>5, <1>9, <2>1, <2>2, <2>3 DEF WorkSucceeds
  <1>10. CASE WorkFails(w)
    <2>1. pc[w] # "idle" /\ JobStep(w) \in Steps
      BY <1>10, JobFacts DEF WorkFails, At
    <2>2. Counters'
      BY <1>10, <2>1, DispatchCounters DEF WorkFails
    <2>3. PICK plan \in Plan, rows \in Seq(Rows) : Save(w, plan, rows, "gaveup")
      BY <1>1, <1>10, <2>1, FailFacts DEF WorkFails
    <2> QED BY <1>5, <1>10, <2>1, <2>2, <2>3 DEF WorkFails
  <1>11. CASE Complete(w)
    <2>1. /\ held' = [held EXCEPT ![w] = 0] /\ tasks' = [tasks EXCEPT ![held[w]] = "done"]
          /\ pc' = [pc EXCEPT ![w] = "idle"] /\ todo[w] = << >> /\ held[w] \in 1 .. Len(tasks)
          /\ UNCHANGED <<goal, db, payload, copy, cur, todo, budget, history>>
      BY <1>11 DEF Complete, Queue!Settle, Queue!Ids, At
    <2>2. tasks' \in Seq({"queued", "running", "done", "failed"}) /\ Len(tasks') = Len(tasks)
      BY <1>4, <2>1
    <2>3. Counters'
      BY <2>1, SameCounters
    <2>4. 0 \in 0 .. Len(tasks)
      BY <1>4, <2>1
    <2> QED BY <2>1, <2>2, <2>3, <2>4, HeldTyped
  <1> QED BY <1>6, <1>7, <1>8, <1>9, <1>10, <1>11 DEF Work

(* So do the faults. *)
LEMMA FaultTyped ==
  ASSUME Typed, UNCHANGED goal, Fault
  PROVE  Typed'
  <1>1. tasks \in Seq({"queued", "running", "done", "failed"}) /\ Len(tasks) \in Nat
    BY DEF Typed, TypeOK
  <1>2. ASSUME NEW p \in Processes, NEW s \in Steps, NEW label \in {"paused", "gaveup"},
               Fail(p, s, label),
               pc[p] # "idle", p \in Fronts => label = "paused",
               Spend("error"), UNCHANGED <<db, queue, cur, history>>
        PROVE  Typed'
    <2>1. PICK plan \in Plan, rows \in Seq(Rows) : Save(p, plan, rows, label)
      BY <1>2, FailFacts
    <2>2. /\ label \in Labels \ (CurLabels \cup {"reply", "resume", "replied", "load", "loaded", "work", "complete"})
          /\ label \in Saving
      BY DEF Labels, CurLabels, Saving, Walking
    <2>3. Counters'
      BY <1>2, SpendFacts DEF FaultKinds
    <2> QED BY <1>2, <2>1, <2>2, <2>3, StepTyped DEF queue
  <1>3. ASSUME NEW p \in Processes, StepWriteRaises(p) PROVE Typed'
    <2>1. pc[p] \in CurLabels
      BY <1>3 DEF StepWriteRaises, At, CurLabels
    <2>2. cur[p] \in Steps /\ pc[p] # "idle"
      BY <2>1 DEF Typed, CurSet, CurLabels
    <2> QED BY <1>2, <1>3, <2>2 DEF StepWriteRaises
  <1>4. ASSUME NEW w \in Workers, WalkWriteRaises(w) PROVE Typed'
    <2>1. pc[w] # "idle" /\ w \in Processes /\ w \notin Fronts
      BY <1>4, Apart DEF WalkWriteRaises, Processes
    <2>2. JobStep(w) \in Steps
      BY <2>1, JobFacts
    <2> QED BY <1>2, <1>4, <2>1, <2>2 DEF WalkWriteRaises
  <1>5. ASSUME NEW f \in Fronts, FrontWriteRaises(f) PROVE Typed'
    <2>1. f \in Processes /\ f \notin Workers
      BY Apart DEF Processes
    <2> QED BY <1>5, <2>1, LeaveTyped, SpendFacts DEF FrontWriteRaises, FaultKinds, queue
  <1>6. ASSUME NEW w \in Workers, JobRaises(w) PROVE Typed'
    <2>1. PICK outcome \in {"queued", "failed"} : Queue!Settle(w, outcome)
      BY <1>6 DEF JobRaises
    <2>2. /\ held' = [held EXCEPT ![w] = 0] /\ tasks' = [tasks EXCEPT ![held[w]] = outcome]
          /\ held[w] \in 1 .. Len(tasks) /\ Leave(w, "idle") /\ UNCHANGED <<db, payload, history>>
      BY <1>6, <2>1 DEF JobRaises, Queue!Settle, Queue!Ids
    <2>3. tasks' \in Seq({"queued", "running", "done", "failed"}) /\ Len(tasks') = Len(tasks)
      BY <1>1, <2>2
    <2>4. Counters'
      BY <1>6, SpendFacts DEF JobRaises, FaultKinds
    <2>5. pc' = [pc EXCEPT ![w] = "idle"]
      BY <2>2 DEF Leave, Save
    <2>6. 0 \in 0 .. Len(tasks)
      BY <1>1
    <2> QED BY <2>2, <2>3, <2>4, <2>5, <2>6, HeldTyped
  <1>7. ASSUME NEW p \in Processes, Crash(p) PROVE Typed'
    <2>1. Counters' /\ Leave(p, "idle") /\ UNCHANGED <<goal, db, payload, history>> /\ pc[p] # "idle"
      BY <1>7, SpendFacts DEF Crash, FaultKinds
    <2>2. CASE p \in Workers
      <3>1. held' = [held EXCEPT ![p] = 0] /\ tasks' = tasks /\ pc' = [pc EXCEPT ![p] = "idle"]
        BY <1>7, <2>1, <2>2 DEF Crash, Queue!Drop, Leave, Save
      <3>2. 0 \in 0 .. Len(tasks) /\ Len(tasks') = Len(tasks)
        BY <1>1, <3>1
      <3>3. tasks' \in Seq({"queued", "running", "done", "failed"})
        BY <1>1, <3>1
      <3> QED BY <2>1, <2>2, <3>1, <3>2, <3>3, HeldTyped
    <2>3. CASE p \notin Workers
      BY <1>7, <2>1, <2>3, LeaveTyped DEF Crash
    <2> QED BY <2>2, <2>3
  <1> QED BY <1>3, <1>4, <1>5, <1>6, <1>7 DEF Fault

(* The types hold at first ... *)
LEMMA InitTyped == Init => Typed
  <1> SUFFICES ASSUME Init PROVE Typed
    OBVIOUS
  <1>1. goal \in Goals
    BY DEF Init
  <1>2. goal.limits \in [FaultKinds -> Nat]
    BY <1>1, PlanAssumption
  <1>3. NewPlan \in Plan /\ db \in Plan
    BY <1>1, BlankFacts DEF Init
  <1>4. "idle" \in Labels /\ << >> \in Seq(Rows) /\ << >> \in Seq([step : Steps, attempts : Nat])
    BY DEF Labels
  <1> HIDE DEF NewPlan
  <1>5. TypeOK
    <2>1. tasks = << >> /\ Len(tasks) = 0 /\ held = [w \in Workers |-> 0] /\ payload = << >>
      BY DEF Init, Queue!Init
    <2>2. pc \in [Processes -> Labels] /\ copy \in [Processes -> Plan]
          /\ todo \in [Processes -> Seq({0} \cup Steps)]
      BY <1>3, <1>4 DEF Init, Rows
    <2>3. started \in [Steps -> Nat] /\ effects \in [Steps -> Nat] /\ approved \in BOOLEAN
      BY DEF Init
    <2> QED BY <1>2, <1>3, <1>4, <2>1, <2>2, <2>3 DEF TypeOK, Init
  <1>6. Limited
    BY <1>2 DEF Limited, Init
  <1>7. Busy /\ CurSet /\ SavingOnly /\ FrontLabels /\ WorkerLabels
    BY DEF Init, Busy, CurSet, SavingOnly, FrontLabels, WorkerLabels, Processes, CurLabels
  <1> QED BY <1>1, <1>5, <1>6, <1>7 DEF Typed

(* ... and every step keeps them. *)
LEMMA NextTyped == Typed /\ [Next]_vars => Typed'
  <1> SUFFICES ASSUME Typed, [Next]_vars PROVE Typed'
    OBVIOUS
  <1>1. CASE UNCHANGED vars
    <2>1. UNCHANGED <<goal, db, tasks, held, payload, pc, copy, cur, todo, budget, approved, started, effects>>
      BY <1>1 DEF vars
    <2> QED BY <2>1 DEF Typed, TypeOK, Limited, Busy, CurSet, SavingOnly, FrontLabels,
               WorkerLabels,
                      Steps, Plan, StepRow, JobStep
  <1>2. ASSUME NEW f \in Fronts, User(f) \/ Answer(f) PROVE Typed'
    BY <1>2, FrontTyped DEF User, Answer
  <1>3. ASSUME NEW p \in Processes, Walk(p) PROVE Typed'
    BY <1>3, WalkTyped DEF Walk
  <1>4. ASSUME NEW w \in Workers, Work(w) PROVE Typed'
    BY <1>4, WorkTyped DEF Work
  <1>5. CASE Fault
    BY <1>5, FaultTyped DEF Fault
  <1> QED BY <1>1, <1>2, <1>3, <1>4, <1>5 DEF Next

(***************************************************************************)
(* The variables keep their types, for any plan and any number of fronts   *)
(* and workers: a worker that is not idle holds a row of the queue, and a  *)
(* process about to run a step has one in hand.                            *)
(***************************************************************************)
THEOREM TypeCorrect == Spec => []TypeOK
  <1>1. Typed => TypeOK
    BY DEF Typed
  <1> QED BY <1>1, InitTyped, NextTyped, PTL DEF Spec
-----------------------------------------------------------------------------
(* Dependencies first, for any number of fronts and workers. *)

Backed(plan) == \A s \in Steps : plan.step[s].status = "done" => effects[s] > 0
DepsRan(s)   == \A d \in Deps[s] : effects[d] > 0

(* "done" is only recorded of a success, and what is about to run has its inputs. *)
DepInv ==
  /\ Backed(db) /\ \A p \in Processes : Backed(copy[p])
  /\ \A p \in Processes : pc[p] \in {"dispatch", "insert"} => DepsRan(cur[p])
  /\ \A i \in 1 .. Len(payload) : DepsRan(payload[i].step)

DependenciesFirst == \A s \in Steps : started'[s] # started[s] => DepsRan(s)

(* A step depends on earlier ones. *)
LEMMA DepFacts ==
  ASSUME goal \in Goals, NEW s \in Steps
  PROVE  Deps[s] \subseteq Steps /\ \A d \in Deps[s] : d \in 1 .. s - 1
  <1>1. Steps = 1 .. Len(goal.deps) /\ Len(goal.deps) \in Nat
    BY PlanAssumption DEF Steps
  <1>2. \A d \in Deps[s] : d \in 1 .. s - 1
    BY PlanAssumption DEF Steps, Deps
  <1> QED BY <1>1, <1>2

(* A step of p that saves a copy which records only successes. *)
LEMMA StepDeps ==
  ASSUME Typed, Typed', DepInv, NEW p \in Processes, NEW plan, NEW rows, NEW label,
         Save(p, plan, rows, label), UNCHANGED <<goal, db>>,
         \A s \in Steps : effects'[s] >= effects[s],
         \A s \in Steps : plan.step[s].status = "done" => effects'[s] > 0,
         \A q \in Processes \ {p} : cur'[q] = cur[q],
         label \in {"dispatch", "insert"} => \A d \in Deps[cur'[p]] : effects[d] > 0,
         label \in {"dispatch", "insert"} => cur'[p] \in Steps,
         \A i \in 1 .. Len(payload') :
           (i \in 1 .. Len(payload) /\ payload'[i] = payload[i]) \/ DepsRan(payload'[i].step)
  PROVE  DepInv'
  <1>1. Steps' = Steps /\ Deps' = Deps /\ goal \in Goals
    BY DEF Steps, Deps, Typed
  <1>2. effects \in [Steps -> Nat] /\ effects' \in [Steps -> Nat]
    BY <1>1 DEF Typed, TypeOK
  <1>3. \A s \in Steps : effects[s] > 0 => effects'[s] > 0
    BY <1>2
  <1>4. \A s \in Steps : (\A d \in Deps[s] : effects[d] > 0) => \A d \in Deps[s] : effects'[d] > 0
    BY <1>1, <1>3, DepFacts
  <1>5. Backed(db)' /\ \A q \in Processes : Backed(copy[q])'
    BY <1>1, <1>3, SaveFacts DEF DepInv, Backed
  <1>6. \A q \in Processes : pc'[q] \in {"dispatch", "insert"} => \A d \in Deps[cur'[q]] : effects'[d] > 0
    <2>1. \A q \in Processes \ {p} : pc'[q] = pc[q] /\ (pc[q] \in {"dispatch", "insert"} => cur[q] \in Steps)
      BY SaveFacts DEF Typed, CurSet, CurLabels
    <2>2. pc'[p] = label
      BY SaveFacts
    <2> QED BY <1>4, <2>1, <2>2 DEF DepInv, DepsRan
  <1>7. \A i \in 1 .. Len(payload') : \A d \in Deps[payload'[i].step] : effects'[d] > 0
    <2> DEFINE Job == [step : Steps, attempts : Nat]
    <2>1. payload' \in Seq(Job)
      BY <1>1 DEF Typed, TypeOK
    <2>2. \A i \in 1 .. Len(payload') : payload'[i] \in Job
      <3> HIDE DEF Job
      <3> QED BY <2>1
    <2>3. \A i \in 1 .. Len(payload') : payload'[i].step \in Steps
      BY <2>2
    <2>4. \A i \in 1 .. Len(payload') : \A d \in Deps[payload'[i].step] : effects[d] > 0
      BY DEF DepInv, DepsRan
    <2> QED BY <1>4, <2>3, <2>4
  <1> QED BY <1>1, <1>5, <1>6, <1>7 DEF DepInv, DepsRan

(* Marking a step can only be wrong about that step. *)
LEMMA SetStatusBacked ==
  ASSUME NEW plan \in Plan, Backed(plan), NEW s \in Steps, NEW status \in StepStates
  PROVE  \A r \in Steps : SetStatus(plan, s, status).step[r].status = "done" =>
                            effects[r] > 0 \/ (r = s /\ status = "done")
  BY SetStatusFacts DEF Backed

(* A call that returns keeps DepInv. *)
LEMMA LeaveDeps ==
  ASSUME Typed, Typed', DepInv, NEW p \in Processes, NEW label \in {"idle", "complete"},
         Leave(p, label), UNCHANGED <<goal, db, payload, effects>>
  PROVE  DepInv'
  <1>1. Save(p, NewPlan, << >>, label) /\ (\A q \in Processes \ {p} : cur'[q] = cur[q])
    BY DEF Leave, Typed, TypeOK
  <1>2. \A s \in Steps : NewPlan.step[s].status # "done"
    BY BlankFacts DEF Typed
  <1>3. \A s \in Steps : effects'[s] >= effects[s]
    BY DEF Typed, TypeOK
  <1> HIDE DEF NewPlan
  <1> QED BY <1>1, <1>2, <1>3, StepDeps
(* A front only changes a step to skipped or pending, so it keeps DepInv. *)
LEMMA FrontDeps ==
  ASSUME Typed, Typed', DepInv, NEW f \in Fronts, UNCHANGED goal, User(f) \/ Answer(f)
  PROVE  DepInv'
  <1>1. f \in Processes
    BY DEF Processes
  <1>2. /\ copy[f] \in Plan /\ db \in Plan /\ NewPlan \in Plan /\ Loaded(f) \in Plan /\ Loaded(f).step = db.step
        /\ \A s \in Steps : NewPlan.step[s].status # "done"
    BY <1>1, LoadedFacts, BlankFacts DEF Typed, TypeOK
  <1>3. Backed(db) /\ Backed(copy[f]) /\ Backed(Loaded(f)) /\ Backed(NewPlan)
    BY <1>1, <1>2 DEF DepInv, Backed
  <1>4. ASSUME NEW plan, Backed(plan), NEW rows,
               NEW label \in {"reply", "resume", "replied", "execute"},
               Save(f, plan, rows, label), UNCHANGED <<goal, db, payload, cur, effects>>
        PROVE  DepInv'
    <2>1. \A s \in Steps : effects'[s] >= effects[s]
      BY <1>4 DEF Typed, TypeOK
    <2>2. \A s \in Steps : plan.step[s].status = "done" => effects'[s] > 0
      BY <1>4 DEF Backed
    <2>3. \A i \in 1 .. Len(payload') : i \in 1 .. Len(payload) /\ payload'[i] = payload[i]
      BY <1>4
    <2>4. label \notin {"dispatch", "insert"} /\ \A q \in Processes \ {f} : cur'[q] = cur[q]
      BY <1>4
    <2> QED BY <1>1, <1>4, <2>1, <2>2, <2>3, <2>4, StepDeps
  <1>5. \A plan \in Plan : \A status \in PlanStates \cup {"none"} :
          Backed(plan) => Backed([plan EXCEPT !.status = status])
    BY PlanStatusFacts DEF Backed
  <1>6. \A s \in Steps : \A status \in {"skipped", "pending"} : Backed(SetStatus(Loaded(f), s, status))
    BY <1>2, <1>3, SetStatusBacked DEF Backed, StepStates
  <1> HIDE DEF Whole, NewPlan, Loaded, Save
  <1>7. CASE Run(f)
    BY <1>2, <1>3, <1>4, <1>5, <1>7 DEF Run, PlanStates, queue, history
  <1>8. ASSUME NEW kind \in {"reply", "resume"}, NEW statuses, ReadPlan(f, kind, statuses)
        PROVE  DepInv'
    <2>1. db.status \in PlanStates \cup {"none"}
      BY <1>2 DEF Plan
    <2>2. Backed([NewPlan EXCEPT !.status = db.status])
      BY <1>2, <1>3, <1>5, <2>1
    <2> QED BY <1>4, <1>8, <2>2 DEF ReadPlan, queue, history
  <1>9. CASE ReplyAbort(f)
    BY <1>2, <1>3, <1>4, <1>5, <1>9 DEF ReplyAbort, PlanStates, queue, history
  <1>10. CASE ReplyYes(f)
    BY <1>3, <1>4, <1>10 DEF ReplyYes, queue
  <1>11. ASSUME NEW s \in Steps, ReplySkip(f, s) PROVE DepInv'
    BY <1>4, <1>6, <1>11 DEF ReplySkip, queue, history
  <1>12. CASE ReplyContinue(f)
    <2>1. CASE Save(f, Loaded(f), << >>, "execute")
      BY <1>3, <1>4, <1>12, <2>1 DEF ReplyContinue, queue, history
    <2>2. ASSUME NEW s \in Steps, Save(f, SetStatus(Loaded(f), s, "pending"), <<s>>, "execute")
          PROVE  DepInv'
      BY <1>4, <1>6, <1>12, <2>2 DEF ReplyContinue, queue, history
    <2> QED BY <1>12, <2>1, <2>2 DEF ReplyContinue
  <1>13. CASE ReplyIgnored(f)
    BY <1>1, <1>13, LeaveDeps DEF ReplyIgnored, queue, history
  <1>14. CASE ResumeSteps(f)
    <2> DEFINE saved == [s \in Steps |->
                   IF db.step[s].status \in {"failed", "running"}
                   THEN [db.step[s] EXCEPT !.status = "pending"] ELSE db.step[s]]
    <2>1. \A s \in Steps : db.step[s] \in StepRow
      BY <1>2 DEF Plan
    <2>2. \A s \in Steps : saved[s].status = "done" => db.step[s].status = "done"
      BY <2>1 DEF StepRow
    <2>3. Save(f, [copy[f] EXCEPT !.step = saved], << >>, "execute")
      BY <1>14 DEF ResumeSteps
    <2> HIDE DEF saved
    <2>4. [copy[f] EXCEPT !.step = saved].step = saved
      BY <1>2 DEF Plan
    <2>5. Backed([copy[f] EXCEPT !.step = saved])
      BY <1>3, <2>2, <2>4 DEF Backed
    <2> QED BY <1>4, <1>14, <2>3, <2>5 DEF ResumeSteps, queue, history
  <1> QED BY <1>7, <1>8, <1>9, <1>10, <1>11, <1>12, <1>13, <1>14
          DEF User, Answer, Reply, Resume

(* A row that is saved records a success only if the copy does. *)
LEMMA FlushDeps ==
  ASSUME Typed, Typed', DepInv, NEW p \in Processes, UNCHANGED goal, Flush(p)
  PROVE  DepInv'
  <1>1. db \in Plan /\ copy[p] \in Plan /\ todo[p] \in Seq(Rows) /\ todo[p] # << >> /\ Steps' = Steps
    BY DEF Typed, TypeOK, Flush, Rows, Steps
  <1>2. Head(todo[p]) \in Rows
    BY <1>1, TailFacts
  <1>3. ASSUME NEW s \in Steps PROVE db'.step[s] = db.step[s] \/ db'.step[s] = copy[p].step[s]
    BY <1>1, <1>2 DEF Flush, Plan, Rows
  <1>4. Backed(db)'
    BY <1>1, <1>3 DEF DepInv, Backed, Flush, history
  <1> QED BY <1>1, <1>4 DEF DepInv, Flush, Backed, DepsRan, queue, history, Deps

(* execute_plan begins a step when those before it are over, and saves "done" after a success. *)
LEMMA WalkDeps ==
  ASSUME Typed, Typed', DepInv, NEW p \in Processes, UNCHANGED goal, Walk(p)
  PROVE  DepInv' /\ DependenciesFirst
  <1>1. copy[p] \in Plan /\ db \in Plan /\ goal \in Goals /\ Backed(copy[p])
        /\ effects \in [Steps -> Nat] /\ started \in [Steps -> Nat]
    BY DEF Typed, TypeOK, DepInv
  <1>2. pc[p] \in CurLabels => cur[p] \in Steps
    BY DEF Typed, CurSet
  <1>3. ASSUME NEW plan, NEW rows, NEW label \in Labels,
               Save(p, plan, rows, label), UNCHANGED <<db, payload>>,
               \A s \in Steps : effects'[s] >= effects[s],
               \A s \in Steps : plan.step[s].status = "done" => effects'[s] > 0,
               \/ cur' = cur
               \/ \E s \in Steps : cur' = [cur EXCEPT ![p] = s] /\ DepsRan(s),
               label \in {"dispatch", "insert"} =>
                 cur' # cur \/ pc[p] \in {"dispatch", "insert"}
        PROVE  DepInv'
    <2>1. \A q \in Processes \ {p} : cur'[q] = cur[q]
      BY <1>3 DEF Typed, TypeOK
    <2>2. label \in {"dispatch", "insert"} => DepsRan(cur'[p])
      BY <1>3 DEF DepInv, Typed, TypeOK
    <2>3. label \in {"dispatch", "insert"} => cur'[p] \in Steps
      BY <1>2, <1>3 DEF CurLabels, Typed, TypeOK
    <2>4. \A i \in 1 .. Len(payload') : i \in 1 .. Len(payload) /\ payload'[i] = payload[i]
      BY <1>3
    <2> QED BY <1>3, <2>1, <2>2, <2>3, <2>4, StepDeps DEF DepsRan
  <1>4. UNCHANGED effects => \A s \in Steps : effects'[s] >= effects[s]
    BY <1>1
  <1>5. \A plan \in Plan : \A status \in PlanStates \cup {"none"} :
          Backed(plan) => Backed([plan EXCEPT !.status = status])
    BY PlanStatusFacts DEF Backed
  <1> HIDE DEF Whole, Save
  <1>6. CASE Flush(p)
    BY <1>6, FlushDeps DEF DependenciesFirst, Flush, history
  <1>7. CASE Execute(p)
    BY <1>1, <1>3, <1>4, <1>5, <1>7 DEF Execute, At, PlanStates, Labels, Backed, history, queue,
       DependenciesFirst
  <1>8. CASE Advance(p)
    <2>1. Save(p, copy[p], todo[p], "loop") /\ UNCHANGED <<db, queue, cur, budget, history>>
      BY <1>8 DEF Advance, At, Save, Typed, TypeOK
    <2> QED BY <1>1, <1>3, <1>4, <2>1 DEF Labels, Backed, history, queue, DependenciesFirst
  <1>9. CASE Finish(p)
    BY <1>1, <1>3, <1>4, <1>5, <1>9 DEF Finish, At, PlanStates, Labels, Backed, history, queue,
       DependenciesFirst
  <1>10. CASE Return(p)
    BY <1>10, LeaveDeps DEF Return, queue, history, DependenciesFirst
  <1>11. ASSUME NEW s \in Steps, SkipStep(p, s) PROVE DepInv' /\ DependenciesFirst
    <2>1. \A r \in Steps : SetStatus(copy[p], s, "skipped").step[r].status = "done" => effects[r] > 0
      BY <1>1, SetStatusBacked DEF StepStates
    <2> QED BY <1>3, <1>4, <1>11, <2>1 DEF SkipStep, Labels, history, queue, DependenciesFirst
  <1>12. ASSUME NEW s \in Steps, BeginStep(p, s) PROVE DepInv' /\ DependenciesFirst
    <2> DEFINE row == [status |-> "running", attempts |-> copy[p].step[s].attempts + 1]
               plan == [copy[p] EXCEPT !.step = [@ EXCEPT ![s] = row]]
    <2>1. \A r \in Steps : plan.step[r].status = "done" => effects[r] > 0
      BY <1>1 DEF Plan, Backed
    <2>2. Save(p, plan, <<s>>, "dispatch") /\ cur' = [cur EXCEPT ![p] = s]
          /\ UNCHANGED <<db, queue, budget, history>>
      BY <1>12 DEF BeginStep
    <2>3. DepsRan(s)
      <3>1. ASSUME NEW d \in Deps[s] PROVE effects[d] > 0
        <4>1. d \in Steps /\ d \in 1 .. s - 1
          BY <1>1, DepFacts
        <4>2. copy[p].step[d].status = "done"
          BY <1>12, <4>1 DEF BeginStep, Next1, Status
        <4> QED BY <1>1, <4>1, <4>2 DEF Backed
      <3> QED BY <3>1 DEF DepsRan
    <2>4. cur' # cur \/ pc[p] \in {"dispatch", "insert"} \/ cur[p] = s
      BY <2>2 DEF Typed, TypeOK
    <2> HIDE DEF plan
    <2>5. \A q \in Processes \ {p} : cur'[q] = cur[q]
      BY <2>2 DEF Typed, TypeOK
    <2>6. cur'[p] = s
      BY <2>2 DEF Typed, TypeOK
    <2>7. \A r \in Steps : effects'[r] >= effects[r] /\ effects'[r] = effects[r]
      BY <1>1, <2>2 DEF history
    <2>8. \A i \in 1 .. Len(payload') : i \in 1 .. Len(payload) /\ payload'[i] = payload[i]
      BY <2>2 DEF queue
    <2>9. DepInv'
      BY <2>1, <2>2, <2>3, <2>5, <2>6, <2>7, <2>8, StepDeps DEF DepsRan
    <2> QED BY <2>2, <2>9 DEF DependenciesFirst, history
  <1>13. CASE DispatchSucceeds(p) \/ DispatchFails(p)
    <2>1. cur[p] \in Steps /\ DepsRan(cur[p])
      BY <1>2, <1>13 DEF DispatchSucceeds, DispatchFails, At, CurLabels, DepInv
    <2>2. DependenciesFirst
      BY <1>1, <1>13, <2>1 DEF DispatchSucceeds, DispatchFails, DependenciesFirst
    <2>3. CASE DispatchSucceeds(p)
      <3>1. /\ \A s \in Steps : effects'[s] >= effects[s]
            /\ effects'[cur[p]] > 0
        BY <1>1, <2>1, <2>3 DEF DispatchSucceeds
      <3>2. \A s \in Steps : SetStatus(copy[p], cur[p], "done").step[s].status = "done" => effects[s] > 0 \/ s = cur[p]
        BY <1>1, <2>1, SetStatusBacked DEF StepStates
      <3>3. \A s \in Steps : SetStatus(copy[p], cur[p], "done").step[s].status = "done" => effects'[s] > 0
        BY <1>1, <2>1, <2>3, <3>1, <3>2 DEF DispatchSucceeds
      <3> QED BY <1>3, <2>2, <2>3, <3>1, <3>3 DEF DispatchSucceeds, Labels, queue
    <2>4. CASE DispatchFails(p)
      <3>1. PICK plan \in Plan, rows \in Seq(Rows) :
              /\ Save(p, plan, rows, "paused") /\ plan.step[cur[p]].status = "failed"
              /\ \A r \in Steps \ {cur[p]} : plan.step[r] = copy[p].step[r]
        BY <2>1, <2>4, FailFacts DEF DispatchFails
      <3>2. UNCHANGED <<db, queue, cur, effects>>
        BY <2>4 DEF DispatchFails
      <3>3. \A s \in Steps : plan.step[s].status = "done" => effects'[s] > 0
        BY <1>1, <3>1, <3>2 DEF Backed
      <3> QED BY <1>3, <1>4, <2>2, <3>1, <3>2, <3>3 DEF Labels, queue
    <2> QED BY <1>13, <2>3, <2>4, <2>2
  <1>14. CASE EnqueueSelect(p)
    BY <1>1, <1>3, <1>4, <1>14 DEF EnqueueSelect, At, Labels, Backed, queue, history,
       DependenciesFirst
  <1>15. CASE EnqueueInsert(p)
    <2>1. /\ Save(p, copy[p], <<cur[p]>> \o Whole, "enqueued") /\ cur[p] \in Steps /\ DepsRan(cur[p])
          /\ payload' = Append(payload, Key(p)) /\ UNCHANGED <<goal, db, cur, history>>
      BY <1>2, <1>15 DEF EnqueueInsert, At, CurLabels, DepInv
    <2>2. payload \in Seq([step : Steps, attempts : Nat]) /\ Key(p).step = cur[p]
      BY DEF Typed, TypeOK, Key
    <2>3. \A i \in 1 .. Len(payload') :
            (i \in 1 .. Len(payload) /\ payload'[i] = payload[i]) \/ payload'[i] = Key(p)
      <3> DEFINE Job == [step : Steps, attempts : Nat]
      <3> HIDE DEF Job
      <3>1. payload \in Seq(Job) /\ Len(payload) \in Nat
        BY <2>2 DEF Job
      <3> QED BY <2>1, <3>1
    <2>4. \A s \in Steps : copy[p].step[s].status = "done" => effects'[s] > 0
      BY <1>1, <2>1 DEF Backed, history
    <2>5. \A s \in Steps : effects'[s] >= effects[s]
      BY <1>4, <2>1 DEF history
    <2>6. "enqueued" \notin {"dispatch", "insert"} /\ \A q \in Processes \ {p} : cur'[q] = cur[q]
      BY <2>1
    <2>7. DepInv'
      BY <2>1, <2>2, <2>3, <2>4, <2>5, <2>6, StepDeps
    <2> QED BY <2>1, <2>7 DEF DependenciesFirst, history
  <1> QED BY <1>6, <1>7, <1>8, <1>9, <1>10, <1>11, <1>12, <1>13, <1>14, <1>15 DEF Walk
(* A worker runs the step of its row, which was ready when it was enqueued. *)
LEMMA WorkDeps ==
  ASSUME Typed, Typed', DepInv, NEW w \in Workers, UNCHANGED goal, Work(w)
  PROVE  DepInv' /\ DependenciesFirst
  <1>1. w \in Processes
    BY DEF Processes
  <1>2. /\ copy[w] \in Plan /\ db \in Plan /\ Backed(copy[w]) /\ Backed(db) /\ Loaded(w).step = db.step
        /\ effects \in [Steps -> Nat] /\ started \in [Steps -> Nat]
    BY <1>1, LoadedFacts DEF Typed, TypeOK, DepInv
  <1>3. ASSUME NEW plan, NEW rows, NEW label \in {"loaded", "work", "execute", "gaveup"},
               Save(w, plan, rows, label), UNCHANGED <<db, queue, cur>>,
               \A s \in Steps : effects'[s] >= effects[s],
               \A s \in Steps : plan.step[s].status = "done" => effects'[s] > 0
        PROVE  DepInv'
    <2>1. \A i \in 1 .. Len(payload') : i \in 1 .. Len(payload) /\ payload'[i] = payload[i]
      BY <1>3 DEF queue
    <2>2. label \notin {"dispatch", "insert"} /\ \A q \in Processes \ {w} : cur'[q] = cur[q]
      BY <1>3
    <2> QED BY <1>1, <1>3, <2>1, <2>2, StepDeps
  <1>4. UNCHANGED effects => \A s \in Steps : effects'[s] >= effects[s]
    BY <1>2
  <1>5. ASSUME UNCHANGED <<goal, db, copy, cur, payload, effects>>,
               NEW label \in {"load", "idle"}, pc' = [pc EXCEPT ![w] = label]
        PROVE  DepInv'
    <2>1. \A q \in Processes : pc'[q] \in {"dispatch", "insert"} => pc'[q] = pc[q]
      BY <1>1, <1>5 DEF Typed, TypeOK
    <2> QED BY <1>5, <2>1 DEF DepInv, Backed, DepsRan, Steps, Deps
  <1> HIDE DEF Save
  <1>6. ASSUME NEW i \in 1 .. Len(tasks), Take(w, i) PROVE DepInv' /\ DependenciesFirst
    BY <1>5, <1>6 DEF Take, history, DependenciesFirst
  <1>7. CASE LoadPlan(w)
    <2>1. [NewPlan EXCEPT !.status = db.status].step = NewPlan.step
      BY BlankFacts DEF Plan, Typed
    <2>2. \A s \in Steps : [NewPlan EXCEPT !.status = db.status].step[s].status # "done"
      BY <2>1, BlankFacts DEF Typed
    <2> QED BY <1>3, <1>4, <1>7, <2>2 DEF LoadPlan, queue, history, DependenciesFirst
  <1>8. CASE LoadSteps(w)
    <2>1. CASE Leave(w, "complete")
      BY <1>1, <1>8, <2>1, LeaveDeps DEF LoadSteps, queue, history, DependenciesFirst
    <2>2. CASE Save(w, Loaded(w), << >>, "work") /\ UNCHANGED cur
      BY <1>2, <1>3, <1>4, <1>8, <2>2 DEF LoadSteps, queue, history, DependenciesFirst, Backed
    <2> QED BY <1>8, <2>1, <2>2 DEF LoadSteps
  <1>9. CASE WorkSucceeds(w) \/ WorkFails(w)
    <2>1. JobStep(w) \in Steps /\ DepsRan(JobStep(w))
      BY <1>9, JobFacts DEF WorkSucceeds, WorkFails, At, DepInv, JobStep
    <2>2. DependenciesFirst
      BY <1>2, <1>9, <2>1 DEF WorkSucceeds, WorkFails, DependenciesFirst
    <2>3. CASE WorkSucceeds(w)
      <3>1. /\ \A s \in Steps : effects'[s] >= effects[s]
            /\ effects'[JobStep(w)] > 0
        BY <1>2, <2>1, <2>3 DEF WorkSucceeds
      <3>2. \A s \in Steps : SetStatus(copy[w], JobStep(w), "done").step[s].status = "done" => effects[s] > 0 \/ s = JobStep(w)
        BY <1>2, <2>1, SetStatusBacked DEF StepStates
      <3>3. \A s \in Steps : SetStatus(copy[w], JobStep(w), "done").step[s].status = "done" => effects'[s] > 0
        BY <1>2, <2>1, <2>3, <3>1, <3>2 DEF WorkSucceeds
      <3> QED BY <1>3, <2>2, <2>3, <3>1, <3>3 DEF WorkSucceeds
    <2>4. CASE WorkFails(w)
      <3>1. PICK plan \in Plan, rows \in Seq(Rows) :
              /\ Save(w, plan, rows, "gaveup") /\ plan.step[JobStep(w)].status = "failed"
              /\ \A r \in Steps \ {JobStep(w)} : plan.step[r] = copy[w].step[r]
        BY <1>1, <2>1, <2>4, FailFacts DEF WorkFails
      <3>2. UNCHANGED <<db, queue, cur, effects>>
        BY <2>4 DEF WorkFails
      <3>3. \A s \in Steps : plan.step[s].status = "done" => effects'[s] > 0
        BY <1>2, <3>1, <3>2 DEF Backed
      <3> QED BY <1>3, <1>4, <2>2, <3>1, <3>2, <3>3
    <2> QED BY <1>9, <2>3, <2>4
  <1>10. CASE Complete(w)
    BY <1>5, <1>10 DEF Complete, history, DependenciesFirst
  <1> QED BY <1>6, <1>7, <1>8, <1>9, <1>10 DEF Work

(* A failed step is not a done one. *)
LEMMA FaultDeps ==
  ASSUME Typed, Typed', DepInv, UNCHANGED goal, Fault
  PROVE  DepInv' /\ DependenciesFirst
  <1>1. ASSUME NEW p \in Processes, NEW s \in Steps, NEW label \in {"paused", "gaveup"},
               Fail(p, s, label),
               UNCHANGED <<db, queue, cur, history>>
        PROVE  DepInv'
    <2>1. PICK plan \in Plan, rows \in Seq(Rows) :
              /\ Save(p, plan, rows, label) /\ plan.step[s].status = "failed"
              /\ \A r \in Steps \ {s} : plan.step[r] = copy[p].step[r]
      BY <1>1, FailFacts
    <2>2. \A r \in Steps : plan.step[r].status = "done" => effects'[r] > 0
      BY <1>1, <2>1 DEF DepInv, Backed, history
    <2>3. \A r \in Steps : effects'[r] >= effects[r]
      BY <1>1 DEF Typed, TypeOK, history
    <2>4. \A i \in 1 .. Len(payload') : i \in 1 .. Len(payload) /\ payload'[i] = payload[i]
      BY <1>1 DEF queue
    <2>5. label \notin {"dispatch", "insert"} /\ \A q \in Processes \ {p} : cur'[q] = cur[q]
      BY <1>1
    <2>6. UNCHANGED <<goal, db>>
      BY <1>1
    <2> QED BY <2>1, <2>2, <2>3, <2>4, <2>5, <2>6, StepDeps
  <1>2. ASSUME NEW p \in Processes, StepWriteRaises(p) PROVE DepInv'
    <2>1. cur[p] \in Steps
      BY <1>2 DEF StepWriteRaises, At, CurLabels, Typed, CurSet
    <2> QED BY <1>1, <1>2, <2>1 DEF StepWriteRaises
  <1>3. ASSUME NEW w \in Workers, WalkWriteRaises(w) PROVE DepInv'
    <2>1. JobStep(w) \in Steps /\ w \in Processes
      BY <1>3, JobFacts DEF WalkWriteRaises, Processes
    <2> QED BY <1>1, <1>3, <2>1 DEF WalkWriteRaises
  <1>4. ASSUME NEW p \in Processes, Leave(p, "idle"), UNCHANGED <<db, payload, history>>
        PROVE  DepInv'
    BY <1>4, LeaveDeps DEF history
  <1>5. ASSUME NEW f \in Fronts, FrontWriteRaises(f) PROVE DepInv'
    BY <1>4, <1>5 DEF FrontWriteRaises, queue, Processes
  <1>6. ASSUME NEW w \in Workers, JobRaises(w) PROVE DepInv'
    BY <1>4, <1>6 DEF JobRaises, Processes
  <1>7. ASSUME NEW p \in Processes, Crash(p) PROVE DepInv'
    BY <1>4, <1>7 DEF Crash
  <1>8. UNCHANGED started
    BY DEF Fault, StepWriteRaises, WalkWriteRaises, FrontWriteRaises, JobRaises, Crash, history
  <1> QED BY <1>2, <1>3, <1>5, <1>6, <1>7, <1>8 DEF Fault, DependenciesFirst

(* DepInv holds at first ... *)
LEMMA InitDeps == Init => DepInv
  <1> SUFFICES ASSUME Init PROVE DepInv
    OBVIOUS
  <1>1. goal \in Goals
    BY DEF Init
  <1>2. \A s \in Steps : NewPlan.step[s].status # "done" /\ Blank(Unsaved).step[s].status # "done"
    BY <1>1, BlankFacts DEF Unsaved
  <1>3. Len(payload) = 0
    BY DEF Init
  <1> HIDE DEF NewPlan, Blank
  <1>4. Backed(db) /\ \A p \in Processes : Backed(copy[p])
    BY <1>2 DEF Init, Backed
  <1> QED BY <1>3, <1>4 DEF Init, DepInv

(* ... and every step keeps it, and dispatches only what it allows. *)
LEMMA NextDeps == Typed /\ Typed' /\ DepInv /\ [Next]_vars => DepInv' /\ DependenciesFirst
  <1> SUFFICES ASSUME Typed, Typed', DepInv, [Next]_vars PROVE DepInv' /\ DependenciesFirst
    OBVIOUS
  <1>1. CASE UNCHANGED vars
    <2>1. UNCHANGED <<goal, db, payload, pc, copy, cur, started, effects>>
      BY <1>1 DEF vars
    <2> QED BY <2>1 DEF DepInv, Backed, DepsRan, Steps, Deps, DependenciesFirst
  <1>2. ASSUME NEW f \in Fronts, User(f) \/ Answer(f) PROVE DepInv' /\ DependenciesFirst
    <2>1. UNCHANGED started
      BY <1>2 DEF User, Answer, Run, Reply, Resume, ReadPlan, ReplyAbort, ReplyYes, ReplySkip,
                  ReplyContinue, ReplyIgnored, ResumeSteps, history
    <2>2. DepInv'
      BY <1>2, FrontDeps DEF User, Answer
    <2> QED BY <2>1, <2>2 DEF DependenciesFirst
  <1>3. ASSUME NEW p \in Processes, Walk(p) PROVE DepInv' /\ DependenciesFirst
    BY <1>3, WalkDeps DEF Walk
  <1>4. ASSUME NEW w \in Workers, Work(w) PROVE DepInv' /\ DependenciesFirst
    BY <1>4, WorkDeps DEF Work
  <1>5. CASE Fault
    BY <1>5, FaultDeps DEF Fault
  <1> QED BY <1>1, <1>2, <1>3, <1>4, <1>5 DEF Next

(***************************************************************************)
(* Whoever dispatches a step, and whatever stale copies, failing           *)
(* statements and crashes went before: every step it depends on succeeded. *)
(***************************************************************************)
THEOREM DependenciesFirstHolds == Spec => [][DependenciesFirst]_vars
  <1>1. Spec => [](Typed /\ DepInv)
    <2>1. Init => Typed /\ DepInv
      BY InitTyped, InitDeps
    <2>2. (Typed /\ DepInv) /\ [Next]_vars => (Typed /\ DepInv)'
      BY NextTyped, NextDeps
    <2> QED BY <2>1, <2>2, PTL DEF Spec
  <1>2. (Typed /\ DepInv) /\ (Typed /\ DepInv)' /\ [Next]_vars => [DependenciesFirst]_vars
    BY NextDeps
  <1> QED BY <1>1, <1>2, PTL DEF Spec
-----------------------------------------------------------------------------
(* A plan that is not saved yet is nobody's but the front's that saves it first. *)

Fresh ==
  /\ db.status = "none" =>
       /\ tasks = << >> /\ \A s \in Steps : db.step[s].status = Unsaved
       /\ \A p \in Processes : pc[p] = "idle" \/ (pc[p] \in {"replied", "execute"} /\ todo[p] = Whole)
  /\ \A p \in Processes : pc[p] \notin {"idle", "load", "complete"} => copy[p].status # "none"

(* A process that has got further works on a plan that is saved. *)
LEMMA NotFresh ==
  ASSUME Typed, Fresh, NEW p \in Processes, pc[p] # "idle",
         pc[p] \notin {"replied", "execute"} \/ todo[p] = << >> \/ p \in Workers
  PROVE  db.status # "none"
  <1>1. Whole # << >>
    BY WholeFacts DEF Typed
  <1>2. p \in Workers => tasks # << >>
    BY DEF Typed, Busy
  <1> HIDE DEF Whole
  <1> QED BY <1>1, <1>2 DEF Fresh

(* A step of p that saves a copy of a plan that has a status. *)
LEMMA SaveFresh ==
  ASSUME Typed, Fresh, NEW p \in Processes, NEW plan, NEW rows, NEW label,
         Save(p, plan, rows, label), UNCHANGED <<goal, db>>,
         db.status = "none" =>
           /\ tasks' = tasks
           /\ label = "idle" \/ (label \in {"replied", "execute"} /\ rows = Whole),
         label \notin {"idle", "load", "complete"} => plan.status # "none"
  PROVE  Fresh'
  <1>1. Whole' = Whole /\ Steps' = Steps
    BY DEF Whole, Steps
  <1> HIDE DEF Whole
  <1> QED BY <1>1, SaveFacts DEF Fresh

(* run() saves the plan whole; replies are to a plan that is stored. *)
LEMMA FrontFresh ==
  ASSUME Typed, Fresh, NEW f \in Fronts, UNCHANGED goal, User(f) \/ Answer(f)
  PROVE  Fresh'
  <1>1. f \in Processes
    BY DEF Processes
  <1>2. /\ copy[f] \in Plan /\ db \in Plan /\ NewPlan \in Plan /\ Loaded(f) \in Plan
        /\ Loaded(f).status = copy[f].status
    BY <1>1, LoadedFacts, BlankFacts DEF Typed, TypeOK
  <1>3. /\ UNCHANGED <<db, tasks>>
        /\ pc[f] \in {"reply", "resume"} \/ pc[f] = "idle"
    BY DEF User, Answer, Run, Reply, Resume, ReadPlan, ReplyAbort, ReplyYes, ReplySkip,
           ReplyContinue, ReplyIgnored, ResumeSteps, queue, At
  <1>4. pc[f] \in {"reply", "resume"} => db.status # "none" /\ copy[f].status # "none"
    BY <1>1, NotFresh DEF Fresh
  <1>5. \A plan \in Plan, status \in PlanStates \cup {"none"} : [plan EXCEPT !.status = status].status = status
    BY PlanStatusFacts
  <1> HIDE DEF Whole, NewPlan, Loaded, Save
  <1>6. CASE Run(f)
    BY <1>1, <1>2, <1>3, <1>5, <1>6, SaveFresh DEF Run, PlanStates
  <1>7. ASSUME NEW kind \in {"reply", "resume"}, NEW statuses \in SUBSET PlanStates,
               ReadPlan(f, kind, statuses)
        PROVE  Fresh'
    <2>1. db.status # "none" /\ db.status \in PlanStates
      BY <1>7 DEF ReadPlan, PlanStates
    <2>2. [NewPlan EXCEPT !.status = db.status].status # "none"
      BY <1>2, <1>5, <2>1
    <2> QED BY <1>1, <1>3, <1>7, <2>1, <2>2, SaveFresh DEF ReadPlan
  <1>8. ASSUME pc[f] \in {"reply", "resume"}, NEW plan, NEW rows, NEW label,
               Save(f, plan, rows, label),
               label # "idle" => plan.status # "none"
        PROVE  Fresh'
    BY <1>1, <1>3, <1>4, <1>8, SaveFresh
  <1>9. CASE ReplyAbort(f)
    BY <1>2, <1>5, <1>8, <1>9 DEF ReplyAbort, At, PlanStates
  <1>10. CASE ReplyYes(f)
    BY <1>2, <1>4, <1>8, <1>10 DEF ReplyYes, At
  <1>11. \A s \in Steps, status \in {"skipped", "pending"} : SetStatus(Loaded(f), s, status).status = copy[f].status
    <2>1. {"skipped", "pending"} \subseteq StepStates
      BY DEF StepStates
    <2>2. \A s \in Steps, status \in StepStates : SetStatus(Loaded(f), s, status).status = Loaded(f).status
      BY <1>2, SetStatusFacts
    <2> QED BY <1>2, <2>1, <2>2
  <1>12. ASSUME NEW s \in Steps, ReplySkip(f, s) PROVE Fresh'
    BY <1>4, <1>8, <1>11, <1>12 DEF ReplySkip, At
  <1>13. CASE ReplyContinue(f)
    BY <1>2, <1>4, <1>8, <1>11, <1>13 DEF ReplyContinue, At
  <1>14. CASE ReplyIgnored(f)
    BY <1>8, <1>14 DEF ReplyIgnored, At, Leave
  <1>15. CASE ResumeSteps(f)
    <2>1. PICK saved : Save(f, [copy[f] EXCEPT !.step = saved], << >>, "execute")
      BY <1>15 DEF ResumeSteps
    <2>2. [copy[f] EXCEPT !.step = saved].status = copy[f].status
      BY <1>2 DEF Plan
    <2> QED BY <1>4, <1>8, <1>15, <2>1, <2>2 DEF ResumeSteps, At
  <1>16. {"awaiting_approval", "paused"} \in SUBSET PlanStates /\ PlanStates \ {"awaiting_approval"} \in SUBSET PlanStates
    BY DEF PlanStates
  <1> QED BY <1>6, <1>7, <1>9, <1>10, <1>12, <1>13, <1>14, <1>15, <1>16
          DEF User, Answer, Reply, Resume

(* Fail leaves a plan that is paused. *)
LEMMA FailFresh ==
  ASSUME Typed, Fresh, NEW p \in Processes, NEW s \in Steps, NEW label, Fail(p, s, label),
         UNCHANGED <<goal, db>>, db.status # "none"
  PROVE  Fresh'
  <1>1. PICK plan \in Plan, rows \in Seq(Rows) : Save(p, plan, rows, label) /\ plan.status = "paused"
    BY FailFacts
  <1> QED BY <1>1, SaveFresh

(* The first row saved is the plan's own. *)
LEMMA WalkFresh ==
  ASSUME Typed, Fresh, NEW p \in Processes, UNCHANGED goal, Walk(p)
  PROVE  Fresh'
  <1>1. /\ copy[p] \in Plan /\ db \in Plan /\ goal \in Goals
        /\ pc[p] \in CurLabels => cur[p] \in Steps
        /\ Whole' = Whole /\ Steps' = Steps
    BY DEF Typed, TypeOK, CurSet, Whole, Steps
  <1>2. pc[p] \notin {"idle", "load", "complete"} => copy[p].status # "none"
    BY DEF Fresh
  <1>3. Whole \in Seq(Rows) /\ Whole # << >> /\ Head(Whole) = 0
    BY <1>1, WholeFacts
  <1>4. \A s \in Steps, status \in StepStates : SetStatus(copy[p], s, status).status = copy[p].status
    BY <1>1, SetStatusFacts
  <1>5. \A status \in PlanStates : [copy[p] EXCEPT !.status = status].status = status
    BY <1>1, PlanStatusFacts
  <1>6. CASE Flush(p)
    <2>1. pc[p] \in Saving /\ todo[p] # << >>
      BY <1>6 DEF Flush, Typed, SavingOnly
    <2>2. copy[p].status # "none"
      BY <1>2, <2>1 DEF Saving, Walking, CurLabels
    <2>3. CASE Head(todo[p]) = 0
      <3>1. db'.status = copy[p].status
        BY <1>1, <1>6, <2>3 DEF Flush, Plan
      <3> QED BY <1>6, <2>2, <3>1 DEF Flush, Fresh
    <2>4. CASE Head(todo[p]) # 0
      <3>1. db'.status = db.status
        BY <1>1, <1>6, <2>4 DEF Flush, Plan
      <3>2. db.status # "none"
        <4> HIDE DEF Whole
        <4> QED BY <1>3, <2>1, <2>4 DEF Fresh, Saving, Walking, CurLabels
      <3> QED BY <1>6, <3>1, <3>2 DEF Flush, Fresh
    <2> QED BY <2>3, <2>4
  <1>7. pc[p] # "idle" /\ (pc[p] \notin {"replied", "execute"} \/ todo[p] = << >>) => db.status # "none"
    BY NotFresh
  <1>8. ASSUME NEW plan, NEW rows, NEW label, Save(p, plan, rows, label), UNCHANGED db,
               pc[p] # "idle", pc[p] \notin {"replied", "execute"} \/ todo[p] = << >>,
               label \notin {"idle", "complete"} => plan.status # "none"
        PROVE  Fresh'
    BY <1>7, <1>8, SaveFresh
  <1> HIDE DEF Whole, Save
  <1>9. CASE Execute(p) \/ Finish(p)
    BY <1>5, <1>8, <1>9 DEF Execute, Finish, At, PlanStates
  <1>10. CASE Advance(p)
    <2>1. Save(p, copy[p], todo[p], "loop") /\ UNCHANGED db /\ pc[p] = "advance"
      BY <1>10 DEF Advance, At, Save, Typed, TypeOK
    <2> QED BY <1>2, <1>8, <2>1
  <1>11. CASE Return(p)
    BY <1>8, <1>11 DEF Return, At, Leave
  <1>12. ASSUME NEW s \in Steps, SkipStep(p, s) PROVE Fresh'
    BY <1>2, <1>4, <1>8, <1>12 DEF SkipStep, At, StepStates
  <1>13. ASSUME NEW s \in Steps, BeginStep(p, s) PROVE Fresh'
    <2>1. PICK saved : Save(p, [copy[p] EXCEPT !.step = saved], <<s>>, "dispatch")
      BY <1>13 DEF BeginStep
    <2>2. [copy[p] EXCEPT !.step = saved].status = copy[p].status
      BY <1>1 DEF Plan
    <2> QED BY <1>2, <1>8, <1>13, <2>1, <2>2 DEF BeginStep, At
  <1>14. CASE DispatchSucceeds(p)
    BY <1>1, <1>2, <1>4, <1>8, <1>14 DEF DispatchSucceeds, At, StepStates, CurLabels
  <1>15. CASE DispatchFails(p)
    BY <1>1, <1>7, <1>15, FailFresh DEF DispatchFails, At, CurLabels
  <1>16. CASE EnqueueSelect(p)
    BY <1>2, <1>8, <1>16 DEF EnqueueSelect, At
  <1>17. CASE EnqueueInsert(p)
    BY <1>2, <1>8, <1>17 DEF EnqueueInsert, At
  <1> QED BY <1>6, <1>9, <1>10, <1>11, <1>12, <1>13, <1>14, <1>15, <1>16, <1>17 DEF Walk

(* A worker has a row, so the plan is stored. *)
LEMMA WorkFresh ==
  ASSUME Typed, Fresh, NEW w \in Workers, UNCHANGED goal, Work(w)
  PROVE  Fresh'
  <1>1. /\ w \in Processes /\ copy[w] \in Plan /\ db \in Plan /\ NewPlan \in Plan
        /\ Whole' = Whole /\ Steps' = Steps /\ Loaded(w).status = copy[w].status
    BY BlankFacts, LoadedFacts DEF Typed, TypeOK, Processes, Whole, Steps
  <1>2. pc[w] \notin {"idle", "load", "complete"} => copy[w].status # "none"
    BY <1>1 DEF Fresh
  <1>3. pc[w] # "idle" => db.status # "none"
    BY <1>1, NotFresh
  <1>4. ASSUME NEW plan, NEW rows, NEW label, Save(w, plan, rows, label), UNCHANGED db,
               pc[w] # "idle", label # "complete" => plan.status # "none"
        PROVE  Fresh'
    BY <1>1, <1>3, <1>4, SaveFresh
  <1>5. ASSUME UNCHANGED <<db, copy, todo>>, NEW label \in {"load", "idle"},
               pc' = [pc EXCEPT ![w] = label],
               db.status # "none"
        PROVE  Fresh'
    <2>1. \A q \in Processes : pc'[q] \notin {"idle", "load", "complete"} => pc[q] = pc'[q]
      BY <1>1, <1>5 DEF Typed, TypeOK
    <2> QED BY <1>1, <1>5, <2>1 DEF Fresh
  <1> HIDE DEF Whole, Save, NewPlan, Loaded
  <1>6. ASSUME NEW i \in 1 .. Len(tasks), Take(w, i) PROVE Fresh'
    <2>1. db.status # "none"
      <3>1. tasks \in Seq({"queued", "running", "done", "failed"}) /\ tasks # << >>
        BY DEF Typed, TypeOK
      <3> QED BY <3>1 DEF Fresh
    <2> QED BY <1>5, <1>6, <2>1 DEF Take
  <1>7. CASE LoadPlan(w)
    <2>1. [NewPlan EXCEPT !.status = db.status].status = db.status
      BY <1>1 DEF Plan
    <2> QED BY <1>3, <1>4, <1>7, <2>1 DEF LoadPlan, At
  <1>8. CASE LoadSteps(w)
    BY <1>1, <1>2, <1>4, <1>8 DEF LoadSteps, At, Leave
  <1>9. CASE WorkSucceeds(w)
    <2>1. pc[w] = "work" /\ JobStep(w) \in Steps
      BY <1>9, JobFacts DEF WorkSucceeds, At
    <2>2. "done" \in StepStates /\ copy[w] \in Plan
      BY <1>1 DEF StepStates
    <2>3. SetStatus(copy[w], JobStep(w), "done").status = copy[w].status
      BY <2>1, <2>2, SetStatusFacts
    <2> QED BY <1>2, <1>4, <1>9, <2>1, <2>3 DEF WorkSucceeds
  <1>10. CASE WorkFails(w)
    <2>1. pc[w] = "work" /\ JobStep(w) \in Steps
      BY <1>10, JobFacts DEF WorkFails, At
    <2> QED BY <1>1, <1>3, <1>10, <2>1, FailFresh DEF WorkFails
  <1>11. CASE Complete(w)
    BY <1>3, <1>5, <1>11 DEF Complete, At
  <1> QED BY <1>6, <1>7, <1>8, <1>9, <1>10, <1>11 DEF Work

(* So it is for whoever walks, or nothing was saved. *)
LEMMA FaultFresh ==
  ASSUME Typed, Fresh, UNCHANGED goal, Fault
  PROVE  Fresh'
  <1>1. ASSUME NEW p \in Processes, StepWriteRaises(p) PROVE Fresh'
    <2>1. pc[p] \in CurLabels
      BY <1>1 DEF StepWriteRaises, At, CurLabels
    <2>2. cur[p] \in Steps /\ db.status # "none"
      BY <2>1, NotFresh DEF Typed, CurSet, CurLabels
    <2> QED BY <1>1, <2>2, FailFresh DEF StepWriteRaises
  <1>2. ASSUME NEW w \in Workers, WalkWriteRaises(w) PROVE Fresh'
    <2>1. pc[w] # "idle" /\ w \in Processes
      BY <1>2 DEF WalkWriteRaises, Processes
    <2>2. JobStep(w) \in Steps /\ db.status # "none"
      BY <2>1, JobFacts, NotFresh
    <2> QED BY <1>2, <2>1, <2>2, FailFresh DEF WalkWriteRaises
  <1>3. ASSUME NEW p \in Processes, Leave(p, "idle"), UNCHANGED db,
               db.status = "none" => tasks' = tasks
        PROVE Fresh'
    BY <1>3, SaveFresh DEF Leave
  <1>4. ASSUME NEW f \in Fronts, FrontWriteRaises(f) PROVE Fresh'
    BY <1>3, <1>4 DEF FrontWriteRaises, queue, Processes
  <1>5. ASSUME NEW w \in Workers, JobRaises(w) PROVE Fresh'
    <2>1. pc[w] # "idle" /\ w \in Processes
      BY <1>5 DEF JobRaises, At, Processes
    <2>2. db.status # "none"
      BY <2>1, NotFresh
    <2> QED BY <1>3, <1>5, <2>1, <2>2 DEF JobRaises
  <1>6. ASSUME NEW p \in Processes, Crash(p) PROVE Fresh'
    <2>1. tasks' = tasks
      BY <1>6 DEF Crash, Queue!Drop
    <2> QED BY <1>3, <1>6, <2>1 DEF Crash
  <1> QED BY <1>1, <1>2, <1>4, <1>5, <1>6 DEF Fault

(* Fresh holds at first ... *)
LEMMA InitFresh == Init => Fresh
  <1> SUFFICES ASSUME Init PROVE Fresh
    OBVIOUS
  <1>1. goal \in Goals /\ db = Blank(Unsaved) /\ tasks = << >>
    BY DEF Init, Queue!Init
  <1>2. \A s \in Steps : db.step[s].status = Unsaved
    BY <1>1, BlankFacts
  <1> HIDE DEF NewPlan, Blank
  <1> QED BY <1>1, <1>2 DEF Init, Fresh

(* ... and every step keeps it. *)
LEMMA NextFresh == Typed /\ Fresh /\ [Next]_vars => Fresh'
  <1> SUFFICES ASSUME Typed, Fresh, [Next]_vars PROVE Fresh'
    OBVIOUS
  <1>1. CASE UNCHANGED vars
    <2>1. UNCHANGED <<goal, db, tasks, pc, copy, todo>>
      BY <1>1 DEF vars
    <2> QED BY <2>1 DEF Fresh, Steps, Whole
  <1>2. ASSUME NEW f \in Fronts, User(f) \/ Answer(f) PROVE Fresh'
    BY <1>2, FrontFresh DEF User, Answer
  <1>3. ASSUME NEW p \in Processes, Walk(p) PROVE Fresh'
    BY <1>3, WalkFresh DEF Walk
  <1>4. ASSUME NEW w \in Workers, Work(w) PROVE Fresh'
    BY <1>4, WorkFresh DEF Work
  <1>5. CASE Fault
    BY <1>5, FaultFresh DEF Fault
  <1> QED BY <1>1, <1>2, <1>3, <1>4, <1>5 DEF Next
-----------------------------------------------------------------------------
(* The steps that ask, when the user writes in one channel. *)

OneFront == \A f, g \in Fronts : f = g

(* The steps that ask may run: the user said yes, or resumed the plan. *)
Go == approved \/ ~Without({"resume"})

AsksSkipped(plan) == \A s \in goal.asks : plan.step[s].status = "skipped"

(***************************************************************************)
(* A process at this label, with this copy, these rows to save and this    *)
(* step, has the skips of the user, and will save its own; and whoever     *)
(* walks through the plan has every step that asks skipped, in its copy    *)
(* and, once it may change the plan's status, in the database.             *)
(***************************************************************************)
AskedAt(label, plan, rows, step) ==
  /\ label \in Saving => \A s \in goal.asks :
       /\ db.step[s].status = "skipped" => plan.step[s].status = "skipped"
       /\ plan.step[s].status = "skipped" =>
            db.step[s].status = "skipped" \/ \E i \in 1 .. Len(rows) : rows[i] = s
  /\ label \in Walking => AsksSkipped(plan)
  /\ label \in Walking \ {"execute"} => AsksSkipped(db)
  /\ label = "execute" /\ (\E i \in 1 .. Len(rows) : rows[i] = 0) => AsksSkipped(db)
  /\ label \in CurLabels => step \notin goal.asks
  /\ label = "reply" => /\ plan.status \in {"awaiting_approval", "paused"}
                        /\ plan.status = "paused" => AsksSkipped(db)
  /\ label = "replied" => plan.status \in {"awaiting_approval", "cancelled"}
  /\ label # "resume"

Asked ==
  /\ tasks # << >> \/ db.status \in {"planning", "executing", "paused", "done"} => AsksSkipped(db)
  /\ \A i \in 1 .. Len(payload) : payload[i].step \notin goal.asks
  /\ \A p \in Processes : AskedAt(pc[p], copy[p], todo[p], cur[p])

(* What has befallen a plan has befallen it for good. *)
LEMMA LimitsStay ==
  ASSUME Typed, [Next]_vars, NEW kinds \in SUBSET FaultKinds
  PROVE  /\ goal' = goal
         /\ ~Without(kinds) => ~Without(kinds)'
         /\ approved => approved'
  <1>1. CASE UNCHANGED vars
    BY <1>1 DEF vars, Without
  <1>2. CASE Next
    <2>1. goal' = goal
      BY <1>2 DEF Next, User, Answer, Walk, Work, Fault
    <2>2. UNCHANGED budget \/ \E kind \in FaultKinds : Spend(kind)
      <3>1. ASSUME NEW f \in Fronts, User(f) \/ Answer(f)
            PROVE  UNCHANGED budget \/ \E kind \in FaultKinds : Spend(kind)
        BY <3>1 DEF User, Answer, Run, Reply, Resume, ReadPlan, ReplyAbort, ReplyYes, ReplySkip,
                    ReplyContinue, ReplyIgnored, ResumeSteps, FaultKinds
      <3>2. ASSUME NEW p \in Processes, Walk(p) PROVE UNCHANGED budget
        BY <3>2 DEF Walk, Flush, Execute, Advance, Finish, Return, SkipStep, BeginStep,
           DispatchSucceeds,
                    DispatchFails, EnqueueSelect, EnqueueInsert
      <3>3. ASSUME NEW w \in Workers, Work(w) PROVE UNCHANGED budget
        BY <3>3 DEF Work, Take, LoadPlan, LoadSteps, WorkSucceeds, WorkFails, Complete
      <3>4. CASE Fault
        BY <3>4 DEF Fault, StepWriteRaises, WalkWriteRaises, FrontWriteRaises, JobRaises, Crash,
           FaultKinds
      <3> QED BY <1>2, <3>1, <3>2, <3>3, <3>4 DEF Next
    <2>3. approved => approved'
      <3>1. ASSUME NEW f \in Fronts, User(f) \/ Answer(f) PROVE approved => approved'
        BY <3>1 DEF User, Answer, Run, Reply, Resume, ReadPlan, ReplyAbort, ReplyYes, ReplySkip,
                    ReplyContinue, ReplyIgnored, ResumeSteps, history
      <3>2. ASSUME NEW p \in Processes, Walk(p) PROVE UNCHANGED approved
        BY <3>2 DEF Walk, Flush, Execute, Advance, Finish, Return, SkipStep, BeginStep,
           DispatchSucceeds,
                    DispatchFails, EnqueueSelect, EnqueueInsert, history
      <3>3. ASSUME NEW w \in Workers, Work(w) PROVE UNCHANGED approved
        BY <3>3 DEF Work, Take, LoadPlan, LoadSteps, WorkSucceeds, WorkFails, Complete, history
      <3>4. CASE Fault
        BY <3>4 DEF Fault, StepWriteRaises, WalkWriteRaises, FrontWriteRaises, JobRaises, Crash,
           history
      <3> QED BY <1>2, <3>1, <3>2, <3>3, <3>4 DEF Next
    <2>4. /\ budget \in [FaultKinds -> Nat] /\ Limited
          /\ goal.limits \in [FaultKinds -> Nat]
      BY PlanAssumption DEF Typed, TypeOK
    <2>5. \A k \in FaultKinds : budget'[k] = budget[k] \/ budget'[k] < budget[k]
      BY <2>2, <2>4 DEF Spend
    <2>6. \A k \in FaultKinds : budget[k] # goal.limits[k] => budget'[k] # goal.limits[k]
      <3>1. ASSUME NEW k \in FaultKinds, budget[k] # goal.limits[k]
            PROVE  budget'[k] # goal.limits[k]
        <4>1. budget[k] \in Nat /\ goal.limits[k] \in Nat /\ budget[k] <= goal.limits[k] /\ budget'[k] \in Nat
          <5>1. budget' \in [FaultKinds -> Nat]
            BY <2>2, <2>4 DEF Spend
          <5> QED BY <2>4, <5>1 DEF Limited
        <4> QED BY <2>5, <3>1, <4>1
      <3> QED BY <3>1
    <2> QED BY <2>1, <2>3, <2>6 DEF Without
  <1> QED BY <1>1, <1>2

(* A step of p that saves a copy which agrees with the user's skips. *)
LEMMA SaveAsked ==
  ASSUME Typed, Asked, NEW p \in Processes, NEW plan, NEW rows, NEW label,
         Save(p, plan, rows, label), UNCHANGED <<goal, db>>,
         \A q \in Processes \ {p} : cur'[q] = cur[q],
         AskedAt(label, plan, rows, cur'[p]),
         tasks' # << >> => tasks # << >> \/ AsksSkipped(db),
         \A i \in 1 .. Len(payload') :
           (i \in 1 .. Len(payload) /\ payload'[i] = payload[i]) \/ payload'[i].step \notin goal.asks
  PROVE  Asked'
  <1>1. \A q \in Processes : AskedAt(pc'[q], copy'[q], todo'[q], cur'[q])
    BY SaveFacts DEF Asked
  <1>2. \A q \in Processes : AskedAt(pc[q], copy[q], todo[q], cur[q])'
    BY <1>1 DEF AskedAt, AsksSkipped
  <1>3. \A i \in 1 .. Len(payload') : payload'[i].step \notin goal.asks
    BY DEF Asked
  <1>4. AsksSkipped(db)' = AsksSkipped(db)
    BY DEF AsksSkipped
  <1> QED BY <1>2, <1>3, <1>4 DEF Asked

(* A call that returns keeps Asked. *)
LEMMA LeaveAsked ==
  ASSUME Typed, Asked, NEW p \in Processes, NEW label \in {"idle", "complete"},
         Leave(p, label), UNCHANGED <<goal, db, payload>>, tasks' # << >> => tasks # << >>
  PROVE  Asked'
  <1>1. Save(p, NewPlan, << >>, label) /\ (\A q \in Processes \ {p} : cur'[q] = cur[q])
    BY DEF Leave, Typed, TypeOK
  <1>2. AskedAt(label, NewPlan, << >>, cur'[p])
    BY DEF AskedAt, Saving, Walking, CurLabels
  <1>3. \A i \in 1 .. Len(payload') : i \in 1 .. Len(payload) /\ payload'[i] = payload[i]
    OBVIOUS
  <1> HIDE DEF NewPlan, Save
  <1> QED BY <1>1, <1>2, <1>3, SaveAsked
(* Without a yes or a resume, a front walks on only when every step that asks is skipped. *)
LEMMA FrontAsked ==
  ASSUME Typed, Fresh, Asked, ~Go, ~Go', NEW f \in Fronts, UNCHANGED goal, User(f) \/ Answer(f)
  PROVE  Asked'
  <1>1. f \in Processes
    BY DEF Processes
  <1>2. /\ copy[f] \in Plan /\ db \in Plan /\ NewPlan \in Plan /\ Loaded(f) \in Plan
        /\ Loaded(f).status = copy[f].status /\ Loaded(f).step = db.step
        /\ goal \in Goals
        /\ \A s \in Steps : NewPlan.step[s].status # "skipped"
    BY <1>1, LoadedFacts, BlankFacts DEF Typed, TypeOK
  <1>3. goal.asks \subseteq Steps /\ 0 \notin Steps
    <2>1. Steps = 1 .. Len(goal.deps) /\ Len(goal.deps) \in Nat
      BY <1>2, PlanAssumption DEF Steps
    <2> QED BY <1>2, <2>1, PlanAssumption DEF Steps
  <1>4. AskedAt(pc[f], copy[f], todo[f], cur[f])
    BY <1>1 DEF Asked
  <1>5. ASSUME NEW plan, NEW rows, NEW label, Save(f, plan, rows, label),
               UNCHANGED <<db, tasks, payload, cur>>, AskedAt(label, plan, rows, cur[f])
        PROVE  Asked'
    <2>1. \A i \in 1 .. Len(payload') : i \in 1 .. Len(payload) /\ payload'[i] = payload[i]
      BY <1>5
    <2> QED BY <1>1, <1>5, <2>1, SaveAsked
  <1>6. \A s \in Steps, status \in {"skipped", "pending"} :
          /\ SetStatus(Loaded(f), s, status).status = copy[f].status
          /\ SetStatus(Loaded(f), s, status).step[s].status = status
          /\ \A r \in Steps \ {s} : SetStatus(Loaded(f), s, status).step[r] = db.step[r]
    <2>1. {"skipped", "pending"} \subseteq StepStates
      BY DEF StepStates
    <2>2. \A s \in Steps, status \in StepStates :
          /\ SetStatus(Loaded(f), s, status).status = copy[f].status
          /\ SetStatus(Loaded(f), s, status).step[s].status = status
          /\ \A r \in Steps \ {s} : SetStatus(Loaded(f), s, status).step[r] = db.step[r]
      BY <1>2, SetStatusFacts
    <2> QED BY <2>1, <2>2
  <1>7. \A plan \in Plan, status \in PlanStates \cup {"none"} :
          [plan EXCEPT !.status = status].status = status /\ [plan EXCEPT !.status = status].step = plan.step
    BY PlanStatusFacts
  <1>8. Whole \in Seq(Rows) /\ \A r \in Rows : \E i \in 1 .. Len(Whole) : Whole[i] = r
    BY <1>2, WholeFacts
  <1>9. \A s \in Steps : /\ \E i \in 1 .. Len(<<s>> \o Whole) : (<<s>> \o Whole)[i] = s
                         /\ Len(<<s>>) = 1 /\ <<s>>[1] = s
    BY <1>8, ConsFacts DEF Rows
  <1> HIDE DEF Whole, NewPlan, Loaded, Save
  <1>10. CASE Run(f)
    <2>1. \A s \in Steps : db.step[s].status = Unsaved
      BY <1>10 DEF Run, Fresh
    <2>2. CASE NeedsApproval(NewPlan)
      <3> DEFINE plan == [NewPlan EXCEPT !.status = "awaiting_approval"]
      <3>1. plan.status = "awaiting_approval" /\ plan.step = NewPlan.step
        BY <1>2, <1>7 DEF PlanStates
      <3>2. Save(f, plan, Whole, "replied") /\ UNCHANGED <<db, tasks, payload, cur>>
        BY <1>10, <2>2 DEF Run, queue
      <3> HIDE DEF plan
      <3>3. AskedAt("replied", plan, Whole, cur[f])
        BY <1>2, <1>3, <2>1, <3>1 DEF AskedAt, Walking, CurLabels, Unsaved
      <3> QED BY <1>5, <3>2, <3>3
    <2>3. CASE ~NeedsApproval(NewPlan)
      <3> DEFINE plan == [NewPlan EXCEPT !.status = "planning"]
      <3>1. plan.step = NewPlan.step
        BY <1>2, <1>7 DEF PlanStates
      <3>2. Save(f, plan, Whole, "execute") /\ UNCHANGED <<db, tasks, payload, cur>>
        BY <1>10, <2>3 DEF Run, queue
      <3>3. goal.asks = {}
        BY <1>2, <1>3, <2>3 DEF NeedsApproval
      <3> HIDE DEF plan
      <3>4. AskedAt("execute", plan, Whole, cur[f])
        BY <3>3 DEF AskedAt, CurLabels, AsksSkipped
      <3> QED BY <1>5, <3>2, <3>4
    <2> QED BY <2>2, <2>3
  <1>11. CASE Reply(f)
    <2> DEFINE plan == [NewPlan EXCEPT !.status = db.status]
    <2>1. /\ Save(f, plan, << >>, "reply") /\ UNCHANGED <<db, tasks, payload, cur>>
          /\ db.status \in {"awaiting_approval", "paused"}
      BY <1>11 DEF Reply, ReadPlan, queue
    <2>2. plan.status = db.status
      BY <1>2, <1>7 DEF Plan
    <2> HIDE DEF plan
    <2>3. AskedAt("reply", plan, << >>, cur[f])
      BY <2>1, <2>2 DEF AskedAt, Saving, Walking, CurLabels, Asked
    <2> QED BY <1>5, <2>1, <2>3
  <1>12. ~Resume(f)
    <2>1. SUFFICES ASSUME Resume(f) PROVE FALSE
      OBVIOUS
    <2>2. Spend("resume") /\ UNCHANGED <<goal, history>> /\ "resume" \in FaultKinds
      BY <2>1 DEF Resume, ReadPlan, FaultKinds
    <2>3. budget'["resume"] < goal.limits["resume"] /\ goal.limits["resume"] \in Nat /\ budget'["resume"] \in Nat
      BY <1>2, <2>2, SpendFacts, PlanAssumption DEF Counters
    <2> QED BY <2>2, <2>3 DEF Go, Without
  <1>13. pc[f] # "resume"
    BY <1>4 DEF AskedAt
  <1>14. CASE ReplyAbort(f)
    <2> DEFINE plan == [Loaded(f) EXCEPT !.status = "cancelled"]
    <2>1. plan.status = "cancelled" /\ plan.step = db.step
      BY <1>2, <1>7 DEF PlanStates
    <2>2. Save(f, plan, Whole, "replied") /\ UNCHANGED <<db, tasks, payload, cur>>
      BY <1>14 DEF ReplyAbort, queue
    <2> HIDE DEF plan
    <2>3. AskedAt("replied", plan, Whole, cur[f])
      BY <2>1 DEF AskedAt, Walking, CurLabels
    <2> QED BY <1>5, <2>2, <2>3
  <1>15. ~ReplyYes(f)
    BY DEF ReplyYes, Go
  <1>16. ASSUME NEW s \in Steps, ReplySkip(f, s) PROVE Asked'
    <2> DEFINE plan == SetStatus(Loaded(f), s, "skipped")
    <2>1. /\ plan.status = copy[f].status /\ plan.step[s].status = "skipped"
          /\ \A r \in Steps \ {s} : plan.step[r] = db.step[r]
      BY <1>6
    <2>2. /\ IF plan.status = "awaiting_approval" /\ NeedsApproval(plan)
             THEN Save(f, plan, <<s>> \o Whole, "replied")
             ELSE Save(f, plan, <<s>>, "execute")
          /\ UNCHANGED <<db, tasks, payload, cur>>
      BY <1>16 DEF ReplySkip, queue
    <2>3. copy[f].status \in {"awaiting_approval", "paused"} /\ (copy[f].status = "paused" => AsksSkipped(db))
      BY <1>4, <1>16 DEF AskedAt, ReplySkip, At
    <2> HIDE DEF plan
    <2>4. CASE plan.status = "awaiting_approval" /\ NeedsApproval(plan)
      <3>1. AskedAt("replied", plan, <<s>> \o Whole, cur[f])
        BY <1>3, <1>9, <2>1, <2>4 DEF AskedAt, Walking, CurLabels
      <3> QED BY <1>5, <2>2, <2>4, <3>1
    <2>5. CASE ~(plan.status = "awaiting_approval" /\ NeedsApproval(plan))
      <3>1. AsksSkipped(plan)
        BY <1>3, <2>1, <2>3, <2>5 DEF AsksSkipped, NeedsApproval
      <3>2. ~\E i \in 1 .. Len(<<s>>) : <<s>>[i] = 0
        BY <1>3, <1>9
      <3>3. \A r \in goal.asks : db.step[r].status = "skipped" \/ \E i \in 1 .. Len(<<s>>) : <<s>>[i] = r
        BY <1>3, <1>9, <2>1, <3>1 DEF AsksSkipped
      <3>4. AskedAt("execute", plan, <<s>>, cur[f])
        BY <3>1, <3>2, <3>3 DEF AskedAt, AsksSkipped, CurLabels
      <3> QED BY <1>5, <2>2, <2>5, <3>4
    <2> QED BY <2>4, <2>5
  <1>17. CASE ReplyContinue(f)
    <2>1. AsksSkipped(db) /\ UNCHANGED <<db, tasks, payload, cur>>
      BY <1>4, <1>17 DEF AskedAt, ReplyContinue, At, queue
    <2>2. CASE Save(f, Loaded(f), << >>, "execute")
      <3>1. AskedAt("execute", Loaded(f), << >>, cur[f])
        BY <1>2, <2>1 DEF AskedAt, AsksSkipped, CurLabels
      <3> QED BY <1>5, <2>1, <2>2, <3>1
    <2>3. ASSUME NEW s \in Steps, db.step[s].status = "failed",
                 Save(f, SetStatus(Loaded(f), s, "pending"), <<s>>, "execute")
          PROVE  Asked'
      <3>1. AsksSkipped(SetStatus(Loaded(f), s, "pending"))
        BY <1>3, <1>6, <2>1, <2>3 DEF AsksSkipped
      <3>2. AskedAt("execute", SetStatus(Loaded(f), s, "pending"), <<s>>, cur[f])
        BY <2>1, <3>1 DEF AskedAt, AsksSkipped, CurLabels
      <3> QED BY <1>5, <2>1, <2>3, <3>2
    <2> QED BY <1>17, <2>2, <2>3 DEF ReplyContinue
  <1>18. CASE ReplyIgnored(f)
    BY <1>1, <1>18, LeaveAsked DEF ReplyIgnored, queue
  <1>19. ~ResumeSteps(f)
    BY <1>13 DEF ResumeSteps, At
  <1> QED BY <1>10, <1>11, <1>12, <1>14, <1>15, <1>16, <1>17, <1>18, <1>19 DEF User, Answer
(* A worker's plan is one whose asking steps are all skipped. *)
LEMMA WorkerAsked ==
  ASSUME Typed, Asked, NEW w \in Workers, pc[w] # "idle"
  PROVE  tasks # << >> /\ AsksSkipped(db)
  BY DEF Typed, Busy, Asked

(* No other process's rows undo a skip, and every skip in a copy is saved by its owner. *)
LEMMA FlushAsked ==
  ASSUME Typed, Fresh, Asked, OneFront, NEW p \in Processes, UNCHANGED goal, Flush(p)
  PROVE  Asked'
  <1>1. /\ copy[p] \in Plan /\ db \in Plan /\ goal \in Goals /\ todo[p] \in Seq(Rows) /\ todo[p] # << >>
        /\ goal.asks \subseteq Steps /\ pc[p] \in Saving
        /\ todo \in [Processes -> Seq(Rows)]
    BY PlanAssumption DEF Typed, TypeOK, Flush, Rows, Steps, SavingOnly
  <1>2. 0 \notin Steps
    <2>1. Steps = 1 .. Len(goal.deps) /\ Len(goal.deps) \in Nat
      BY <1>1, PlanAssumption DEF Steps
    <2> QED BY <2>1
  <1>3. Head(todo[p]) \in Rows /\ Tail(todo[p]) \in Seq(Rows)
    BY <1>1, TailFacts
  <1>4. /\ \A q \in Processes \ {p} : todo'[q] = todo[q]
        /\ todo'[p] = Tail(todo[p])
        /\ UNCHANGED <<tasks, payload, pc, copy, cur>>
    BY DEF Flush, queue, Typed, TypeOK
  <1>5. \A s \in Steps : db'.step[s] = IF Head(todo[p]) = s THEN copy[p].step[s] ELSE db.step[s]
    BY <1>1, <1>2, <1>3 DEF Flush, Plan, Rows
  <1>6. db'.status = IF Head(todo[p]) = 0 THEN copy[p].status ELSE db.status
    BY <1>1, <1>2, <1>3 DEF Flush, Plan, Rows
  <1>7. AskedAt(pc[p], copy[p], todo[p], cur[p])
    BY DEF Asked
  <1>8. \A s \in goal.asks : db.step[s].status = "skipped" => db'.step[s].status = "skipped"
    BY <1>1, <1>5, <1>7 DEF AskedAt
  <1>9. AsksSkipped(db) => AsksSkipped(db')
    BY <1>8 DEF AsksSkipped
  <1>10. ASSUME NEW i \in 1 .. Len(todo[p])
         PROVE  todo[p][i] = Head(todo[p]) \/ \E j \in 1 .. Len(Tail(todo[p])) : Tail(todo[p])[j] = todo[p][i]
    BY <1>1, TailFacts
  <1>11. ASSUME NEW j \in 1 .. Len(Tail(todo[p]))
         PROVE  \E i \in 1 .. Len(todo[p]) : todo[p][i] = Tail(todo[p])[j]
    BY <1>1, TailFacts
  <1>12. AskedAt(pc[p], copy[p], todo[p], cur[p])'
    <2>1. ASSUME NEW s \in goal.asks
          PROVE  /\ db'.step[s].status = "skipped" => copy[p].step[s].status = "skipped"
                 /\ copy[p].step[s].status = "skipped" =>
                      db'.step[s].status = "skipped" \/ \E i \in 1 .. Len(Tail(todo[p])) : Tail(todo[p])[i] = s
      <3>1. CASE Head(todo[p]) = s
        BY <1>1, <1>5, <3>1
      <3>2. CASE Head(todo[p]) # s
        <4>1. (\E i \in 1 .. Len(todo[p]) : todo[p][i] = s) =>
                \E i \in 1 .. Len(Tail(todo[p])) : Tail(todo[p])[i] = s
          BY <1>10, <3>2
        <4>2. /\ db.step[s].status = "skipped" => copy[p].step[s].status = "skipped"
              /\ copy[p].step[s].status = "skipped" =>
                   db.step[s].status = "skipped" \/ \E i \in 1 .. Len(todo[p]) : todo[p][i] = s
          BY <1>1, <1>7 DEF AskedAt
        <4>3. db'.step[s] = db.step[s]
          BY <1>1, <1>5, <3>2
        <4> QED BY <4>1, <4>2, <4>3
      <3> QED BY <3>1, <3>2
    <2>2. (\E i \in 1 .. Len(Tail(todo[p])) : Tail(todo[p])[i] = 0) => \E i \in 1 .. Len(todo[p]) : todo[p][i] = 0
      BY <1>11
    <2> QED BY <1>4, <1>7, <1>9, <2>1, <2>2 DEF AskedAt, AsksSkipped
  <1>13. ASSUME NEW q \in Processes \ {p} PROVE AskedAt(pc[q], copy[q], todo[q], cur[q])'
    <2>1. AskedAt(pc[q], copy[q], todo[q], cur[q])
      BY DEF Asked
    <2>2. ASSUME pc[q] \in Saving, NEW s \in goal.asks
          PROVE  /\ db'.step[s].status = "skipped" => copy[q].step[s].status = "skipped"
                 /\ copy[q].step[s].status = "skipped" =>
                      db'.step[s].status = "skipped" \/ \E i \in 1 .. Len(todo[q]) : todo[q][i] = s
      <3>1. p \in Workers \/ q \in Workers
        BY DEF OneFront, Processes
      <3>2. pc[p] # "idle" /\ pc[q] # "idle"
        BY <1>1, <2>2 DEF Saving, Walking, CurLabels
      <3>3. AsksSkipped(db)
        BY <3>1, <3>2, WorkerAsked
      <3> QED BY <1>9, <2>1, <2>2, <3>3 DEF AskedAt, AsksSkipped
    <2> QED BY <1>4, <1>9, <2>1, <2>2 DEF AskedAt, AsksSkipped
  <1>14. tasks # << >> \/ db'.status \in {"planning", "executing", "paused", "done"} => AsksSkipped(db')
    <2>1. CASE AsksSkipped(db)
      BY <1>9, <2>1
    <2>2. CASE ~AsksSkipped(db)
      <3>1. tasks = << >> /\ db.status \notin {"planning", "executing", "paused", "done"}
        BY <2>2 DEF Asked
      <3>2. CASE Head(todo[p]) # 0
        BY <1>6, <3>1, <3>2
      <3>3. CASE Head(todo[p]) = 0
        <4>1. \E i \in 1 .. Len(todo[p]) : todo[p][i] = 0
          BY <1>1, <3>3, HeadTailProperties
        <4>2. pc[p] = "replied"
          BY <1>1, <1>7, <2>2, <4>1 DEF AskedAt, Saving
        <4>3. copy[p].status \in {"awaiting_approval", "cancelled"}
          BY <1>7, <4>2 DEF AskedAt
        <4> QED BY <1>6, <3>1, <3>3, <4>3
      <3> QED BY <3>2, <3>3
    <2> QED BY <2>1, <2>2
  <1> QED BY <1>4, <1>12, <1>13, <1>14 DEF Asked, AsksSkipped

(* What the loop dispatches, or a worker. *)
ConsentFirst == \A s \in Steps : started'[s] # started[s] => s \notin goal.asks

(* The loop never begins a step that is skipped. *)
LEMMA WalkAsked ==
  ASSUME Typed, Fresh, Asked, OneFront, NEW p \in Processes, UNCHANGED goal, Walk(p)
  PROVE  Asked' /\ ConsentFirst
  <1>1. /\ copy[p] \in Plan /\ db \in Plan /\ goal \in Goals /\ todo[p] \in Seq(Rows)
        /\ goal.asks \subseteq Steps /\ started \in [Steps -> Nat]
    BY PlanAssumption DEF Typed, TypeOK, Rows, Steps
  <1>2. AskedAt(pc[p], copy[p], todo[p], cur[p])
    BY DEF Asked
  <1>3. pc[p] \in CurLabels => cur[p] \in Steps /\ cur[p] \notin goal.asks
    BY <1>2 DEF Typed, CurSet, AskedAt
  <1>4. pc[p] \in Walking /\ todo[p] = << >> => AsksSkipped(copy[p]) /\ AsksSkipped(db)
    BY <1>2 DEF AskedAt, AsksSkipped, Saving
  <1>5. pc[p] \in Walking \ {"execute"} => AsksSkipped(copy[p]) /\ AsksSkipped(db)
    BY <1>2 DEF AskedAt
  <1>6. ASSUME NEW plan, NEW rows, NEW label \in Walking, Save(p, plan, rows, label),
               UNCHANGED <<db, tasks, payload>>,
               AsksSkipped(db), AsksSkipped(plan), label \in CurLabels => cur'[p] \notin goal.asks,
               cur' = cur \/ \E s \in Steps : cur' = [cur EXCEPT ![p] = s]
        PROVE  Asked'
    <2>1. AskedAt(label, plan, rows, cur'[p])
      BY <1>6 DEF AskedAt, AsksSkipped, Walking, CurLabels
    <2>2. \A i \in 1 .. Len(payload') : i \in 1 .. Len(payload) /\ payload'[i] = payload[i]
      BY <1>6
    <2>3. \A q \in Processes \ {p} : cur'[q] = cur[q]
      BY <1>6 DEF Typed, TypeOK
    <2> QED BY <1>6, <2>1, <2>2, <2>3, SaveAsked
  <1>7. \A status \in PlanStates : [copy[p] EXCEPT !.status = status].step = copy[p].step
    BY <1>1, PlanStatusFacts
  <1>8. \A s \in Steps, status \in StepStates : \A r \in Steps \ {s} : SetStatus(copy[p], s, status).step[r] = copy[p].step[r]
    BY <1>1, SetStatusFacts
  <1> HIDE DEF Whole, Save
  <1>9. CASE Flush(p)
    BY <1>9, FlushAsked DEF ConsentFirst, Flush, history
  <1>10. CASE Execute(p) \/ Finish(p)
    <2>1. PICK status \in PlanStates, label \in {"loop", "finished"} : Save(p, [copy[p] EXCEPT !.status = status], Whole, label)
      BY <1>10 DEF Execute, Finish, PlanStates
    <2>2. AsksSkipped(copy[p]) /\ AsksSkipped(db)
      BY <1>4, <1>10 DEF Execute, Finish, At, Walking
    <2>3. AsksSkipped([copy[p] EXCEPT !.status = status])
      BY <1>7, <2>2 DEF AsksSkipped
    <2> QED BY <1>6, <1>10, <2>1, <2>2, <2>3 DEF Execute, Finish, Walking, CurLabels, queue,
               history, ConsentFirst
  <1>11. CASE Advance(p)
    <2>1. Save(p, copy[p], todo[p], "loop") /\ UNCHANGED <<db, queue, cur, history>> /\ pc[p] = "advance"
      BY <1>11 DEF Advance, At, Save, Typed, TypeOK
    <2> QED BY <1>5, <1>6, <2>1 DEF Walking, CurLabels, queue, history, ConsentFirst
  <1>12. CASE Return(p)
    BY <1>12, LeaveAsked DEF Return, queue, history, ConsentFirst
  <1>13. ASSUME NEW s \in Steps, SkipStep(p, s) PROVE Asked' /\ ConsentFirst
    <2>1. AsksSkipped(copy[p]) /\ AsksSkipped(db)
      BY <1>5, <1>13 DEF SkipStep, At, Walking
    <2>2. "skipped" \in StepStates
      BY DEF StepStates
    <2>3. AsksSkipped(SetStatus(copy[p], s, "skipped"))
      <3>1. SetStatus(copy[p], s, "skipped").step[s].status = "skipped"
        BY <1>1, <2>2, SetStatusFacts
      <3> QED BY <1>1, <1>8, <2>1, <2>2, <3>1 DEF AsksSkipped
    <2> QED BY <1>6, <1>13, <2>1, <2>3 DEF SkipStep, Walking, CurLabels, queue, history,
               ConsentFirst
  <1>14. ASSUME NEW s \in Steps, BeginStep(p, s) PROVE Asked' /\ ConsentFirst
    <2> DEFINE row == [status |-> "running", attempts |-> copy[p].step[s].attempts + 1]
               plan == [copy[p] EXCEPT !.step = [@ EXCEPT ![s] = row]]
    <2>1. AsksSkipped(copy[p]) /\ AsksSkipped(db)
      BY <1>5, <1>14 DEF BeginStep, At, Walking
    <2>2. s \notin goal.asks
      BY <1>14, <2>1 DEF BeginStep, Next1, Status, AsksSkipped
    <2>3. AsksSkipped(plan)
      BY <1>1, <2>1, <2>2 DEF AsksSkipped, Plan
    <2>4. Save(p, plan, <<s>>, "dispatch") /\ cur' = [cur EXCEPT ![p] = s]
          /\ UNCHANGED <<db, tasks, payload, started>>
      BY <1>14 DEF BeginStep, queue, history
    <2>5. cur'[p] = s
      BY <2>4 DEF Typed, TypeOK
    <2> HIDE DEF plan
    <2>6. "dispatch" \in Walking
      BY DEF Walking, CurLabels
    <2> QED BY <1>6, <2>1, <2>2, <2>3, <2>4, <2>5, <2>6 DEF ConsentFirst
  <1>15. CASE DispatchSucceeds(p)
    <2>1. cur[p] \in Steps /\ cur[p] \notin goal.asks /\ AsksSkipped(copy[p]) /\ AsksSkipped(db)
      BY <1>3, <1>5, <1>15 DEF DispatchSucceeds, At, Walking, CurLabels
    <2>2. AsksSkipped(SetStatus(copy[p], cur[p], "done"))
      BY <1>1, <1>8, <2>1 DEF AsksSkipped, StepStates
    <2>3. ConsentFirst
      BY <1>1, <1>15, <2>1 DEF DispatchSucceeds, ConsentFirst
    <2> QED BY <1>6, <1>15, <2>1, <2>2, <2>3 DEF DispatchSucceeds, Walking, CurLabels, queue
  <1>16. CASE DispatchFails(p)
    <2>1. cur[p] \in Steps /\ cur[p] \notin goal.asks /\ AsksSkipped(copy[p]) /\ AsksSkipped(db)
      BY <1>3, <1>5, <1>16 DEF DispatchFails, At, Walking, CurLabels
    <2>2. PICK plan \in Plan, rows \in Seq(Rows) :
            Save(p, plan, rows, "paused") /\ \A r \in Steps \ {cur[p]} : plan.step[r] = copy[p].step[r]
      BY <1>16, <2>1, FailFacts DEF DispatchFails
    <2>3. AsksSkipped(plan)
      BY <1>1, <2>1, <2>2 DEF AsksSkipped
    <2>4. ConsentFirst
      BY <1>1, <1>16, <2>1 DEF DispatchFails, ConsentFirst
    <2> QED BY <1>6, <1>16, <2>1, <2>2, <2>3, <2>4 DEF DispatchFails, Walking, CurLabels, queue
  <1>17. CASE EnqueueSelect(p)
    <2>1. cur[p] \notin goal.asks /\ AsksSkipped(copy[p]) /\ AsksSkipped(db)
      BY <1>3, <1>5, <1>17 DEF EnqueueSelect, At, Walking, CurLabels
    <2> QED BY <1>6, <1>17, <2>1 DEF EnqueueSelect, Walking, CurLabels, queue, history,
               ConsentFirst
  <1>18. CASE EnqueueInsert(p)
    <2>1. cur[p] \in Steps /\ cur[p] \notin goal.asks /\ AsksSkipped(copy[p]) /\ AsksSkipped(db)
      BY <1>3, <1>5, <1>18 DEF EnqueueInsert, At, Walking, CurLabels
    <2>2. /\ Save(p, copy[p], <<cur[p]>> \o Whole, "enqueued")
          /\ payload' = Append(payload, Key(p)) /\ UNCHANGED <<goal, db, cur, history>>
      BY <1>18 DEF EnqueueInsert
    <2>3. Key(p).step = cur[p]
      BY DEF Key
    <2>4. \A i \in 1 .. Len(payload') :
            (i \in 1 .. Len(payload) /\ payload'[i] = payload[i]) \/ payload'[i] = Key(p)
      <3> DEFINE Job == [step : Steps, attempts : Nat]
      <3>1. payload \in Seq(Job) /\ Len(payload) \in Nat
        BY DEF Typed, TypeOK
      <3> HIDE DEF Job
      <3> QED BY <2>2, <3>1
    <2>5. AskedAt("enqueued", copy[p], <<cur[p]>> \o Whole, cur'[p])
      BY <2>1, <2>2 DEF AskedAt, AsksSkipped, Walking, CurLabels
    <2>6. \A q \in Processes \ {p} : cur'[q] = cur[q]
      BY <2>2
    <2>7. Asked'
      BY <2>1, <2>2, <2>3, <2>4, <2>5, <2>6, SaveAsked
    <2> QED BY <2>2, <2>7 DEF ConsentFirst, history
  <1> QED BY <1>9, <1>10, <1>11, <1>12, <1>13, <1>14, <1>15, <1>16, <1>17, <1>18 DEF Walk
(* A worker holds a row only when every step that asks is skipped. *)
LEMMA WorkAsked ==
  ASSUME Typed, Asked, NEW w \in Workers, UNCHANGED goal, Work(w)
  PROVE  Asked' /\ ConsentFirst
  <1>1. /\ w \in Processes /\ copy[w] \in Plan /\ db \in Plan /\ goal.asks \subseteq Steps
        /\ started \in [Steps -> Nat] /\ Loaded(w).step = db.step
    BY PlanAssumption, LoadedFacts DEF Typed, TypeOK, Processes, Steps
  <1>2. AskedAt(pc[w], copy[w], todo[w], cur[w])
    BY <1>1 DEF Asked
  <1>3. pc[w] # "idle" => AsksSkipped(db) /\ JobStep(w) \in Steps \ goal.asks
    BY JobFacts, WorkerAsked DEF Asked, JobStep
  <1>4. ASSUME NEW plan, NEW rows, NEW label, Save(w, plan, rows, label),
               UNCHANGED <<db, queue, cur>>,
               AskedAt(label, plan, rows, cur[w])
        PROVE  Asked'
    <2>1. \A i \in 1 .. Len(payload') : i \in 1 .. Len(payload) /\ payload'[i] = payload[i]
      BY <1>4 DEF queue
    <2>2. tasks' = tasks /\ cur' = cur
      BY <1>4 DEF queue
    <2> QED BY <1>1, <1>4, <2>1, <2>2, SaveAsked
  <1>5. ASSUME UNCHANGED <<db, copy, cur, todo, payload>>, NEW label \in {"load", "idle"},
               pc' = [pc EXCEPT ![w] = label], Len(tasks') = Len(tasks),
               tasks \in Seq({"queued", "running", "done", "failed"}), tasks # << >>
        PROVE  Asked'
    <2>1. \A q \in Processes : AskedAt(pc'[q], copy[q], todo[q], cur[q])
      <3>1. AskedAt(label, copy[w], todo[w], cur[w])
        BY <1>5 DEF AskedAt, Saving, Walking, CurLabels
      <3> QED BY <1>1, <1>5, <3>1 DEF Asked, Typed, TypeOK
    <2>2. \A q \in Processes : AskedAt(pc[q], copy[q], todo[q], cur[q])'
      BY <1>5, <2>1 DEF AskedAt, AsksSkipped
    <2>3. AsksSkipped(db) /\ AsksSkipped(db')
      BY <1>5 DEF Asked, AsksSkipped
    <2> QED BY <1>5, <2>2, <2>3 DEF Asked, AsksSkipped
  <1>6. tasks \in Seq({"queued", "running", "done", "failed"})
    BY DEF Typed, TypeOK
  <1> HIDE DEF Whole, Save, NewPlan, Loaded
  <1>7. ASSUME NEW i \in 1 .. Len(tasks), Take(w, i) PROVE Asked' /\ ConsentFirst
    <2>1. /\ tasks' = [tasks EXCEPT ![i] = "running"] /\ pc' = [pc EXCEPT ![w] = "load"]
          /\ UNCHANGED <<db, copy, cur, todo, payload, started>>
      BY <1>7 DEF Take, Queue!Take, history
    <2>2. Len(tasks') = Len(tasks) /\ tasks # << >>
      BY <1>6, <2>1
    <2> QED BY <1>5, <1>6, <2>1, <2>2 DEF ConsentFirst
  <1>8. CASE LoadPlan(w)
    <2>1. PICK plan : Save(w, plan, << >>, "loaded")
      BY <1>8 DEF LoadPlan
    <2>2. AskedAt("loaded", plan, << >>, cur[w])
      BY DEF AskedAt, Saving, Walking, CurLabels
    <2> QED BY <1>4, <1>8, <2>1, <2>2 DEF LoadPlan, history, ConsentFirst
  <1>9. CASE LoadSteps(w)
    <2>1. CASE Leave(w, "complete")
      BY <1>1, <1>9, <2>1, LeaveAsked DEF LoadSteps, queue, history, ConsentFirst
    <2>2. CASE Save(w, Loaded(w), << >>, "work") /\ UNCHANGED cur
      <3>1. AsksSkipped(db)
        BY <1>3, <1>9 DEF LoadSteps, At
      <3>2. AskedAt("work", Loaded(w), << >>, cur[w])
        BY <1>1, <3>1 DEF AskedAt, AsksSkipped, CurLabels
      <3> QED BY <1>4, <1>9, <2>2, <3>2 DEF LoadSteps, history, ConsentFirst
    <2> QED BY <1>9, <2>1, <2>2 DEF LoadSteps
  <1>10. CASE WorkSucceeds(w) \/ WorkFails(w)
    <2>1. pc[w] = "work" /\ AsksSkipped(db) /\ JobStep(w) \in Steps \ goal.asks /\ AsksSkipped(copy[w])
      BY <1>2, <1>3, <1>10 DEF WorkSucceeds, WorkFails, At, AskedAt, Walking
    <2>2. ConsentFirst
      BY <1>1, <1>10, <2>1 DEF WorkSucceeds, WorkFails, ConsentFirst
    <2>3. ASSUME NEW plan, NEW rows, NEW label \in {"execute", "gaveup"},
                 Save(w, plan, rows, label),
                 \A r \in Steps \ {JobStep(w)} : plan.step[r] = copy[w].step[r]
          PROVE  Asked'
      <3>1. AsksSkipped(plan)
        BY <1>1, <2>1, <2>3 DEF AsksSkipped
      <3>2. AskedAt(label, plan, rows, cur[w])
        BY <2>1, <3>1 DEF AskedAt, AsksSkipped, CurLabels
      <3>3. UNCHANGED <<db, queue, cur>>
        BY <1>10 DEF WorkSucceeds, WorkFails
      <3> QED BY <1>4, <2>3, <3>2, <3>3
    <2>4. CASE WorkFails(w)
      <3>1. PICK plan \in Plan, rows \in Seq(Rows) :
              /\ Save(w, plan, rows, "gaveup")
              /\ \A r \in Steps \ {JobStep(w)} : plan.step[r] = copy[w].step[r]
        BY <1>1, <2>1, <2>4, FailFacts DEF WorkFails
      <3> QED BY <2>2, <2>3, <3>1
    <2>5. CASE WorkSucceeds(w)
      <3>1. "done" \in StepStates
        BY DEF StepStates
      <3>2. \A r \in Steps \ {JobStep(w)} : SetStatus(copy[w], JobStep(w), "done").step[r] = copy[w].step[r]
        BY <1>1, <2>1, <3>1, SetStatusFacts
      <3> QED BY <2>2, <2>3, <2>5, <3>2 DEF WorkSucceeds
    <2> QED BY <1>10, <2>4, <2>5
  <1>11. CASE Complete(w)
    <2>1. /\ tasks' = [tasks EXCEPT ![held[w]] = "done"] /\ pc' = [pc EXCEPT ![w] = "idle"]
          /\ pc[w] # "idle" /\ UNCHANGED <<db, copy, cur, todo, payload, started>>
      BY <1>11 DEF Complete, Queue!Settle, At, history
    <2>2. Len(tasks') = Len(tasks) /\ tasks # << >>
      BY <1>6, <2>1, WorkerAsked
    <2> QED BY <1>5, <1>6, <2>1, <2>2 DEF ConsentFirst
  <1> QED BY <1>7, <1>8, <1>9, <1>10, <1>11 DEF Work

(* A step that fails was under way, so it is none that asks. *)
LEMMA FaultAsked ==
  ASSUME Typed, Asked, UNCHANGED goal, Fault
  PROVE  Asked' /\ ConsentFirst
  <1>1. ASSUME NEW p \in Processes, NEW s \in Steps \ goal.asks,
               NEW label \in {"paused", "gaveup"}, Fail(p, s, label),
               UNCHANGED <<db, queue, cur>>, AsksSkipped(copy[p]), AsksSkipped(db)
        PROVE  Asked'
    <2>1. PICK plan \in Plan, rows \in Seq(Rows) :
              /\ Save(p, plan, rows, label)
              /\ \A r \in Steps \ {s} : plan.step[r] = copy[p].step[r]
      BY <1>1, FailFacts
    <2>2. goal.asks \subseteq Steps
      BY PlanAssumption DEF Typed, Steps
    <2>3. AsksSkipped(plan)
      BY <1>1, <2>1, <2>2 DEF AsksSkipped
    <2>4. AskedAt(label, plan, rows, cur'[p])
      BY <1>1, <2>3 DEF AskedAt, AsksSkipped, CurLabels
    <2>5. \A i \in 1 .. Len(payload') : i \in 1 .. Len(payload) /\ payload'[i] = payload[i]
      BY <1>1 DEF queue
    <2>6. UNCHANGED <<goal, db, tasks>> /\ \A q \in Processes \ {p} : cur'[q] = cur[q]
      BY <1>1 DEF queue
    <2> QED BY <2>1, <2>4, <2>5, <2>6, SaveAsked
  <1>2. ASSUME NEW p \in Processes PROVE AskedAt(pc[p], copy[p], todo[p], cur[p])
    BY DEF Asked
  <1>3. ASSUME NEW p \in Processes, StepWriteRaises(p) PROVE Asked'
    <2>1. pc[p] \in CurLabels
      BY <1>3 DEF StepWriteRaises, At, CurLabels
    <2>2. cur[p] \in Steps \ goal.asks /\ AsksSkipped(copy[p]) /\ AsksSkipped(db)
      BY <1>2, <2>1 DEF Typed, CurSet, CurLabels, AskedAt, Walking
    <2> QED BY <1>1, <1>3, <2>2 DEF StepWriteRaises
  <1>4. ASSUME NEW w \in Workers, WalkWriteRaises(w) PROVE Asked'
    <2>1. pc[w] # "idle" /\ pc[w] \in Walking /\ w \in Processes
      BY <1>4 DEF WalkWriteRaises, Processes, Walking, CurLabels
    <2>2. JobStep(w) \in Steps \ goal.asks /\ AsksSkipped(db)
      BY <2>1, JobFacts, WorkerAsked DEF JobStep, Asked
    <2>3. AsksSkipped(copy[w])
      BY <1>2, <2>1 DEF AskedAt
    <2> QED BY <1>1, <1>4, <2>1, <2>2, <2>3 DEF WalkWriteRaises
  <1>5. ASSUME NEW p \in Processes, Leave(p, "idle"), UNCHANGED <<db, payload>>,
               tasks' # << >> => tasks # << >>
        PROVE  Asked'
    BY <1>5, LeaveAsked
  <1>6. ASSUME NEW f \in Fronts, FrontWriteRaises(f) PROVE Asked'
    BY <1>5, <1>6 DEF FrontWriteRaises, queue, Processes
  <1>7. ASSUME NEW w \in Workers, JobRaises(w) PROVE Asked'
    <2>1. pc[w] # "idle"
      BY <1>7 DEF JobRaises, At
    <2>2. tasks # << >>
      BY <2>1, WorkerAsked
    <2> QED BY <1>5, <1>7, <2>2 DEF JobRaises, Processes
  <1>8. ASSUME NEW p \in Processes, Crash(p) PROVE Asked'
    <2>1. tasks' = tasks
      BY <1>8 DEF Crash, Queue!Drop
    <2> QED BY <1>5, <1>8, <2>1 DEF Crash
  <1>9. UNCHANGED started
    BY DEF Fault, StepWriteRaises, WalkWriteRaises, FrontWriteRaises, JobRaises, Crash, history
  <1> QED BY <1>3, <1>4, <1>6, <1>7, <1>8, <1>9 DEF Fault, ConsentFirst

(* Asked holds at first. *)
LEMMA InitAsked == Init => Asked
  <1> SUFFICES ASSUME Init PROVE Asked
    OBVIOUS
  <1>1. goal \in Goals /\ db = Blank(Unsaved) /\ tasks = << >> /\ Len(payload) = 0
    BY DEF Init, Queue!Init
  <1>2. db.status = "none"
    BY <1>1, BlankFacts
  <1>3. \A p \in Processes : pc[p] = "idle"
    BY DEF Init
  <1> HIDE DEF NewPlan, Blank
  <1> QED BY <1>1, <1>2, <1>3 DEF Asked, AskedAt, Saving, Walking, CurLabels

(* Once the user has consented, or resumed the plan, there is nothing left to show. *)
LEMMA NextAsked ==
  ASSUME OneFront
  PROVE  Typed /\ Fresh /\ (Go \/ Asked) /\ [Next]_vars =>
           /\ (Go \/ Asked)'
           /\ Go \/ ConsentFirst
  <1> SUFFICES ASSUME Typed, Fresh, Go \/ Asked, [Next]_vars
               PROVE  (Go \/ Asked)' /\ (Go \/ ConsentFirst)
    OBVIOUS
  <1>1. Go => Go'
    <2>1. {"resume"} \in SUBSET FaultKinds
      BY DEF FaultKinds
    <2> QED BY <2>1, LimitsStay DEF Go
  <1>2. CASE Go
    BY <1>1, <1>2
  <1>3. CASE ~Go
    <2>1. CASE UNCHANGED vars
      <3>1. UNCHANGED <<goal, db, tasks, payload, pc, copy, cur, todo, started>>
        BY <2>1 DEF vars
      <3>2. ConsentFirst
        BY <3>1 DEF ConsentFirst
      <3>3. \A p : AskedAt(pc[p], copy[p], todo[p], cur[p])' <=> AskedAt(pc[p], copy[p], todo[p], cur[p])
        BY <3>1 DEF AskedAt, AsksSkipped
      <3> QED BY <1>3, <3>1, <3>2, <3>3 DEF Asked, AsksSkipped
    <2>2. ASSUME NEW f \in Fronts, User(f) \/ Answer(f) PROVE (Go' \/ Asked') /\ ConsentFirst
      <3>1. UNCHANGED started
        BY <2>2 DEF User, Answer, Run, Reply, Resume, ReadPlan, ReplyAbort, ReplyYes, ReplySkip,
                    ReplyContinue, ReplyIgnored, ResumeSteps, history
      <3>2. Go' \/ Asked'
        BY <1>3, <2>2, FrontAsked DEF User, Answer
      <3> QED BY <3>1, <3>2 DEF ConsentFirst
    <2>3. ASSUME NEW p \in Processes, Walk(p) PROVE Asked' /\ ConsentFirst
      BY <1>3, <2>3, WalkAsked DEF Walk
    <2>4. ASSUME NEW w \in Workers, Work(w) PROVE Asked' /\ ConsentFirst
      BY <1>3, <2>4, WorkAsked DEF Work
    <2>5. CASE Fault
      BY <1>3, <2>5, FaultAsked DEF Fault
    <2> QED BY <2>1, <2>2, <2>3, <2>4, <2>5 DEF Next
  <1> QED BY <1>2, <1>3
-----------------------------------------------------------------------------
(* A plan whose steps all run inline, when the user writes in one channel. *)

(***************************************************************************)
(* While it walks, a front's copy is what is stored, but for the rows it   *)
(* has still to save; the step it dispatches is running.                   *)
(***************************************************************************)
InlineAt(label, plan, rows, step) ==
  /\ label \in {"loop", "dispatch", "advance", "paused", "finished"} =>
       /\ \A s \in Steps : (\E i \in 1 .. Len(rows) : rows[i] = s) \/ db.step[s] = plan.step[s]
       /\ (\E i \in 1 .. Len(rows) : rows[i] = 0) \/ db.status = plan.status
  /\ label \in {"loop", "dispatch", "advance"} => plan.status = "executing"
  /\ label = "dispatch" => plan.step[step].status = "running"
  /\ label \notin {"insert", "enqueued"}

Inline == tasks = << >> /\ \A f \in Fronts : InlineAt(pc[f], copy[f], todo[f], cur[f])

(* What succeeded is done in every copy that is saved, and in the database but for a row to be saved. *)
DoneAt(label, plan, rows) ==
  \A s \in Steps : effects[s] = 1 =>
    /\ label \in Saving => plan.step[s].status = "done"
    /\ db.step[s].status = "done" \/ \E i \in 1 .. Len(rows) : rows[i] = s

OnceEach == (\A s \in Steps : effects[s] <= 1) /\ \A f \in Fronts : DoneAt(pc[f], copy[f], todo[f])

Safe == Without({"error", "crash"})

InlineInv == goal.queued = {} => Inline /\ (Safe => OnceEach)

RunningOnly == \A s \in Steps : started'[s] # started[s] =>
                 db.step[s].status = "running" /\ db.status = "executing"

(* Nothing is queued, so no worker does anything. *)
LEMMA WorkersIdle ==
  ASSUME Typed, Inline, NEW w \in Workers
  PROVE  pc[w] = "idle" /\ todo[w] = << >>
  <1>1. Len(tasks) = 0 /\ w \in Processes
    BY DEF Inline, Processes
  <1>2. pc[w] = "idle"
    BY <1>1 DEF Typed, Busy
  <1> QED BY <1>1, <1>2 DEF Typed, SavingOnly, Saving, Walking, CurLabels

(* A step of f that saves a copy which agrees with the database. *)
LEMMA SaveInline ==
  ASSUME Typed, Inline, OneFront, NEW f \in Fronts, NEW plan, NEW rows, NEW label,
         Save(f, plan, rows, label), UNCHANGED <<goal, db, tasks>>,
         InlineAt(label, plan, rows, cur'[f])
  PROVE  Inline'
  <1>1. \A g \in Fronts : g = f
    BY DEF OneFront
  <1>2. f \in Processes
    BY DEF Processes
  <1>3. copy'[f] = plan /\ todo'[f] = rows /\ pc'[f] = label
    BY <1>2, SaveFacts
  <1> QED BY <1>1, <1>3 DEF Inline, InlineAt, Steps

(* At these labels the copy need not agree with it. *)
LEMMA AsideInline ==
  ASSUME Typed, Inline, OneFront, NEW f \in Fronts, NEW plan, NEW rows,
         NEW label \in {"idle", "reply", "resume", "replied", "execute"},
         Save(f, plan, rows, label), UNCHANGED <<goal, db, tasks>>
  PROVE  Inline'
  <1>1. InlineAt(label, plan, rows, cur'[f])
    BY DEF InlineAt
  <1> QED BY <1>1, SaveInline

(* A front that reads, or answers, does not walk yet. *)
LEMMA FrontInline ==
  ASSUME Typed, Inline, OneFront, NEW f \in Fronts, UNCHANGED goal, User(f) \/ Answer(f)
  PROVE  Inline'
  <1>1. UNCHANGED <<db, tasks>>
    BY DEF User, Answer, Run, Reply, Resume, ReadPlan, ReplyAbort, ReplyYes, ReplySkip,
           ReplyContinue, ReplyIgnored, ResumeSteps, queue
  <1> HIDE DEF Whole, NewPlan, Loaded, Save
  <1>2. CASE Run(f)
    BY <1>1, <1>2, AsideInline DEF Run
  <1>3. CASE Reply(f) \/ Resume(f)
    BY <1>1, <1>3, AsideInline DEF Reply, Resume, ReadPlan
  <1>4. CASE ReplyAbort(f) \/ ReplyYes(f)
    BY <1>1, <1>4, AsideInline DEF ReplyAbort, ReplyYes
  <1>5. ASSUME NEW s \in Steps, ReplySkip(f, s) PROVE Inline'
    BY <1>1, <1>5, AsideInline DEF ReplySkip
  <1>6. CASE ReplyContinue(f)
    BY <1>1, <1>6, AsideInline DEF ReplyContinue
  <1>7. CASE ReplyIgnored(f)
    BY <1>1, <1>7, AsideInline DEF ReplyIgnored, Leave
  <1>8. CASE ResumeSteps(f)
    BY <1>1, <1>8, AsideInline DEF ResumeSteps
  <1> QED BY <1>2, <1>3, <1>4, <1>5, <1>6, <1>7, <1>8 DEF User, Answer

(* A row that is saved becomes what it is in the copy. *)
LEMMA FlushInline ==
  ASSUME Typed, Inline, OneFront, NEW f \in Fronts, UNCHANGED goal, Flush(f)
  PROVE  Inline'
  <1>1. /\ copy[f] \in Plan /\ db \in Plan /\ goal \in Goals /\ todo[f] \in Seq(Rows) /\ todo[f] # << >>
        /\ f \in Processes /\ \A g \in Fronts : g = f
    BY DEF Typed, TypeOK, Flush, Rows, Processes, OneFront
  <1>2. 0 \notin Steps
    <2>1. Steps = 1 .. Len(goal.deps) /\ Len(goal.deps) \in Nat
      BY <1>1, PlanAssumption DEF Steps
    <2> QED BY <2>1
  <1>3. Head(todo[f]) \in Rows /\ Tail(todo[f]) \in Seq(Rows)
    BY <1>1, TailFacts
  <1>4. todo'[f] = Tail(todo[f]) /\ UNCHANGED <<tasks, pc, copy, cur>>
    BY <1>1 DEF Flush, queue, Typed, TypeOK
  <1>5. \A s \in Steps : db'.step[s] = IF Head(todo[f]) = s THEN copy[f].step[s] ELSE db.step[s]
    BY <1>1, <1>2, <1>3 DEF Flush, Plan, Rows
  <1>6. db'.status = IF Head(todo[f]) = 0 THEN copy[f].status ELSE db.status
    BY <1>1, <1>2, <1>3 DEF Flush, Plan, Rows
  <1>7. InlineAt(pc[f], copy[f], todo[f], cur[f])
    BY DEF Inline
  <1>8. ASSUME NEW r \in Rows, r # Head(todo[f]), \E i \in 1 .. Len(todo[f]) : todo[f][i] = r
        PROVE  \E j \in 1 .. Len(Tail(todo[f])) : Tail(todo[f])[j] = r
    BY <1>1, <1>8, TailFacts
  <1>9. ASSUME NEW s \in Steps,
               (\E i \in 1 .. Len(todo[f]) : todo[f][i] = s) \/ db.step[s] = copy[f].step[s]
        PROVE  (\E i \in 1 .. Len(Tail(todo[f])) : Tail(todo[f])[i] = s) \/ db'.step[s] = copy[f].step[s]
    BY <1>5, <1>8, <1>9 DEF Rows
  <1>10. ASSUME (\E i \in 1 .. Len(todo[f]) : todo[f][i] = 0) \/ db.status = copy[f].status
         PROVE  (\E i \in 1 .. Len(Tail(todo[f])) : Tail(todo[f])[i] = 0) \/ db'.status = copy[f].status
    BY <1>6, <1>8, <1>10 DEF Rows
  <1>11. InlineAt(pc[f], copy[f], todo[f], cur[f])'
    BY <1>4, <1>7, <1>9, <1>10 DEF InlineAt, Steps
  <1> QED BY <1>1, <1>4, <1>11 DEF Inline

(* Each step of the loop saves the one row it changes, the others all of them. *)
LEMMA WalkInline ==
  ASSUME Typed, Inline, OneFront, goal.queued = {}, NEW f \in Fronts, UNCHANGED goal, Walk(f)
  PROVE  Inline' /\ RunningOnly
  <1>1. /\ copy[f] \in Plan /\ db \in Plan /\ goal \in Goals /\ f \in Processes /\ f \notin Workers
        /\ started \in [Steps -> Nat] /\ tasks = << >>
    BY Apart DEF Typed, TypeOK, Processes, Inline
  <1>2. InlineAt(pc[f], copy[f], todo[f], cur[f]) /\ (pc[f] \in CurLabels => cur[f] \in Steps)
    BY <1>1 DEF Inline, Typed, CurSet
  <1>3. Whole \in Seq(Rows) /\ \A r \in Rows : \E i \in 1 .. Len(Whole) : Whole[i] = r
    BY <1>1, WholeFacts
  <1>4. \A s \in Steps : Len(<<s>>) = 1 /\ <<s>>[1] = s
    OBVIOUS
  <1>5. 0 \in Rows /\ Steps \subseteq Rows
    BY DEF Rows
  <1>6. pc[f] \in {"loop", "dispatch", "advance"} => copy[f].status = "executing"
    BY <1>2 DEF InlineAt
  <1>7. pc[f] \in {"loop", "dispatch", "advance"} /\ todo[f] = << >> =>
          db.status = copy[f].status /\ \A s \in Steps : db.step[s] = copy[f].step[s]
    BY <1>2 DEF InlineAt
  <1>8. \A s \in Steps, status \in StepStates :
          /\ SetStatus(copy[f], s, status).status = copy[f].status
          /\ \A r \in Steps \ {s} : SetStatus(copy[f], s, status).step[r] = copy[f].step[r]
    BY <1>1, SetStatusFacts
  <1>9. UNCHANGED started => RunningOnly
    BY DEF RunningOnly
  <1>10. ASSUME NEW s \in Steps, NEW plan, NEW label \in {"loop", "advance", "dispatch"},
                Save(f, plan, <<s>>, label),
                UNCHANGED <<db, tasks>>, plan.status = copy[f].status,
                label = "dispatch" => cur'[f] = s /\ plan.step[s].status = "running",
                \A r \in Steps \ {s} : plan.step[r] = copy[f].step[r],
                pc[f] \in {"loop", "dispatch", "advance"}, todo[f] = << >>
         PROVE  Inline'
    <2>1. InlineAt(label, plan, <<s>>, cur'[f])
      BY <1>4, <1>6, <1>7, <1>10 DEF InlineAt
    <2> QED BY <1>10, <2>1, SaveInline
  <1>11. \A status \in PlanStates : [copy[f] EXCEPT !.status = status].status = status
    BY <1>1, PlanStatusFacts
  <1> HIDE DEF Whole, Save
  <1>12. CASE Flush(f)
    BY <1>9, <1>12, FlushInline DEF Flush, history
  <1>13. CASE Execute(f)
    <2> DEFINE plan == [copy[f] EXCEPT !.status = "executing"]
    <2>1. plan.status = "executing"
      BY <1>11 DEF PlanStates
    <2>2. Save(f, plan, Whole, "loop") /\ UNCHANGED <<db, tasks, cur, started>>
      BY <1>13 DEF Execute, queue, history
    <2> HIDE DEF plan
    <2>3. InlineAt("loop", plan, Whole, cur'[f])
      BY <1>3, <1>5, <2>1 DEF InlineAt
    <2> QED BY <1>9, <2>2, <2>3, SaveInline
  <1>14. CASE Finish(f)
    <2> DEFINE plan == [copy[f] EXCEPT !.status = "done"]
    <2>1. Save(f, plan, Whole, "finished") /\ UNCHANGED <<db, tasks, cur, started>>
      BY <1>14 DEF Finish, queue, history
    <2> HIDE DEF plan
    <2>2. InlineAt("finished", plan, Whole, cur'[f])
      BY <1>3, <1>5 DEF InlineAt
    <2> QED BY <1>9, <2>1, <2>2, SaveInline
  <1>15. CASE Advance(f)
    <2>1. Save(f, copy[f], todo[f], "loop") /\ UNCHANGED <<db, tasks, cur, started>> /\ pc[f] = "advance"
      BY <1>1, <1>15 DEF Advance, At, Save, Typed, TypeOK, queue, history
    <2>2. InlineAt("loop", copy[f], todo[f], cur'[f])
      BY <1>2, <2>1 DEF InlineAt
    <2> QED BY <1>9, <2>1, <2>2, SaveInline
  <1>16. CASE Return(f)
    BY <1>1, <1>9, <1>16, AsideInline DEF Return, Leave, queue, history
  <1>17. ASSUME NEW s \in Steps, SkipStep(f, s) PROVE Inline' /\ RunningOnly
    BY <1>8, <1>9, <1>10, <1>17 DEF SkipStep, At, StepStates, queue, history
  <1>18. ASSUME NEW s \in Steps, BeginStep(f, s) PROVE Inline' /\ RunningOnly
    <2> DEFINE row == [status |-> "running", attempts |-> copy[f].step[s].attempts + 1]
               plan == [copy[f] EXCEPT !.step = [@ EXCEPT ![s] = row]]
    <2>1. /\ plan.status = copy[f].status /\ plan.step[s].status = "running"
          /\ \A r \in Steps \ {s} : plan.step[r] = copy[f].step[r]
      BY <1>1 DEF Plan
    <2>2. Save(f, plan, <<s>>, "dispatch") /\ cur' = [cur EXCEPT ![f] = s]
          /\ UNCHANGED <<db, tasks, started>> /\ pc[f] = "loop" /\ todo[f] = << >>
      BY <1>18 DEF BeginStep, At, queue, history
    <2>3. cur'[f] = s
      BY <1>1, <2>2 DEF Typed, TypeOK
    <2> HIDE DEF plan
    <2> QED BY <1>9, <1>10, <2>1, <2>2, <2>3
  <1>19. ASSUME pc[f] = "dispatch", todo[f] = << >>
         PROVE  cur[f] \in Steps /\ db.step[cur[f]].status = "running" /\ db.status = "executing"
    BY <1>2, <1>6, <1>7, <1>19 DEF InlineAt, CurLabels
  <1>20. CASE DispatchSucceeds(f)
    <2>1. RunningOnly
      BY <1>1, <1>19, <1>20 DEF DispatchSucceeds, At, RunningOnly
    <2>2. "done" \in StepStates
      BY DEF StepStates
    <2> QED BY <1>8, <1>10, <1>19, <1>20, <2>1, <2>2 DEF DispatchSucceeds, At, queue
  <1>21. CASE DispatchFails(f)
    <2>1. RunningOnly
      BY <1>1, <1>19, <1>21 DEF DispatchFails, At, RunningOnly
    <2>2. PICK plan \in Plan, rows \in Seq(Rows) :
            Save(f, plan, rows, "paused") /\ \A r \in Rows : \E i \in 1 .. Len(rows) : rows[i] = r
      BY <1>1, <1>19, <1>21, FailFacts DEF DispatchFails, At
    <2>3. InlineAt("paused", plan, rows, cur'[f])
      BY <1>5, <2>2 DEF InlineAt
    <2> QED BY <1>21, <2>1, <2>2, <2>3, SaveInline DEF DispatchFails, queue
  <1>22. ~EnqueueSelect(f) /\ ~EnqueueInsert(f)
    BY <1>2 DEF EnqueueSelect, EnqueueInsert, At, InlineAt
  <1> QED BY <1>12, <1>13, <1>14, <1>15, <1>16, <1>17, <1>18, <1>20, <1>21, <1>22 DEF Walk

(* A front that fails saves the whole plan, or leaves it. *)
LEMMA FaultInline ==
  ASSUME Typed, Inline, OneFront, goal.queued = {}, UNCHANGED goal, Fault
  PROVE  Inline' /\ RunningOnly
  <1>1. UNCHANGED started => RunningOnly
    BY DEF RunningOnly
  <1>2. UNCHANGED started /\ UNCHANGED db
    BY DEF Fault, StepWriteRaises, WalkWriteRaises, FrontWriteRaises, JobRaises, Crash, history
  <1>3. ASSUME NEW w \in Workers
        PROVE  ~StepWriteRaises(w) /\ ~WalkWriteRaises(w) /\ ~JobRaises(w) /\ ~Crash(w)
    BY WorkersIdle DEF StepWriteRaises, WalkWriteRaises, JobRaises, Crash, At
  <1>4. ASSUME NEW f \in Fronts, StepWriteRaises(f) PROVE Inline'
    <2>1. f \in Processes /\ InlineAt(pc[f], copy[f], todo[f], cur[f])
      BY DEF Processes, Inline
    <2>2. pc[f] = "advance" /\ cur[f] \in Steps /\ UNCHANGED tasks
      BY <1>4, <2>1 DEF StepWriteRaises, At, InlineAt, Typed, CurSet, CurLabels, queue
    <2>3. PICK plan \in Plan, rows \in Seq(Rows) :
            Save(f, plan, rows, "paused") /\ \A r \in Rows : \E i \in 1 .. Len(rows) : rows[i] = r
      BY <1>4, <2>1, <2>2, FailFacts DEF StepWriteRaises
    <2>4. InlineAt("paused", plan, rows, cur'[f])
      BY <2>3 DEF InlineAt, Rows
    <2> QED BY <1>2, <2>2, <2>3, <2>4, SaveInline
  <1>5. ASSUME NEW f \in Fronts, FrontWriteRaises(f) \/ Crash(f) PROVE Inline'
    <2>1. f \notin Workers
      BY Apart DEF Processes
    <2> QED BY <1>2, <1>5, <2>1, AsideInline DEF FrontWriteRaises, Crash, Leave, queue
  <1> QED BY <1>1, <1>2, <1>3, <1>4, <1>5 DEF Fault, Processes
(* A step of f that saves a copy with every success, or has the row still to save. *)
LEMMA SaveDone ==
  ASSUME Typed, OnceEach, OneFront, NEW f \in Fronts, NEW plan, NEW rows, NEW label,
         Save(f, plan, rows, label), UNCHANGED <<goal, db>>,
         \A s \in Steps : effects'[s] <= 1,
         \A s \in Steps : effects'[s] = 1 =>
           /\ label \in Saving => plan.step[s].status = "done"
           /\ db.step[s].status = "done" \/ \E i \in 1 .. Len(rows) : rows[i] = s
  PROVE  OnceEach'
  <1>1. \A g \in Fronts : g = f
    BY DEF OneFront
  <1>2. f \in Processes
    BY DEF Processes
  <1>3. copy'[f] = plan /\ todo'[f] = rows /\ pc'[f] = label
    BY <1>2, SaveFacts
  <1> QED BY <1>1, <1>3 DEF OnceEach, DoneAt, Steps

(* The user's reply is to a plan as it is stored, where what succeeded is done. *)
LEMMA FrontDone ==
  ASSUME Typed, Fresh, OnceEach, OneFront, NEW f \in Fronts, UNCHANGED goal, User(f) \/ Answer(f)
  PROVE  OnceEach'
  <1>1. /\ f \in Processes /\ copy[f] \in Plan /\ db \in Plan /\ Loaded(f) \in Plan /\ Loaded(f).step = db.step
        /\ DoneAt(pc[f], copy[f], todo[f])
    BY LoadedFacts DEF Typed, TypeOK, OnceEach, Processes
  <1>2. UNCHANGED <<db, effects>> /\ todo[f] = << >>
    BY DEF User, Answer, Run, Reply, Resume, ReadPlan, ReplyAbort, ReplyYes, ReplySkip,
           ReplyContinue, ReplyIgnored, ResumeSteps, history, At
  <1>3. \A s \in Steps : effects[s] = 1 => db.step[s].status = "done"
    BY <1>1, <1>2 DEF DoneAt
  <1>4. ASSUME NEW plan, NEW rows, NEW label, Save(f, plan, rows, label),
               label \in Saving => \A s \in Steps : db.step[s].status = "done" => plan.step[s].status = "done"
        PROVE  OnceEach'
    BY <1>2, <1>3, <1>4, SaveDone DEF OnceEach
  <1>5. "reply" \notin Saving /\ "resume" \notin Saving /\ "idle" \notin Saving
    BY DEF Saving, Walking, CurLabels
  <1>6. ASSUME NEW s \in Steps, db.step[s].status # "done", NEW status \in {"skipped", "pending"}
        PROVE  \A r \in Steps : db.step[r].status = "done" => SetStatus(Loaded(f), s, status).step[r].status = "done"
    <2>1. status \in StepStates
      BY DEF StepStates
    <2>2. \A r \in Steps \ {s} : SetStatus(Loaded(f), s, status).step[r] = db.step[r]
      BY <1>1, <2>1, SetStatusFacts
    <2> QED BY <1>6, <2>2
  <1> HIDE DEF Whole, NewPlan, Loaded, Save
  <1>7. CASE Run(f)
    <2>1. \A s \in Steps : db.step[s].status # "done"
      BY <1>7 DEF Run, Fresh, Unsaved
    <2> QED BY <1>4, <1>7, <2>1 DEF Run
  <1>8. CASE Reply(f) \/ Resume(f)
    BY <1>4, <1>5, <1>8 DEF Reply, Resume, ReadPlan
  <1>9. CASE ReplyAbort(f)
    <2>1. [Loaded(f) EXCEPT !.status = "cancelled"].step = db.step
      BY <1>1, PlanStatusFacts DEF PlanStates
    <2> QED BY <1>4, <1>9, <2>1 DEF ReplyAbort
  <1>10. CASE ReplyYes(f)
    BY <1>1, <1>4, <1>10 DEF ReplyYes
  <1>11. ASSUME NEW s \in Steps, ReplySkip(f, s) PROVE OnceEach'
    <2>1. db.step[s].status # "done"
      BY <1>11 DEF ReplySkip
    <2> QED BY <1>4, <1>6, <1>11, <2>1 DEF ReplySkip
  <1>12. CASE ReplyContinue(f)
    BY <1>1, <1>4, <1>6, <1>12 DEF ReplyContinue
  <1>13. CASE ReplyIgnored(f)
    BY <1>4, <1>5, <1>13 DEF ReplyIgnored, Leave
  <1>14. CASE ResumeSteps(f)
    <2> DEFINE saved == [s \in Steps |->
                   IF db.step[s].status \in {"failed", "running"}
                   THEN [db.step[s] EXCEPT !.status = "pending"] ELSE db.step[s]]
    <2>1. \A s \in Steps : db.step[s].status = "done" => saved[s].status = "done"
      OBVIOUS
    <2>2. Save(f, [copy[f] EXCEPT !.step = saved], << >>, "execute")
      BY <1>14 DEF ResumeSteps
    <2> HIDE DEF saved
    <2>3. [copy[f] EXCEPT !.step = saved].step = saved
      BY <1>1 DEF Plan
    <2> QED BY <1>4, <2>1, <2>2, <2>3
  <1> QED BY <1>7, <1>8, <1>9, <1>10, <1>11, <1>12, <1>13, <1>14 DEF User, Answer

(* The loop runs a step that is not done, and saves its success. *)
LEMMA WalkDone ==
  ASSUME Typed, Inline, OnceEach, OneFront, goal.queued = {}, NEW f \in Fronts, UNCHANGED goal,
         Walk(f)
  PROVE  OnceEach'
  <1>1. /\ f \in Processes /\ copy[f] \in Plan /\ db \in Plan /\ goal \in Goals /\ todo[f] \in Seq(Rows)
        /\ effects \in [Steps -> Nat] /\ (\A g \in Fronts : g = f)
        /\ pc[f] \in CurLabels => cur[f] \in Steps
    BY DEF Typed, TypeOK, Processes, OneFront, CurSet, Rows
  <1>2. DoneAt(pc[f], copy[f], todo[f]) /\ (\A s \in Steps : effects[s] <= 1)
        /\ InlineAt(pc[f], copy[f], todo[f], cur[f])
    BY DEF OnceEach, Inline
  <1>3. pc[f] \in Saving /\ todo[f] = << >> =>
          \A s \in Steps : effects[s] = 1 => copy[f].step[s].status = "done" /\ db.step[s].status = "done"
    BY <1>2 DEF DoneAt
  <1>4. ASSUME NEW plan, NEW rows, NEW label, Save(f, plan, rows, label),
               UNCHANGED <<db, effects>>,
               pc[f] \in Saving, todo[f] = << >>,
               \A s \in Steps : copy[f].step[s].status = "done" => plan.step[s].status = "done" \/ label \notin Saving
        PROVE  OnceEach'
    BY <1>2, <1>3, <1>4, SaveDone
  <1>5. \A s \in Steps, status \in StepStates : \A r \in Steps \ {s} : SetStatus(copy[f], s, status).step[r] = copy[f].step[r]
    BY <1>1, SetStatusFacts
  <1>6. {"loop", "execute", "dispatch", "advance"} \subseteq Saving /\ {"idle", "complete"} \cap Saving = {}
    BY DEF Saving, Walking, CurLabels
  <1>7. CASE Flush(f)
    <2>1. todo[f] # << >> /\ pc[f] \in Saving
      BY <1>1, <1>7 DEF Flush, Typed, SavingOnly
    <2>2. 0 \notin Steps
      <3>1. Steps = 1 .. Len(goal.deps) /\ Len(goal.deps) \in Nat
        BY <1>1, PlanAssumption DEF Steps
      <3> QED BY <3>1
    <2>3. Head(todo[f]) \in Rows
      BY <1>1, <2>1, TailFacts
    <2>4. \A s \in Steps : db'.step[s] = IF Head(todo[f]) = s THEN copy[f].step[s] ELSE db.step[s]
      BY <1>1, <1>7, <2>2, <2>3 DEF Flush, Plan, Rows
    <2>5. todo'[f] = Tail(todo[f]) /\ UNCHANGED <<pc, copy, effects>>
      BY <1>1, <1>7 DEF Flush, queue, history, Typed, TypeOK
    <2>6. ASSUME NEW s \in Steps, effects[s] = 1
          PROVE  /\ copy[f].step[s].status = "done"
                 /\ db'.step[s].status = "done" \/ \E j \in 1 .. Len(Tail(todo[f])) : Tail(todo[f])[j] = s
      <3>1. copy[f].step[s].status = "done"
        BY <1>2, <2>1, <2>6 DEF DoneAt
      <3>2. CASE Head(todo[f]) = s
        BY <2>4, <3>1, <3>2
      <3>3. CASE Head(todo[f]) # s
        <4>1. ASSUME NEW i \in 1 .. Len(todo[f]), todo[f][i] = s
              PROVE  \E j \in 1 .. Len(Tail(todo[f])) : Tail(todo[f])[j] = s
          BY <1>1, <2>1, <3>3, <4>1, TailFacts
        <4>2. db.step[s].status = "done" \/ \E i \in 1 .. Len(todo[f]) : todo[f][i] = s
          BY <1>2, <2>6 DEF DoneAt
        <4> QED BY <2>4, <3>1, <3>3, <4>1, <4>2
      <3> QED BY <3>2, <3>3, <3>1
    <2>7. Steps' = Steps
      BY DEF Steps
    <2>8. DoneAt(pc[f], copy[f], todo[f])'
      <3>1. /\ pc'[f] = pc[f] /\ copy'[f] = copy[f] /\ todo'[f] = Tail(todo[f])
            /\ \A s \in Steps : effects'[s] = effects[s]
        BY <2>5
      <3>2. ASSUME NEW s \in Steps, effects'[s] = 1
            PROVE  /\ copy'[f].step[s].status = "done"
                   /\ db'.step[s].status = "done" \/ \E i \in 1 .. Len(todo'[f]) : todo'[f][i] = s
        BY <2>6, <3>1, <3>2
      <3> QED BY <2>7, <3>2 DEF DoneAt
    <2>9. \A s \in Steps : effects'[s] <= 1
      BY <1>2, <2>5
    <2> QED BY <1>1, <2>7, <2>8, <2>9 DEF OnceEach
  <1> HIDE DEF Whole, Save
  <1>8. CASE Execute(f) \/ Finish(f)
    <2>1. \A status \in PlanStates : [copy[f] EXCEPT !.status = status].step = copy[f].step
      BY <1>1, PlanStatusFacts
    <2> QED BY <1>4, <1>6, <1>8, <2>1 DEF Execute, Finish, At, PlanStates, history
  <1>9. CASE Advance(f)
    <2>1. Save(f, copy[f], todo[f], "loop") /\ UNCHANGED <<db, effects>> /\ pc[f] = "advance" /\ todo[f] = << >>
      BY <1>1, <1>9 DEF Advance, At, Save, Typed, TypeOK, history
    <2> QED BY <1>4, <1>6, <2>1
  <1>10. CASE Return(f)
    <2>1. pc[f] \in Saving \/ ~(pc[f] \in Saving)
      OBVIOUS
    <2>2. pc[f] \in Saving /\ todo[f] = << >>
      BY <1>10 DEF Return, At, Saving, Walking, CurLabels
    <2> QED BY <1>4, <1>6, <1>10, <2>2 DEF Return, Leave, history
  <1>11. ASSUME NEW s \in Steps, Next1(f, s) PROVE copy[f].step[s].status # "done"
    BY <1>11 DEF Next1, Status
  <1>12. ASSUME NEW s \in Steps, SkipStep(f, s) PROVE OnceEach'
    BY <1>4, <1>5, <1>6, <1>11, <1>12 DEF SkipStep, At, StepStates, history
  <1>13. ASSUME NEW s \in Steps, BeginStep(f, s) PROVE OnceEach'
    <2> DEFINE row == [status |-> "running", attempts |-> copy[f].step[s].attempts + 1]
               plan == [copy[f] EXCEPT !.step = [@ EXCEPT ![s] = row]]
    <2>1. \A r \in Steps \ {s} : plan.step[r] = copy[f].step[r]
      BY <1>1 DEF Plan
    <2>2. Save(f, plan, <<s>>, "dispatch") /\ UNCHANGED <<db, effects>> /\ pc[f] = "loop" /\ todo[f] = << >> /\ Next1(f, s)
      BY <1>13 DEF BeginStep, At, history
    <2> HIDE DEF plan
    <2> QED BY <1>4, <1>6, <1>11, <2>1, <2>2
  <1>14. ASSUME pc[f] = "dispatch", todo[f] = << >>
         PROVE  cur[f] \in Steps /\ copy[f].step[cur[f]].status = "running" /\ effects[cur[f]] = 0
    <2>1. cur[f] \in Steps /\ copy[f].step[cur[f]].status = "running"
      BY <1>1, <1>2, <1>14 DEF InlineAt, CurLabels
    <2>2. effects[cur[f]] # 1 /\ effects[cur[f]] <= 1 /\ effects[cur[f]] \in Nat
      BY <1>1, <1>2, <1>3, <1>6, <1>14, <2>1
    <2> QED BY <2>1, <2>2
  <1>15. CASE DispatchSucceeds(f)
    <2> DEFINE c == cur[f]
               plan == SetStatus(copy[f], c, "done")
    <2>1. /\ c \in Steps /\ effects[c] = 0 /\ effects' = [effects EXCEPT ![c] = @ + 1] /\ pc[f] = "dispatch"
          /\ Save(f, plan, <<c>>, "advance") /\ UNCHANGED db /\ todo[f] = << >>
      BY <1>14, <1>15 DEF DispatchSucceeds, At
    <2>2. plan.step[c].status = "done" /\ \A r \in Steps \ {c} : plan.step[r] = copy[f].step[r]
      <3>1. "done" \in StepStates
        BY DEF StepStates
      <3> QED BY <1>1, <2>1, <3>1, SetStatusFacts
    <2>3. effects'[c] = 1 /\ \A r \in Steps \ {c} : effects'[r] = effects[r]
      BY <1>1, <2>1
    <2>4. Len(<<c>>) = 1 /\ <<c>>[1] = c
      OBVIOUS
    <2> HIDE DEF plan, c
    <2>5. \A s \in Steps : effects'[s] <= 1
      BY <1>2, <2>3
    <2>6. \A s \in Steps : effects'[s] = 1 =>
            /\ plan.step[s].status = "done"
            /\ db.step[s].status = "done" \/ \E i \in 1 .. Len(<<c>>) : <<c>>[i] = s
      BY <1>3, <1>6, <2>1, <2>2, <2>3, <2>4
    <2> QED BY <2>1, <2>5, <2>6, SaveDone
  <1>16. CASE DispatchFails(f)
    <2>1. /\ cur[f] \in Steps /\ copy[f].step[cur[f]].status = "running" /\ pc[f] = "dispatch" /\ todo[f] = << >>
          /\ UNCHANGED <<db, effects>>
      BY <1>14, <1>16 DEF DispatchFails, At
    <2>2. PICK plan \in Plan, rows \in Seq(Rows) :
            Save(f, plan, rows, "paused") /\ \A r \in Steps \ {cur[f]} : plan.step[r] = copy[f].step[r]
      BY <1>1, <1>16, <2>1, FailFacts DEF DispatchFails
    <2>3. \A s \in Steps : copy[f].step[s].status = "done" => plan.step[s].status = "done"
      BY <2>1, <2>2
    <2> QED BY <1>4, <1>6, <2>1, <2>2, <2>3
  <1>17. ~EnqueueSelect(f) /\ ~EnqueueInsert(f)
    BY <1>2 DEF EnqueueSelect, EnqueueInsert, At, InlineAt
  <1> QED BY <1>7, <1>8, <1>9, <1>10, <1>12, <1>13, <1>15, <1>16, <1>17 DEF Walk

(* A fault of this kind uses up its limit, so the plan is not a safe one any more. *)
LEMMA FaultUnsafe ==
  ASSUME Typed, UNCHANGED goal, Fault
  PROVE  ~Safe'
  <1>1. PICK kind \in {"error", "crash"} : Spend(kind) /\ UNCHANGED history
    BY DEF Fault, StepWriteRaises, WalkWriteRaises, FrontWriteRaises, JobRaises, Crash
  <1>2. /\ kind \in FaultKinds /\ goal.limits \in [FaultKinds -> Nat]
    BY PlanAssumption DEF FaultKinds, Typed
  <1>3. budget'[kind] < goal.limits[kind] /\ budget'[kind] \in Nat /\ goal.limits[kind] \in Nat
    BY <1>1, <1>2, SpendFacts DEF Counters
  <1> QED BY <1>3 DEF Safe, Without

(* InlineInv holds at first ... *)
LEMMA InitInline == Init => InlineInv
  <1> SUFFICES ASSUME Init PROVE InlineInv
    OBVIOUS
  <1>1. tasks = << >> /\ (\A p \in Processes : pc[p] = "idle") /\ \A s \in Steps : effects[s] = 0
    BY DEF Init, Queue!Init
  <1>2. \A f \in Fronts : f \in Processes
    BY DEF Processes
  <1> QED BY <1>1, <1>2 DEF InlineInv, Inline, InlineAt, OnceEach, DoneAt

(* ... and every step keeps it, and dispatches only a step stored as running. *)
LEMMA NextInline ==
  ASSUME OneFront
  PROVE  Typed /\ Fresh /\ InlineInv /\ [Next]_vars =>
           InlineInv' /\ (goal.queued = {} => RunningOnly)
  <1> SUFFICES ASSUME Typed, Fresh, InlineInv, [Next]_vars
               PROVE  InlineInv' /\ (goal.queued = {} => RunningOnly)
    OBVIOUS
  <1> SUFFICES ASSUME goal.queued = {}
               PROVE  Inline' /\ (Safe' => OnceEach') /\ RunningOnly
    <2>1. {} \in SUBSET FaultKinds
      OBVIOUS
    <2>2. goal' = goal
      BY <2>1, LimitsStay
    <2> QED BY <2>2 DEF InlineInv
  <1>1. Safe' => Safe
    <2>1. {"error", "crash"} \in SUBSET FaultKinds
      BY DEF FaultKinds
    <2> QED BY <2>1, LimitsStay DEF Safe
  <1>2. Inline /\ (Safe' => OnceEach)
    BY <1>1 DEF InlineInv
  <1>3. CASE UNCHANGED vars
    <2>1. UNCHANGED <<goal, db, tasks, pc, copy, cur, todo, started, effects>>
      BY <1>3 DEF vars
    <2> QED BY <1>2, <2>1 DEF Inline, InlineAt, OnceEach, DoneAt, RunningOnly, Steps
  <1>4. ASSUME NEW f \in Fronts, User(f) \/ Answer(f)
        PROVE  Inline' /\ (Safe' => OnceEach') /\ RunningOnly
    <2>1. UNCHANGED started
      BY <1>4 DEF User, Answer, Run, Reply, Resume, ReadPlan, ReplyAbort, ReplyYes, ReplySkip,
                  ReplyContinue, ReplyIgnored, ResumeSteps, history
    <2> QED BY <1>2, <1>4, <2>1, FrontInline, FrontDone DEF User, Answer, RunningOnly
  <1>5. ASSUME NEW f \in Fronts, Walk(f)
        PROVE  Inline' /\ (Safe' => OnceEach') /\ RunningOnly
    BY <1>2, <1>5, WalkInline, WalkDone DEF Walk
  <1>6. ASSUME NEW w \in Workers PROVE ~Walk(w) /\ ~Work(w)
    <2>1. pc[w] = "idle" /\ todo[w] = << >> /\ Len(tasks) = 0
      BY <1>2, WorkersIdle DEF Inline
    <2> QED BY <2>1 DEF Walk, Work, Flush, Execute, Advance, Finish, Return, SkipStep, BeginStep,
               DispatchSucceeds,
                    DispatchFails, EnqueueSelect, EnqueueInsert, LoadPlan, LoadSteps, WorkSucceeds,
                    WorkFails, Complete, At
  <1>7. CASE Fault
    BY <1>2, <1>7, FaultInline, FaultUnsafe DEF Fault
  <1> QED BY <1>3, <1>4, <1>5, <1>6, <1>7 DEF Next, Processes
(***************************************************************************)
(* Nothing is dispatched that may not run yet, or any more, when the user  *)
(* writes in one channel, whatever the workers, stale copies, failing      *)
(* statements, crashes and redelivered rows do.  With two channels the     *)
(* last two parts do not hold.                                             *)
(***************************************************************************)
THEOREM AllowedStepsOnly ==
  ASSUME OneFront
  PROVE  Spec => OnlyAllowedStepsRun
  <1> DEFINE I == Typed /\ DepInv /\ Fresh /\ (Go \/ Asked) /\ InlineInv
             Allowed == \A s \in Steps : started'[s] # started[s] =>
                          /\ \A d \in Deps[s] : effects[d] > 0
                          /\ s \in goal.asks /\ Without({"resume"}) => approved
                          /\ goal.queued = {} =>
                               /\ db.step[s].status # "skipped"
                               /\ db.status = "cancelled" => ~Without({"resume"})
  <1>1. Init => I
    BY InitTyped, InitDeps, InitFresh, InitAsked, InitInline
  <1>2. I /\ [Next]_vars => I'
    BY NextTyped, NextDeps, NextFresh, NextAsked, NextInline
  <1>3. I /\ I' /\ [Next]_vars => [Allowed]_vars
    <2> SUFFICES ASSUME I, I', [Next]_vars PROVE Allowed
      OBVIOUS
    <2>1. DependenciesFirst /\ (Go \/ ConsentFirst) /\ (goal.queued = {} => RunningOnly)
      BY NextDeps, NextAsked, NextInline
    <2> QED BY <2>1 DEF DependenciesFirst, DepsRan, ConsentFirst, RunningOnly, Go
  <1>4. OnlyAllowedStepsRun <=> [][Allowed]_vars
    BY DEF OnlyAllowedStepsRun
  <1> HIDE DEF I, Allowed
  <1> QED BY <1>1, <1>2, <1>3, <1>4, PTL DEF Spec

(***************************************************************************)
(* A step that succeeded does not run again, when the user writes in one   *)
(* channel and its success could be saved.                                 *)
(***************************************************************************)
THEOREM DoneStepsStayDone ==
  ASSUME OneFront
  PROVE  Spec => []DoneStepsNotRerun
  <1> DEFINE I == Typed /\ Fresh /\ InlineInv
  <1>1. Init => I
    BY InitTyped, InitFresh, InitInline
  <1>2. I /\ [Next]_vars => I'
    BY NextTyped, NextFresh, NextInline
  <1>3. I => DoneStepsNotRerun
    BY DEF InlineInv, OnceEach, Safe, DoneStepsNotRerun
  <1> HIDE DEF I
  <1> QED BY <1>1, <1>2, <1>3, PTL DEF Spec

=============================================================================
