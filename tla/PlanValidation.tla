--------------------------- MODULE PlanValidation ---------------------------
(***************************************************************************)
(* validate_plan of core/orchestrator.py: what the model proposed is either *)
(* rejected as a whole or cut down to the steps that can run.  Steps are   *)
(* numbered in the order the plan lists them.  The plan is the input: a    *)
(* behaviour starts with any of them and takes one step, the validation.   *)
(***************************************************************************)
EXTENDS Integers, Sequences, FiniteSets, Functions

CONSTANTS
  Size,      \* number of proposed steps
  DepLists,  \* the depends_on lists a step may have; a number above Size is the id of no step
  Cuts       \* the sets of unknown, and of denied, steps to try

Proposed == 1 .. Size

ASSUME ProposalAssumption ==
  /\ Size \in Nat
  /\ DepLists \subseteq Seq(Nat)
  /\ Cuts \subseteq SUBSET Proposed

(* A reference $sN or $sN.field in a step's args; "wrong" when N does not produce field. *)
Reference  == [step : 0 .. Size, field : {"ok", "wrong"}]
NoReference == [step |-> 0, field |-> "ok"]

VARIABLES
  depends_on,  \* per step: the list of step numbers
  ref,         \* per step: the reference its args hold, or NoReference
  unknown,     \* steps whose action is not in the registry's manifest
  denied,      \* steps whose stored decision is always_deny (and tier not high)
  verdict,     \* "proposed", "rejected" or "valid"
  steps        \* once valid: plan.steps

proposal == <<depends_on, ref, unknown, denied>>
validationVars == <<depends_on, ref, unknown, denied, verdict, steps>>

Needs(s) == Range(depends_on[s])

(* The members of list that are in S, in the order of list. *)
Chosen(list, S) ==
  LET take[i \in 0 .. Len(list)] ==
        IF i = 0 THEN << >>
        ELSE IF list[i] \in S THEN Append(take[i - 1], list[i]) ELSE take[i - 1]
  IN take[Len(list)]

-----------------------------------------------------------------------------
(***************************************************************************)
(* _topological: Kahn's algorithm with a FIFO of ready steps.  A step's    *)
(* indegree starts at the LENGTH of its list and drops by one when a step  *)
(* that occurs in the list is taken.  round[k] is the state after k pops.  *)
(***************************************************************************)
Start(list) ==
  [degree |-> [s \in Proposed |-> Len(depends_on[s])],
   ready  |-> Chosen(list, {s \in Proposed : depends_on[s] = << >>}),
   out    |-> << >>]

Pop(list, r) ==
  LET sid    == Head(r.ready)
      degree == [s \in Proposed |-> IF sid \in Needs(s) THEN r.degree[s] - 1 ELSE r.degree[s]]
  IN [degree |-> degree,
      ready  |-> Tail(r.ready) \o
                   Chosen(list, {s \in Proposed : sid \in Needs(s) /\ degree[s] = 0}),
      out    |-> Append(r.out, sid)]

Topological(list) ==
  LET round[k \in 0 .. Size] ==
        IF k = 0 THEN Start(list)
        ELSE IF round[k - 1].ready = << >> THEN round[k - 1] ELSE Pop(list, round[k - 1])
  IN round[Size].out

(***************************************************************************)
(* _drop_dependents: passes over the plan's steps, in order, until one     *)
(* changes nothing; a pass sees what it has dropped so far.                *)
(***************************************************************************)
DropNext(dropped, s) == IF Needs(s) \cap dropped # {} THEN dropped \cup {s} ELSE dropped

DropPass(list, dropped) ==
  LET look[i \in 0 .. Len(list)] == IF i = 0 THEN dropped ELSE DropNext(look[i - 1], list[i])
  IN look[Len(list)]

DropDependents(list, dropped) ==
  LET pass[k \in 0 .. Size] == IF k = 0 THEN dropped ELSE DropPass(list, pass[k - 1])
  IN pass[Size]

(* _ancestors: the steps a step depends on, directly or not. *)
Ancestors ==
  LET visit[k \in 0 .. Size] ==
        IF k = 0 THEN [s \in Proposed |-> {}]
        ELSE [s \in Proposed |-> Needs(s) \cup UNION {visit[k - 1][d] : d \in Needs(s)}]
  IN visit[Size]

(* Mutants of the next definition: two of its checks forgotten. *)
ReferenceToAnySurvivor(s, survivors) ==
  ref[s] # NoReference /\ (ref[s].step \notin survivors \/ ref[s].field = "wrong")
ReferenceToAnyField(s, survivors) ==
  ref[s] # NoReference /\ (ref[s].step \notin survivors \/ ref[s].step \notin Ancestors[s])

(***************************************************************************)
(* A reference must be to a surviving ancestor, and to what that step      *)
(* produces.  The ancestors of a survivor all survive.                     *)
(***************************************************************************)
InvalidReference(s, survivors) ==
  /\ ref[s] # NoReference
  /\ \/ ref[s].step \notin survivors \/ ref[s].step \notin Ancestors[s]
     \/ ref[s].field = "wrong"

Listed == [s \in Proposed |-> s]

Malformed ==
  \/ \E s \in Proposed : ~ Needs(s) \subseteq Proposed \/ s \in Needs(s)
  \/ Len(Topological(Listed)) # Size

(***************************************************************************)
(* The plans proposed.  What is malformed is rejected before its actions,  *)
(* references and permissions are looked at: one plan stands for all that  *)
(* differ in these only.                                                   *)
(***************************************************************************)
ProposalInit ==
  /\ depends_on \in [Proposed -> DepLists]
  /\ IF Malformed THEN ref = [s \in Proposed |-> NoReference] /\ unknown = {} /\ denied = {}
     ELSE /\ ref \in [Proposed -> {r \in Reference : r.step # 0} \cup {NoReference}]
          /\ unknown \in Cuts /\ denied \in Cuts
  /\ verdict = "proposed"
  /\ steps = << >>

(* PlanValidationError: a dangling dependency, a step on itself, or a cycle. *)
Reject ==
  /\ verdict = "proposed" /\ Malformed
  /\ verdict' = "rejected"
  /\ UNCHANGED <<proposal, steps>>

(* The three cuts: unknown actions, bad references, denied actions. *)
Validated ==
  LET cut1 == DropDependents(Listed, unknown)
      bad  == {s \in Proposed \ cut1 : InvalidReference(s, Proposed \ cut1)}
      cut2 == DropDependents(Listed, cut1 \cup bad)
      left == Chosen(Listed, Proposed \ cut2)
      cut3 == DropDependents(left, denied \ cut2)
  IN Chosen(left, Proposed \ cut3)

Validate ==
  /\ verdict = "proposed" /\ ~Malformed
  /\ steps' = Validated
  /\ verdict' = "valid"
  /\ UNCHANGED proposal

ValidationNext == Reject \/ Validate

ValidationSpec == ProposalInit /\ [][ValidationNext]_validationVars

-----------------------------------------------------------------------------
(* Properties, against definitions that do not follow the algorithm *)

(* A set of steps that leads back into itself, and a step that names another twice. *)
HasCycle == \E C \in SUBSET Proposed : C # {} /\ \A s \in C : Needs(s) \cap C # {}
Repeats  == \E s \in Proposed : Cardinality(Needs(s)) # Len(depends_on[s])

(* The steps that must go when those of S go. *)
Closure(S) ==
  CHOOSE C \in SUBSET Proposed :
    /\ S \subseteq C /\ \A s \in Proposed : Needs(s) \cap C # {} => s \in C
    /\ \A D \in SUBSET Proposed :
         S \subseteq D /\ (\A s \in Proposed : Needs(s) \cap D # {} => s \in D) => C \subseteq D

(***************************************************************************)
(* The orchestrator's loop never waits for a step that is not there, and   *)
(* _resolve_args never meets a missing output: whatever a surviving step   *)
(* depends on or refers to survived every one of the three cuts and comes  *)
(* earlier, although the denied steps go last of all, after the references *)
(* were checked.                                                           *)
(***************************************************************************)
ReferencesResolve ==
  LET order == Topological(steps)
      Earlier(i) == {order[j] : j \in 1 .. i - 1}
  IN /\ Range(order) = Range(steps)
     /\ \A i \in 1 .. Len(order) :
          /\ Needs(order[i]) \subseteq Earlier(i)
          /\ ref[order[i]] # NoReference =>
               ref[order[i]].field = "ok" /\ ref[order[i]].step \in Earlier(i)

(***************************************************************************)
(* Nothing is cut without need: a plan is rejected only for a cycle, for a *)
(* dependency that does not exist or for one listed twice (which           *)
(* _topological takes for a cycle), and what is missing from a valid one   *)
(* is what depends on an unknown or a denied step, or on a bad reference.  *)
(***************************************************************************)
OnlyNecessaryCuts ==
  /\ verdict = "rejected" => HasCycle \/ Repeats \/ \E s \in Proposed : ~ Needs(s) \subseteq Proposed
  /\ verdict = "valid" =>
       LET gone == Closure(unknown)
           bad  == {s \in Proposed : ref[s] # NoReference /\
                      \/ ref[s].step \in gone \/ s \notin Closure({ref[s].step}) \/ s = ref[s].step
                      \/ ref[s].field = "wrong"}
       IN Proposed \ Range(steps) = Closure(gone \cup bad \cup denied)

=============================================================================
