------------------------------- MODULE Daily --------------------------------
(***************************************************************************)
(* What the skills that the scheduler runs have in common.  They share no  *)
(* rows, so one behaviour is about a few of their activities only: scope   *)
(* says which.  Statements may fail and processes die, at any point, as    *)
(* often as faults allows.                                                 *)
(***************************************************************************)
EXTENDS Naturals, FiniteSets, Sequences

CONSTANTS
  Scopes,       \* sets of activities, one of which a behaviour is about
  MaxFaults     \* how often something dies in a behaviour

ASSUME DailyAssumption == MaxFaults \in Nat

VARIABLES
  scope,        \* the activities of this behaviour
  faults        \* how often something has died

daily == <<scope, faults>>

DailyInit == scope \in Scopes /\ faults = 0

Goes(activity) == activity \in scope
About(activities) == scope \cap activities # {}

Fault == Goes("faults") /\ faults < MaxFaults /\ faults' = faults + 1 /\ UNCHANGED scope
=============================================================================
