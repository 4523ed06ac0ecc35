------------------------- MODULE MCPlanValidation -------------------------
(* Every plan of three steps, with lists of up to two dependencies. *)
EXTENDS PlanValidation

(* 4 is the id of no step; one list names a step twice. *)
FewLists == {<< >>, <<1>>, <<2>>, <<3>>, <<1, 2>>, <<1, 3>>, <<2, 3>>, <<4>>, <<1, 1>>}

AnySteps == SUBSET Proposed
=============================================================================
