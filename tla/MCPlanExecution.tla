-------------------------- MODULE MCPlanExecution --------------------------
(* Small instances of PlanExecution for TLC. *)
EXTENDS PlanExecution

CONSTANTS f1, w1

(* Collect, then finish. *)
Chain2  == <<{}, {1}>>
(* Two sources, and a step that needs both. *)
Join3   == <<{}, {}, {1, 2}>>

Budget(reply, resume, error, crash) ==
  [k \in FaultKinds |-> CASE k = "reply"  -> reply
                          [] k = "resume" -> resume
                          [] k = "error"  -> error
                          [] k = "crash"  -> crash]

Goal(deps, asks, queued, limits) ==
  [deps |-> deps, asks |-> asks, queued |-> queued, limits |-> limits]

(* A front alone, and a front with a worker. *)
InlineAndQueued == {Goal(Join3, {3}, {}, Budget(2, 1, 1, 1)),
                    Goal(Chain2, {2}, {1}, Budget(1, 1, 1, 1))}
NoFaults        == {Goal(Chain2, {}, {2}, Budget(0, 0, 0, 0))}
=============================================================================
