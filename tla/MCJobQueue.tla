----------------------------- MODULE MCJobQueue -----------------------------
(* Small instances of JobQueue for TLC. *)
EXTENDS JobQueue

CONSTANTS w1, w2, p1, hunt, plan, k1

(* w2 still runs an older image, without the handler of hunts. *)
MixedImages == [w \in Workers |-> IF w = w2 THEN {plan} ELSE Kinds]

KeyedRequests == [kind : {hunt}, dedupe_key : {k1}]

Budget(crash, signal, error, connloss, requeue) ==
  [f \in FaultKinds |-> CASE f = "crash"    -> crash
                          [] f = "signal"   -> signal
                          [] f = "error"    -> error
                          [] f = "connloss" -> connloss
                          [] f = "requeue"  -> requeue]

AllFaults == Budget(1, 1, 1, 1, 1)
=============================================================================
