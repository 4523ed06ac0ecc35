---------------------------- MODULE MCApprovals ----------------------------
(* Small instances of Approvals for TLC. *)
EXTENDS Approvals

CONSTANTS label, trash, apply, t1, c1, u1, m1

Table == [k \in Kinds |-> CASE k = label -> "trivial" [] k = apply -> "high" [] OTHER -> "low"]

(***************************************************************************)
(* "<kind>:from:<domain>", as the model is told to write them.  Only the   *)
(* high kind shares a key, to see that it asks in spite of what is learned. *)
(***************************************************************************)
KeysPerKind == [k \in Kinds |-> IF k = label THEN {"label:a"} ELSE {"trash:a"}]
=============================================================================
