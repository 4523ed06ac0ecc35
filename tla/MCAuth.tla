------------------------------- MODULE MCAuth -------------------------------
(* A small instance of Auth for TLC. *)
EXTENDS Auth

Few     == [k \in Kinds |-> IF k = "password" THEN 2 ELSE 1]
Short   == [k \in Kinds |-> IF k = "password" THEN 4 ELSE 1]

(* What people do together in one behaviour: the flows that share state. *)
Flows == {{"password", "reset", "console", "crash"}, {"password", "voice", "logout"},
          {"recovery", "voice", "reset"}, {"passkey", "voice"}, {"passkey", "password"},
          {"device", "voice", "days"}}
=============================================================================
