---------------------------- MODULE MCDealBroker ----------------------------
(* A small instance of DealBroker for TLC. *)
EXTENDS DealBroker

CONSTANTS op1, sweeper, scanner, jiji
=============================================================================
