------------------------------- MODULE MCVoice -------------------------------
(* A small instance of Laptop for TLC. *)
EXTENDS Laptop

Activities ==
  {{"voice", "faults"}, {"typed", "stage"}, {"wake", "stage"}, {"wake", "apps"},
   {"contacts", "imports"}, {"contacts", "calls"}, {"phone"}, {"urls", "apps"}, {"speech"}, {"music"}, {"playlists"}}
Contains == [n \in {"Ann", "Anna"} |-> IF n = "Ann" THEN {"Ann", "Anna"} ELSE {"Anna"}]
KeyWords == [k \in {"code", "vs_code"} |-> IF k = "code" THEN {"code"} ELSE {"vs", "code"}]
=============================================================================
