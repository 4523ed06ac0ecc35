------------------------------- MODULE Models -------------------------------
(***************************************************************************)
(* The client of the language models (core/llm.py).  A task class has a    *)
(* route: a model and the environment variable of its key.  A request is   *)
(* posted to the task's model with retries, then once more, with retries,  *)
(* to the default route; a reply that should be JSON and is not is sent    *)
(* back for one repair.                                                    *)
(***************************************************************************)
EXTENDS Daily

CONSTANTS
  MaxRetries    \* attempts per model

ASSUME ModelsAssumption == MaxRetries \in Nat \ {0}

VARIABLES
  well,         \* the models that work as they should in this behaviour
  keys,         \* the environment variables that hold a key
  call          \* the request being made

modelsVars == <<well, keys, call>>

Routes  == {"default", "write"}
Kinds   == {"chat", "classify", "json"}
NoRequest  == [at |-> "idle", kind |-> "none", task |-> "default", route |-> "default",
            tries |-> 0, round |-> 1, prose |-> 0]

ModelsInit ==
  /\ well \in IF Goes("models") THEN SUBSET Routes ELSE {Routes}
  /\ keys \in IF Goes("models") THEN SUBSET Routes ELSE {Routes}
  /\ call = NoRequest

-----------------------------------------------------------------------------
(* A route without a key of its own has the default one. *)
HasKey(route) == route \in keys \/ "default" \in keys

(* What a post brings: a working model answers, another one may do anything. *)
Replies == IF call.route \in well THEN {"answer"}
           ELSE {"answer", "prose", "empty", "refused", "busy", "unreachable"}

Request(kind, task) ==
  /\ call.at = "idle"
  /\ call' = [NoRequest EXCEPT !.at = "posting", !.kind = kind, !.task = task, !.route = task]
  /\ UNCHANGED <<well, keys>>

(* A mutant of the next definition: only a model that cannot be reached is replaced. *)
GivenUpOnly ==
  IF call.route # "default" /\ call.tries > 0
  THEN [call EXCEPT !.route = "default", !.tries = 0]
  ELSE [call EXCEPT !.at = "failed"]

(* A model that failed is replaced, once, by the default one. *)
GivenUp ==
  IF call.route # "default" THEN [call EXCEPT !.route = "default", !.tries = 0]
  ELSE [call EXCEPT !.at = "failed"]

NoKey == call.at = "posting" /\ ~HasKey(call.route) /\ call' = GivenUp /\ UNCHANGED <<well, keys>>

(* The text of a reply: anything will do for chat, a label off the menu is replaced by the *)
(* first one, and JSON is repaired once, from the task's own model again.                  *)
Received(reply) ==
  IF call.kind # "json" \/ reply = "answer" THEN [call EXCEPT !.at = "done"]
  ELSE IF call.round = 1
       THEN [call EXCEPT !.round = 2, !.route = call.task, !.tries = 0, !.prose = 1]
       ELSE [call EXCEPT !.at = "failed", !.prose = 2]

Post ==
  /\ call.at = "posting" /\ HasKey(call.route)
  /\ \E reply \in Replies :
       call' = CASE reply \in {"answer", "prose"} -> Received(reply)
                 [] reply \in {"empty", "refused"}
                    \/ (reply \in {"busy", "unreachable"} /\ call.tries + 1 = MaxRetries) -> GivenUp
                 [] OTHER -> [call EXCEPT !.tries = @ + 1]
  /\ UNCHANGED <<well, keys>>

Return == call.at \in {"done", "failed"} /\ call' = NoRequest /\ UNCHANGED <<well, keys>>

ModelsNext ==
  /\ Goes("models") /\ UNCHANGED daily
  /\ (\E kind \in Kinds, task \in Routes : Request(kind, task)) \/ NoKey \/ Post \/ Return

-----------------------------------------------------------------------------
(* While the default model works and has its key, a request fails for one reason only: the *)
(* task's own model wrote prose for JSON, and again when it was asked to repair it.  A     *)
(* model that is gone, gated, busy, silent or without a key does not take the feature with *)
(* it (llm.py:206).                                                                        *)
OneDeadModelIsNoOutage ==
  call.at = "failed" /\ "default" \in well /\ "default" \in keys => call.prose = 2
=============================================================================
