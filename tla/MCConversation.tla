--------------------------- MODULE MCConversation ---------------------------
(* A small instance of Conversation for TLC. *)
EXTENDS Conversation

(* What is said, and what goes on beside it, in one behaviour. *)
Talks == {{"hourly", "trash", "confirm trash", "undo"},
          {"arrivals", "hourly", "asked"},
          {"arrivals", "trash", "confirm trash", "cancel", "compose", "confirm send", "words"},
          {"compose", "confirm send", "cancel", "yes", "resume", "plan", "dashboard"},
          {"quiz", "tutor", "cv", "cancel", "words", "dashboard"},
          {"call", "confirm call", "retro", "mock", "number", "words", "dashboard"},
          {"trash", "confirm trash", "quiz", "cv", "words", "dashboard"}}
=============================================================================
