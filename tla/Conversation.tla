---------------------------- MODULE Conversation ----------------------------
(***************************************************************************)
(* Which conversation a message continues (skills/telegram_bot.py,         *)
(* kernel/registry.py), and what the conversations of the skills do with   *)
(* it: the mail flows of Mailbox, the mock interview, the quiz, the tutor, *)
(* the CV refinement, the call preview and the weekly retro.               *)
(*                                                                         *)
(* Telegram's bot looks at a fixed list of sessions, oldest rule first,    *)
(* and forgets those too old; every other front, and the bot afterwards,   *)
(* goes through the registry, which has a list and rules of its own.  One  *)
(* person speaks: a message is answered before the next is sent, while     *)
(* cleanups, the scheduler and time go on.                                 *)
(***************************************************************************)
EXTENDS Mailbox, Sequences

CONSTANTS
  LiveTTL,      \* how long a mock, a quiz or a lesson may be silent on Telegram
  Questions,    \* how many a mock or a quiz asks
  Pending,      \* ids of proposals that wait for an answer
  MaxStarts,    \* how many sessions may be opened in a behaviour
  Topics        \* what is said and what goes on beside it, one set per behaviour

Drills == {"mock", "quiz", "tutor", "cv", "call", "retro"}
Keys   == Drills \cup {"send", "trash"}

ASSUME TalkAssumption ==
  /\ LiveTTL \in Nat /\ LiveTTL >= PreviewTTL /\ Questions \in Nat \ {0} /\ MaxStarts \in Nat

VARIABLES
  topic,        \* what this behaviour is about, a member of Topics
  drills,       \* kv: the sessions of the other skills
  plan,         \* the active plan: none, awaiting, paused
  pending,      \* pending_actions
  bot,          \* the bot's handler of a text message
  starts,       \* how many sessions were opened
  heard         \* observed: who answered the last message on Telegram

vars == <<box, log, preview, lastTrash, draft, drafted, mover, cleaner, sent, told,
          topic, drills, plan, pending, bot, starts, heard>>
talk == <<topic, plan, pending, bot, starts, heard>>

NoDrill == [left |-> 0, age |-> 0]
Silent  == [by |-> "none", judged |-> FALSE]

(* A text is what the matchers of the code can tell about it. *)
PlanReplies == {"yes", "cancel", "resume"}
Answers  == PlanReplies \cup {"number", "confirm trash", "confirm send", "confirm call", "words"}
Requests == {"trash", "undo", "compose", "clean", "music"} \cup Drills
Texts    == Answers \cup Requests

SkillOf == [k \in Keys |-> IF k \in {"send", "trash"} THEN "email_agent" ELSE k]
(* The skill that a keyword of the table names, with certainty. *)
FastSkill(t) == IF t \in {"trash", "undo", "compose", "clean"} THEN "email_agent"
                ELSE IF t \in Requests THEN t ELSE "none"

Said(t) == t \in {"music"} \cup topic

Init ==
  /\ topic \in Topics
  /\ MailInit(IF "arrivals" \in topic THEN "unsent" ELSE "inbox")
  /\ drills = [k \in Drills |-> NoDrill]
  /\ plan = IF "plan" \in topic THEN "awaiting" ELSE "none"
  /\ pending = IF "number" \in topic THEN Pending ELSE {}
  /\ bot = "idle" /\ starts = 0
  /\ heard = Silent

-----------------------------------------------------------------------------
(* Sessions *)

Present(k) == CASE k = "send"  -> draft # NoDraft
                [] k = "trash" -> preview # NoPreview
                [] OTHER       -> drills[k] # NoDrill
AgeOf(k) == CASE k = "send" -> draft.age [] k = "trash" -> preview.age [] OTHER -> drills[k].age
TTL(k) == IF k \in {"send", "trash"} THEN PreviewTTL ELSE LiveTTL

(* A mutant of the next definition: the age does not matter. *)
FreshEver(k) == Present(k)
(* _session_fresh.  The drills record no start: the bot stamps one without a  *)
(* start with the present, so that it is fresh whenever it is looked at.       *)
Fresh(k) == Present(k) /\ (IF k \in {"send", "trash"} THEN AgeOf(k) ELSE 0) <= TTL(k)

TelegramOrder == <<"send", "trash", "mock", "quiz", "tutor">>
RegistryOrder == <<"trash", "cv", "mock", "quiz", "tutor", "call", "retro">>
FirstOf(order) ==
  LET present == SelectSeq(order, LAMBDA k : Present(k)) IN
  IF present = << >> THEN "none" ELSE Head(present)

Heard(on, by, judged) ==
  heard' = IF on = "telegram" THEN [by |-> by, judged |-> judged] ELSE Silent

(* A session is opened, next to those of rest. *)
Open(k, rest) ==
  /\ starts < MaxStarts /\ starts' = starts + 1
  /\ drills' = [rest EXCEPT ![k] = [left |-> IF k \in {"mock", "quiz"} THEN Questions ELSE 1,
                                    age |-> 0]]

-----------------------------------------------------------------------------
(* What the skills do with the answer t, their session being d *)

(* mock_answer, quiz_answer: judge, advance, end after the last. *)
AnswerQuestion(k, d) ==
  drills' = [drills EXCEPT ![k] = IF d.left > 1 THEN [d EXCEPT !.left = @ - 1] ELSE NoDrill]

(* continue_session: a drill writes a new session, a lab or an answer told ends  *)
(* it, an explanation starts over; a model out of reach changes nothing.         *)
AnswerTutor(d) ==
  \E next \in {d, NoDrill, [left |-> 1, age |-> 0]} :
    /\ d = NoDrill => next = NoDrill
    /\ drills' = [drills EXCEPT !["tutor"] = next]

AnswerLive(k, d) == IF k = "tutor" THEN AnswerTutor(d) ELSE AnswerQuestion(k, d)

(* continue_refinement ends once a CV was tailored; a call preview and a retro   *)
(* end whatever is said.                                                         *)
AnswerOther(k, t) ==
  \/ drills' = [drills EXCEPT ![k] = NoDrill]
  \/ /\ k = "cv" /\ t # "cancel"
     /\ UNCHANGED drills

-----------------------------------------------------------------------------
(* The router: a request opens a session or runs a command; rest is what is    *)
(* left of the drills once the session before it has yielded.                  *)

StartDrill(t, rest) == t \in Drills /\ Open(t, rest) /\ UNCHANGED mail
StartMail(t, rest) ==
  /\ t \in {"trash", "compose"}
  /\ starts < MaxStarts /\ starts' = starts + 1
  /\ IF t = "trash" THEN RequestTrash ELSE Compose
  /\ drills' = rest
Undo(t, rest) == t = "undo" /\ RestoreLast /\ drills' = rest /\ UNCHANGED starts
(* Anything else, and a cleanup asked for, which runs as a Cleaner. *)
Elsewhere(t, rest) ==
  /\ t \notin Drills \cup {"trash", "compose", "undo"}
  /\ drills' = rest
  /\ UNCHANGED starts /\ UNCHANGED mail

Dispatch(t, rest) ==
  StartDrill(t, rest) \/ StartMail(t, rest) \/ Undo(t, rest) \/ Elsewhere(t, rest)

(* Reply to a plan: it runs, is cancelled, or pauses at a step that fails. *)
PlanTakes(t) == \/ plan = "awaiting" /\ t \in {"yes", "cancel"}
                \/ plan = "paused" /\ t \in {"cancel", "resume"}
PlanReply(on, t) ==
  /\ PlanTakes(t)
  /\ plan' \in IF t = "cancel" THEN {"none"} ELSE {"none", "paused"}
  /\ Heard(on, "plan", TRUE)
  /\ UNCHANGED <<drills, starts, pending>> /\ UNCHANGED mail

-----------------------------------------------------------------------------
(* kernel/registry.py: handle_command, without its reply to a plan *)

Escapes(k, t) == FastSkill(t) # "none" /\ FastSkill(t) # SkillOf[k]

(* Without a session, or past a session that yields, the request is dispatched. *)
Routed(on, t) ==
  /\ FirstOf(RegistryOrder) = "none"
  /\ Dispatch(t, drills)
  /\ Heard(on, "router", TRUE)
  /\ UNCHANGED <<topic, plan, pending>>

(* A session yields to a request for another skill: it ends, the request runs. *)
Yields(on, t) ==
  LET k == FirstOf(RegistryOrder) IN
  /\ k # "none" /\ Escapes(k, t)
  /\ \/ k # "trash" /\ Dispatch(t, [drills EXCEPT ![k] = NoDrill])
     \/ k = "trash" /\ ClearPreview /\ t \in Drills /\ Open(t, drills)
     \/ k = "trash" /\ ClearPreview /\ t \notin Drills /\ UNCHANGED <<drills, starts>>
  /\ Heard(on, "router", TRUE)
  /\ UNCHANGED <<topic, plan, pending>>

(* Otherwise the session takes the message, whatever its age. *)
Continues(on, t) ==
  LET k == FirstOf(RegistryOrder) IN
  /\ k # "none" /\ ~Escapes(k, t)
  /\ CASE k = "trash" -> ContinueTrash(t) /\ UNCHANGED drills
       [] k \in {"mock", "quiz", "tutor"} -> AnswerLive(k, drills[k]) /\ UNCHANGED mail
       [] OTHER -> AnswerOther(k, t) /\ UNCHANGED mail
  /\ Heard(on, k, TRUE)
  /\ UNCHANGED <<topic, plan, pending, starts>>

(* A message from the dashboard or the microphone. *)
Command(t) ==
  /\ Said(t) /\ "dashboard" \in topic /\ bot = "idle" /\ ChatFree
  /\ \/ PlanReply("kernel", t) /\ UNCHANGED topic
     \/ /\ ~PlanTakes(t)
        /\ Routed("kernel", t) \/ Yields("kernel", t) \/ Continues("kernel", t)
  /\ UNCHANGED bot

-----------------------------------------------------------------------------
(* skills/telegram_bot.py: route_text, one step per session it looks at.       *)
(* prepare looks at the same sessions first and forgets the same ones.         *)

Text(t) ==
  /\ Said(t) /\ bot = "idle" /\ ChatFree
  /\ bot' = t
  /\ UNCHANGED <<topic, drills, plan, pending, starts, heard>> /\ UNCHANGED mail

BotPlan ==
  /\ bot # "idle" /\ PlanReply("telegram", bot)
  /\ bot' = "idle"
  /\ UNCHANGED topic

(* _try_approval_reply: a number that names no proposal is another's affair,   *)
(* and goes on to the sessions.                                                *)
BotApproval ==
  /\ bot = "number" /\ ~PlanTakes(bot)
  /\ \E id \in pending : pending' = pending \ {id}
  /\ Heard("telegram", "approvals", TRUE)
  /\ bot' = "idle"
  /\ UNCHANGED <<topic, drills, plan, starts>> /\ UNCHANGED mail

Looking == bot # "idle" /\ ~PlanTakes(bot)
Front   == FirstOf(TelegramOrder)

BotForgets ==
  /\ Looking /\ Front # "none" /\ ~Fresh(Front)
  /\ CASE Front = "send"  -> draft' = NoDraft /\ UNCHANGED <<preview, drills>>
       [] Front = "trash" -> preview' = NoPreview /\ UNCHANGED <<draft, drills>>
       [] OTHER -> drills' = [drills EXCEPT ![Front] = NoDrill] /\ UNCHANGED <<draft, preview>>
  /\ UNCHANGED <<box, log, lastTrash, drafted, mover, cleaner, sent, told>>
  /\ UNCHANGED talk

BotSend ==
  /\ Looking /\ Front = "send" /\ Fresh("send")
  /\ ContinueSend(bot)
  /\ Heard("telegram", "send", TRUE)
  /\ bot' = "idle"
  /\ UNCHANGED <<topic, drills, plan, pending, starts>>

BotTrash ==
  /\ Looking /\ Front = "trash" /\ Fresh("trash")
  /\ ContinueTrash(bot)
  /\ Heard("telegram", "trash", TRUE)
  /\ bot' = "idle"
  /\ UNCHANGED <<topic, drills, plan, pending, starts>>

(* A mutant of the next definition: the session survives the answer. *)
BotConsumesNot ==
  /\ Looking /\ Front \in {"mock", "quiz", "tutor"} /\ Fresh(Front)
  /\ UNCHANGED drills
  /\ Heard("telegram", Front, TRUE)
  /\ bot' = "idle"
  /\ UNCHANGED <<topic, plan, pending, starts>> /\ UNCHANGED mail
(* _consume: the session is ended, then the skill looks for it. *)
BotConsumes ==
  /\ Looking /\ Front \in {"mock", "quiz", "tutor"} /\ Fresh(Front)
  /\ AnswerLive(Front, NoDrill)
  /\ Heard("telegram", Front, NoDrill.left > 0)
  /\ bot' = "idle"
  /\ UNCHANGED <<topic, plan, pending, starts>> /\ UNCHANGED mail

BotRoutes ==
  /\ Looking /\ Front = "none"
  /\ Routed("telegram", bot) \/ Yields("telegram", bot) \/ Continues("telegram", bot)
  /\ bot' = "idle"

-----------------------------------------------------------------------------
(* Beside the chat *)

Older(age, n) == IF age > n THEN age ELSE age + 1

(* Ten minutes, say. *)
Tick ==
  /\ drills' = [k \in Drills |->
       IF drills[k] = NoDrill THEN NoDrill
       ELSE [drills[k] EXCEPT !.age = Older(@, LiveTTL)]]
  /\ preview' = IF preview = NoPreview THEN preview
                ELSE [preview EXCEPT !.age = Older(@, PreviewTTL)]
  /\ draft' = IF draft = NoDraft THEN draft ELSE [draft EXCEPT !.age = Older(@, PreviewTTL)]
  /\ UNCHANGED <<box, log, lastTrash, drafted, mover, cleaner, sent, told>>
  /\ UNCHANGED talk

(* adaptive.retro, Sunday evening: the scheduler opens the session. *)
RetroAsks ==
  /\ "retro" \in topic /\ Open("retro", drills)
  /\ UNCHANGED <<topic, plan, pending, bot, heard>> /\ UNCHANGED mail

MailStep ==
  /\ \/ MoverStep
     \/ \E m \in Mails : "arrivals" \in topic /\ Arrive(m)
     \/ \E c \in Cleaners \cap topic : CleanStep(c)
  /\ UNCHANGED drills /\ UNCHANGED talk

BotStep == BotPlan \/ BotApproval \/ BotForgets \/ BotSend \/ BotTrash \/ BotConsumes \/ BotRoutes

Next ==
  \/ \E t \in Texts : Command(t) \/ Text(t)
  \/ BotPlan \/ BotApproval \/ BotForgets \/ BotSend \/ BotTrash \/ BotConsumes \/ BotRoutes
  \/ RetroAsks \/ Tick \/ MailStep

Spec == Init /\ [][Next]_vars

(* The bot's handler and a batch of mails go on, time passes, some cleanup goes *)
(* on, and reading a mail does not fail for ever.                              *)
Beside == UNCHANGED drills /\ UNCHANGED talk
Fairness ==
  /\ WF_vars(Tick) /\ WF_vars(BotStep) /\ WF_vars(MoverStep /\ Beside)
  /\ WF_vars((\E c \in Cleaners \cap topic : CleanStep(c)) /\ Beside)
  /\ SF_vars((\E c \in Cleaners \cap topic, m \in Mails : CleanRead(c, m)) /\ Beside)
FairSpec == Spec /\ Fairness

-----------------------------------------------------------------------------
(* Properties *)

TypeOK ==
  /\ MailTypes
  /\ drills \in [Drills -> [left : 0..Questions, age : 0..(LiveTTL + 1)]]
  /\ plan \in {"none", "awaiting", "paused"} /\ pending \subseteq Pending
  /\ bot \in Texts \cup {"idle"} /\ starts \in 0..MaxStarts

(* No confirmation acts on a preview that has expired, whichever front it      *)
(* comes by and whatever was looked at, forgotten or replaced in between       *)
(* (email_agent.continue_trash, continue_send, telegram_bot._session_fresh).   *)
NothingActsLate ==
  [][/\ (mover = Resting /\ mover'.doing = "trash") => preview.age <= PreviewTTL
     /\ sent' # sent => draft.age <= PreviewTTL]_vars

(* A session does not hijack the assistant forever (telegram_bot.route_text):  *)
(* somebody who keeps asking the bot for something is heard by the router      *)
(* again and again.                                                            *)
RequestsGetThrough ==
  []<>(bot = "music") => []<>(heard.by = "router")

(* Every mail that stays in the inbox gets its row although runs of the        *)
(* cleanup break off and others overlap (email_agent.cleanup).                 *)
CleanupReachesEveryMail ==
  \A m \in Mails :
    (topic \cap Cleaners # {} /\ box[m] = "inbox") ~> (log[m] # "none" \/ box[m] # "inbox")

(* An answer that the bot gives to a mock, a quiz or a lesson is judged        *)
(* (telegram_bot.route_text: "quiz answer -> judged").                         *)
AnswersAreJudged == heard.by \in {"mock", "quiz", "tutor"} => heard.judged
=============================================================================
