------------------------- MODULE ConversationProofs -------------------------
(***************************************************************************)
(* What holds of the conversations and of the mailbox below them for every *)
(* value of the constants: that their rows are typed, that the audit of    *)
(* the mailbox is true, that a draft is sent once, and that nothing acts   *)
(* on a preview that has expired.                                          *)
(***************************************************************************)
EXTENDS Conversation, FiniteSetTheorems, WellFoundedInduction, TLAPS

-----------------------------------------------------------------------------
(* The invariants *)

Previews == [stage : {"none", "query", "confirm"}, age : 0..(PreviewTTL + 1), mails : SUBSET Mails]
Drafts   == [id : 0..MaxDrafts, age : 0..(PreviewTTL + 1)]
Movers   == [doing : {"idle", "trash", "restore"}, todo : SUBSET Mails, at : Mails \cup {0},
             done : SUBSET Mails, failed : BOOLEAN]
Runs     == [pc : {"off", "next", "file", "record"}, todo : SUBSET Mails, at : Mails \cup {0},
             bulk : BOOLEAN, action : {"none", "labelled", "archived", "error"}]
Sessions == [left : 0..Questions, age : 0..(LiveTTL + 1)]

(* What Gmail and the tables hold. *)
MailTyped ==
  /\ box \in [Mails -> Places] /\ log \in [Mails -> Actions]
  /\ preview \in Previews /\ lastTrash \subseteq Mails
  /\ draft \in Drafts /\ drafted \in 0..MaxDrafts
  /\ mover \in Movers /\ cleaner \in [Cleaners -> Runs]
  /\ \A c \in Cleaners : cleaner[c].pc \in {"file", "record"} => cleaner[c].at \in Mails
  /\ \A c \in Cleaners : cleaner[c].pc = "record" => cleaner[c].action # "none"
  /\ sent \in [1..MaxDrafts -> Nat] /\ told \in [1..MaxDrafts -> Nat]

TalkTyped ==
  /\ drills \in [Drills -> Sessions]
  /\ plan \in {"none", "awaiting", "paused"} /\ pending \subseteq Pending
  /\ bot \in Texts \cup {"idle"} /\ starts \in 0..MaxStarts

(* One handler of the chat at a time: while the bot looks for a session no     *)
(* batch of mails is being moved, and the handler that moves one is not the    *)
(* one that would start another.                                               *)
OneHandler ==
  /\ mover.doing = "idle" => mover = Resting
  /\ bot # "idle" => mover = Resting

(* A mail with a row came in once, and what may be restored has a row: a       *)
(* cleanup that filed it meanwhile will not write over that row.               *)
RowsKnown ==
  /\ \A m \in Mails : Seen(m) => box[m] # "unsent"
  /\ \A m \in lastTrash : Seen(m)
  /\ \A m \in mover.done : Seen(m)
  /\ mover.doing = "restore" => \A m \in mover.todo : Seen(m)

(* The mail that the chat holds is where it has just put it. *)
MoverKnows ==
  mover.at # 0 => \/ mover.doing = "trash" /\ box[mover.at] = "trash"
                  \/ mover.doing = "restore" /\ Seen(mover.at) /\ box[mover.at] # "trash"

(* A cleanup looks at mails that came in; the one that it has archived but not *)
(* recorded left the inbox, unless somebody else has recorded it.              *)
Knows(run) ==
  /\ \A m \in run.todo : box[m] # "unsent"
  /\ run.pc \in {"file", "record"} => box[run.at] # "unsent"
  /\ run.pc = "record" /\ run.action = "archived" => Seen(run.at) \/ box[run.at] # "inbox"
CleanersKnow == \A c \in Cleaners : Knows(cleaner[c])

AuditInv == OneHandler /\ RowsKnown /\ MoverKnows /\ CleanersKnow /\ AuditIsTrue

(* The draft that waits went out no more often than its failures were told. *)
SendInv ==
  /\ draft.id <= drafted /\ (draft.id = 0 => draft = NoDraft)
  /\ \A d \in 1..MaxDrafts : d > drafted => sent[d] = 0
  /\ draft.id # 0 => sent[draft.id] <= told[draft.id]
  /\ SentOnce

-----------------------------------------------------------------------------
(* What a message does to the mailbox *)

(* Time passes, or the bot forgets what is too old. *)
Aging ==
  /\ preview' \in {preview, NoPreview, [preview EXCEPT !.age = Older(@, PreviewTTL)]}
  /\ \/ draft' \in {draft, NoDraft}
     \/ draft # NoDraft /\ draft' = [draft EXCEPT !.age = Older(@, PreviewTTL)]
  /\ UNCHANGED <<box, log, lastTrash, drafted, mover, cleaner, sent, told>>

(* The mail flows that a handler may start or finish at once. *)
ChatStep ==
  \/ AskWhich \/ Search \/ ClearPreview
  \/ StartMoving /\ preview.age <= PreviewTTL
  \/ RestoreLast
  \/ Compose \/ ClearDraft
  \/ \E t \in Texts : ContinueSend(t) /\ draft # NoDraft /\ draft.age <= PreviewTTL

(* An answer to a preview clears it, searches anew or starts moving. *)
LEMMA ContinueTrashDoes ==
  ASSUME NEW t, ContinueTrash(t)
  PROVE  UNCHANGED mail \/ ChatStep
  BY DEF ContinueTrash, ChatStep

(* A request opens a session of a skill, or starts one mail flow. *)
LEMMA DispatchDoes ==
  ASSUME NEW t, NEW rest, Dispatch(t, rest)
  PROVE  UNCHANGED mail \/ ChatStep
  BY DEF Dispatch, StartDrill, StartMail, Undo, Elsewhere, RequestTrash, ChatStep

(* So does whatever the registry makes of a message. *)
LEMMA RouterDoes ==
  ASSUME NEW on, NEW t, Routed(on, t) \/ Yields(on, t) \/ Continues(on, t)
  PROVE  UNCHANGED mail \/ ChatStep
  <1>1. CASE Routed(on, t)
    BY <1>1, DispatchDoes DEF Routed
  <1>2. CASE Yields(on, t)
    <2>1. (\E rest : Dispatch(t, rest)) \/ ClearPreview
      BY <1>2 DEF Yields
    <2> QED BY <2>1, DispatchDoes DEF ChatStep
  <1>3. CASE Continues(on, t)
    <2>1. ContinueTrash(t) \/ UNCHANGED mail
      BY <1>3 DEF Continues
    <2> QED BY <2>1, ContinueTrashDoes
  <1> QED BY <1>1, <1>2, <1>3

(* A step of the chat finds no batch on its way; every other one leaves the    *)
(* bot's handler alone.                                                        *)
LEMMA StepsOfMail ==
  ASSUME TalkTyped, OneHandler, [Next]_vars
  PROVE  \/ UNCHANGED mail /\ (bot' = bot \/ mover = Resting)
         \/ ChatStep /\ mover = Resting /\ bot' = "idle"
         \/ Aging /\ bot' = bot
         \/ MoverStep /\ bot' = bot
         \/ (\E m \in Mails : Arrive(m)) /\ bot' = bot
         \/ (\E c \in Cleaners : CleanStep(c)) /\ bot' = bot
  <1>1. ASSUME NEW t \in Texts, Command(t)
        PROVE  (UNCHANGED mail \/ ChatStep) /\ mover = Resting /\ bot' = "idle"
    <2>1. mover = Resting /\ bot' = "idle"
      BY <1>1 DEF Command, ChatFree
    <2>2. CASE PlanReply("kernel", t)
      BY <2>1, <2>2 DEF PlanReply
    <2>3. CASE Routed("kernel", t) \/ Yields("kernel", t) \/ Continues("kernel", t)
      BY <2>1, <2>3, RouterDoes
    <2> QED BY <1>1, <2>2, <2>3 DEF Command
  <1>2. ASSUME NEW t \in Texts, Text(t)
        PROVE  UNCHANGED mail /\ mover = Resting
    BY <1>2 DEF Text, ChatFree
  <1>b. bot # "idle" => bot \in Texts /\ mover = Resting
    BY DEF TalkTyped, OneHandler
  <1>3. CASE BotPlan
    <2>1. UNCHANGED mail /\ bot # "idle"
      BY <1>3 DEF BotPlan, PlanReply
    <2> QED BY <1>b, <2>1
  <1>4. CASE BotApproval
    <2>1. UNCHANGED mail /\ bot # "idle"
      BY <1>4 DEF BotApproval
    <2> QED BY <1>b, <2>1
  <1>5. CASE BotForgets
    BY <1>5 DEF BotForgets, Aging, talk
  <1>6. CASE BotSend
    <2>1. bot # "idle" /\ bot' = "idle" /\ Fresh("send") /\ ContinueSend(bot)
      BY <1>6 DEF BotSend, Looking
    <2>2. draft # NoDraft /\ draft.age <= PreviewTTL
      BY <2>1 DEF Fresh, Present, AgeOf, TTL
    <2> QED BY <1>b, <2>1, <2>2 DEF ChatStep
  <1>7. CASE BotTrash
    <2>1. bot # "idle" /\ bot' = "idle" /\ ContinueTrash(bot)
      BY <1>7 DEF BotTrash, Looking
    <2> QED BY <1>b, <2>1, ContinueTrashDoes
  <1>8. CASE BotConsumes
    <2>1. UNCHANGED mail /\ bot # "idle"
      BY <1>8 DEF BotConsumes, Looking
    <2> QED BY <1>b, <2>1
  <1>9. CASE BotRoutes
    <2>1. bot # "idle" /\ bot' = "idle"
      BY <1>9 DEF BotRoutes, Looking
    <2>2. UNCHANGED mail \/ ChatStep
      BY <1>9, RouterDoes DEF BotRoutes
    <2> QED BY <1>b, <2>1, <2>2
  <1>10. CASE RetroAsks
    BY <1>10 DEF RetroAsks
  <1>11. CASE Tick
    BY <1>11 DEF Tick, Aging, talk
  <1>12. CASE MailStep
    BY <1>12 DEF MailStep, talk
  <1>13. CASE UNCHANGED vars
    BY <1>13 DEF vars, mail
  <1> QED BY <1>1, <1>2, <1>3, <1>4, <1>5, <1>6, <1>7, <1>8, <1>9, <1>10, <1>11, <1>12, <1>13
          DEF Next

-----------------------------------------------------------------------------
(* The conversations are typed *)

(* A session that is opened is one. *)
LEMMA OpenTyped ==
  ASSUME NEW k, NEW rest \in [Drills -> Sessions], starts \in 0..MaxStarts, Open(k, rest)
  PROVE  drills' \in [Drills -> Sessions] /\ starts' \in 0..MaxStarts
  <1> DEFINE new == [left |-> IF k \in {"mock", "quiz"} THEN Questions ELSE 1, age |-> 0]
  <1>1. new \in Sessions
    BY TalkAssumption DEF Sessions
  <1>2. drills' = [rest EXCEPT ![k] = new] /\ starts < MaxStarts /\ starts' = starts + 1
    BY DEF Open
  <1> HIDE DEF new
  <1>3. drills' \in [Drills -> Sessions]
    BY <1>1, <1>2
  <1> QED BY <1>2, <1>3, TalkAssumption

(* A request leaves sessions that are sessions. *)
LEMMA DispatchTyped ==
  ASSUME NEW t, NEW rest \in [Drills -> Sessions], starts \in 0..MaxStarts, Dispatch(t, rest)
  PROVE  drills' \in [Drills -> Sessions] /\ starts' \in 0..MaxStarts
  <1>1. MaxStarts \in Nat
    BY TalkAssumption
  <1>2. CASE StartDrill(t, rest)
    BY <1>2, OpenTyped DEF StartDrill
  <1>3. CASE StartMail(t, rest)
    BY <1>1, <1>3 DEF StartMail
  <1>4. CASE Undo(t, rest)
    BY <1>4 DEF Undo
  <1>5. CASE Elsewhere(t, rest)
    BY <1>5 DEF Elsewhere
  <1> QED BY <1>2, <1>3, <1>4, <1>5 DEF Dispatch

(* So does an answer to one of them. *)
LEMMA AnswerTyped ==
  ASSUME drills \in [Drills -> Sessions], NEW k, NEW d \in Sessions, NEW t,
         AnswerLive(k, d) \/ AnswerOther(k, t)
  PROVE  drills' \in [Drills -> Sessions]
  <1>1. NoDrill \in Sessions /\ [left |-> 1, age |-> 0] \in Sessions
    BY TalkAssumption DEF Sessions, NoDrill
  <1>2. d.left > 1 => [d EXCEPT !.left = @ - 1] \in Sessions
    BY TalkAssumption DEF Sessions
  <1>3. CASE AnswerTutor(d)
    BY <1>1, <1>3 DEF AnswerTutor
  <1>4. CASE AnswerQuestion(k, d)
    BY <1>1, <1>2, <1>4 DEF AnswerQuestion
  <1>5. CASE AnswerOther(k, t)
    BY <1>1, <1>5 DEF AnswerOther
  <1> QED BY <1>3, <1>4, <1>5 DEF AnswerLive

(* Whatever the registry makes of a message. *)
LEMMA RouterTyped ==
  ASSUME TalkTyped, NEW on, NEW t, Routed(on, t) \/ Yields(on, t) \/ Continues(on, t)
  PROVE  /\ drills' \in [Drills -> Sessions] /\ starts' \in 0..MaxStarts
         /\ UNCHANGED <<plan, pending>>
  <1>t. drills \in [Drills -> Sessions] /\ starts \in 0..MaxStarts
    BY DEF TalkTyped
  <1>1. CASE Routed(on, t)
    BY <1>1, <1>t, DispatchTyped DEF Routed
  <1>2. CASE Yields(on, t)
    <2> DEFINE k == FirstOf(RegistryOrder)
               rest == [drills EXCEPT ![k] = NoDrill]
    <2>1. NoDrill \in Sessions
      BY TalkAssumption DEF Sessions, NoDrill
    <2>2. rest \in [Drills -> Sessions]
      BY <1>t, <2>1
    <2>3. UNCHANGED <<plan, pending>>
      BY <1>2 DEF Yields
    <2>4. \/ Dispatch(t, rest)
          \/ t \in Drills /\ Open(t, drills)
          \/ UNCHANGED <<drills, starts>>
      BY <1>2 DEF Yields
    <2> HIDE DEF rest
    <2>5. ASSUME Open(t, drills)
          PROVE  drills' \in [Drills -> Sessions] /\ starts' \in 0..MaxStarts
      BY <1>t, <2>5, OpenTyped
    <2> QED BY <1>t, <2>2, <2>3, <2>4, <2>5, DispatchTyped
  <1>3. CASE Continues(on, t)
    <2> DEFINE k == FirstOf(RegistryOrder)
    <2>1. UNCHANGED <<plan, pending, starts>>
      BY <1>3 DEF Continues
    <2>2. \/ UNCHANGED drills
          \/ k \in {"mock", "quiz", "tutor"} /\ AnswerLive(k, drills[k])
          \/ AnswerOther(k, t)
      BY <1>3 DEF Continues
    <2>3. \A q \in Drills : drills[q] \in Sessions
      BY <1>t
    <2>4. "mock" \in Drills /\ {"mock", "quiz", "tutor"} \subseteq Drills
      BY DEF Drills
    <2> HIDE DEF k
    <2>5. drills' \in [Drills -> Sessions]
      <3>1. CASE AnswerOther(k, t)
        <4>1. "mock" \in Drills /\ drills["mock"] \in Sessions
          BY <2>3, <2>4
        <4> QED BY <1>t, <3>1, <4>1, AnswerTyped
      <3>2. CASE k \in {"mock", "quiz", "tutor"} /\ AnswerLive(k, drills[k])
        BY <1>t, <2>3, <2>4, <3>2, AnswerTyped
      <3> QED BY <1>t, <2>2, <3>1, <3>2
    <2> QED BY <1>t, <2>1, <2>5
  <1> QED BY <1>1, <1>2, <1>3

(* A reply to a plan. *)
LEMMA PlanReplyTyped ==
  ASSUME TalkTyped, NEW on, NEW t, PlanReply(on, t)
  PROVE  plan' \in {"none", "awaiting", "paused"} /\ UNCHANGED <<drills, starts, pending>>
  BY DEF PlanReply

(* A session stays one whatever is said, and whatever goes on beside it. *)
LEMMA TalkInductive == TalkTyped /\ [Next]_vars => TalkTyped'
  <1> SUFFICES ASSUME TalkTyped, [Next]_vars
               PROVE  TalkTyped'
    OBVIOUS
  <1>t. /\ drills \in [Drills -> Sessions]
        /\ plan \in {"none", "awaiting", "paused"} /\ pending \subseteq Pending
        /\ bot \in Texts \cup {"idle"} /\ starts \in 0..MaxStarts
    BY DEF TalkTyped
  <1>0. NoDrill \in Sessions
    BY TalkAssumption DEF Sessions, NoDrill
  <1>1. ASSUME NEW t \in Texts, Command(t)
        PROVE  TalkTyped'
    <2>1. bot' = bot
      BY <1>1 DEF Command
    <2>2. CASE PlanReply("kernel", t)
      BY <1>t, <2>1, <2>2, PlanReplyTyped DEF TalkTyped
    <2>3. CASE Routed("kernel", t) \/ Yields("kernel", t) \/ Continues("kernel", t)
      BY <1>t, <2>1, <2>3, RouterTyped DEF TalkTyped
    <2> QED BY <1>1, <2>2, <2>3 DEF Command
  <1>2. ASSUME NEW t \in Texts, Text(t)
        PROVE  TalkTyped'
    BY <1>2, <1>t DEF Text, TalkTyped
  <1>3. CASE BotPlan
    <2>1. PlanReply("telegram", bot) /\ bot' = "idle"
      BY <1>3 DEF BotPlan
    <2> QED BY <1>t, <2>1, PlanReplyTyped DEF TalkTyped
  <1>4. CASE BotApproval
    BY <1>4, <1>t DEF BotApproval, TalkTyped
  <1>5. CASE BotForgets
    <2>1. drills' = drills \/ drills' = [drills EXCEPT ![Front] = NoDrill]
      BY <1>5 DEF BotForgets
    <2>2. drills' \in [Drills -> Sessions]
      BY <1>t, <1>0, <2>1
    <2>3. UNCHANGED <<plan, pending, bot, starts>>
      BY <1>5 DEF BotForgets, talk
    <2> QED BY <1>t, <2>2, <2>3 DEF TalkTyped
  <1>6. CASE BotSend
    BY <1>6, <1>t DEF BotSend, ContinueSend, ClearDraft, TalkTyped
  <1>7. CASE BotTrash
    BY <1>7, <1>t DEF BotTrash, TalkTyped
  <1>8. CASE BotConsumes
    <2>1. AnswerLive(Front, NoDrill) /\ bot' = "idle" /\ UNCHANGED <<plan, pending, starts>>
      BY <1>8 DEF BotConsumes
    <2>2. drills' \in [Drills -> Sessions]
      BY <1>t, <1>0, <2>1, AnswerTyped
    <2> QED BY <1>t, <2>1, <2>2 DEF TalkTyped
  <1>9. CASE BotRoutes
    <2>1. /\ bot' = "idle"
          /\ Routed("telegram", bot) \/ Yields("telegram", bot) \/ Continues("telegram", bot)
      BY <1>9 DEF BotRoutes
    <2> QED BY <1>t, <2>1, RouterTyped DEF TalkTyped
  <1>10. CASE RetroAsks
    <2>1. Open("retro", drills) /\ UNCHANGED <<plan, pending, bot>>
      BY <1>10 DEF RetroAsks
    <2>2. drills' \in [Drills -> Sessions] /\ starts' \in 0..MaxStarts
      BY <1>t, <2>1, OpenTyped
    <2> QED BY <1>t, <2>1, <2>2 DEF TalkTyped
  <1>11. CASE Tick
    <2>1. UNCHANGED <<plan, pending, bot, starts>>
      BY <1>11 DEF Tick, talk
    <2>2. drills' = [k \in Drills |-> IF drills[k] = NoDrill THEN NoDrill
                                    ELSE [drills[k] EXCEPT !.age = Older(@, LiveTTL)]]
      BY <1>11 DEF Tick
    <2>3. \A d \in Sessions : [d EXCEPT !.age = Older(@, LiveTTL)] \in Sessions
      BY TalkAssumption DEF Sessions, Older
    <2>4. \A k \in Drills : drills[k] \in Sessions
      BY <1>t
    <2>5. drills' \in [Drills -> Sessions]
      <3>1. \A k \in Drills : [drills[k] EXCEPT !.age = Older(@, LiveTTL)] \in Sessions
        BY <2>3, <2>4
      <3> QED BY <1>0, <2>2, <3>1
    <2> QED BY <1>t, <2>1, <2>5 DEF TalkTyped
  <1>12. CASE MailStep
    BY <1>12, <1>t DEF MailStep, talk, TalkTyped
  <1>13. CASE UNCHANGED vars
    BY <1>13, <1>t DEF vars, TalkTyped
  <1> QED BY <1>1, <1>2, <1>3, <1>4, <1>5, <1>6, <1>7, <1>8, <1>9, <1>10, <1>11, <1>12, <1>13
          DEF Next

-----------------------------------------------------------------------------
(* The newest of some mails *)

(* Some mails have a newest, which is what Newest chooses: what a cleanup      *)
(* takes next is a mail of its list.                                           *)
LEMMA NewestIsOne ==
  ASSUME NEW S \in SUBSET Mails, S # {}
  PROVE  Newest(S) \in S
  <1>1. S \subseteq Nat /\ IsFiniteSet(S)
    BY MailAssumption, FS_Subset
  <1>2. PICK n \in Nat : ExistsSurjection(1..n, S)
    BY <1>1, FS_NatSurjection
  <1>3. PICK f \in [1..n -> S] : \A x \in S : \E i \in 1..n : f[i] = x
    BY <1>2 DEF ExistsSurjection, Surjection
  <1> DEFINE Bad == {k \in 1..n : ~ \E j \in 1..k : \A i \in 1..k : f[i] <= f[j]}
  <1>4. Bad = {}
    <2> SUFFICES ASSUME Bad # {}
                 PROVE  FALSE
      OBVIOUS
    <2>1. PICK k \in Bad : \A m \in Bad : k <= m
      <3>1. Bad \in SUBSET Nat
        OBVIOUS
      <3> HIDE DEF Bad
      <3>2. PICK k \in Bad : \A m \in Bad : <<m, k>> \notin OpToRel(<, Nat)
        BY <3>1, NatLessThanWellFounded, WFMin
      <3>3. \A m \in Bad : ~(m < k)
        BY <3>1, <3>2 DEF OpToRel
      <3>4. \A m \in Bad : m \in Nat /\ k \in Nat
        BY <3>1
      <3> QED BY <3>3, <3>4
    <2>k. k \in 1..n /\ 1..k \subseteq 1..n
      OBVIOUS
    <2>f. \A i \in 1..k : f[i] \in Nat
      BY <1>1, <2>k
    <2>2. k # 1
      <3> SUFFICES ASSUME k = 1
                   PROVE  FALSE
        OBVIOUS
      <3>1. \A i \in 1..k : f[i] <= f[1]
        BY <2>f
      <3> QED BY <3>1
    <2>3. k \in Nat /\ k - 1 \in 1..n /\ k - 1 \notin Bad
      <3>1. k \in Nat /\ k - 1 \in 1..n /\ ~(k <= k - 1)
        BY <2>k, <2>2
      <3> HIDE DEF Bad
      <3> QED BY <3>1, <2>1
    <2>4. PICK j \in 1..(k - 1) : \A i \in 1..(k - 1) : f[i] <= f[j]
      BY <2>3
    <2>5. \A i \in 1..k : i = k \/ i \in 1..(k - 1)
      BY <2>3
    <2>6. CASE f[k] <= f[j]
      <3>1. j \in 1..k /\ \A i \in 1..k : f[i] <= f[j]
        BY <2>3, <2>4, <2>5, <2>6
      <3> QED BY <3>1
    <2>7. CASE ~(f[k] <= f[j])
      <3>1. k \in 1..k /\ \A i \in 1..k : f[i] <= f[k]
        BY SMTT(20), <2>f, <2>3, <2>4, <2>5, <2>7
      <3> QED BY <3>1
    <2> QED BY <2>6, <2>7
  <1>5. n \in 1..n
    BY <1>3
  <1>6. PICK j \in 1..n : \A i \in 1..n : f[i] <= f[j]
    BY <1>4, <1>5
  <1>7. f[j] \in S /\ \A x \in S : x <= f[j]
    BY <1>3, <1>6
  <1> HIDE DEF Bad
  <1> QED BY <1>7 DEF Newest

-----------------------------------------------------------------------------
(* The mailbox is typed *)

(* The cleanup c goes on as run. *)
RunsOn(c, run) ==
  /\ cleaner' = [cleaner EXCEPT ![c] = run]
  /\ run.pc \in {"file", "record"} => run.at \in Mails
  /\ run.pc = "record" => run.action # "none"

(* The tables and the mailbox stay typed: what goes to Gmail and to a row is a  *)
(* mail that the handler or the cleanup holds.                                 *)
LEMMA MailInductive == MailTyped /\ TalkTyped /\ OneHandler /\ [Next]_vars => MailTyped'
  <1> SUFFICES ASSUME MailTyped, TalkTyped, OneHandler, [Next]_vars
               PROVE  MailTyped'
    OBVIOUS
  <1>t. /\ box \in [Mails -> Places] /\ log \in [Mails -> Actions]
        /\ preview \in Previews /\ lastTrash \subseteq Mails
        /\ draft \in Drafts /\ drafted \in 0..MaxDrafts
        /\ mover \in Movers /\ cleaner \in [Cleaners -> Runs]
        /\ \A c \in Cleaners : cleaner[c].pc \in {"file", "record"} => cleaner[c].at \in Mails
        /\ \A c \in Cleaners : cleaner[c].pc = "record" => cleaner[c].action # "none"
        /\ sent \in [1..MaxDrafts -> Nat] /\ told \in [1..MaxDrafts -> Nat]
    BY DEF MailTyped
  <1>0. /\ PreviewTTL \in Nat /\ MaxDrafts \in Nat /\ 0 \notin Mails
        /\ NoPreview \in Previews /\ NoDraft \in Drafts /\ Resting \in Movers /\ Off \in Runs
    BY MailAssumption DEF NoPreview, NoDraft, Resting, Off, Previews, Drafts, Movers, Runs
  <1>i. Inbox \in SUBSET Mails
    BY DEF Inbox
  <1>1. CASE UNCHANGED mail
    BY <1>1, <1>t DEF mail, MailTyped
  <1>2. CASE ChatStep
    <2>1. CASE AskWhich \/ Search \/ ClearPreview
      <3>1. preview' \in Previews
        BY <1>0, <1>i, <2>1 DEF AskWhich, Search, ClearPreview, Previews
      <3>2. UNCHANGED <<box, log, lastTrash, draft, drafted, mover, cleaner, sent, told>>
        BY <2>1 DEF AskWhich, Search, ClearPreview, gmailSide, sendSide
      <3> QED BY <1>t, <3>1, <3>2 DEF MailTyped
    <2>2. CASE StartMoving \/ RestoreLast
      <3>1. mover' \in Movers
        BY ZenonT(30), <1>t, <1>0, <2>2 DEF StartMoving, RestoreLast, Movers, Previews, Resting
      <3>2. UNCHANGED <<box, log, preview, lastTrash, draft, drafted, cleaner, sent, told>>
        BY <2>2 DEF StartMoving, RestoreLast, gmailSide, sendSide
      <3> QED BY <1>t, <3>1, <3>2 DEF MailTyped
    <2>3. CASE Compose \/ ClearDraft
      <3>1. draft' \in Drafts /\ drafted' \in 0..MaxDrafts
        BY SMTT(20), <1>t, <1>0, <2>3 DEF Compose, ClearDraft, Drafts
      <3>2. UNCHANGED <<box, log, preview, lastTrash, mover, cleaner, sent, told>>
        BY <2>3 DEF Compose, ClearDraft, gmailSide, trashSide
      <3> QED BY <1>t, <3>1, <3>2 DEF MailTyped
    <2>4. ASSUME NEW t \in Texts, ContinueSend(t)
          PROVE  MailTyped'
      <3>1. draft' \in {draft, NoDraft} /\ drafted' = drafted
        BY <2>4 DEF ContinueSend, ClearDraft
      <3>2. sent' \in [1..MaxDrafts -> Nat]
        <4>1. sent' = sent \/ sent' = [sent EXCEPT ![draft.id] = @ + 1]
          BY <2>4 DEF ContinueSend, ClearDraft, Sent
        <4>2. CASE draft.id \in 1..MaxDrafts
          BY <1>t, <4>1, <4>2
        <4>3. CASE draft.id \notin 1..MaxDrafts
          <5>1. sent' = sent
            BY ZenonT(30), <1>t, <4>1, <4>3
          <5> QED BY <1>t, <5>1
        <4> QED BY <4>2, <4>3
      <3>3. told' \in [1..MaxDrafts -> Nat]
        <4>1. told' = told \/ told' = [told EXCEPT ![draft.id] = @ + 1]
          BY <2>4 DEF ContinueSend, ClearDraft
        <4>2. CASE draft.id \in 1..MaxDrafts
          BY <1>t, <4>1, <4>2
        <4>3. CASE draft.id \notin 1..MaxDrafts
          <5>1. told' = told
            BY ZenonT(30), <1>t, <4>1, <4>3
          <5> QED BY <1>t, <5>1
        <4> QED BY <4>2, <4>3
      <3>4. UNCHANGED <<box, log, preview, lastTrash, mover, cleaner>>
        BY <2>4 DEF ContinueSend, ClearDraft, gmailSide, trashSide
      <3> QED BY <1>t, <1>0, <3>1, <3>2, <3>3, <3>4 DEF MailTyped
    <2> QED BY <1>2, <2>1, <2>2, <2>3, <2>4 DEF ChatStep
  <1>3. CASE Aging
    <2>1. preview' \in Previews
      BY <1>t, <1>0, <1>3 DEF Aging, Previews, Older
    <2>2. draft' \in Drafts
      BY <1>t, <1>0, <1>3 DEF Aging, Drafts, Older
    <2> QED BY <1>t, <1>3, <2>1, <2>2 DEF Aging, MailTyped
  <1>4. CASE MoverStep
    <2>1. box' \in [Mails -> Places]
      BY <1>t, <1>4 DEF MoverStep, TrashRecord, TrashDone, RestoreRecord, RestoreDone, TrashOne,
                        RestoreOne, gmailSide, Places
    <2>2. log' \in [Mails -> Actions]
      BY <1>t, <1>4 DEF MoverStep, TrashRecord, TrashDone, RestoreRecord, RestoreDone, TrashOne,
                        RestoreOne, gmailSide, RecordAndSet, SetEmailAction, Actions
    <2>3. preview' \in Previews
      BY <1>t, <1>0, <1>4 DEF MoverStep, TrashRecord, TrashDone, RestoreRecord, RestoreDone,
                              TrashOne, RestoreOne
    <2>4. lastTrash' \subseteq Mails
      BY <1>t, <1>4 DEF MoverStep, TrashRecord, TrashDone, RestoreRecord, RestoreDone,
                              TrashOne, RestoreOne, Movers
    <2>5. mover' \in Movers
      <3>1. CASE TrashRecord \/ RestoreRecord
        <4>1. mover' = [mover EXCEPT !.at = 0, !.done = @ \cup {mover.at}] /\ mover.at # 0
          BY <3>1 DEF TrashRecord, RestoreRecord
        <4> QED BY <1>t, <4>1 DEF Movers
      <3>2. CASE TrashDone \/ RestoreDone
        BY <1>0, <3>2 DEF TrashDone, RestoreDone
      <3>3. ASSUME NEW m \in Mails, TrashOne(m) \/ RestoreOne(m)
            PROVE  mover' \in Movers
        <4>1. \/ mover' = [mover EXCEPT !.todo = @ \ {m}, !.at = m]
              \/ mover' = [mover EXCEPT !.todo = @ \ {m}, !.failed = TRUE]
          BY <3>3 DEF TrashOne, RestoreOne
        <4> QED BY <1>t, <4>1 DEF Movers
      <3> QED BY <1>4, <3>1, <3>2, <3>3 DEF MoverStep
    <2>6. UNCHANGED <<draft, drafted, cleaner, sent, told>>
      BY <1>4 DEF MoverStep, TrashRecord, TrashDone, RestoreRecord, RestoreDone, TrashOne,
                  RestoreOne, gmailSide, sendSide
    <2> QED BY <1>t, <2>1, <2>2, <2>3, <2>4, <2>5, <2>6 DEF MailTyped
  <1>5. CASE \E m \in Mails : Arrive(m)
    <2>1. box' \in [Mails -> Places]
      BY <1>t, <1>5 DEF Arrive, Places
    <2> QED BY <1>t, <1>5, <2>1 DEF Arrive, MailTyped
  <1>6. ASSUME NEW c \in Cleaners, CleanStep(c)
        PROVE  MailTyped'
    <2>1. UNCHANGED <<preview, lastTrash, draft, drafted, mover, sent, told>>
      BY <1>6 DEF CleanStep, CleanStart, CleanSkip, CleanReadFails, CleanFile, CleanRecord,
                  CleanEnd, CleanRead, chatSide
    <2>2. box' \in [Mails -> Places]
      BY <1>t, <1>6 DEF CleanStep, CleanStart, CleanSkip, CleanReadFails, CleanFile, CleanRecord,
                  CleanEnd, CleanRead, Places
    <2>3. log' \in [Mails -> Actions]
      <3>1. \A a \in {"none", "labelled", "archived", "error"} : a \in Actions
        BY DEF Actions
      <3>2. cleaner[c].action \in {"none", "labelled", "archived", "error"}
        BY <1>t DEF Runs
      <3> QED BY <1>t, <1>6, <3>1, <3>2 DEF CleanStep, CleanStart, CleanSkip, CleanReadFails,
                  CleanFile, CleanRecord, CleanEnd, CleanRead, RecordEmail
    <2>4. \E run \in Runs : RunsOn(c, run)
      <3>t. cleaner[c] \in Runs
        BY <1>t
      <3>1. CASE CleanStart(c)
        <4> DEFINE run == [Off EXCEPT !.pc = "next", !.todo = Inbox]
        <4>1. run \in Runs /\ run.pc = "next"
          BY <1>0, <1>i DEF Runs, Off
        <4>2. cleaner' = [cleaner EXCEPT ![c] = run]
          BY <3>1 DEF CleanStart
        <4> HIDE DEF run
        <4> QED BY <4>1, <4>2 DEF RunsOn
      <3>2. CASE CleanSkip(c)
        <4> DEFINE run == [cleaner[c] EXCEPT !.todo = @ \ {Newest(cleaner[c].todo)}]
        <4>1. cleaner' = [cleaner EXCEPT ![c] = run] /\ cleaner[c].pc = "next"
          BY <3>2 DEF CleanSkip
        <4>2. run \in Runs /\ run.pc = "next"
          BY <3>t, <4>1 DEF Runs
        <4> HIDE DEF run
        <4> QED BY <4>1, <4>2 DEF RunsOn
      <3>3. CASE CleanReadFails(c) \/ CleanEnd(c)
        <4>1. cleaner' = [cleaner EXCEPT ![c] = Off] /\ Off.pc = "off"
          BY <3>3 DEF CleanReadFails, CleanEnd, Off
        <4> QED BY <1>0, <4>1 DEF RunsOn
      <3>4. ASSUME NEW m \in Mails, CleanRead(c, m)
            PROVE  \E run \in Runs : RunsOn(c, run)
        <4>1. PICK bulk \in BOOLEAN :
                 cleaner' = [cleaner EXCEPT ![c].pc = "file", ![c].at = m, ![c].bulk = bulk,
                                            ![c].todo = @ \ {m}]
          BY <3>4 DEF CleanRead
        <4> DEFINE run == [cleaner[c] EXCEPT !.pc = "file", !.at = m, !.bulk = bulk,
                                             !.todo = @ \ {m}]
        <4>2. cleaner' = [cleaner EXCEPT ![c] = run]
          BY <1>t, <4>1
        <4>3. run \in Runs /\ run.pc = "file" /\ run.at = m
          BY <3>t DEF Runs
        <4> HIDE DEF run
        <4> QED BY <4>2, <4>3 DEF RunsOn
      <3>5. CASE CleanFile(c)
        <4>1. PICK a \in {"archived", "labelled", "error"} :
                 /\ cleaner' = [cleaner EXCEPT ![c].pc = "record", ![c].action = a]
                 /\ cleaner[c].pc = "file"
          BY <3>5 DEF CleanFile
        <4> DEFINE run == [cleaner[c] EXCEPT !.pc = "record", !.action = a]
        <4>2. cleaner' = [cleaner EXCEPT ![c] = run]
          BY <1>t, <4>1
        <4>3. run \in Runs /\ run.at = cleaner[c].at /\ run.action # "none"
          BY <3>t DEF Runs
        <4>4. cleaner[c].at \in Mails
          BY <1>t, <4>1
        <4> HIDE DEF run
        <4> QED BY <4>2, <4>3, <4>4 DEF RunsOn
      <3>6. CASE CleanRecord(c)
        <4> DEFINE run == [cleaner[c] EXCEPT !.pc = "next", !.at = 0, !.action = "none",
                                             !.bulk = FALSE]
        <4>1. cleaner' = [cleaner EXCEPT ![c] = run]
          BY <1>t, <3>6 DEF CleanRecord
        <4>2. run \in Runs /\ run.pc = "next"
          BY <3>t DEF Runs
        <4> HIDE DEF run
        <4> QED BY <4>1, <4>2 DEF RunsOn
      <3> QED BY <1>6, <3>1, <3>2, <3>3, <3>4, <3>5, <3>6 DEF CleanStep
    <2>5. /\ cleaner' \in [Cleaners -> Runs]
          /\ \A d \in Cleaners : cleaner'[d].pc \in {"file", "record"} => cleaner'[d].at \in Mails
          /\ \A d \in Cleaners : cleaner'[d].pc = "record" => cleaner'[d].action # "none"
      <3>1. PICK run \in Runs : RunsOn(c, run)
        BY <2>4
      <3>2. cleaner' \in [Cleaners -> Runs]
        BY <1>t, <3>1 DEF RunsOn
      <3>3. cleaner'[c] = run /\ \A d \in Cleaners \ {c} : cleaner'[d] = cleaner[d]
        BY <1>t, <3>1 DEF RunsOn
      <3> QED BY <1>t, <3>1, <3>2, <3>3 DEF RunsOn
    <2> QED BY <1>t, <2>1, <2>2, <2>3, <2>5 DEF MailTyped
  <1> QED BY <1>1, <1>2, <1>3, <1>4, <1>5, <1>6, StepsOfMail

-----------------------------------------------------------------------------
(* The audit of the mailbox *)

(* A batch starts only from a chat at rest, and ends with its handler. *)
LEMMA OneHandlerInductive ==
  MailTyped /\ TalkTyped /\ OneHandler /\ MoverKnows /\ [Next]_vars => OneHandler'
  <1> SUFFICES ASSUME MailTyped, TalkTyped, OneHandler, MoverKnows, [Next]_vars
               PROVE  OneHandler'
    OBVIOUS
  <1>t. mover \in Movers
    BY DEF MailTyped
  <1>1. CASE UNCHANGED mail /\ (bot' = bot \/ mover = Resting)
    BY <1>1 DEF mail, OneHandler
  <1>2. CASE ChatStep /\ mover = Resting /\ bot' = "idle"
    <2>1. mover' = mover \/ mover'.doing \in {"trash", "restore"}
      BY <1>2 DEF ChatStep, AskWhich, Search, ClearPreview, StartMoving, RestoreLast, Compose,
                  ClearDraft, ContinueSend, trashSide, Resting
    <2> QED BY <1>2, <2>1 DEF OneHandler
  <1>3. CASE Aging /\ bot' = bot
    BY <1>3 DEF Aging, OneHandler
  <1>4. CASE MoverStep /\ bot' = bot
    <2>1. mover.doing # "idle"
      BY <1>4 DEF MoverStep, TrashRecord, TrashDone, RestoreRecord, RestoreDone, TrashOne,
                  RestoreOne
    <2>2. mover # Resting
      BY <2>1 DEF Resting
    <2>3. mover' = Resting \/ mover'.doing = mover.doing
      BY <1>t, <1>4 DEF MoverStep, TrashRecord, TrashDone, RestoreRecord, RestoreDone, TrashOne,
                        RestoreOne, Movers
    <2> QED BY <1>4, <2>1, <2>2, <2>3 DEF OneHandler
  <1>5. CASE (\E m \in Mails : Arrive(m)) /\ bot' = bot
    BY <1>5 DEF Arrive, OneHandler
  <1>6. CASE (\E c \in Cleaners : CleanStep(c)) /\ bot' = bot
    <2>1. mover' = mover
      BY <1>6 DEF CleanStep, CleanStart, CleanSkip, CleanReadFails, CleanFile, CleanRecord,
                  CleanEnd, CleanRead, chatSide
    <2> QED BY <1>6, <2>1 DEF OneHandler
  <1> QED BY <1>1, <1>2, <1>3, <1>4, <1>5, <1>6, StepsOfMail

(* A step that neither moves a mail nor writes its row. *)
LEMMA NothingFiled ==
  ASSUME AuditInv, OneHandler', UNCHANGED <<box, log, lastTrash, mover, cleaner>>
  PROVE  AuditInv'
  BY DEF AuditInv, RowsKnown, MoverKnows, CleanersKnow, Knows, AuditIsTrue, Seen

(* A batch that starts holds no mail yet; one that is to be restored has rows. *)
LEMMA BatchStarts ==
  ASSUME MailTyped, AuditInv, OneHandler', mover = Resting, StartMoving \/ RestoreLast
  PROVE  AuditInv'
  <1>1. UNCHANGED <<box, log, lastTrash, cleaner>>
    BY DEF StartMoving, RestoreLast, gmailSide
  <1>2. /\ mover'.at = 0 /\ mover'.done = {} /\ mover.at = 0
        /\ mover'.doing = "restore" => mover'.todo = lastTrash
    <2>1. CASE StartMoving
      BY <2>1 DEF StartMoving, Resting
    <2>2. CASE RestoreLast
      BY <2>2 DEF RestoreLast, Resting
    <2> QED BY <2>1, <2>2
  <1>3. RowsKnown'
    BY <1>1, <1>2 DEF AuditInv, RowsKnown, Seen
  <1>4. MoverKnows'
    BY <1>2 DEF MoverKnows
  <1>5. CleanersKnow'
    BY <1>1 DEF AuditInv, CleanersKnow, Knows, Seen
  <1>6. AuditIsTrue'
    BY <1>1, <1>2 DEF AuditInv, AuditIsTrue
  <1> QED BY <1>3, <1>4, <1>5, <1>6 DEF AuditInv

(* One mail goes to the Trash: it is the one held. *)
LEMMA TrashOneKeeps ==
  ASSUME MailTyped, AuditInv, OneHandler', NEW m \in Mails, TrashOne(m)
  PROVE  AuditInv'
  <1>t. /\ box \in [Mails -> Places] /\ mover \in Movers /\ 0 \notin Mails
        /\ cleaner \in [Cleaners -> Runs] /\ lastTrash \subseteq Mails
        /\ \A c \in Cleaners : cleaner[c].pc \in {"file", "record"} => cleaner[c].at \in Mails
    BY MailAssumption DEF MailTyped
  <1>0. mover.doing = "trash" /\ mover.at = 0 /\ UNCHANGED <<log, lastTrash, cleaner>>
    BY DEF TrashOne
  <1>1. CASE /\ box' = [box EXCEPT ![m] = "trash"]
             /\ mover' = [mover EXCEPT !.todo = @ \ {m}, !.at = m]
    <2>1. mover'.doing = "trash" /\ mover'.at = m /\ mover'.done = mover.done
      BY <1>t, <1>0, <1>1 DEF Movers
    <2>2. box'[m] = "trash" /\ \A n \in Mails \ {m} : box'[n] = box[n]
      BY <1>t, <1>1
    <2>3. RowsKnown'
      BY <1>t, <1>0, <2>1, <2>2 DEF AuditInv, RowsKnown, Seen
    <2>4. MoverKnows'
      BY <2>1, <2>2 DEF MoverKnows
    <2>5. CleanersKnow'
      <3>1. \A n \in Mails : box[n] # "unsent" => box'[n] # "unsent"
        BY <2>2
      <3>2. \A n \in Mails : box[n] # "inbox" => box'[n] # "inbox"
        BY <2>2
      <3>3. \A c \in Cleaners : cleaner[c].todo \subseteq Mails
        BY <1>t DEF Runs
      <3> QED BY <1>t, <1>0, <3>1, <3>2, <3>3 DEF AuditInv, CleanersKnow, Knows, Seen
    <2>6. AuditIsTrue'
      BY <1>t, <1>0, <2>1, <2>2 DEF AuditInv, AuditIsTrue
    <2> QED BY <2>3, <2>4, <2>5, <2>6 DEF AuditInv
  <1>2. CASE box' = box /\ mover' = [mover EXCEPT !.todo = @ \ {m}, !.failed = TRUE]
    <2>1. mover'.doing = "trash" /\ mover'.at = 0 /\ mover'.done = mover.done
      BY <1>t, <1>0, <1>2 DEF Movers
    <2> QED BY <1>0, <1>2, <2>1
            DEF AuditInv, RowsKnown, MoverKnows, CleanersKnow, Knows, AuditIsTrue, Seen
  <1> QED BY <1>1, <1>2 DEF TrashOne

(* One mail comes back: it has a row. *)
LEMMA RestoreOneKeeps ==
  ASSUME MailTyped, AuditInv, OneHandler', NEW m \in Mails, RestoreOne(m)
  PROVE  AuditInv'
  <1>t. /\ box \in [Mails -> Places] /\ mover \in Movers /\ 0 \notin Mails
        /\ cleaner \in [Cleaners -> Runs] /\ lastTrash \subseteq Mails
        /\ \A c \in Cleaners : cleaner[c].pc \in {"file", "record"} => cleaner[c].at \in Mails
    BY MailAssumption DEF MailTyped
  <1>0. /\ mover.doing = "restore" /\ mover.at = 0 /\ m \in mover.todo
        /\ UNCHANGED <<log, lastTrash, cleaner>>
    BY DEF RestoreOne
  <1>s. Seen(m) /\ box[m] # "unsent"
    BY <1>0 DEF AuditInv, RowsKnown
  <1>1. CASE /\ box' = [box EXCEPT ![m] = IF @ = "trash" THEN "inbox" ELSE @]
             /\ mover' = [mover EXCEPT !.todo = @ \ {m}, !.at = m]
    <2>1. /\ mover'.doing = "restore" /\ mover'.at = m /\ mover'.done = mover.done
          /\ mover'.todo = mover.todo \ {m}
      BY <1>t, <1>0, <1>1 DEF Movers
    <2>2. /\ box'[m] # "trash" /\ box'[m] # "unsent"
          /\ \A n \in Mails \ {m} : box'[n] = box[n]
      BY <1>t, <1>1, <1>s
    <2>3. RowsKnown'
      BY <1>t, <1>0, <2>1, <2>2 DEF AuditInv, RowsKnown, Seen
    <2>4. MoverKnows'
      BY <1>0, <1>s, <2>1, <2>2 DEF MoverKnows, Seen
    <2>5. CleanersKnow'
      <3>1. \A n \in Mails : box[n] # "unsent" => box'[n] # "unsent"
        BY <2>2
      <3>2. \A n \in Mails : Seen(n) \/ box[n] # "inbox" => Seen(n) \/ box'[n] # "inbox"
        BY <1>s, <2>2
      <3>3. \A c \in Cleaners : cleaner[c].todo \subseteq Mails
        BY <1>t DEF Runs
      <3> QED BY <1>t, <1>0, <3>1, <3>2, <3>3 DEF AuditInv, CleanersKnow, Knows, Seen
    <2>6. AuditIsTrue'
      BY <1>t, <1>0, <2>1, <2>2 DEF AuditInv, AuditIsTrue
    <2> QED BY <2>3, <2>4, <2>5, <2>6 DEF AuditInv
  <1>2. CASE box' = box /\ mover' = [mover EXCEPT !.todo = @ \ {m}, !.failed = TRUE]
    <2>1. /\ mover'.doing = "restore" /\ mover'.at = 0 /\ mover'.done = mover.done
          /\ mover'.todo \subseteq mover.todo
      BY <1>t, <1>0, <1>2 DEF Movers
    <2> QED BY <1>0, <1>2, <2>1
            DEF AuditInv, RowsKnown, MoverKnows, CleanersKnow, Knows, AuditIsTrue, Seen
  <1> QED BY <1>1, <1>2 DEF RestoreOne

(* The row of the mail that is held is written: it says where the mail is. *)
LEMMA RecordKeeps ==
  ASSUME MailTyped, AuditInv, OneHandler', TrashRecord \/ RestoreRecord
  PROVE  AuditInv'
  <1>t. /\ log \in [Mails -> Actions] /\ mover \in Movers /\ 0 \notin Mails
        /\ cleaner \in [Cleaners -> Runs] /\ lastTrash \subseteq Mails
        /\ \A c \in Cleaners : cleaner[c].pc \in {"file", "record"} => cleaner[c].at \in Mails
    BY MailAssumption DEF MailTyped
  <1> DEFINE m == mover.at
  <1>0. /\ m \in Mails /\ mover' = [mover EXCEPT !.at = 0, !.done = @ \cup {mover.at}]
        /\ UNCHANGED <<box, lastTrash, cleaner>>
    BY <1>t DEF TrashRecord, RestoreRecord, Movers
  <1>1. /\ log' = [log EXCEPT ![m] = log'[m]]
        /\ \/ mover.doing = "trash" /\ log'[m] = "trashed" /\ box[m] = "trash"
           \/ /\ mover.doing = "restore" /\ log'[m] = "restored"
              /\ box[m] # "trash" /\ box[m] # "unsent"
    <2>1. CASE TrashRecord
      BY <1>t, <1>0, <2>1 DEF TrashRecord, RecordAndSet, AuditInv, MoverKnows
    <2>2. CASE RestoreRecord
      <3>1. mover.doing = "restore" /\ Seen(m) /\ box[m] # "trash"
        BY <1>t, <1>0, <2>2 DEF RestoreRecord, AuditInv, MoverKnows
      <3>2. box[m] # "unsent"
        BY <1>0, <3>1 DEF AuditInv, RowsKnown
      <3>3. log' = [log EXCEPT ![m] = "restored"]
        BY <2>2, <3>1 DEF RestoreRecord, SetEmailAction
      <3> QED BY <1>t, <1>0, <3>1, <3>2, <3>3
    <2> QED BY <2>1, <2>2
  <1>2. /\ mover'.at = 0 /\ mover'.doing = mover.doing /\ mover'.done = mover.done \cup {m}
        /\ mover'.todo = mover.todo
    BY <1>t, <1>0 DEF Movers
  <1>3. log'[m] # "none" /\ \A n \in Mails \ {m} : log'[n] = log[n]
    BY <1>t, <1>0, <1>1
  <1>4. \A n \in Mails : Seen(n) => Seen(n)'
    BY <1>3 DEF Seen
  <1> HIDE DEF m
  <1>5. RowsKnown'
    <2>1. mover.todo \subseteq Mails /\ mover.done \subseteq Mails
      BY <1>t DEF Movers
    <2>2. \A n \in Mails : Seen(n)' => box'[n] # "unsent"
      BY <1>0, <1>1, <1>3 DEF AuditInv, RowsKnown, Seen
    <2>3. \A n \in lastTrash' : Seen(n)'
      BY <1>t, <1>0, <1>4 DEF AuditInv, RowsKnown
    <2>4. \A n \in mover'.done : Seen(n)'
      BY <1>0, <1>2, <1>3, <1>4, <2>1 DEF AuditInv, RowsKnown, Seen
    <2>5. mover'.doing = "restore" => \A n \in mover'.todo : Seen(n)'
      BY <1>2, <1>4, <2>1 DEF AuditInv, RowsKnown
    <2> QED BY <2>2, <2>3, <2>4, <2>5 DEF RowsKnown
  <1>6. MoverKnows'
    BY <1>2 DEF MoverKnows
  <1>7. CleanersKnow'
    BY <1>t, <1>0, <1>4 DEF AuditInv, CleanersKnow, Knows
  <1>8. AuditIsTrue'
    BY <1>0, <1>1, <1>2, <1>3 DEF AuditInv, AuditIsTrue, m
  <1> QED BY <1>5, <1>6, <1>7, <1>8 DEF AuditInv

(* A batch ends: what it moved is remembered, and has rows. *)
LEMMA BatchEnds ==
  ASSUME MailTyped, AuditInv, OneHandler', TrashDone \/ RestoreDone
  PROVE  AuditInv'
  <1>1. /\ UNCHANGED <<box, log, cleaner>> /\ mover' = Resting /\ mover.at = 0
        /\ \/ lastTrash' = mover.done
           \/ lastTrash' \in {lastTrash, {}}
    BY DEF TrashDone, RestoreDone, gmailSide
  <1>2. mover'.at = 0 /\ mover'.done = {} /\ mover'.doing = "idle"
    BY <1>1 DEF Resting
  <1>3. RowsKnown'
    BY <1>1, <1>2 DEF AuditInv, RowsKnown, Seen
  <1>4. MoverKnows'
    BY <1>2 DEF MoverKnows
  <1>5. CleanersKnow'
    BY <1>1 DEF AuditInv, CleanersKnow, Knows, Seen
  <1>6. AuditIsTrue'
    BY <1>1, <1>2 DEF AuditInv, AuditIsTrue
  <1> QED BY <1>3, <1>4, <1>5, <1>6 DEF AuditInv

(* A mail that comes in has no row, and no cleanup holds it. *)
LEMMA ArriveKeeps ==
  ASSUME MailTyped, AuditInv, OneHandler', NEW m \in Mails, Arrive(m)
  PROVE  AuditInv'
  <1>t. /\ box \in [Mails -> Places] /\ mover \in Movers
        /\ cleaner \in [Cleaners -> Runs] /\ lastTrash \subseteq Mails
        /\ \A c \in Cleaners : cleaner[c].pc \in {"file", "record"} => cleaner[c].at \in Mails
    BY DEF MailTyped
  <1>1. /\ box[m] = "unsent" /\ box'[m] = "inbox" /\ \A n \in Mails \ {m} : box'[n] = box[n]
        /\ UNCHANGED <<log, lastTrash, mover, cleaner>>
    BY <1>t DEF Arrive
  <1>2. ~Seen(m)
    BY <1>1 DEF AuditInv, RowsKnown
  <1>3. RowsKnown'
    BY <1>1, <1>2 DEF AuditInv, RowsKnown, Seen
  <1>4. MoverKnows'
    <2>1. mover.at \in Mails \cup {0}
      BY <1>t DEF Movers
    <2>2. mover.at # 0 => box[mover.at] # "unsent"
      BY <2>1 DEF AuditInv, MoverKnows, RowsKnown
    <2> QED BY <1>1, <2>1, <2>2 DEF AuditInv, MoverKnows, Seen
  <1>5. CleanersKnow'
    <2>1. \A c \in Cleaners : cleaner[c].todo \subseteq Mails
      BY <1>t DEF Runs
    <2>2. \A n \in Mails : box[n] # "unsent" => box'[n] = box[n]
      BY <1>1
    <2> QED BY <1>t, <1>1, <2>1, <2>2 DEF AuditInv, CleanersKnow, Knows, Seen
  <1>6. AuditIsTrue'
    BY <1>1, <1>2 DEF AuditInv, AuditIsTrue, Seen
  <1> QED BY <1>3, <1>4, <1>5, <1>6 DEF AuditInv

(* A cleanup that looks for the next mail, or ends. *)
LEMMA CleanerLooks ==
  ASSUME MailTyped, AuditInv, OneHandler', NEW c \in Cleaners, NEW run \in Runs,
         cleaner' = [cleaner EXCEPT ![c] = run], UNCHANGED <<box, log, lastTrash, mover>>,
         \A m \in run.todo : box[m] # "unsent",
         run.pc \in {"file", "record"} => box[run.at] # "unsent",
         run.pc = "record" /\ run.action = "archived" => Seen(run.at) \/ box[run.at] # "inbox"
  PROVE  AuditInv'
  <1>1. cleaner'[c] = run /\ \A d \in Cleaners \ {c} : cleaner'[d] = cleaner[d]
    BY DEF MailTyped
  <1>2. CleanersKnow'
    BY <1>1 DEF AuditInv, CleanersKnow, Knows, Seen
  <1>3. RowsKnown' /\ MoverKnows' /\ AuditIsTrue'
    BY DEF AuditInv, RowsKnown, MoverKnows, AuditIsTrue, Seen
  <1> QED BY <1>2, <1>3 DEF AuditInv

(* Gmail files the mail that a cleanup holds: what left the inbox stays out. *)
LEMMA CleanFileKeeps ==
  ASSUME MailTyped, AuditInv, OneHandler', NEW c \in Cleaners, CleanFile(c)
  PROVE  AuditInv'
  <1>t. /\ box \in [Mails -> Places] /\ log \in [Mails -> Actions] /\ mover \in Movers
        /\ cleaner \in [Cleaners -> Runs] /\ cleaner[c] \in Runs /\ lastTrash \subseteq Mails
        /\ \A d \in Cleaners : cleaner[d].pc \in {"file", "record"} => cleaner[d].at \in Mails
    BY DEF MailTyped
  <1> DEFINE m == cleaner[c].at
  <1>0. /\ cleaner[c].pc = "file" /\ m \in Mails /\ box[m] # "unsent"
        /\ UNCHANGED <<log, lastTrash, mover>>
    BY <1>t DEF CleanFile, chatSide, AuditInv, CleanersKnow, Knows
  <1>1. PICK a \in {"archived", "labelled", "error"} :
           /\ cleaner' = [cleaner EXCEPT ![c].pc = "record", ![c].action = a]
           /\ \/ box' = box /\ a # "archived"
              \/ box' = [box EXCEPT ![m] = IF @ = "inbox" THEN "archived" ELSE @] /\ a = "archived"
    BY <1>t DEF CleanFile
  <1>2. /\ \A n \in Mails : box'[n] = box[n] \/ (n = m /\ box[n] = "inbox" /\ box'[n] = "archived")
        /\ a = "archived" => box'[m] # "inbox"
    BY <1>t, <1>0, <1>1
  <1>3. /\ cleaner'[c].pc = "record" /\ cleaner'[c].at = m /\ cleaner'[c].action = a
        /\ cleaner'[c].todo = cleaner[c].todo
        /\ \A d \in Cleaners \ {c} : cleaner'[d] = cleaner[d]
    BY <1>t, <1>1 DEF Runs
  <1> HIDE DEF m
  <1>4. RowsKnown'
    BY <1>0, <1>2 DEF AuditInv, RowsKnown, Seen
  <1>5. MoverKnows'
    <2>1. mover.at \in Mails \cup {0}
      BY <1>t DEF Movers
    <2> QED BY <1>0, <1>2, <2>1 DEF AuditInv, MoverKnows, Seen
  <1>6. CleanersKnow'
    <2>1. \A d \in Cleaners : cleaner[d].todo \subseteq Mails
      BY <1>t DEF Runs
    <2>2. \A n \in Mails :
            (box[n] # "unsent" => box'[n] # "unsent") /\ (box[n] # "inbox" => box'[n] # "inbox")
      BY <1>2
    <2>3. ASSUME NEW d \in Cleaners, d # c
          PROVE  Knows(cleaner[d])'
      <3>1. Knows(cleaner[d]) /\ cleaner'[d] = cleaner[d] /\ cleaner[d].todo \subseteq Mails
        BY <1>3, <2>1, <2>3 DEF AuditInv, CleanersKnow
      <3>2. cleaner[d].pc \in {"file", "record"} => cleaner[d].at \in Mails
        BY <1>t, <2>3
      <3>3. \A n \in Mails : Seen(n)' <=> Seen(n)
        BY <1>0 DEF Seen
      <3> QED BY <2>2, <3>1, <3>2, <3>3 DEF Knows
    <2>4. Knows(cleaner[c])'
      BY <1>0, <1>2, <1>3, <2>1, <2>2 DEF AuditInv, CleanersKnow, Knows
    <2> QED BY <2>3, <2>4 DEF CleanersKnow
  <1>7. AuditIsTrue'
    BY <1>0, <1>2 DEF AuditInv, AuditIsTrue
  <1> QED BY <1>4, <1>5, <1>6, <1>7 DEF AuditInv

(* A cleanup writes a row only where there is none. *)
LEMMA CleanRecordKeeps ==
  ASSUME MailTyped, AuditInv, OneHandler', NEW c \in Cleaners, CleanRecord(c)
  PROVE  AuditInv'
  <1>t. /\ log \in [Mails -> Actions] /\ mover \in Movers
        /\ cleaner \in [Cleaners -> Runs] /\ cleaner[c] \in Runs /\ lastTrash \subseteq Mails
        /\ \A d \in Cleaners : cleaner[d].pc \in {"file", "record"} => cleaner[d].at \in Mails
    BY DEF MailTyped
  <1> DEFINE m == cleaner[c].at
             a == cleaner[c].action
  <1>0. /\ cleaner[c].pc = "record" /\ m \in Mails /\ box[m] # "unsent"
        /\ a \in {"labelled", "archived", "error"}
        /\ a = "archived" => Seen(m) \/ box[m] # "inbox"
        /\ UNCHANGED <<box, lastTrash, mover>>
    <2>1. cleaner[c].pc = "record" /\ UNCHANGED <<box, lastTrash, mover>>
      BY DEF CleanRecord, chatSide
    <2>2. m \in Mails /\ a # "none" /\ a \in {"none", "labelled", "archived", "error"}
      BY <1>t, <2>1 DEF Runs, MailTyped
    <2> QED BY <2>1, <2>2 DEF AuditInv, CleanersKnow, Knows
  <1>1. log' = [log EXCEPT ![m] = IF Seen(m) THEN @ ELSE a]
    BY DEF CleanRecord, RecordEmail
  <1>2. /\ \A n \in Mails \ {m} : log'[n] = log[n]
        /\ \/ Seen(m) /\ log'[m] = log[m]
           \/ ~Seen(m) /\ log'[m] = a
    BY <1>t, <1>0, <1>1
  <1>3. \A n \in Mails : Seen(n) => Seen(n)' /\ log'[n] = log[n]
    BY <1>2 DEF Seen
  <1>4. /\ cleaner'[c].pc = "next" /\ cleaner'[c].todo = cleaner[c].todo
        /\ \A d \in Cleaners \ {c} : cleaner'[d] = cleaner[d]
    <2>1. cleaner' = [cleaner EXCEPT ![c].pc = "next", ![c].at = 0, ![c].action = "none",
                                     ![c].bulk = FALSE]
      BY DEF CleanRecord
    <2> QED BY <1>t, <2>1 DEF Runs
  <1> HIDE DEF m, a
  <1>5. RowsKnown'
    <2>1. mover.todo \subseteq Mails /\ mover.done \subseteq Mails
      BY <1>t DEF Movers
    <2>2. \A n \in Mails : Seen(n)' => box'[n] # "unsent"
      BY <1>0, <1>2 DEF AuditInv, RowsKnown, Seen
    <2> QED BY <1>t, <1>0, <1>3, <2>1, <2>2 DEF AuditInv, RowsKnown
  <1>6. MoverKnows'
    <2>1. mover.at \in Mails \cup {0}
      BY <1>t DEF Movers
    <2> QED BY <1>0, <1>3, <2>1 DEF AuditInv, MoverKnows
  <1>7. CleanersKnow'
    <2>1. ASSUME NEW d \in Cleaners, d # c
          PROVE  Knows(cleaner[d])'
      <3>1. Knows(cleaner[d]) /\ cleaner'[d] = cleaner[d]
        BY <1>4, <2>1 DEF AuditInv, CleanersKnow
      <3>2. cleaner[d].pc \in {"file", "record"} => cleaner[d].at \in Mails
        BY <1>t
      <3> QED BY <1>0, <1>3, <3>1, <3>2 DEF Knows, Seen
    <2>2. Knows(cleaner[c])'
      BY <1>0, <1>4 DEF AuditInv, CleanersKnow, Knows
    <2> QED BY <2>1, <2>2 DEF CleanersKnow
  <1>8. AuditIsTrue'
    BY <1>0, <1>2, <1>3 DEF AuditInv, AuditIsTrue, Seen
  <1> QED BY <1>5, <1>6, <1>7, <1>8 DEF AuditInv

(* Every step keeps the audit true. *)
LEMMA AuditInductive == MailTyped /\ TalkTyped /\ AuditInv /\ [Next]_vars => AuditInv'
  <1> SUFFICES ASSUME MailTyped, TalkTyped, AuditInv, [Next]_vars
               PROVE  AuditInv'
    OBVIOUS
  <1>h. OneHandler /\ OneHandler'
    BY OneHandlerInductive DEF AuditInv
  <1>t. cleaner \in [Cleaners -> Runs] /\ 0 \notin Mails
    BY MailAssumption DEF MailTyped
  <1>1. CASE UNCHANGED mail
    BY <1>1, <1>h, NothingFiled DEF mail
  <1>2. CASE ChatStep /\ mover = Resting
    <2>1. CASE StartMoving \/ RestoreLast
      BY <1>2, <1>h, <2>1, BatchStarts
    <2>2. CASE AskWhich \/ Search \/ ClearPreview \/ Compose \/ ClearDraft
      <3>1. UNCHANGED <<box, log, lastTrash, mover, cleaner>>
        BY <2>2 DEF AskWhich, Search, ClearPreview, Compose, ClearDraft, gmailSide, trashSide
      <3> QED BY <1>h, <3>1, NothingFiled
    <2>3. ASSUME NEW t \in Texts, ContinueSend(t)
          PROVE  AuditInv'
      <3>1. UNCHANGED <<box, log, lastTrash, mover, cleaner>>
        BY <2>3 DEF ContinueSend, ClearDraft, gmailSide, trashSide
      <3> QED BY <1>h, <3>1, NothingFiled
    <2> QED BY <1>2, <2>1, <2>2, <2>3 DEF ChatStep
  <1>3. CASE Aging
    BY <1>3, <1>h, NothingFiled DEF Aging
  <1>4. CASE MoverStep
    BY <1>4, <1>h, TrashOneKeeps, RestoreOneKeeps, RecordKeeps, BatchEnds DEF MoverStep
  <1>5. CASE \E m \in Mails : Arrive(m)
    BY <1>5, <1>h, ArriveKeeps
  <1>6. ASSUME NEW c \in Cleaners, CleanStep(c)
        PROVE  AuditInv'
    <2>t. cleaner[c] \in Runs /\ Off \in Runs
      BY <1>t DEF Off, Runs
    <2>0. \A m \in cleaner[c].todo : box[m] # "unsent"
      BY DEF AuditInv, CleanersKnow, Knows
    <2>1. CASE CleanStart(c)
      <3> DEFINE run == [Off EXCEPT !.pc = "next", !.todo = Inbox]
      <3>1. run \in Runs /\ run.pc = "next" /\ \A m \in run.todo : box[m] # "unsent"
        BY <2>t DEF Off, Runs, Inbox
      <3>2. cleaner' = [cleaner EXCEPT ![c] = run] /\ UNCHANGED <<box, log, lastTrash, mover>>
        BY <2>1 DEF CleanStart, chatSide
      <3> HIDE DEF run
      <3> QED BY <1>h, <3>1, <3>2, CleanerLooks
    <2>2. CASE CleanSkip(c)
      <3> DEFINE run == [cleaner[c] EXCEPT !.todo = @ \ {Newest(cleaner[c].todo)}]
      <3>1. /\ cleaner' = [cleaner EXCEPT ![c] = run] /\ UNCHANGED <<box, log, lastTrash, mover>>
            /\ cleaner[c].pc = "next"
        BY <2>2 DEF CleanSkip, chatSide
      <3>2. run \in Runs /\ run.pc = "next" /\ \A m \in run.todo : box[m] # "unsent"
        BY <2>t, <2>0, <3>1 DEF Runs
      <3> HIDE DEF run
      <3> QED BY <1>h, <3>1, <3>2, CleanerLooks
    <2>3. CASE CleanReadFails(c) \/ CleanEnd(c)
      <3>1. cleaner' = [cleaner EXCEPT ![c] = Off] /\ UNCHANGED <<box, log, lastTrash, mover>>
        BY <2>3 DEF CleanReadFails, CleanEnd, chatSide
      <3>2. Off.pc = "off" /\ \A m \in Off.todo : box[m] # "unsent"
        BY DEF Off
      <3> QED BY <1>h, <2>t, <3>1, <3>2, CleanerLooks
    <2>4. ASSUME NEW m \in Mails, CleanRead(c, m)
          PROVE  AuditInv'
      <3>1. PICK bulk \in BOOLEAN :
               cleaner' = [cleaner EXCEPT ![c].pc = "file", ![c].at = m, ![c].bulk = bulk,
                                          ![c].todo = @ \ {m}]
        BY <2>4 DEF CleanRead
      <3> DEFINE run == [cleaner[c] EXCEPT !.pc = "file", !.at = m, !.bulk = bulk,
                                           !.todo = @ \ {m}]
      <3>2. cleaner' = [cleaner EXCEPT ![c] = run]
        BY <1>t, <3>1
      <3>3. UNCHANGED <<box, log, lastTrash, mover>>
        BY <2>4 DEF CleanRead, chatSide
      <3>n. m \in cleaner[c].todo
        BY <2>t, <2>4, NewestIsOne DEF CleanRead, Runs
      <3>4. /\ run \in Runs /\ run.pc = "file" /\ run.at = m
            /\ \A n \in run.todo : box[n] # "unsent"
        BY <2>t, <2>0 DEF Runs
      <3> HIDE DEF run
      <3> QED BY <1>h, <2>0, <3>n, <3>2, <3>3, <3>4, CleanerLooks
    <2>5. CASE CleanFile(c)
      BY <1>h, <2>5, CleanFileKeeps
    <2>6. CASE CleanRecord(c)
      BY <1>h, <2>6, CleanRecordKeeps
    <2> QED BY <1>6, <2>1, <2>2, <2>3, <2>4, <2>5, <2>6 DEF CleanStep
  <1> QED BY <1>1, <1>2, <1>3, <1>4, <1>5, <1>6, <1>h, StepsOfMail

-----------------------------------------------------------------------------
(* A draft goes out once *)

(* A draft that waits went out no more often than its failures were told, and  *)
(* whatever takes it away leaves it at one more at most.                       *)
LEMMA SendInductive == MailTyped /\ TalkTyped /\ OneHandler /\ SendInv /\ [Next]_vars => SendInv'
  <1> SUFFICES ASSUME MailTyped, TalkTyped, OneHandler, SendInv, [Next]_vars
               PROVE  SendInv'
    OBVIOUS
  <1>t. /\ draft \in Drafts /\ drafted \in 0..MaxDrafts /\ MaxDrafts \in Nat
        /\ sent \in [1..MaxDrafts -> Nat] /\ told \in [1..MaxDrafts -> Nat]
    BY MailAssumption DEF MailTyped
  <1>d. draft.id \in 0..MaxDrafts /\ NoDraft.id = 0
    BY <1>t DEF Drafts, NoDraft
  <1>i. /\ draft.id <= drafted /\ (draft.id = 0 => draft = NoDraft)
        /\ \A d \in 1..MaxDrafts : d > drafted => sent[d] = 0
        /\ draft.id # 0 => sent[draft.id] <= told[draft.id]
        /\ \A d \in 1..MaxDrafts : sent[d] <= 1 + told[d]
    BY DEF SendInv, SentOnce
  <1>1. ASSUME UNCHANGED <<drafted, sent, told>>, draft' = draft \/ draft' = NoDraft
        PROVE  SendInv'
    BY <1>1, <1>t, <1>d, <1>i DEF SendInv, SentOnce
  <1>2. CASE Compose
    <2>1. /\ draft'.id = drafted + 1 /\ drafted' = drafted + 1 /\ drafted + 1 \in 1..MaxDrafts
          /\ UNCHANGED <<sent, told>>
      BY <1>t, <1>2 DEF Compose
    <2>2. sent[drafted + 1] = 0 /\ told[drafted + 1] \in Nat
      BY <1>t, <1>i, <2>1
    <2> QED BY <1>t, <1>i, <2>1, <2>2 DEF SendInv, SentOnce
  <1>3. ASSUME NEW t \in Texts, ContinueSend(t), draft # NoDraft
        PROVE  SendInv'
    <2> DEFINE k == draft.id
    <2>1. k \in 1..MaxDrafts /\ k <= drafted /\ sent[k] <= told[k] /\ drafted' = drafted
      <3>1. drafted' = drafted
        BY <1>3 DEF ContinueSend, ClearDraft
      <3> QED BY <1>3, <1>d, <1>i, <3>1
    <2>2. CASE ClearDraft
      BY <1>1, <2>2 DEF ClearDraft
    <2>3. CASE Sent(k) /\ draft' = NoDraft /\ UNCHANGED told
      <3>1. sent'[k] = sent[k] + 1 /\ \A d \in 1..MaxDrafts \ {k} : sent'[d] = sent[d]
        BY <1>t, <2>1, <2>3 DEF Sent
      <3>2. \A d \in 1..MaxDrafts : d > drafted => sent'[d] = 0
        BY SMTT(20), <1>t, <1>i, <2>1, <3>1
      <3>3. ASSUME NEW d \in 1..MaxDrafts
            PROVE  sent'[d] <= 1 + told'[d]
        <4>1. sent[d] \in Nat /\ told[d] \in Nat /\ told'[d] = told[d] /\ sent[d] <= 1 + told[d]
          BY <1>t, <1>i, <2>3
        <4>2. CASE d = k
          BY <2>1, <3>1, <4>1, <4>2
        <4>3. CASE d # k
          BY <3>1, <4>1, <4>3
        <4> QED BY <4>2, <4>3
      <3> HIDE DEF k
      <3> QED BY SMTT(20), <1>t, <1>d, <2>1, <2>3, <3>2, <3>3 DEF SendInv, SentOnce
    <2>4. CASE /\ told' = [told EXCEPT ![draft.id] = @ + 1] /\ draft' = draft
               /\ Sent(k) \/ UNCHANGED sent
      <3>1. /\ told'[k] = told[k] + 1 /\ \A d \in 1..MaxDrafts \ {k} : told'[d] = told[d]
            /\ sent'[k] \in {sent[k], sent[k] + 1}
            /\ \A d \in 1..MaxDrafts \ {k} : sent'[d] = sent[d]
        BY <1>t, <2>1, <2>4 DEF Sent
      <3>2. \A d \in 1..MaxDrafts : d > drafted => sent'[d] = 0
        BY SMTT(20), <1>t, <1>i, <2>1, <3>1
      <3>3. sent'[k] <= told'[k]
        <4>1. sent[k] \in Nat /\ told[k] \in Nat
          BY <1>t, <2>1
        <4> QED BY <2>1, <3>1, <4>1
      <3>4. ASSUME NEW d \in 1..MaxDrafts
            PROVE  sent'[d] <= 1 + told'[d]
        <4>1. sent[d] \in Nat /\ told[d] \in Nat /\ sent[d] <= 1 + told[d]
          BY <1>t, <1>i
        <4>2. CASE d = k
          BY <2>1, <3>1, <4>1, <4>2
        <4>3. CASE d # k
          BY <3>1, <4>1, <4>3
        <4> QED BY <4>2, <4>3
      <3> QED BY <1>i, <2>1, <2>4, <3>2, <3>3, <3>4 DEF SendInv, SentOnce
    <2> QED BY <1>3, <2>2, <2>3, <2>4 DEF ContinueSend
  <1>4. CASE Aging
    <2>1. draft' = draft \/ draft' = NoDraft \/ (draft'.id = draft.id /\ draft # NoDraft)
      BY <1>t, <1>4 DEF Aging, Drafts
    <2>2. UNCHANGED <<drafted, sent, told>>
      BY <1>4 DEF Aging
    <2>3. ASSUME draft'.id = draft.id, draft # NoDraft
          PROVE  SendInv'
      BY <1>i, <2>2, <2>3 DEF SendInv, SentOnce
    <2> QED BY <1>1, <2>1, <2>2, <2>3
  <1>5. ASSUME UNCHANGED sendSide
        PROVE  SendInv'
    BY <1>1, <1>5 DEF sendSide
  <1>6. CASE ChatStep
    <2>1. CASE AskWhich \/ Search \/ ClearPreview \/ StartMoving \/ RestoreLast
      BY <1>5, <2>1 DEF AskWhich, Search, ClearPreview, StartMoving, RestoreLast
    <2>2. CASE ClearDraft
      BY <1>1, <2>2 DEF ClearDraft
    <2> QED BY <1>2, <1>3, <1>6, <2>1, <2>2 DEF ChatStep
  <1>7. CASE MoverStep
    BY <1>5, <1>7 DEF MoverStep, TrashRecord, TrashDone, RestoreRecord, RestoreDone, TrashOne,
                      RestoreOne
  <1>8. CASE \E m \in Mails : Arrive(m)
    BY <1>5, <1>8 DEF Arrive, sendSide
  <1>9. CASE \E c \in Cleaners : CleanStep(c)
    BY ZenonT(30), <1>5, <1>9
       DEF CleanStep, CleanStart, CleanSkip, CleanReadFails, CleanFile, CleanRecord, CleanEnd,
           CleanRead, chatSide, sendSide
  <1>10. CASE UNCHANGED mail
    BY <1>5, <1>10 DEF mail, sendSide
  <1> QED BY <1>4, <1>6, <1>7, <1>8, <1>9, <1>10, StepsOfMail

-----------------------------------------------------------------------------
(* What holds of every behaviour *)

AllInv == MailTyped /\ TalkTyped /\ AuditInv /\ SendInv

(* At the start nothing has come in, or all of it lies in the inbox unseen.    *)
LEMMA InitHolds == Init => AllInv
  <1> SUFFICES ASSUME Init
               PROVE  AllInv
    OBVIOUS
  <1>a. /\ PreviewTTL \in Nat /\ MaxDrafts \in Nat /\ 0 \notin Mails
        /\ LiveTTL \in Nat /\ Questions \in Nat /\ MaxStarts \in Nat
    BY MailAssumption, TalkAssumption
  <1>1. /\ box = [m \in Mails |-> IF "arrivals" \in topic THEN "unsent" ELSE "inbox"]
        /\ log = [m \in Mails |-> "none"] /\ preview = NoPreview /\ lastTrash = {}
        /\ draft = NoDraft /\ drafted = 0 /\ mover = Resting
        /\ cleaner = [c \in Cleaners |-> Off]
        /\ sent = [d \in 1..MaxDrafts |-> 0] /\ told = [d \in 1..MaxDrafts |-> 0]
    BY DEF Init, MailInit
  <1>2. MailTyped
    <2>1. NoPreview \in Previews /\ NoDraft \in Drafts /\ Resting \in Movers /\ Off \in Runs
      BY <1>a DEF NoPreview, NoDraft, Resting, Off, Previews, Drafts, Movers, Runs
    <2>2. box \in [Mails -> Places] /\ log \in [Mails -> Actions]
      BY <1>1 DEF Places, Actions
    <2>3. \A c \in Cleaners : cleaner[c].pc = "off"
      BY <1>1 DEF Off
    <2> QED BY <1>a, <1>1, <2>1, <2>2, <2>3 DEF MailTyped
  <1>3. TalkTyped
    <2>1. NoDrill \in Sessions
      BY <1>a DEF NoDrill, Sessions
    <2> QED BY <1>a, <2>1 DEF Init, TalkTyped
  <1>4. AuditInv
    <2>1. OneHandler
      BY <1>1 DEF OneHandler
    <2>2. mover.at = 0 /\ mover.done = {} /\ mover.doing = "idle"
      BY <1>1 DEF Resting
    <2>3. \A m \in Mails : log[m] = "none"
      BY <1>1
    <2>4. RowsKnown
      BY <1>1, <2>2, <2>3 DEF RowsKnown, Seen
    <2>5. CleanersKnow
      <3>1. \A c \in Cleaners : cleaner[c].pc = "off" /\ cleaner[c].todo = {}
        BY <1>1 DEF Off
      <3> QED BY <3>1 DEF CleanersKnow, Knows
    <2> QED BY <2>1, <2>2, <2>3, <2>4, <2>5 DEF AuditInv, MoverKnows, AuditIsTrue
  <1>5. SendInv
    BY <1>a, <1>1 DEF SendInv, SentOnce, NoDraft
  <1> QED BY <1>2, <1>3, <1>4, <1>5 DEF AllInv

(* The four of them are kept by every step. *)
LEMMA Invariants == Spec => []AllInv
  <1>1. AllInv /\ [Next]_vars => AllInv'
    <2>1. AuditInv => OneHandler
      BY DEF AuditInv
    <2> QED BY <2>1, TalkInductive, MailInductive, AuditInductive, SendInductive DEF AllInv
  <1> QED BY <1>1, InitHolds, PTL DEF Spec

(* Every row, session, batch and counter has its type.                         *)
THEOREM TypeCorrect == Spec => []TypeOK
  <1>1. AllInv => TypeOK
    BY DEF AllInv, MailTyped, TalkTyped, TypeOK, MailTypes, Previews, Drafts, Movers, Sessions
  <1> QED BY <1>1, Invariants, PTL

(* What the table says of a mail is where Gmail has it, whatever the order in  *)
(* which cleanups and the chat's batches file and record the same mails.       *)
THEOREM AuditHolds == Spec => []AuditIsTrue
  <1>1. AllInv => AuditIsTrue
    BY DEF AllInv, AuditInv
  <1> QED BY <1>1, Invariants, PTL

(* A draft goes out again only after a failure that the person was told of.    *)
THEOREM DraftsGoOutOnce == Spec => []SentOnce
  <1>1. AllInv => SentOnce
    BY DEF AllInv, SendInv
  <1> QED BY <1>1, Invariants, PTL

(* A batch starts, and a mail goes out, only while its preview is fresh,       *)
(* whichever front the confirmation came by.                                   *)
THEOREM PreviewsExpire == Spec => NothingActsLate
  <1> DEFINE Act == /\ (mover = Resting /\ mover'.doing = "trash") => preview.age <= PreviewTTL
                    /\ sent' # sent => draft.age <= PreviewTTL
  <1>1. AllInv /\ [Next]_vars => [Act]_vars
    <2> SUFFICES ASSUME AllInv, [Next]_vars
                 PROVE  Act
      OBVIOUS
    <2>t. MailTyped /\ TalkTyped /\ OneHandler
      BY DEF AllInv, AuditInv
    <2>r. Resting.doing = "idle"
      BY DEF Resting
    <2>1. ASSUME mover' = mover, sent' = sent
          PROVE  Act
      BY <2>1, <2>r
    <2>2. CASE ChatStep
      <3>1. CASE AskWhich \/ Search \/ ClearPreview \/ Compose \/ ClearDraft
        BY <2>1, <3>1 DEF AskWhich, Search, ClearPreview, Compose, ClearDraft, sendSide, trashSide
      <3>2. CASE StartMoving /\ preview.age <= PreviewTTL
        BY <3>2 DEF StartMoving, sendSide
      <3>3. CASE RestoreLast
        <4>1. mover' = mover \/ mover'.doing = "restore"
          BY <3>3 DEF RestoreLast, Resting
        <4> QED BY <2>r, <3>3, <4>1 DEF RestoreLast, sendSide
      <3>4. ASSUME NEW t \in Texts, ContinueSend(t), draft.age <= PreviewTTL
            PROVE  Act
        <4>1. mover' = mover
          BY <3>4 DEF ContinueSend, ClearDraft, trashSide
        <4> QED BY <2>r, <3>4, <4>1
      <3> QED BY <2>2, <3>1, <3>2, <3>3, <3>4 DEF ChatStep
    <2>3. CASE MoverStep
      <3>1. mover.doing # "idle" /\ sent' = sent
        BY <2>3 DEF MoverStep, TrashRecord, TrashDone, RestoreRecord, RestoreDone, TrashOne,
                    RestoreOne, sendSide
      <3> QED BY <2>r, <3>1
    <2>4. CASE Aging
      BY <2>1, <2>4 DEF Aging
    <2>5. CASE \E m \in Mails : Arrive(m)
      BY <2>1, <2>5 DEF Arrive
    <2>6. CASE \E c \in Cleaners : CleanStep(c)
      BY <2>1, <2>6 DEF CleanStep, CleanStart, CleanSkip, CleanReadFails, CleanFile, CleanRecord,
                        CleanEnd, CleanRead, chatSide
    <2>7. CASE UNCHANGED mail
      BY <2>1, <2>7 DEF mail
    <2> QED BY <2>t, <2>2, <2>3, <2>4, <2>5, <2>6, <2>7, StepsOfMail
  <1> QED BY <1>1, Invariants, PTL DEF Spec, NothingActsLate
=============================================================================
