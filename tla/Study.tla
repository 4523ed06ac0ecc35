-------------------------------- MODULE Study --------------------------------
(***************************************************************************)
(* The study skills: flashcards and quizzes (skills/spaced_rep.py with     *)
(* core/sm2.py), the tutor (skills/code_tutor.py), mock interviews         *)
(* (skills/interview_prep.py), recorded lectures                           *)
(* (skills/lecture_capture.py) and the vault of notes                      *)
(* (skills/study_vault.py).                                                *)
(*                                                                         *)
(* A quiz, a lesson and an interview are one row of kv each, whatever the  *)
(* channel.  A model judges an answer between the reading of that row and  *)
(* its writing, while another channel may do the same.                     *)
(***************************************************************************)
EXTENDS Daily, Integers

CONSTANTS
  Cards,        \* flashcards, numbered
  Chats,        \* channels an answer may come from
  MaxQuizzes,   \* how many quizzes a behaviour has
  MaxDays,      \* the longest interval and ...
  MaxEase,      \* ... the greatest ease a behaviour follows
  Notes,        \* files of the vault
  MaxEdits,     \* how often such a file is written
  Recordings,   \* recorded lectures
  NameOf        \* the file name of a recording

ASSUME StudyAssumption ==
  /\ Cards \subseteq Nat /\ IsFiniteSet(Cards) /\ MaxQuizzes \in Nat /\ MaxDays \in Nat /\ MaxEase \in Nat
  /\ MaxEdits \in Nat /\ DOMAIN NameOf = Recordings

VARIABLES
  cards,        \* the table flashcards
  quiz,         \* kv: the quiz, with its number as an observed field
  quizzes,      \* observed: how many quizzes there were (not counted for sm2)
  graded,       \* observed: the cards graded in each quiz
  judging,      \* per chat, the answer to a card being judged
  lesson,       \* kv: the mode of the tutor's session
  tutoring,     \* per chat, the mode whose answer is being assessed
  interview,    \* kv: the question of a mock interview, 0 when there is none
  grading,      \* per chat, the question whose answer is being graded
  notes,        \* external: the version of a file's content
  vault,        \* vault_files and vault_chunks: digest and content of what is indexed
  ingest,       \* per process, the file being indexed
  audio,        \* where a recording is
  capture       \* the recording being processed

studyVars == <<cards, quiz, quizzes, graded, judging, lesson, tutoring, interview, grading,
               notes, vault, ingest, audio, capture>>
quizzing  == <<quiz, quizzes, graded, judging>>
talks     == <<lesson, tutoring, interview, grading>>
vaulting  == <<notes, vault, ingest, audio, capture>>

Grades    == {"again", "hard", "good", "easy"}
Modes     == {"explain", "drill", "socratic", "mocklab"}
Ingesters == {"worker", "lecture"}
Questions == 2
NoQuiz    == [no |-> 0, ids |-> << >>, idx |-> 1]
NoIngest  == [pc |-> "idle", file |-> "none", digest |-> 0, content |-> 0]
NewCard   == [status |-> "absent", due |-> FALSE, ease |-> 250, days |-> 0, lapsed |-> FALSE]

StudyInit ==
  /\ cards = [c \in Cards |-> IF Goes("quiz") \/ (Goes("sm2") /\ c = 1)
                              THEN [NewCard EXCEPT !.status = "active", !.due = TRUE]
                              ELSE NewCard]
  /\ quiz = NoQuiz /\ quizzes = 0 /\ graded = {}
  /\ judging = [c \in Chats |-> NoQuiz]
  /\ lesson = "none" /\ tutoring = [c \in Chats |-> "none"]
  /\ interview = 0 /\ grading = [c \in Chats |-> 0]
  /\ notes = [f \in Notes |-> 0]
  /\ vault = [f \in Notes |-> [digest |-> 0, content |-> 0]]
  /\ ingest = [p \in Ingesters |-> NoIngest]
  /\ audio = [r \in Recordings |-> "none"]
  /\ capture = [pc |-> "idle", of |-> "none"]

-----------------------------------------------------------------------------
(* SM-2, with the ease in hundredths *)

Round(n, d) ==
  LET q == n \div d  r == n % d IN
  IF 2 * r < d \/ (2 * r = d /\ q % 2 = 0) THEN q ELSE q + 1
Floored(n, floor) == IF n < floor THEN floor ELSE n

Gain == [hard |-> -14, good |-> 0, easy |-> 10]

(* schedule: the first interval is a day, the second six, then they grow by the ease; *)
(* a hard answer takes a fifth off, a failed one starts over.                         *)
Schedule(card, grade) ==
  LET ease == Floored(IF grade = "again" THEN card.ease - 20 ELSE card.ease + Gain[grade], 130)
      next == IF grade = "again" \/ card.days = 0 THEN 1
              ELSE IF card.days = 1 THEN 6 ELSE Round(card.days * ease, 100)
  IN [card EXCEPT !.ease = ease,
                  !.days = IF grade = "hard" THEN Floored(Round(next * 8, 10), 1) ELSE next,
                  !.lapsed = @ \/ grade = "again"]

(* _apply_grade; a behaviour that is not about intervals forgets them. *)
Review(c, grade) ==
  cards' = [cards EXCEPT ![c] = IF Goes("sm2") THEN [Schedule(@, grade) EXCEPT !.due = FALSE]
                                ELSE [@ EXCEPT !.due = FALSE]]

-----------------------------------------------------------------------------
(* Cards *)

(* add_flashcard, for the vault, a lecture, the tutor and the user alike. *)
AddCard(c) ==
  cards' = IF cards[c].status = "absent" THEN [cards EXCEPT ![c].status = "candidate"]
           ELSE cards

ApproveCard(c) ==
  /\ Goes("cards") /\ cards[c].status # "absent"
  /\ cards' = [cards EXCEPT ![c] = [@ EXCEPT !.status = "active", !.due = TRUE,
                                              !.ease = 250, !.days = 0]]
RejectCard(c) ==
  /\ Goes("cards") /\ cards[c].status # "absent"
  /\ cards' = [cards EXCEPT ![c].status = "suspended"]
NewCandidate(c) == Goes("cards") /\ AddCard(c)
Followed(c) == cards[c].days < MaxDays /\ cards[c].ease <= MaxEase
ComesDue(c) ==
  /\ Goes("sm2") \/ Goes("cards") \/ Goes("quiz")
  /\ cards[c].status = "active" /\ ~cards[c].due /\ Followed(c)
  /\ cards' = [cards EXCEPT ![c].due = TRUE]
(* surge: the weak cards of a unit at once. *)
Surge ==
  /\ Goes("sm2") /\ \A c \in Cards : Followed(c)
  /\ cards' = [c \in Cards |-> IF /\ cards[c].status = "active"
                                  /\ cards[c].ease < 230 \/ cards[c].lapsed
                               THEN [cards[c] EXCEPT !.due = TRUE] ELSE cards[c]]

-----------------------------------------------------------------------------
(* Quizzes *)

Due == {c \in Cards : cards[c].status = "active" /\ cards[c].due}
Sorted(S) == CHOOSE q \in [1..Cardinality(S) -> S] :
               \A i, k \in 1..Cardinality(S) : i < k => q[i] < q[k]

StartQuiz ==
  /\ Goes("quiz") \/ Goes("sm2") \/ Goes("cards")
  /\ Due # {} /\ (Goes("sm2") \/ quizzes < MaxQuizzes)
  /\ quizzes' = IF Goes("sm2") THEN 1 ELSE quizzes + 1
  /\ quiz' = [no |-> quizzes', ids |-> Sorted(Due), idx |-> 1]
  /\ UNCHANGED <<cards, graded, judging>>

(* _advance, from the session s that was read. *)
Advance(s) == quiz' = IF s.idx = Len(s.ids) THEN NoQuiz ELSE [s EXCEPT !.idx = @ + 1]
MarkGraded(s) == graded' = graded \cup {<<s.no, s.ids[s.idx]>>}

(* The buttons grade at once. *)
Grade(grade) ==
  /\ quiz # NoQuiz
  /\ Review(quiz.ids[quiz.idx], grade) /\ MarkGraded(quiz) /\ Advance(quiz)
  /\ UNCHANGED <<quizzes, judging>>

(* An answer is judged by a model, for the session read before. *)
Answer(chat) ==
  /\ quiz # NoQuiz /\ judging[chat] = NoQuiz /\ ~Goes("sm2")
  /\ judging' = [judging EXCEPT ![chat] = quiz]
  /\ UNCHANGED <<cards, quiz, quizzes, graded>>

(* A mutant of the next definition: the session is read again to go on. *)
JudgedAgain(chat) ==
  LET s == judging[chat] IN
  /\ s # NoQuiz
  /\ Review(s.ids[s.idx], "good") /\ MarkGraded(s)
  /\ IF quiz = NoQuiz THEN UNCHANGED quiz ELSE Advance(quiz)
  /\ judging' = [judging EXCEPT ![chat] = NoQuiz]
  /\ UNCHANGED quizzes

Judged(chat) ==
  LET s == judging[chat] IN
  /\ s # NoQuiz
  /\ Review(s.ids[s.idx], "good") /\ MarkGraded(s) /\ Advance(s)
  /\ judging' = [judging EXCEPT ![chat] = NoQuiz]
  /\ UNCHANGED quizzes

-----------------------------------------------------------------------------
(* The tutor and the mock interview *)

(* start, explain, drill, socratic, mocklab: the session is written when the model    *)
(* has answered, whatever was there.                                                  *)
Teach(mode) ==
  /\ Goes("lessons")
  /\ lesson' = mode /\ UNCHANGED <<tutoring, interview, grading, cards>>
EndLesson == Goes("lessons") /\ lesson' = "none" /\ UNCHANGED <<tutoring, interview, grading, cards>>

(* continue_session: the text goes to the mode of the session. *)
Reply(chat) ==
  /\ lesson # "none" /\ tutoring[chat] = "none"
  /\ tutoring' = [tutoring EXCEPT ![chat] = lesson]
  /\ UNCHANGED <<lesson, interview, grading, cards>>

(* The model has answered: a drill is followed by another and a wrong solution leaves *)
(* a candidate card, a submitted lab ends and leaves cards for the weak topics, a     *)
(* socratic answer goes on or was the revelation; a model that fails changes nothing. *)
Assessed(chat) ==
  /\ tutoring[chat] # "none"
  /\ CASE tutoring[chat] = "drill" -> /\ lesson' \in {lesson, "drill"}
                                      /\ UNCHANGED cards \/ \E c \in Cards : AddCard(c)
       [] tutoring[chat] = "mocklab" -> /\ lesson' = "none"
                                        /\ UNCHANGED cards \/ \E c \in Cards : AddCard(c)
       [] tutoring[chat] = "socratic" -> lesson' \in {"socratic", "none"} /\ UNCHANGED cards
       [] OTHER -> lesson' = "explain" /\ UNCHANGED cards
  /\ tutoring' = [tutoring EXCEPT ![chat] = "none"]
  /\ UNCHANGED <<interview, grading>>
ModelFails(chat) ==
  /\ tutoring[chat] # "none"
  /\ tutoring' = [tutoring EXCEPT ![chat] = "none"]
  /\ UNCHANGED <<lesson, interview, grading, cards>>

MockStart ==
  /\ Goes("interviews") /\ interview' = 1 /\ UNCHANGED <<lesson, tutoring, grading, cards>>
MockAnswer(chat) ==
  /\ interview # 0 /\ grading[chat] = 0
  /\ grading' = [grading EXCEPT ![chat] = interview]
  /\ UNCHANGED <<lesson, tutoring, interview, cards>>
MockGraded(chat) ==
  /\ grading[chat] # 0
  /\ interview' = IF grading[chat] = Questions THEN 0 ELSE grading[chat] + 1
  /\ grading' = [grading EXCEPT ![chat] = 0]
  /\ UNCHANGED <<lesson, tutoring, cards>>

-----------------------------------------------------------------------------
(* The vault *)

Write(f) ==
  /\ Goes("vault") /\ notes[f] < MaxEdits
  /\ notes' = [notes EXCEPT ![f] = @ + 1]
  /\ UNCHANGED <<vault, ingest, audio, capture>>

(* The digest of a file is compared with the one indexed ... *)
IngestDigest(p, f) ==
  /\ Goes("vault") /\ ingest[p].pc = "idle" /\ notes[f] # 0
  /\ notes[f] # vault[f].digest
  /\ ingest' = [ingest EXCEPT ![p] = [NoIngest EXCEPT !.pc = "embed", !.file = f,
                                                       !.digest = notes[f]]]
  /\ UNCHANGED <<notes, vault, audio, capture>>
(* ... its content read and embedded later ... *)
IngestEmbed(p) ==
  /\ ingest[p].pc = "embed"
  /\ ingest' = [ingest EXCEPT ![p] = [@ EXCEPT !.pc = "store",
                                              !.content = notes[ingest[p].file]]]
  /\ UNCHANGED <<notes, vault, audio, capture>>

(* A mutant of the next definition: the digest is taken when the chunks are stored. *)
IngestStoreLate(p) ==
  /\ ingest[p].pc = "store"
  /\ vault' = [vault EXCEPT ![ingest[p].file] = [digest |-> notes[ingest[p].file],
                                                 content |-> ingest[p].content]]
  /\ ingest' = [ingest EXCEPT ![p] = NoIngest]
  /\ UNCHANGED <<notes, audio, capture>>

(* ... and both replace what was there, in one transaction. *)
IngestStore(p) ==
  /\ ingest[p].pc = "store"
  /\ vault' = [vault EXCEPT ![ingest[p].file] = [digest |-> ingest[p].digest,
                                                 content |-> ingest[p].content]]
  /\ ingest' = [ingest EXCEPT ![p] = NoIngest]
  /\ UNCHANGED <<notes, audio, capture>>
IngestDies(p) ==
  /\ ingest[p].pc # "idle" /\ Fault
  /\ ingest' = [ingest EXCEPT ![p] = NoIngest]
  /\ UNCHANGED <<notes, vault, audio, capture>>

-----------------------------------------------------------------------------
(* Lectures *)

RecordLecture(r) ==
  /\ Goes("lectures") /\ audio[r] = "none"
  /\ \A s \in Recordings : audio[s] = "inbox" => NameOf[s] # NameOf[r]
  /\ audio' = [audio EXCEPT ![r] = "inbox"]
  /\ UNCHANGED <<notes, vault, ingest, capture, cards>>

(* process_inbox takes a file; a silent one is left where it is. *)
CaptureStart(r) ==
  /\ capture.pc = "idle" /\ audio[r] = "inbox"
  /\ capture' = [pc |-> "save", of |-> r]
  /\ UNCHANGED <<notes, vault, ingest, audio, cards>>
(* The transcript goes to the vault and its cards wait for approval. *)
CaptureSave ==
  /\ capture.pc = "save"
  /\ UNCHANGED cards \/ \E c \in Cards : AddCard(c)
  /\ capture' = [capture EXCEPT !.pc = "archive"]
  /\ UNCHANGED <<notes, vault, ingest, audio>>
(* shutil.move: a file of that name that was archived before is replaced. *)
CaptureArchive ==
  /\ capture.pc = "archive"
  /\ audio' = [r \in Recordings |->
                 IF r = capture.of THEN "processed"
                 ELSE IF audio[r] = "processed" /\ NameOf[r] = NameOf[capture.of] THEN "lost"
                 ELSE audio[r]]
  /\ capture' = [pc |-> "idle", of |-> "none"]
  /\ UNCHANGED <<notes, vault, ingest, cards>>
CaptureDies ==
  /\ capture.pc # "idle" /\ Fault
  /\ capture' = [pc |-> "idle", of |-> "none"]
  /\ UNCHANGED <<notes, vault, ingest, audio, cards>>

-----------------------------------------------------------------------------
Carding ==
  /\ Surge \/ \E c \in Cards : NewCandidate(c) \/ ApproveCard(c) \/ RejectCard(c) \/ ComesDue(c)
  /\ UNCHANGED <<quizzing, talks, vaulting, daily>>
Quizzing ==
  /\ \/ StartQuiz \/ \E g \in Grades : Grade(g)
     \/ \E c \in Chats : Answer(c) \/ Judged(c)
  /\ UNCHANGED <<talks, vaulting, daily>>
Lessons ==
  /\ \/ EndLesson \/ MockStart \/ \E m \in Modes : Teach(m)
     \/ \E c \in Chats : Reply(c) \/ Assessed(c) \/ ModelFails(c) \/ MockAnswer(c)
                         \/ MockGraded(c)
  /\ UNCHANGED <<quizzing, vaulting, daily>>
Indexing ==
  /\ \/ \E f \in Notes : Write(f) \/ \E p \in Ingesters : IngestDigest(p, f)
     \/ \E p \in Ingesters : IngestEmbed(p) \/ IngestStore(p)
  /\ UNCHANGED <<cards, quizzing, talks, daily>>
Capturing ==
  /\ CaptureSave \/ CaptureArchive \/ \E r \in Recordings : RecordLecture(r) \/ CaptureStart(r)
  /\ UNCHANGED <<quizzing, talks, daily>>
StudyDies == \/ (\E p \in Ingesters : IngestDies(p)) /\ UNCHANGED <<cards, quizzing, talks>>
             \/ CaptureDies /\ UNCHANGED <<quizzing, talks>>

StudyNext == Carding \/ Quizzing \/ Lessons \/ Indexing \/ Capturing \/ StudyDies

(* The scheduler queues an ingest of the vault every ten minutes. *)
IngestRuns(p) ==
  /\ IngestEmbed(p) \/ IngestStore(p) \/ \E f \in Notes : IngestDigest(p, f)
  /\ UNCHANGED <<cards, quizzing, talks, daily>>
StudyFair == \A p \in Ingesters : WF_<<daily, studyVars>>(IngestRuns(p))

-----------------------------------------------------------------------------
(* The quiz that is stored is past a card only if that card was graded in it, though  *)
(* two channels answer at once and each writes back the session it read.              *)
SkipsNoCard ==
  \A i \in 1..(quiz.idx - 1) : <<quiz.no, quiz.ids[i]>> \in graded

(* The vault indexes what a note says in the end: written while it is being indexed,  *)
(* by two processes, with a process dying, it is indexed again.                       *)
VaultCatchesUp ==
  \A f \in Notes : (notes[f] = MaxEdits) ~> [](vault[f].content = MaxEdits)
=============================================================================
