------------------------------ MODULE Mailbox -------------------------------
(***************************************************************************)
(* The email agent (skills/email_agent.py): the hourly cleanup of the      *)
(* inbox, moving mail to the Trash after a preview and bringing it back,   *)
(* and sending a drafted mail after a preview.  Searching, the digest and  *)
(* reply drafts leave all of this as it is.                                *)
(*                                                                         *)
(* Gmail itself (box) is external.  A cleanup runs beside the chat; the    *)
(* chat has one handler at work at a time (mover).  Conversation says      *)
(* which message reaches which handler.                                    *)
(***************************************************************************)
EXTENDS Integers, FiniteSets

CONSTANTS
  Mails,        \* numbers: a higher one is newer
  Cleaners,     \* the scheduled cleanup, a cleanup somebody asked for
  PreviewTTL,   \* how long a preview may wait for its confirmation
  MaxDrafts, MaxErrors

ASSUME MailAssumption ==
  /\ Mails \subseteq Nat \ {0} /\ IsFiniteSet(Mails)
  /\ PreviewTTL \in Nat /\ MaxDrafts \in Nat /\ MaxErrors \in Nat

VARIABLES
  box,          \* Gmail: where each mail is
  log,          \* emails.action, "none" before a mail has a row
  preview,      \* kv: email_agent.trash_session
  lastTrash,    \* kv: email_agent.last_trash, the mails of it
  draft,        \* kv: email_agent.send_session
  drafted,      \* how many mails were composed
  mover,        \* the chat's handler, between two mails
  cleaner,      \* the cleanups at work
  sent,         \* observed: how often each draft went out ...
  told          \* ... and how often the person was told that it did not

mail == <<box, log, preview, lastTrash, draft, drafted, mover, cleaner, sent, told>>

Places  == {"unsent", "inbox", "archived", "trash"}
Actions == {"none", "labelled", "archived", "error", "trashed", "restored"}

NoPreview == [stage |-> "none", age |-> 0, mails |-> {}]
NoDraft   == [id |-> 0, age |-> 0]
Resting   == [doing |-> "idle", todo |-> {}, at |-> 0, done |-> {}, failed |-> FALSE]
Off       == [pc |-> "off", todo |-> {}, at |-> 0, bulk |-> FALSE, action |-> "none"]

MailInit(where) ==
  /\ box = [m \in Mails |-> where]
  /\ log = [m \in Mails |-> "none"]
  /\ preview = NoPreview /\ lastTrash = {}
  /\ draft = NoDraft /\ drafted = 0
  /\ mover = Resting
  /\ cleaner = [c \in Cleaners |-> Off]
  /\ sent = [d \in 1..MaxDrafts |-> 0] /\ told = [d \in 1..MaxDrafts |-> 0]

Seen(m)  == log[m] # "none"
Inbox    == {m \in Mails : box[m] = "inbox"}
Newest(S) == CHOOSE m \in S : \A n \in S : n <= m
ChatFree == mover = Resting

Arrive(m) ==
  /\ box[m] = "unsent"
  /\ box' = [box EXCEPT ![m] = "inbox"]
  /\ UNCHANGED <<log, preview, lastTrash, draft, drafted, mover, cleaner, sent, told>>

-----------------------------------------------------------------------------
(* Rows of emails: inserted once, then updated. *)

RecordEmail(m, action) == log' = [log EXCEPT ![m] = IF Seen(m) THEN @ ELSE action]
SetEmailAction(m, action) == log' = [log EXCEPT ![m] = IF Seen(m) THEN action ELSE @]
RecordAndSet(m, action) == log' = [log EXCEPT ![m] = action]

-----------------------------------------------------------------------------
(* The cleanup *)

chatSide == <<preview, lastTrash, draft, drafted, mover, sent, told>>

CleanStart(c) ==
  /\ cleaner[c].pc = "off"
  /\ \E m \in Inbox : ~Seen(m)
  /\ cleaner' = [cleaner EXCEPT ![c] = [Off EXCEPT !.pc = "next", !.todo = Inbox]]
  /\ UNCHANGED <<box, log>> /\ UNCHANGED chatSide

(* A mutant of the next definition: `break` for `continue`. *)
CleanSkipStops(c) ==
  /\ cleaner[c].pc = "next" /\ cleaner[c].todo # {}
  /\ LET m == Newest(cleaner[c].todo) IN
     /\ Seen(m)
     /\ cleaner' = [cleaner EXCEPT ![c] = Off]
  /\ UNCHANGED <<box, log>> /\ UNCHANGED chatSide
(* What has a row is not looked at again. *)
CleanSkip(c) ==
  /\ cleaner[c].pc = "next" /\ cleaner[c].todo # {}
  /\ LET m == Newest(cleaner[c].todo) IN
     /\ Seen(m)
     /\ cleaner' = [cleaner EXCEPT ![c].todo = @ \ {m}]
  /\ UNCHANGED <<box, log>> /\ UNCHANGED chatSide

(* Reading a mail and asking the model for its category ... *)
CleanRead(c, m) ==
  /\ cleaner[c].pc = "next" /\ cleaner[c].todo # {}
  /\ m = Newest(cleaner[c].todo) /\ ~Seen(m)
  /\ \E bulk \in BOOLEAN :
       cleaner' = [cleaner EXCEPT ![c].pc = "file", ![c].at = m, ![c].bulk = bulk,
                                  ![c].todo = @ \ {m}]
  /\ UNCHANGED <<box, log>> /\ UNCHANGED chatSide

(* ... either may raise, which ends the whole run. *)
CleanReadFails(c) ==
  /\ cleaner[c].pc = "next"
  /\ \E m \in cleaner[c].todo : m = Newest(cleaner[c].todo) /\ ~Seen(m)
  /\ cleaner' = [cleaner EXCEPT ![c] = Off]
  /\ UNCHANGED <<box, log>> /\ UNCHANGED chatSide

(* Bulk mail leaves the inbox, the rest gets a label; one failure is noted. *)
CleanFile(c) ==
  LET m == cleaner[c].at IN
  /\ cleaner[c].pc = "file"
  /\ \/ /\ box' = [box EXCEPT ![m] = IF cleaner[c].bulk /\ @ = "inbox" THEN "archived" ELSE @]
        /\ cleaner' = [cleaner EXCEPT ![c].pc = "record",
                         ![c].action = IF cleaner[c].bulk THEN "archived" ELSE "labelled"]
     \/ /\ cleaner' = [cleaner EXCEPT ![c].pc = "record", ![c].action = "error"]
        /\ UNCHANGED box
  /\ UNCHANGED log /\ UNCHANGED chatSide

CleanRecord(c) ==
  /\ cleaner[c].pc = "record"
  /\ RecordEmail(cleaner[c].at, cleaner[c].action)
  /\ cleaner' = [cleaner EXCEPT ![c].pc = "next", ![c].at = 0, ![c].action = "none",
                                ![c].bulk = FALSE]
  /\ UNCHANGED box /\ UNCHANGED chatSide

CleanEnd(c) ==
  /\ cleaner[c].pc = "next" /\ cleaner[c].todo = {}
  /\ cleaner' = [cleaner EXCEPT ![c] = Off]
  /\ UNCHANGED <<box, log>> /\ UNCHANGED chatSide

-----------------------------------------------------------------------------
(* Moving mail to the Trash *)

gmailSide == <<box, log, cleaner>>
sendSide  == <<draft, drafted, sent, told>>

(* request_trash without a query asks for one ... *)
AskWhich ==
  /\ preview' = [stage |-> "query", age |-> 0, mails |-> {}]
  /\ UNCHANGED <<mover, lastTrash>> /\ UNCHANGED gmailSide /\ UNCHANGED sendSide
(* ... with one it previews what matches, if anything does ... *)
Search ==
  /\ \E found \in SUBSET Inbox :
       preview' = IF found = {} THEN NoPreview
                  ELSE [stage |-> "confirm", age |-> 0, mails |-> found]
  /\ UNCHANGED <<mover, lastTrash>> /\ UNCHANGED gmailSide /\ UNCHANGED sendSide
(* ... and a search that fails leaves the session as it was. *)
RequestTrash == AskWhich \/ Search \/ UNCHANGED mail

ClearPreview ==
  /\ preview' = NoPreview
  /\ UNCHANGED <<mover, lastTrash>> /\ UNCHANGED gmailSide /\ UNCHANGED sendSide

StartMoving ==
  /\ mover' = [Resting EXCEPT !.doing = "trash", !.todo = preview.mails]
  /\ UNCHANGED <<preview, lastTrash>> /\ UNCHANGED gmailSide /\ UNCHANGED sendSide

(* continue_trash: expired, cancelled, the query, not the exact words, the words. *)
ContinueTrash(t) ==
  \/ preview.age > PreviewTTL /\ ClearPreview
  \/ /\ preview.age <= PreviewTTL /\ t = "cancel"
     /\ ClearPreview
  \/ /\ preview.age <= PreviewTTL /\ t # "cancel" /\ preview.stage = "query"
     /\ Search \/ UNCHANGED mail
  \/ /\ preview.age <= PreviewTTL /\ t \notin {"cancel", "confirm trash"}
     /\ preview.stage = "confirm"
     /\ UNCHANGED mail
  \/ /\ preview.age <= PreviewTTL /\ t = "confirm trash" /\ preview.stage = "confirm"
     /\ StartMoving

(* One mail of the preview: Gmail first ... *)
TrashOne(m) ==
  /\ mover.doing = "trash" /\ mover.at = 0 /\ m \in mover.todo
  /\ \/ /\ box' = [box EXCEPT ![m] = "trash"]
        /\ mover' = [mover EXCEPT !.todo = @ \ {m}, !.at = m]
     \/ /\ mover' = [mover EXCEPT !.todo = @ \ {m}, !.failed = TRUE]
        /\ UNCHANGED box
  /\ UNCHANGED <<log, preview, lastTrash, cleaner>> /\ UNCHANGED sendSide

(* A mutant of the next definition: an existing row keeps its action. *)
TrashRecordNew ==
  /\ mover.doing = "trash" /\ mover.at # 0
  /\ RecordEmail(mover.at, "trashed")
  /\ mover' = [mover EXCEPT !.at = 0, !.done = @ \cup {mover.at}]
  /\ UNCHANGED <<box, preview, lastTrash, cleaner>> /\ UNCHANGED sendSide
(* ... then its row, new or not. *)
TrashRecord ==
  /\ mover.doing = "trash" /\ mover.at # 0
  /\ RecordAndSet(mover.at, "trashed")
  /\ mover' = [mover EXCEPT !.at = 0, !.done = @ \cup {mover.at}]
  /\ UNCHANGED <<box, preview, lastTrash, cleaner>> /\ UNCHANGED sendSide

TrashDone ==
  /\ mover.doing = "trash" /\ mover.at = 0 /\ mover.todo = {}
  /\ preview' = NoPreview
  /\ lastTrash' = mover.done
  /\ mover' = Resting
  /\ UNCHANGED gmailSide /\ UNCHANGED sendSide

(* restore_last: the last batch comes back; it is forgotten if all of it did. *)
RestoreLast ==
  /\ mover' = IF lastTrash = {} THEN mover
              ELSE [Resting EXCEPT !.doing = "restore", !.todo = lastTrash]
  /\ UNCHANGED <<preview, lastTrash>> /\ UNCHANGED gmailSide /\ UNCHANGED sendSide

RestoreOne(m) ==
  /\ mover.doing = "restore" /\ mover.at = 0 /\ m \in mover.todo
  /\ \/ /\ box' = [box EXCEPT ![m] = IF @ = "trash" THEN "inbox" ELSE @]
        /\ mover' = [mover EXCEPT !.todo = @ \ {m}, !.at = m]
     \/ /\ mover' = [mover EXCEPT !.todo = @ \ {m}, !.failed = TRUE]
        /\ UNCHANGED box
  /\ UNCHANGED <<log, preview, lastTrash, cleaner>> /\ UNCHANGED sendSide

RestoreRecord ==
  /\ mover.doing = "restore" /\ mover.at # 0
  /\ SetEmailAction(mover.at, "restored")
  /\ mover' = [mover EXCEPT !.at = 0, !.done = @ \cup {mover.at}]
  /\ UNCHANGED <<box, preview, lastTrash, cleaner>> /\ UNCHANGED sendSide

RestoreDone ==
  /\ mover.doing = "restore" /\ mover.at = 0 /\ mover.todo = {}
  /\ lastTrash' = IF mover.failed THEN lastTrash ELSE {}
  /\ mover' = Resting
  /\ UNCHANGED preview /\ UNCHANGED gmailSide /\ UNCHANGED sendSide

-----------------------------------------------------------------------------
(* Sending mail *)

trashSide == <<preview, lastTrash, mover>>

Compose ==
  /\ drafted < MaxDrafts
  /\ drafted' = drafted + 1
  /\ draft' = [id |-> drafted + 1, age |-> 0]
  /\ UNCHANGED <<sent, told>> /\ UNCHANGED trashSide /\ UNCHANGED gmailSide

ClearDraft ==
  /\ draft' = NoDraft
  /\ UNCHANGED <<drafted, sent, told>> /\ UNCHANGED trashSide /\ UNCHANGED gmailSide

Sent(d) == sent' = [sent EXCEPT ![d] = @ + 1]

(* A mutant of the next definition: the draft stays for another confirmation. *)
ContinueSendKeeps(t) ==
  IF t # "confirm send" THEN ClearDraft
  ELSE /\ sent[draft.id] < 2 /\ Sent(draft.id)
       /\ UNCHANGED <<draft, drafted, told>> /\ UNCHANGED trashSide /\ UNCHANGED gmailSide
(* continue_send: anything but the words cancels; a mail server that fails,    *)
(* before or after it took the mail, leaves the draft for another try.         *)
ContinueSend(t) ==
  \/ t # "confirm send" /\ ClearDraft
  \/ /\ t = "confirm send"
     /\ Sent(draft.id)
     /\ draft' = NoDraft
     /\ UNCHANGED <<drafted, told>> /\ UNCHANGED trashSide /\ UNCHANGED gmailSide
  \/ /\ t = "confirm send" /\ told[draft.id] < MaxErrors
     /\ told' = [told EXCEPT ![draft.id] = @ + 1]
     /\ Sent(draft.id) \/ UNCHANGED sent
     /\ UNCHANGED <<draft, drafted>> /\ UNCHANGED trashSide /\ UNCHANGED gmailSide

-----------------------------------------------------------------------------
(* What the steps below the chat are, and what they owe *)

CleanStep(c) == \/ CleanStart(c) \/ CleanSkip(c) \/ CleanReadFails(c) \/ CleanFile(c)
                \/ CleanRecord(c) \/ CleanEnd(c) \/ \E m \in Mails : CleanRead(c, m)
MoverStep == \/ TrashRecord \/ TrashDone \/ RestoreRecord \/ RestoreDone
             \/ \E m \in Mails : TrashOne(m) \/ RestoreOne(m)

MailTypes ==
  /\ box \in [Mails -> Places] /\ log \in [Mails -> Actions]
  /\ preview \in [stage : {"none", "query", "confirm"}, age : 0..(PreviewTTL + 1),
                  mails : SUBSET Mails]
  /\ lastTrash \subseteq Mails
  /\ draft \in [id : 0..MaxDrafts, age : 0..(PreviewTTL + 1)] /\ drafted \in 0..MaxDrafts
  /\ mover.todo \cup mover.done \subseteq Mails

(* The audit row of a mail says where the mail is (email_agent.cleanup,        *)
(* continue_trash, restore_last, memory.record_email): trashed is in the       *)
(* Trash, restored is not, archived has left the inbox.  The cleanup and the   *)
(* chat write the same rows; the mail a handler holds between Gmail and its    *)
(* row is the one exception.                                                   *)
AuditIsTrue ==
  \A m \in Mails \ {mover.at} :
    /\ log[m] = "trashed"  => box[m] = "trash"
    /\ log[m] = "restored" => box[m] # "trash"
    /\ log[m] = "archived" => box[m] # "inbox"

(* A confirmation that arrives twice sends once (email_agent.continue_send):   *)
(* a draft goes out again only after the person was told that it had failed.   *)
SentOnce == \A d \in 1..MaxDrafts : sent[d] <= 1 + told[d]
=============================================================================
