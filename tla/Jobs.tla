-------------------------------- MODULE Jobs --------------------------------
(***************************************************************************)
(* From a posting to an application: the hunt and the workers that score   *)
(* what it found (skills/job_hunter/skill.py), the hourly retirement       *)
(* (core/expiry.py), the CV written for a role (skills/cv_tailor.py), the  *)
(* user's approval, and the watch for the answers of the companies.        *)
(*                                                                         *)
(* Every statement commits on its own, and all of these run beside each    *)
(* other, in the kernel and in the workers.  An activity holds the id of a *)
(* job in a local variable, often while a model or a web page is asked,    *)
(* and then writes the row by that id.                                     *)
(***************************************************************************)
EXTENDS Daily

CONSTANTS
  Postings,     \* listings of the sources, numbered in the order of their ids
  RouteOf,      \* how one applies: email, portal, or signup
  Threshold,    \* the least score worth a cover
  MaxScore,
  PerRun,       \* how many a hunt scores itself
  QueueCap,     \* how many may wait for the user
  Fronts,       \* the channels through which the user approves
  MaxTaps       \* how often the user approves or skips in a behaviour

ASSUME JobsAssumption ==
  /\ Postings \subseteq Nat \ {0} /\ IsFiniteSet(Postings) /\ IsFiniteSet(Fronts)
  /\ RouteOf \in [Postings -> {"email", "portal", "signup"}]
  /\ Threshold \in 0..MaxScore /\ MaxScore \in Nat
  /\ PerRun \in Nat /\ QueueCap \in Nat /\ MaxTaps \in Nat

VARIABLES
  jobs,         \* the table jobs
  apps,         \* the table applications: how many rows of a job, state of the newest
  scoreRows,    \* the rows of job_queue that ask to score a job
  hunter,       \* the hunt
  scorer,       \* per process that scores: the hunt, and a worker
  sweeper,      \* the hourly retirement
  front,        \* per channel, the approval under way
  taps,         \* how often the user decided
  mailed,       \* external: how many applications a company got for a job
  replies,      \* external: mails of companies in the inbox
  alerted,      \* kv: the mails already handled
  told,         \* observed: the invitations the user was told of
  checker,      \* the watch
  closed        \* observed: jobs resolved while nobody had them in hand

jobsVars == <<jobs, apps, scoreRows, hunter, scorer, sweeper, front, taps, mailed,
              replies, alerted, told, checker, closed>>
scoring  == <<scoreRows, hunter, scorer>>
deciding == <<front, taps, mailed>>
watching == <<replies, alerted, told, checker>>

Pending   == {"new", "scored", "drafted", "notified"}
Active    == {"drafted", "notified"}
Resolved  == {"applied", "skipped", "expired"}
Statuses  == Pending \cup Resolved
Windows   == {"none", "open", "shut"}
Labels    == {"response", "interview_invite"}
Rank == [s \in {"none", "applied", "tracked", "replied", "interview"} |->
           CASE s = "replied" -> 1 [] s = "interview" -> 2 [] OTHER -> 0]

Absent == [status |-> "absent", score |-> 0, fresh |-> TRUE, window |-> "none",
           cover |-> FALSE, variant |-> "none"]
Offered == [status |-> "notified", score |-> MaxScore, fresh |-> TRUE, window |-> "open",
            cover |-> TRUE, variant |-> "none"]
NoHunt  == [pc |-> "idle", unseen |-> {}, at |-> 0, found |-> << >>, keepers |-> {}]
NoScore == [pc |-> "idle", at |-> 0]
NoSweep == [pc |-> "idle", due |-> {}, done |-> {}]
NoTap   == [pc |-> "idle", at |-> 0]
NoCheck == [pc |-> "idle", todo |-> {}, known |-> {}, at |-> 0, becomes |-> "none"]

Known == {j \in Postings : jobs[j].status # "absent"}
Least(S) == CHOOSE j \in S : \A k \in S : j <= k

JobsInit ==
  /\ jobs = [j \in Postings |-> IF Goes("listed") THEN Offered ELSE Absent]
  /\ apps = [j \in Postings |-> IF Goes("watch") THEN [rows |-> 1, state |-> "applied"]
                                ELSE [rows |-> 0, state |-> "none"]]
  /\ scoreRows = [j \in Postings |-> "none"]
  /\ hunter = NoHunt
  /\ scorer = [p \in {"hunt", "worker"} |-> NoScore]
  /\ sweeper = NoSweep
  /\ front = [f \in Fronts |-> NoTap] /\ taps = 0
  /\ mailed = [j \in Postings |-> IF Goes("watch") THEN 1 ELSE 0]
  /\ replies = {} /\ alerted = {} /\ told = {} /\ checker = NoCheck
  /\ closed = {}

(* parse_deadline may find a window in a text. *)
Window(old) == IF Goes("windows") THEN {old, "open"} ELSE {old}
SetStatus(j, s) == jobs' = [jobs EXCEPT ![j].status = s]

-----------------------------------------------------------------------------
(* The hunt *)

HuntStart ==
  /\ Goes("hunt") /\ hunter.pc = "idle"
  /\ \E fetched \in SUBSET Postings :
       hunter' = [NoHunt EXCEPT !.pc = "sight", !.unseen = fetched]
  /\ UNCHANGED <<jobs, scoreRows, scorer>>

(* upsert_job: a posting seen before is left alone. *)
Sight ==
  /\ hunter.pc = "sight" /\ hunter.unseen # {}
  /\ LET j == Least(hunter.unseen) IN
     IF jobs[j].status = "absent"
     THEN /\ SetStatus(j, "new")
          /\ hunter' = [hunter EXCEPT !.pc = "sift", !.at = j, !.unseen = @ \ {j}]
     ELSE /\ hunter' = [hunter EXCEPT !.unseen = @ \ {j}]
          /\ UNCHANGED jobs
  /\ UNCHANGED <<scoreRows, scorer>>

(* _duplicate_of: a listing of the same role that is still alive; in a behaviour   *)
(* about twins all postings list one role.                                         *)
DuplicateOf(j) == {k \in Known \ {j} : Goes("twins")
                                       /\ jobs[k].status \notin {"skipped", "expired"}}

(* A new row is skipped, or given the window the description names. *)
Sift ==
  /\ hunter.pc = "sift"
  /\ LET j == hunter.at IN
     IF DuplicateOf(j) # {}
     THEN /\ SetStatus(j, "skipped")
          /\ hunter' = [hunter EXCEPT !.pc = "sight", !.at = 0]
     ELSE /\ \E w \in Window("none") : jobs' = [jobs EXCEPT ![j].window = w]
          /\ hunter' = [hunter EXCEPT !.pc = "sight", !.at = 0, !.found = Append(@, j)]
  /\ UNCHANGED <<scoreRows, scorer>>

(* What is beyond the hunt's own share is put on the queue, one row per job; a   *)
(* queue out of reach leaves the rest unscored.                                   *)
Overflow ==
  /\ hunter.pc = "sight" /\ hunter.unseen = {} /\ Len(hunter.found) > PerRun
  /\ LET j == hunter.found[Len(hunter.found)] IN
     /\ hunter' = [hunter EXCEPT !.found = SubSeq(@, 1, Len(@) - 1)]
     /\ \/ scoreRows' = [scoreRows EXCEPT ![j] = IF @ = "none" THEN "queued" ELSE @]
        \/ Goes("outage") /\ UNCHANGED scoreRows
  /\ UNCHANGED <<jobs, scorer>>

HuntScores ==
  /\ hunter.pc = "sight" /\ hunter.unseen = {} /\ Len(hunter.found) \in 1..PerRun
  /\ scorer["hunt"].pc = "idle"
  /\ scorer' = [scorer EXCEPT !["hunt"] = [pc |-> "score", at |-> Head(hunter.found)]]
  /\ hunter' = [hunter EXCEPT !.found = Tail(@), !.pc = "scoring"]
  /\ UNCHANGED <<jobs, scoreRows>>

(* The digest is sent; then every keeper is marked, whatever has become of it. *)
Digest ==
  /\ hunter.pc = "sight" /\ hunter.unseen = {} /\ hunter.found = << >>
  /\ IF hunter.keepers = {}
     THEN hunter' = NoHunt /\ UNCHANGED jobs
     ELSE LET j == Least(hunter.keepers) IN
          /\ SetStatus(j, "notified")
          /\ hunter' = [hunter EXCEPT !.keepers = @ \ {j}]
  /\ UNCHANGED <<scoreRows, scorer>>

-----------------------------------------------------------------------------
(* _score_and_draft, by the hunt or by a worker *)

(* The hunt goes on with its list, keeping a job that got a cover; the worker's   *)
(* row is done.                                                                    *)
Done(p, j, kept) ==
  /\ scorer' = [scorer EXCEPT ![p] = NoScore]
  /\ IF p = "hunt"
     THEN /\ hunter' = [hunter EXCEPT !.pc = "sight",
                                      !.keepers = IF kept THEN @ \cup {j} ELSE @]
          /\ UNCHANGED scoreRows
     ELSE scoreRows' = [scoreRows EXCEPT ![j] = "none"] /\ UNCHANGED hunter

(* A mutant of the next definition: the row's status is not looked at. *)
ScoreOneAnyway(j) ==
  /\ scoreRows[j] = "queued" /\ scorer["worker"].pc = "idle"
  /\ scoreRows' = [scoreRows EXCEPT ![j] = "running"]
  /\ scorer' = [scorer EXCEPT !["worker"] = [pc |-> "score", at |-> j]]
  /\ UNCHANGED <<jobs, hunter>>
(* score_one: a job that is no longer new is not scored again. *)
ScoreOne(j) ==
  /\ scoreRows[j] = "queued" /\ scorer["worker"].pc = "idle"
  /\ IF jobs[j].status = "new"
     THEN /\ scorer' = [scorer EXCEPT !["worker"] = [pc |-> "score", at |-> j]]
          /\ scoreRows' = [scoreRows EXCEPT ![j] = "running"]
     ELSE scoreRows' = [scoreRows EXCEPT ![j] = "none"] /\ UNCHANGED scorer
  /\ UNCHANGED <<jobs, hunter>>

(* score_job: a posting that is unpaid, or asks for a language he lacks, gets none; *)
(* else the model's score, lowered for a senior role, or a guess if it is away.    *)
Scores == 0..MaxScore
(* The model scores; a portal to sign up at is kept without a score. *)
Score(p) ==
  LET j == scorer[p].at IN
  /\ scorer[p].pc = "score"
  /\ IF RouteOf[j] = "signup"
     THEN scorer' = [scorer EXCEPT ![p].pc = "draft"] /\ UNCHANGED jobs
     ELSE \E n \in Scores :
            /\ jobs' = [jobs EXCEPT ![j].status = "scored", ![j].score = n]
            /\ scorer' = [scorer EXCEPT ![p].pc = IF n < Threshold THEN "skip" ELSE "draft"]
  /\ UNCHANGED <<scoreRows, hunter>>

SkipLow(p) ==
  /\ scorer[p].pc = "skip"
  /\ SetStatus(scorer[p].at, "skipped")
  /\ Done(p, scorer[p].at, FALSE)

(* enrich_job: the whole posting, if it can be had, may name a window. *)
Enriched(old) == Window(old)
(* _draft_cover: there is always one, were it a template. *)
HasCover == TRUE
(* save_cover offers the row to the user, and forgets any variant. *)
SaveCover(p) ==
  LET j == scorer[p].at IN
  /\ scorer[p].pc = "draft"
  /\ \E w \in Enriched(jobs[j].window) :
       jobs' = [jobs EXCEPT ![j] = [@ EXCEPT !.status = "drafted", !.window = w,
                                             !.cover = HasCover, !.variant = "none"]]
  /\ Done(p, j, TRUE)

(* A statement fails or the process dies; a worker's row is claimed again, or     *)
(* given up.                                                                       *)
HuntDies ==
  /\ hunter.pc # "idle" /\ Fault
  /\ hunter' = NoHunt /\ scorer' = [scorer EXCEPT !["hunt"] = NoScore]
  /\ UNCHANGED <<jobs, scoreRows>>
WorkerDies ==
  /\ scorer["worker"].pc # "idle" /\ Fault
  /\ scorer' = [scorer EXCEPT !["worker"] = NoScore]
  /\ \E s \in {"queued", "none"} : scoreRows' = [scoreRows EXCEPT ![scorer["worker"].at] = s]
  /\ UNCHANGED <<jobs, hunter>>

-----------------------------------------------------------------------------
(* expire: what can no longer be acted on is retired, by ids read before *)

(* A mutant of the next definition: what was scored, and no more, is forgotten. *)
DueSeen(j) == jobs[j].status \in {"new"} \cup Active /\ (jobs[j].window = "shut" \/ ~jobs[j].fresh)
Due(j) == jobs[j].status \in Pending /\ (jobs[j].window = "shut" \/ ~jobs[j].fresh)

(* A job whose window has shut, or that has waited too long, is due. *)
SweepStart ==
  /\ Goes("sweep") /\ sweeper.pc = "idle"
  /\ LET due == {j \in Postings : Due(j)} IN
     sweeper' = [pc |-> "retire", due |-> due, done |-> due]
  /\ UNCHANGED jobs

Retire ==
  /\ sweeper.pc \in {"retire", "cap"} /\ sweeper.due # {}
  /\ LET j == Least(sweeper.due) IN
     SetStatus(j, "expired") /\ sweeper' = [sweeper EXCEPT !.due = @ \ {j}]

(* enforce_cap: of what waits for the user, the best QueueCap stay. *)
Outranks(k, j) == jobs[k].score > jobs[j].score \/ (jobs[k].score = jobs[j].score /\ k < j)
Overfull(S) == {j \in S : Cardinality({k \in S : Outranks(k, j)}) >= QueueCap}
SelectCap ==
  /\ sweeper.pc = "retire" /\ sweeper.due = {}
  /\ LET waiting == {j \in Postings : jobs[j].status \in Active} \ sweeper.done IN
     sweeper' = [sweeper EXCEPT !.pc = "cap", !.due = Overfull(waiting)]
  /\ UNCHANGED jobs

SweepEnd ==
  /\ sweeper.pc = "cap" /\ sweeper.due = {}
  /\ sweeper' = NoSweep /\ UNCHANGED jobs

-----------------------------------------------------------------------------
(* The user decides.  The list shows those that wait, but any job that was ever    *)
(* offered may still have a button, or its number in an old message.               *)

(* tailor: a draft with unsupported terms, or one that fits worse, is replaced by  *)
(* the master's text; a model out of reach leaves the row as it was.               *)
Tailored(old) == {"ready", old}

Tap(f, j) ==
  /\ taps < MaxTaps /\ taps' = taps + 1
  /\ front[f].pc = "idle" /\ jobs[j].cover

Approve(f, j) ==
  /\ Goes("approve") /\ Tap(f, j)
  /\ front' = [front EXCEPT ![f] = [pc |-> IF jobs[j].variant = "none" THEN "tailor" ELSE "apply",
                                    at |-> j]]
  /\ UNCHANGED <<jobs, apps, mailed>>

AutoTailor(f) ==
  /\ front[f].pc = "tailor"
  /\ \E v \in Tailored(jobs[front[f].at].variant) : jobs' = [jobs EXCEPT ![front[f].at].variant = v]
  /\ front' = [front EXCEPT ![f].pc = "apply"]
  /\ UNCHANGED <<apps, taps, mailed>>

(* Elsewhere than by mail the user applies himself: he gets the link, the CV and the *)
(* cover.                                                                             *)
ByLink(j) == RouteOf[j] # "email"

(* A mutant of the next definition: a mail that failed counts as sent. *)
SendUnheard(f) ==
  /\ front[f].pc = "apply"
  /\ \E k \in 0..1 : mailed' = [mailed EXCEPT ![front[f].at] = @ + k]
  /\ front' = [front EXCEPT ![f].pc = "record"]
  /\ UNCHANGED <<jobs, apps, taps>>
(* _send_application: nothing is recorded of a mail that failed. *)
Send(f) ==
  LET j == front[f].at IN
  /\ front[f].pc = "apply"
  /\ IF ByLink(j)
     THEN front' = [front EXCEPT ![f].pc = "record"] /\ UNCHANGED mailed
     ELSE \/ mailed' = [mailed EXCEPT ![j] = @ + 1] /\ front' = [front EXCEPT ![f].pc = "record"]
          \/ front' = [front EXCEPT ![f] = NoTap] /\ UNCHANGED mailed
  /\ UNCHANGED <<jobs, apps, taps>>

(* record_application: a row of its own, then the job leaves the queue. *)
Record(f) ==
  LET j == front[f].at IN
  /\ front[f].pc = "record"
  /\ apps' = [apps EXCEPT ![j] = [rows |-> @.rows + 1,
                                  state |-> IF ByLink(j) THEN "tracked" ELSE "applied"]]
  /\ front' = [front EXCEPT ![f].pc = "settle"]
  /\ UNCHANGED <<jobs, taps, mailed>>
Settle(f) ==
  /\ front[f].pc = "settle"
  /\ SetStatus(front[f].at, "applied")
  /\ front' = [front EXCEPT ![f] = NoTap]
  /\ UNCHANGED <<apps, taps, mailed>>

Skip(f, j) ==
  /\ Goes("skip") /\ Tap(f, j)
  /\ SetStatus(j, "skipped")
  /\ UNCHANGED <<apps, front, mailed>>
Tailor(f, j) ==
  /\ Goes("tailor") /\ Tap(f, j)
  /\ \E v \in Tailored(jobs[j].variant) : jobs' = [jobs EXCEPT ![j].variant = v]
  /\ UNCHANGED <<apps, front, mailed>>

FrontDies(f) ==
  /\ front[f].pc # "idle" /\ Fault
  /\ front' = [front EXCEPT ![f] = NoTap]
  /\ UNCHANGED <<jobs, apps, taps, mailed>>

-----------------------------------------------------------------------------
(* interview_check *)

Answered(j, label) ==
  /\ Goes("watch") /\ apps[j].rows > 0
  /\ replies' = replies \cup {<<j, label>>}
  /\ UNCHANGED <<apps, alerted, told, checker>>

(* A mutant of the next definition: the mails are marked as soon as they are listed. *)
CheckStartMarks ==
  /\ Goes("watch") /\ checker.pc = "idle" /\ \E j \in Postings : apps[j].rows > 0
  /\ checker' = [NoCheck EXCEPT !.pc = "read", !.todo = replies \ alerted,
                                !.known = alerted \cup replies]
  /\ alerted' = alerted \cup replies
  /\ UNCHANGED <<apps, replies, told>>
(* The inbox is listed; without Gmail the check is over. *)
CheckStart ==
  /\ Goes("watch") /\ checker.pc = "idle" /\ \E j \in Postings : apps[j].rows > 0
  /\ checker' = [NoCheck EXCEPT !.pc = "read", !.todo = replies \ alerted, !.known = alerted]
  /\ UNCHANGED <<apps, replies, alerted, told>>

(* A mail is classified; an invitation is told, and either is linked to the newest *)
(* application of its company, if that is progress.  What the model takes for      *)
(* unrelated is looked at again by the next check.                                 *)
CheckMail(m) ==
  LET becomes == IF m[2] = "response" THEN "replied" ELSE "interview" IN
  /\ checker.pc = "read" /\ m \in checker.todo
  /\ told' = IF m[2] = "interview_invite" THEN told \cup {m} ELSE told
  /\ checker' = [checker EXCEPT
       !.todo = @ \ {m}, !.known = @ \cup {m},
       !.pc = IF Rank[becomes] > Rank[apps[m[1]].state] THEN "link" ELSE "read",
       !.at = m[1], !.becomes = becomes]
  /\ UNCHANGED <<apps, replies, alerted>>
Link ==
  /\ checker.pc = "link"
  /\ apps' = [apps EXCEPT ![checker.at].state = checker.becomes]
  /\ checker' = [checker EXCEPT !.pc = "read"]
  /\ UNCHANGED <<replies, alerted, told>>
CheckEnd ==
  /\ checker.pc = "read" /\ checker.todo = {}
  /\ alerted' = checker.known /\ checker' = NoCheck
  /\ UNCHANGED <<apps, replies, told>>
CheckDies ==
  /\ checker.pc # "idle" /\ Fault
  /\ checker' = NoCheck
  /\ UNCHANGED <<apps, replies, alerted, told>>

-----------------------------------------------------------------------------
(* Two days without a decision, and the end of an application window. *)
Pass(j) ==
  /\ Goes("time") /\ jobs[j].status # "absent"
  /\ \/ jobs[j].fresh /\ jobs' = [jobs EXCEPT ![j].fresh = FALSE]
     \/ jobs[j].window = "open" /\ jobs' = [jobs EXCEPT ![j].window = "shut"]

HuntGoesOn == Sight \/ Sift \/ Overflow \/ HuntScores \/ Digest
Scoring(p) == Score(p) \/ SkipLow(p) \/ SaveCover(p)
Working == Scoring("worker") \/ \E j \in Postings : ScoreOne(j)
Sweeping == SweepStart \/ Retire \/ SelectCap \/ SweepEnd
Applying(f) == AutoTailor(f) \/ Send(f) \/ Record(f) \/ Settle(f)
Deciding(f) == \E j \in Postings : Approve(f, j) \/ Skip(f, j) \/ Tailor(f, j)
Checking == CheckStart \/ (\E m \in replies : CheckMail(m)) \/ Link \/ CheckEnd
Answering == \E j \in Postings, label \in Labels : Answered(j, label)

InHand(j) == \/ j \in {hunter.at} \cup hunter.keepers
             \/ \E i \in DOMAIN hunter.found : hunter.found[i] = j
             \/ \E p \in DOMAIN scorer : scorer[p].pc # "idle" /\ scorer[p].at = j
Close == closed' = closed \cup {j \in Known' : jobs'[j].status \in Resolved /\ ~InHand(j)'}

ScorersOnly  == UNCHANGED <<apps, sweeper>> /\ UNCHANGED deciding /\ UNCHANGED watching /\ Close
WatchersOnly == UNCHANGED <<jobs, sweeper>> /\ UNCHANGED scoring /\ UNCHANGED deciding /\ Close

ScoreStep == (HuntGoesOn \/ Scoring("hunt") \/ Working) /\ UNCHANGED daily /\ ScorersOnly
ScoreElse == ((HuntStart /\ UNCHANGED daily) \/ HuntDies \/ WorkerDies) /\ ScorersOnly
SweepStep == Sweeping /\ UNCHANGED <<apps, daily>>
             /\ UNCHANGED scoring /\ UNCHANGED deciding /\ UNCHANGED watching /\ Close
FrontStep == (\E f \in Fronts : ((Deciding(f) \/ Applying(f)) /\ UNCHANGED daily) \/ FrontDies(f))
             /\ UNCHANGED sweeper /\ UNCHANGED scoring /\ UNCHANGED watching /\ Close
CheckStep == Checking /\ UNCHANGED daily /\ WatchersOnly
WatchElse == ((Answering /\ UNCHANGED daily) \/ CheckDies) /\ WatchersOnly
TimeStep  == (\E j \in Postings : Pass(j)) /\ UNCHANGED <<apps, sweeper, daily>>
             /\ UNCHANGED scoring /\ UNCHANGED deciding /\ UNCHANGED watching /\ Close

JobsNext ==
  ScoreStep \/ ScoreElse \/ SweepStep \/ FrontStep \/ CheckStep \/ WatchElse \/ TimeStep

(* A worker drains the queue and a hunt goes on while nothing kills them; the     *)
(* scheduler retires and checks again and again; time passes.                      *)
JobsFair ==
  /\ WF_jobsVars(ScoreStep) /\ WF_jobsVars(SweepStep)
  /\ WF_jobsVars(CheckStep) /\ WF_jobsVars(TimeStep)

Init == DailyInit /\ JobsInit
Spec == Init /\ [][JobsNext]_<<daily, jobsVars>> /\ JobsFair

-----------------------------------------------------------------------------
JobsTypeOK ==
  /\ \A j \in Postings : /\ jobs[j].status \in Statuses \cup {"absent"}
                         /\ jobs[j].score \in 0..MaxScore /\ jobs[j].window \in Windows
                         /\ jobs[j].variant \in {"none", "ready"}
                         /\ apps[j].rows \in Nat /\ apps[j].state \in DOMAIN Rank
                         /\ scoreRows[j] \in {"none", "queued", "running"}
                         /\ mailed[j] \in Nat
  /\ taps \in 0..MaxTaps /\ sweeper.due \subseteq Postings
  /\ told \subseteq replies /\ replies \subseteq Postings \X Labels

(* What was resolved while no hunt and no worker had it in hand never comes back   *)
(* to the user's list: not by a row of the queue that is delivered late or again,  *)
(* nor because a source lists the posting once more.                               *)
ClosedStaysClosed == \A j \in closed : jobs[j].status \in Resolved

(* The table of applications tells what companies got: a mail without a row is     *)
(* only one whose process has just sent it, or died then, and no job is said to    *)
(* be applied for without a row.                                                   *)
ApplicationsAreTrue ==
  \A j \in Postings :
    /\ jobs[j].status = "applied" => apps[j].rows > 0
    /\ RouteOf[j] = "email" =>
         LET between == Cardinality({f \in Fronts : front[f] = [pc |-> "record", at |-> j]}) IN
         /\ apps[j].rows + between <= mailed[j]
         /\ mailed[j] <= apps[j].rows + between + faults

(* Nothing waits for ever: a job that is new, scored, or offered is decided upon   *)
(* or retired, although hunts and workers die in the middle of it.                 *)
PendingSettles ==
  \A j \in Postings : (Goes("sweep") /\ Goes("time") /\ jobs[j].status \in Pending)
                      ~> jobs[j].status \in Resolved

(* An invitation to an interview reaches the user, although a check dies between   *)
(* reading the mail and remembering that it has.                                   *)
InvitesReachUser ==
  \A j \in Postings : (<<j, "interview_invite">> \in replies) ~> (<<j, "interview_invite">> \in told)
=============================================================================
