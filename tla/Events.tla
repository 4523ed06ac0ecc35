------------------------------- MODULE Events -------------------------------
(***************************************************************************)
(* Events and deadlines: skills/event_scout/skill.py, which tells the user *)
(* of free events and of those he chose, and skills/semester_planner.py,   *)
(* which keeps what is due.  Scheduled runs, the worker that scans and the *)
(* user's choices are beside each other; a run holds the rows it read.     *)
(***************************************************************************)
EXTENDS Daily

CONSTANTS
  Meetups,      \* free events of the sources
  Dues,         \* deadlines of courses: their rows name a unit
  MaxRows       \* how many rows of one deadline a behaviour follows

ASSUME EventsAssumption == MaxRows \in Nat /\ Meetups \cap Dues = {}

VARIABLES
  events,       \* the table events: status, and when the event is
  deadlines,    \* the table deadlines: per thing due, the status of each of its rows
  overdue,      \* things due that are overdue for days, or called cancelled by now
  digest,       \* the weekly digest
  closer,       \* closing_soon
  nudger,       \* registration_reminder
  reminded,     \* kv: the events reminded of
  choice,       \* the user's "interested" under way
  retirer,      \* _retire_stale_deadlines
  heard         \* observed: events the user was pushed

eventsVars == <<events, deadlines, overdue, digest, closer, nudger, reminded, choice,
                retirer, heard>>
pushes  == <<digest, closer, nudger, reminded, heard>>
planner == <<deadlines, overdue, retirer>>

Whens == {"later", "soon", "past"}
NoPush == [pc |-> "idle", todo |-> {}, at |-> {}]

EventsInit ==
  /\ events = [e \in Meetups |-> [status |-> "absent", when |-> "later"]]
  /\ deadlines = [d \in Meetups \cup Dues |-> << >>] /\ overdue = {}
  /\ digest = NoPush /\ closer = NoPush /\ nudger = NoPush
  /\ reminded = {} /\ choice = NoPush /\ retirer = NoPush
  /\ heard = {}

EventsIn(status) == {e \in Meetups : events[e].status = status}
SetEvents(S, status) ==
  events' = [e \in Meetups |-> IF e \in S THEN [events[e] EXCEPT !.status = status]
                               ELSE events[e]]

-----------------------------------------------------------------------------
(* Scanning and pushing *)

(* An event seen before keeps its status. *)
UpsertEvent(e) == events[e].status = "absent" /\ SetEvents({e}, "new")
Scan(e) == Goes("events") /\ UpsertEvent(e) /\ UNCHANGED <<pushes, choice>>

DaysGo(e) ==
  /\ Goes("days") /\ events[e].when # "past"
  /\ events' = [events EXCEPT ![e].when = IF @ = "later" THEN "soon" ELSE "past"]
  /\ UNCHANGED <<pushes, choice>>

(* The digest: the new events that are not over and that some tag scores, in one      *)
(* message; then each is marked, by its id.                                           *)
DigestStart ==
  /\ Goes("digest") /\ digest.pc = "idle"
  /\ \E ranked \in SUBSET {e \in EventsIn("new") : events[e].when # "past"} :
       /\ ranked # {}
       /\ digest' = [pc |-> "mark", todo |-> ranked, at |-> {}]
       /\ heard' = heard \cup ranked
  /\ UNCHANGED <<events, closer, nudger, reminded, choice>>
DigestMark(e) ==
  /\ digest.pc = "mark" /\ e \in digest.todo
  /\ SetEvents({e}, "notified")
  /\ digest' = IF digest.todo = {e} THEN NoPush ELSE [digest EXCEPT !.todo = @ \ {e}]
  /\ UNCHANGED <<closer, nudger, reminded, heard, choice>>

(* A mutant of the next definition: all are marked first. *)
ClosingStartMarks ==
  /\ Goes("closing") /\ closer.pc = "idle"
  /\ LET near == {e \in EventsIn("new") : events[e].when = "soon"} IN
     /\ near # {} /\ closer' = [pc |-> "push", todo |-> near, at |-> {}]
     /\ SetEvents(near, "notified")
  /\ UNCHANGED <<digest, nudger, reminded, heard, choice>>

(* closing_soon: one message for each new event that is near, then its mark. *)
ClosingStart ==
  /\ Goes("closing") /\ closer.pc = "idle"
  /\ LET near == {e \in EventsIn("new") : events[e].when = "soon"} IN
     near # {} /\ closer' = [pc |-> "push", todo |-> near, at |-> {}]
  /\ UNCHANGED <<events, digest, nudger, reminded, heard, choice>>
ClosingPush ==
  /\ closer.pc = "push"
  /\ \E e \in closer.todo :
       /\ closer' = [pc |-> "mark", todo |-> closer.todo \ {e}, at |-> {e}]
       /\ heard' = heard \cup {e}
  /\ UNCHANGED <<events, digest, nudger, reminded, choice>>
ClosingMark ==
  /\ closer.pc = "mark"
  /\ SetEvents(closer.at, "notified")
  /\ closer' = IF closer.todo = {} THEN NoPush ELSE [closer EXCEPT !.pc = "push", !.at = {}]
  /\ UNCHANGED <<digest, nudger, reminded, heard, choice>>

(* registration_reminder: the ids reminded of are kept while the event is chosen, and *)
(* written when all messages are out.                                                 *)
ReminderStart ==
  /\ Goes("reminders") /\ nudger.pc = "idle"
  /\ LET known == reminded \cap EventsIn("interested") IN
     nudger' = [pc |-> "push", at |-> known,
                todo |-> {e \in EventsIn("interested") \ known : events[e].when = "soon"}]
  /\ UNCHANGED <<events, digest, closer, reminded, heard, choice>>
ReminderPush ==
  /\ nudger.pc = "push"
  /\ \E e \in nudger.todo :
       /\ nudger' = [nudger EXCEPT !.todo = @ \ {e}, !.at = @ \cup {e}]
  /\ UNCHANGED <<events, digest, closer, reminded, heard, choice>>

ReminderSave ==
  /\ nudger.pc = "push" /\ nudger.todo = {}
  /\ reminded' = nudger.at /\ nudger' = NoPush
  /\ UNCHANGED <<events, digest, closer, heard, choice>>

(* The kernel dies with what its scheduler was running. *)
SchedulerDies ==
  /\ Fault
  /\ \E r \in {digest, closer, nudger} : r.pc # "idle"
  /\ digest' = NoPush /\ closer' = NoPush /\ nudger' = NoPush
  /\ UNCHANGED <<events, reminded, heard, choice>>

-----------------------------------------------------------------------------
(* The user's choices *)

(* add_deadline: a row of the same unit, title and time is left alone; an event has   *)
(* no unit, and such rows never conflict.                                             *)
AddDeadline(d, status) ==
  deadlines' = IF d \in Dues /\ deadlines[d] # << >> THEN deadlines
               ELSE [deadlines EXCEPT ![d] = Append(@, status)]

Choose(e) ==
  /\ Goes("choices") /\ choice.pc = "idle" /\ events[e].status # "absent"
  /\ Len(deadlines[e]) < MaxRows
  /\ SetEvents({e}, "interested")
  /\ choice' = [pc |-> "plan", todo |-> {}, at |-> {e}]
  /\ UNCHANGED <<digest, closer, nudger, reminded, heard, planner>>
PlanIt ==
  /\ choice.pc = "plan"
  /\ \E e \in choice.at : AddDeadline(e, "active")
  /\ choice' = NoPush
  /\ UNCHANGED <<events, pushes, overdue, retirer>>
Decline(e) ==
  /\ Goes("choices") /\ choice.pc = "idle" /\ events[e].status # "absent"
  /\ SetEvents({e}, "skipped")
  /\ UNCHANGED <<pushes, choice, planner>>

-----------------------------------------------------------------------------
(* The planner *)

(* deadline_add *)
DeadlineAdd(d) ==
  /\ Goes("planner") /\ AddDeadline(d, "active")
  /\ UNCHANGED <<overdue, retirer>>

(* extract_deadlines: dates a model reads in a mail wait for confirmation. *)
FromMail(d) ==
  /\ Goes("planner") /\ AddDeadline(d, "pending") /\ UNCHANGED <<overdue, retirer>>

SetRows(d, I, status) ==
  deadlines' = [deadlines EXCEPT ![d] = [i \in DOMAIN @ |-> IF i \in I THEN status ELSE @[i]]]

Confirm(d) ==
  /\ Goes("planner") /\ deadlines[d] # << >>
  /\ SetRows(d, {1}, "active")
  /\ UNCHANGED <<overdue, retirer>>
Reject(d) ==
  /\ Goes("planner") /\ deadlines[d] # << >>
  /\ SetRows(d, {1}, "cancelled") /\ UNCHANGED <<overdue, retirer>>

(* _retire_stale_deadlines, before each briefing and each /due: active rows are read, *)
(* and the stale ones expired by their ids.                                           *)
RetireStart ==
  /\ Goes("planner") /\ retirer.pc = "idle"
  /\ LET stale == {d \in overdue : \E i \in DOMAIN deadlines[d] : deadlines[d][i] = "active"} IN
     stale # {} /\ retirer' = [pc |-> "expire", todo |-> stale, at |-> {}]
  /\ UNCHANGED <<deadlines, overdue>>
RetireOne(d) ==
  /\ retirer.pc = "expire" /\ d \in retirer.todo
  /\ \E status \in {"expired", "cancelled"} : SetRows(d, DOMAIN deadlines[d], status)
  /\ retirer' = IF retirer.todo = {d} THEN NoPush ELSE [retirer EXCEPT !.todo = @ \ {d}]
  /\ UNCHANGED <<overdue>>
Overdue(d) ==
  /\ Goes("planner") /\ d \notin overdue
  /\ overdue' = overdue \cup {d} /\ UNCHANGED <<deadlines, retirer>>

-----------------------------------------------------------------------------
Pushing ==
  /\ \/ \E e \in Meetups : Scan(e) \/ DaysGo(e) \/ DigestMark(e)
     \/ DigestStart \/ ClosingStart \/ ClosingPush \/ ClosingMark
     \/ ReminderStart \/ ReminderPush \/ ReminderSave
  /\ UNCHANGED <<planner, daily>>
Deaths == SchedulerDies /\ UNCHANGED planner
Choosing == (PlanIt \/ \E e \in Meetups : Choose(e) \/ Decline(e)) /\ UNCHANGED daily
Planning ==
  /\ \/ \E d \in Dues : DeadlineAdd(d) \/ FromMail(d) \/ Confirm(d) \/ Reject(d)
                        \/ Overdue(d) \/ RetireOne(d)
     \/ RetireStart
  /\ UNCHANGED <<events, pushes, choice, daily>>

EventsNext == Pushing \/ Deaths \/ Choosing \/ Planning

(* The scheduler runs closing_soon and the reminder every six hours, and a run goes   *)
(* on as long as its process lives.                                                   *)
ClosingRuns  == (ClosingStart \/ ClosingPush \/ ClosingMark) /\ UNCHANGED <<planner, daily>>
ReminderRuns == (ReminderStart \/ ReminderPush \/ ReminderSave) /\ UNCHANGED <<planner, daily>>
EventsFair == WF_<<daily, eventsVars>>(ClosingRuns) /\ WF_<<daily, eventsVars>>(ReminderRuns)

-----------------------------------------------------------------------------
(* An event that comes near while nobody chose is pushed, though the scheduler may    *)
(* die at any point of the push, unless it is over or chosen first.                   *)
NearEventsArePushed ==
  \A e \in Meetups :
    Goes("closing") /\ events[e].status = "new" /\ events[e].when = "soon"
      ~> e \in heard \/ events[e].when = "past" \/ events[e].status = "interested"
         \/ events[e].status = "skipped"
=============================================================================
