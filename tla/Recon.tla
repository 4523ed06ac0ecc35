------------------------------- MODULE Recon --------------------------------
(***************************************************************************)
(* The weekly check of the user's own hosts (skills/infra_recon.py, the    *)
(* table infra_scan_results of core/memory.py), which only reports.  A     *)
(* scan takes the enrolled hosts as they are, looks for the problems of    *)
(* each, closes what it did not see again, looks at what runs beside it    *)
(* and reports what is open.  The scheduler's scan and one asked for run   *)
(* beside each other.  A problem is a place and a check; what its wording  *)
(* tells apart (ports, paths, package versions) is one problem here.       *)
(***************************************************************************)
EXTENDS Daily

CONSTANTS
  Hosts,        \* hosts he may enroll
  Broken,       \* the problems that may come up: places and checks
  MaxScans,     \* how many scans a behaviour has
  EscalateAfter \* ESCALATE_AFTER: sightings that make a finding a recurring one

ReconAssumption == MaxScans \in Nat /\ EscalateAfter \in Nat /\ "local" \notin Hosts
ASSUME ReconAssumption

VARIABLES
  targets,      \* infra.targets: hosts he enrolled, with the open ports he expects
  wrong,        \* external: the problems there are
  findings,     \* the table infra_scan_results, per problem
  scans,        \* how many scans have begun, the clock of last_seen
  scan          \* per scanner, its scan

reconVars == <<targets, wrong, findings, scans, scan>>

Scanners  == {"scheduler", "command"}
HostChecks  == <<"open_port", "tls_expiry", "exposed_file">>
LocalChecks == <<"cve", "pm2", "docker">>
Scanning  == Goes("recon")
Absent    == [status |-> "absent", seen |-> 0, occurrences |-> 0]
Idle      == [at |-> "idle", began |-> 0, hosts |-> <<>>, expected |-> {}, step |-> 1,
              found |-> {}, recurring |-> {}, alone |-> TRUE]

Ended(s)  == [Idle EXCEPT !.began = scan[s].began]

ReconInit ==
  /\ targets = [hosts |-> <<>>, expected |-> {}] /\ wrong = {} /\ scans = 0
  /\ findings = [p \in Broken |-> Absent] /\ scan = [s \in Scanners |-> Idle]

-----------------------------------------------------------------------------
(* Enrolling a host again replaces the ports he expects open. *)
Enroll(h, expected) ==
  /\ expected => Goes("expecting")
  /\ targets' = [hosts    |-> IF \E i \in DOMAIN targets.hosts : targets.hosts[i] = h THEN targets.hosts
                              ELSE Append(targets.hosts, h),
                 expected |-> IF expected THEN targets.expected \union {h} ELSE targets.expected \ {h}]
  /\ UNCHANGED <<wrong, findings, scans, scan>>

Change(p) ==
  /\ wrong' = IF p \in wrong THEN wrong \ {p} ELSE wrong \union {p}
  /\ UNCHANGED <<targets, findings, scans, scan>>

(* record_finding: a problem seen again is open, whatever became of it. *)
RecordFinding(p) ==
  findings' = [findings EXCEPT ![p] = [status |-> "open", seen |-> scans,
                                       occurrences |-> IF @.occurrences < EscalateAfter
                                                       THEN @.occurrences + 1 ELSE @.occurrences]]

(* A mutant of the next definition: what this scan has just seen is closed as well. *)
ResolveUnseenNow(h, began) ==
  findings' = [p \in Broken |-> IF p[1] = h /\ findings[p].status = "open" /\ findings[p].seen <= began
                                THEN [findings[p] EXCEPT !.status = "resolved"] ELSE findings[p]]

ResolveUnseen(h, began) ==
  findings' = [p \in Broken |-> IF p[1] = h /\ findings[p].status = "open" /\ findings[p].seen < began
                                THEN [findings[p] EXCEPT !.status = "resolved"] ELSE findings[p]]

-----------------------------------------------------------------------------
Begin(s) ==
  /\ scan[s].at = "idle" /\ targets.hosts # <<>> /\ scans < MaxScans
  /\ s = "command" => Goes("asking")
  /\ scans' = scans + 1
  /\ LET alone == \A o \in Scanners : scan[o].at = "idle"
     IN scan' = [o \in Scanners |->
                   IF o = s THEN [Idle EXCEPT !.at = "host", !.began = scans', !.hosts = targets.hosts,
                                              !.expected = targets.expected, !.alone = alone]
                   ELSE IF scan[o].at # "idle" THEN [scan[o] EXCEPT !.alone = FALSE] ELSE scan[o]]
  /\ UNCHANGED <<targets, wrong, findings>>

(* The checks a scan makes of one place. *)
Checks(s) == IF scan[s].at = "host" THEN HostChecks ELSE LocalChecks
Looking(s) == scan[s].at \in {"host", "local"} /\ scan[s].step <= Len(Checks(s))
Place(s)  == IF scan[s].at = "host" THEN Head(scan[s].hosts) ELSE "local"
Problem(s) == <<Place(s), Checks(s)[scan[s].step]>>

(* An open port that he expects is no finding. *)
Seen(s) == /\ Problem(s) \in wrong
           /\ Problem(s)[2] = "open_port" => Place(s) \notin scan[s].expected

Look(s) ==
  /\ Looking(s)
  /\ IF Seen(s)
     THEN /\ RecordFinding(Problem(s))
          /\ scan' = [scan EXCEPT ![s] = [scan[s] EXCEPT !.step = @ + 1,
                                                         !.found = @ \union {Problem(s)}]]
     ELSE scan' = [scan EXCEPT ![s] = [scan[s] EXCEPT !.step = @ + 1]] /\ UNCHANGED findings
  /\ UNCHANGED <<targets, wrong, scans>>

(* A probe that fails is not a finding, ... *)
LookFails(s) ==
  /\ Looking(s) /\ Fault
  /\ scan' = [scan EXCEPT ![s] = [scan[s] EXCEPT !.step = @ + 1]]
  /\ UNCHANGED <<targets, wrong, findings, scans>>

(* ... but the port that is asked for the scheme of the exposed files is no such probe: the *)
(* scan ends, and the hosts after this one are not looked at.                               *)
SchemeFails(s) ==
  /\ Looking(s) /\ Problem(s)[2] = "exposed_file" /\ Fault
  /\ scan' = [scan EXCEPT ![s] = Ended(s)]
  /\ UNCHANGED <<targets, wrong, findings, scans>>

HostDone(s) ==
  /\ scan[s].at = "host" /\ scan[s].step > Len(HostChecks)
  /\ ResolveUnseen(Place(s), scan[s].began)
  /\ scan' = [scan EXCEPT ![s] = [scan[s] EXCEPT !.step = 1, !.hosts = Tail(@),
                                    !.at = IF Len(scan[s].hosts) = 1 THEN "local" ELSE "host"]]
  /\ UNCHANGED <<targets, wrong, scans>>

(* open_findings: what the report lists, and what it says keeps coming back. *)
Open      == {p \in Broken : findings[p].status = "open"}
Recurring == {p \in Open : findings[p].occurrences >= EscalateAfter}

Report(s) ==
  /\ scan[s].at = "local" /\ scan[s].step > Len(LocalChecks)
  /\ scan' = [scan EXCEPT ![s] = [scan[s] EXCEPT !.at = "reporting", !.recurring = Recurring]]
  /\ UNCHANGED <<targets, wrong, findings, scans>>

(* What the notification's sending says is ignored. *)
Reported(s) ==
  /\ scan[s].at = "reporting"
  /\ scan' = [scan EXCEPT ![s] = Ended(s)]
  /\ UNCHANGED <<targets, wrong, findings, scans>>

ReconNext ==
  /\ Scanning
  /\ \/ /\ UNCHANGED daily
        /\ \/ \E h \in Hosts, expected \in BOOLEAN : Enroll(h, expected)
           \/ \E p \in Broken : Change(p)
           \/ \E s \in Scanners : Begin(s) \/ Look(s) \/ HostDone(s) \/ Report(s) \/ Reported(s)
     \/ \E s \in Scanners : LookFails(s) \/ SchemeFails(s)

-----------------------------------------------------------------------------
(* Once a scan has been through the hosts, what is open of them is what it found: a problem  *)
(* that is gone, that is expected now or that an aborted scan left behind has closed itself, *)
(* and one that is still there is open, also when it was closed before                       *)
(* (infra_recon.py:128).  A scan that ran beside another one may differ, but loses a problem *)
(* it found only to one that began later.                                                    *)
ReportIsTheScan ==
  \A s \in Scanners : scan[s].at \in {"local", "reporting"} =>
    LET found  == {p \in scan[s].found : p[1] \in Hosts}
        open   == {p \in Open : \E i \in DOMAIN targets.hosts : targets.hosts[i] = p[1]}
    IN IF scan[s].alone THEN found \subseteq open /\ \A p \in open : p \in found
       ELSE found \subseteq open \/ \E o \in Scanners \ {s} : scan[o].began > scan[s].began
=============================================================================
