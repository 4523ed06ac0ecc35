----------------------------- MODULE TaskQueue -----------------------------
(***************************************************************************)
(* What the job queue promises its callers, without the clock, the dedupe  *)
(* keys, the attempts or the connections: a growing list of tasks, each    *)
(* taken by at most one worker at a time, each outcome decided by the      *)
(* worker that holds the task, and nothing ever forgotten.  A worker may   *)
(* drop a task (it crashed, or lost the database); the task then stays     *)
(* "running" with nobody holding it.                                       *)
(***************************************************************************)
EXTENDS Naturals, Sequences

CONSTANT Workers

VARIABLES
  tasks,  \* the status of every task, in order of creation
  held    \* per worker: the task it holds, 0 when none

Ids == 1 .. Len(tasks)

Init == tasks = << >> /\ held = [w \in Workers |-> 0]

Add == tasks' = Append(tasks, "queued") /\ UNCHANGED held

Take(w, i) ==
  /\ held[w] = 0
  /\ tasks[i] = "queued" /\ \A v \in Workers : held[v] # i
  /\ tasks' = [tasks EXCEPT ![i] = "running"]
  /\ held' = [held EXCEPT ![w] = i]

(* Only a running task can be settled, and only by the worker holding it. *)
Settle(w, outcome) ==
  /\ held[w] \in Ids /\ tasks[held[w]] = "running"
  /\ \A v \in Workers \ {w} : held[v] # held[w]
  /\ tasks' = [tasks EXCEPT ![held[w]] = outcome]
  /\ held' = [held EXCEPT ![w] = 0]

Drop(w) ==
  /\ held[w] # 0
  /\ held' = [held EXCEPT ![w] = 0]
  /\ UNCHANGED tasks

(* Failed tasks get another chance, all at once. *)
Revive(S) ==
  /\ \A i \in S : tasks[i] = "failed"
  /\ tasks' = [i \in Ids |-> IF i \in S THEN "queued" ELSE tasks[i]]
  /\ UNCHANGED held

Next ==
  \/ Add
  \/ \E w \in Workers :
       \/ \E i \in Ids : Take(w, i)
       \/ \E outcome \in {"queued", "done", "failed"} : Settle(w, outcome)
       \/ Drop(w)
  \/ \E S \in SUBSET Ids : Revive(S)

Spec == Init /\ [][Next]_<<tasks, held>>
=============================================================================
