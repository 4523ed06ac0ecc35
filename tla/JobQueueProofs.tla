--------------------------- MODULE JobQueueProofs ---------------------------
(***************************************************************************)
(* TLAPS proofs about JobQueue, for every number of workers, producers,    *)
(* rows, attempts and faults.                                              *)
(*                                                                         *)
(* TypeOK is not inductive alone: that claim() keeps attempts within       *)
(* max_attempts needs QueuedHasAttemptsLeft, which needs HolderOwnsRow     *)
(* (fail() compares the attempts of the claimed Job, not the row's), and   *)
(* HolderOwnsRow needs that a row is queued before it is claimed.  The     *)
(* three together are inductive.                                           *)
(*                                                                         *)
(* NeitherRepeatedNorLost has three parts, each with an invariant of its   *)
(* own beside IInv: RunOnce, KeyIsFree and StillHeld.                      *)
(***************************************************************************)
EXTENDS JobQueue, SequenceTheorems, TLAPS

IInv == TypeOK /\ HolderOwnsRow /\ QueuedHasAttemptsLeft

-----------------------------------------------------------------------------
(* Updating one row in place gives a table of the same length. *)
LEMMA RowUpdate ==
  ASSUME NEW q \in Seq(Row), NEW i \in 1 .. Len(q), NEW r \in Row
  PROVE  /\ [q EXCEPT ![i] = r] \in Seq(Row)
         /\ Len([q EXCEPT ![i] = r]) = Len(q)
         /\ \A j \in 1 .. Len(q) : [q EXCEPT ![i] = r][j] = IF j = i THEN r ELSE q[j]
  OBVIOUS

(* A function from 1 .. n to rows is a table with n rows. *)
LEMMA FunctionIsTable ==
  ASSUME NEW n \in Nat, NEW f \in [1 .. n -> Row]
  PROVE  f \in Seq(Row) /\ Len(f) = n
  <1>1. f \in Seq(Row)
    BY SeqDef
  <1> QED
    BY <1>1

(* The budget of faults stays a budget when one of them is spent. *)
LEMMA SpendType ==
  ASSUME TypeOK, NEW fault \in FaultKinds, Spend(fault)
  PROVE  budget' \in [FaultKinds -> Nat]
  <1>1. budget[fault] \in Nat /\ budget[fault] > 0
    BY DEF TypeOK, Spend
  <1>2. budget[fault] - 1 \in Nat
    BY <1>1
  <1> QED
    BY <1>2 DEF TypeOK, Spend

(* The initial states. *)
LEMMA InitInv == Init => IInv
  BY QueueAssumption DEF Init, IInv, TypeOK, HolderOwnsRow, QueuedHasAttemptsLeft,
     Busy, Ids, NoRequest, NoJob, FaultKinds

(* Steps that leave the table and the jobs in flight alone. *)
LEMMA QuietSteps ==
  ASSUME IInv, NEW w \in Workers,
         Tick \/ HandlerReturns(w) \/ HandlerRaises(w) \/ CompleteRaises(w)
         \/ ConnectionLost(w) \/ Signal(w) \/ Exit(w)
  PROVE  IInv'
  <1> USE QueueAssumption DEF IInv, Ids, Busy
  <1>1. TypeOK'
    <2>1. CASE Tick BY <2>1 DEF Tick, TypeOK
    <2>2. CASE HandlerReturns(w)
      <3>1. job[w].id \in 1 .. MaxRows
        BY <2>2 DEF HandlerReturns, HolderOwnsRow, TypeOK
      <3> QED BY SMTT(20), <2>2, <3>1 DEF HandlerReturns, TypeOK
    <2>3. CASE HandlerRaises(w) BY <2>3 DEF HandlerRaises, TypeOK
    <2>4. CASE CompleteRaises(w)
      <3>1. "error" \in FaultKinds /\ Spend("error")
        BY <2>4 DEF CompleteRaises, FaultKinds
      <3>2. budget' \in [FaultKinds -> Nat]
        BY <3>1, SpendType
      <3> QED BY <2>4, <3>2 DEF CompleteRaises, TypeOK
    <2>5. CASE ConnectionLost(w)
      <3>1. "connloss" \in FaultKinds /\ Spend("connloss")
        BY <2>5 DEF ConnectionLost, FaultKinds
      <3>2. budget' \in [FaultKinds -> Nat]
        BY <3>1, SpendType
      <3> QED BY <2>5, <3>2 DEF ConnectionLost, TypeOK
    <2>6. CASE Signal(w)
      <3>1. "signal" \in FaultKinds /\ Spend("signal")
        BY <2>6 DEF Signal, FaultKinds
      <3>2. budget' \in [FaultKinds -> Nat]
        BY <3>1, SpendType
      <3> QED BY <2>6, <3>2 DEF Signal, TypeOK
    <2>7. CASE Exit(w) BY <2>7 DEF Exit, TypeOK
    <2> QED BY <2>1, <2>2, <2>3, <2>4, <2>5, <2>6, <2>7
  <1>2. /\ UNCHANGED <<job_queue, job>>
        /\ \A v \in Workers : (pc'[v] # "idle") <=> (pc[v] # "idle")
    BY DEF Tick, HandlerReturns, HandlerRaises, CompleteRaises, ConnectionLost, Signal,
           Exit, TypeOK
  <1>3. HolderOwnsRow'
    BY <1>2 DEF HolderOwnsRow
  <1>4. QueuedHasAttemptsLeft'
    BY <1>2 DEF QueuedHasAttemptsLeft
  <1> QED BY <1>1, <1>3, <1>4

(* Worker w lets go of its job and the table stays as it is. *)
LEMMA DroppingSteps ==
  ASSUME IInv, NEW w \in Workers, FailRaises(w) \/ RunRaises(w) \/ Crash(w)
  PROVE  IInv'
  <1> USE DEF IInv, Ids, Busy
  <1>0. budget' \in [FaultKinds -> Nat]
    <2>1. {"error", "crash"} \subseteq FaultKinds
      BY DEF FaultKinds
    <2>2. Spend("error") \/ Spend("crash") \/ UNCHANGED budget
      BY DEF FailRaises, RunRaises, Crash
    <2> QED BY <2>1, <2>2, SpendType DEF TypeOK
  <1>1. TypeOK'
    BY <1>0 DEF FailRaises, RunRaises, Crash, Idle, TypeOK, NoJob
  <1>2. /\ UNCHANGED job_queue
        /\ pc' = [pc EXCEPT ![w] = "idle"]
        /\ job' = [job EXCEPT ![w] = NoJob]
    BY DEF FailRaises, RunRaises, Crash, Idle
  <1>3. HolderOwnsRow'
    BY <1>2 DEF HolderOwnsRow, TypeOK
  <1>4. QueuedHasAttemptsLeft'
    BY <1>2 DEF QueuedHasAttemptsLeft
  <1> QED BY <1>1, <1>3, <1>4

(***************************************************************************)
(* Worker w settles the row it holds: the status becomes done, failed or,  *)
(* with attempts left, queued again, and nobody holds the row any more.    *)
(***************************************************************************)
LEMMA SettlingSteps ==
  ASSUME IInv, NEW w \in Workers, Complete(w) \/ Fail(w) \/ FailUnknown(w)
  PROVE  /\ IInv'
         /\ Busy(w)
         /\ job' = [job EXCEPT ![w] = NoJob]
         /\ job[w].id \in Ids
         /\ \E r \in Row :
              /\ r.status \in {"done", "failed", "queued"}
              /\ r.dedupe_key = job_queue[job[w].id].dedupe_key
              /\ pc[w] = "complete" => r.status = "done"
              /\ job_queue' = [job_queue EXCEPT ![job[w].id] = r]
  <1> DEFINE i == job[w].id
             a == job[w].attempts
  <1> USE QueueAssumption DEF IInv
  <1>1. /\ Busy(w)
        /\ pc' = [pc EXCEPT ![w] = "idle"]
        /\ job' = [job EXCEPT ![w] = NoJob]
        /\ UNCHANGED <<now, req, stop, conn, budget, effects>>
    BY DEF Complete, Fail, FailUnknown, Idle, Busy
  <1>2. /\ i \in Ids /\ job_queue \in Seq(Row) /\ job_queue[i] \in Row
        /\ job_queue[i].status = "running" /\ job_queue[i].attempts = a
        /\ a \in 1 .. MaxAttempts
    <2>1. i \in Ids /\ job_queue[i].status = "running" /\ job_queue[i].attempts = a
      BY <1>1 DEF HolderOwnsRow
    <2>2. job_queue[i] \in Row
      BY <2>1 DEF TypeOK, Ids
    <2>3. a \in 1 .. MaxAttempts
      BY <2>1 DEF TypeOK, Job, NoJob, Ids
    <2> QED BY <2>1, <2>2, <2>3 DEF TypeOK
  <1>3. PICK r \in Row :
          /\ r.status \in {"done", "failed", "queued"}
          /\ r.attempts = a /\ (r.status = "queued" => a < MaxAttempts)
          /\ r.dedupe_key = job_queue[i].dedupe_key
          /\ pc[w] = "complete" => r.status = "done"
          /\ job_queue' = [job_queue EXCEPT ![i] = r]
    <2>1. CASE Complete(w)
      <3>1. job_queue' = [job_queue EXCEPT ![i] = [job_queue[i] EXCEPT !.status = "done"]]
        BY <2>1 DEF Complete
      <3>2. [job_queue[i] EXCEPT !.status = "done"] \in Row
        BY <1>2 DEF Row, Statuses
      <3> QED BY <1>2, <3>1, <3>2 DEF Row
    <2>2. CASE FailUnknown(w) \/ (Fail(w) /\ a >= MaxAttempts)
      <3>1. /\ job_queue' = [job_queue EXCEPT ![i] = [job_queue[i] EXCEPT !.status = "failed"]]
            /\ pc[w] # "complete"
        BY <2>2 DEF FailUnknown, Fail
      <3>2. [job_queue[i] EXCEPT !.status = "failed"] \in Row
        BY <1>2 DEF Row, Statuses
      <3> QED BY <1>2, <3>1, <3>2 DEF Row
    <2>3. CASE Fail(w) /\ ~(a >= MaxAttempts)
      <3> DEFINE r == [job_queue[i] EXCEPT !.status = "queued", !.run_at = now + Delay(a)]
      <3>1. job_queue' = [job_queue EXCEPT ![i] = r] /\ pc[w] # "complete"
        BY <2>3 DEF Fail
      <3>2. now + Delay(a) \in Nat
        BY SMTT(20), <1>2 DEF TypeOK
      <3>3. /\ r \in Row /\ r.status = "queued" /\ r.attempts = a
            /\ r.dedupe_key = job_queue[i].dedupe_key
        BY <1>2, <3>2 DEF Row, Statuses
      <3>4. a < MaxAttempts
        BY <2>3, <1>2
      <3> QED BY <3>1, <3>3, <3>4
    <2> QED BY <2>1, <2>2, <2>3
  <1>4. /\ job_queue' \in Seq(Row) /\ Len(job_queue') = Len(job_queue)
        /\ \A j \in Ids : job_queue'[j] = IF j = i THEN r ELSE job_queue[j]
    BY <1>2, <1>3, RowUpdate DEF Ids
  <1>5. TypeOK'
    BY <1>1, <1>4 DEF TypeOK, NoJob
  <1>6. HolderOwnsRow'
    BY <1>1, <1>2, <1>4 DEF HolderOwnsRow, TypeOK, Busy, Ids
  <1>7. QueuedHasAttemptsLeft'
    BY <1>2, <1>3, <1>4 DEF QueuedHasAttemptsLeft, Ids
  <1> QED BY <1>1, <1>2, <1>3, <1>5, <1>6, <1>7

(***************************************************************************)
(* Worker w claims a queued row.  Nobody holds that row, because a held    *)
(* row is running.                                                         *)
(***************************************************************************)
LEMMA ClaimStep ==
  ASSUME IInv, NEW w \in Workers, NEW i \in Ids, Claim(w, i)
  PROVE  /\ IInv'
         /\ \A v \in Workers : Busy(v) => job[v].id # i
         /\ \E r \in Row : /\ r.status = "running"
                           /\ r.dedupe_key = job_queue[i].dedupe_key
                           /\ job_queue' = [job_queue EXCEPT ![i] = r]
  <1> DEFINE r == [job_queue[i] EXCEPT !.status = "running",
                              !.attempts = job_queue[i].attempts + 1]
  <1> USE QueueAssumption DEF IInv
  <1>1. /\ job_queue \in Seq(Row) /\ job_queue[i] \in Row
        /\ job_queue[i].status = "queued"
        /\ job_queue[i].attempts < MaxAttempts /\ job_queue[i].attempts \in Nat
        /\ job_queue[i].attempts + 1 \in 1 .. MaxAttempts
        /\ i \in 1 .. MaxRows
    <2>1. job_queue \in Seq(Row) /\ Len(job_queue) <= MaxRows
      BY DEF TypeOK
    <2>2. job_queue[i] \in Row /\ i \in 1 .. MaxRows
      BY <2>1 DEF Ids
    <2>3. job_queue[i].status = "queued"
      BY DEF Claim, Due
    <2>4. job_queue[i].attempts < MaxAttempts
      BY <2>3 DEF QueuedHasAttemptsLeft
    <2>5. job_queue[i].attempts \in Nat
      BY <2>2 DEF Row
    <2> QED BY <2>1, <2>2, <2>3, <2>4, <2>5
  <1>2. /\ r \in Row /\ r.status = "running" /\ r.attempts = job_queue[i].attempts + 1
        /\ r.dedupe_key = job_queue[i].dedupe_key
    <2>1. \A old \in Row, n \in 0 .. MaxAttempts :
            LET new == [old EXCEPT !.status = "running", !.attempts = n]
            IN /\ new \in Row /\ new.status = "running" /\ new.attempts = n
               /\ new.dedupe_key = old.dedupe_key
      BY DEF Row, Statuses
    <2>2. job_queue[i].attempts + 1 \in 0 .. MaxAttempts
      BY <1>1
    <2> QED BY <1>1, <2>1, <2>2
  <1>3. /\ job_queue' = [job_queue EXCEPT ![i] = r]
        /\ job_queue' \in Seq(Row) /\ Len(job_queue') = Len(job_queue)
        /\ \A j \in Ids : job_queue'[j] = IF j = i THEN r ELSE job_queue[j]
    <2>1. job_queue' = [job_queue EXCEPT ![i] = r]
      BY DEF Claim
    <2> QED BY <1>1, <1>2, <2>1, RowUpdate DEF Ids
  <1>4. \A v \in Workers : Busy(v) => job[v].id # i
    BY <1>1 DEF HolderOwnsRow
  <1>5. /\ job' = [job EXCEPT ![w] = [id |-> i, attempts |-> job_queue[i].attempts + 1]]
        /\ [id |-> i, attempts |-> job_queue[i].attempts + 1] \in Job
        /\ \E s \in {"handler", "unknown"} : pc' = [pc EXCEPT ![w] = s]
        /\ UNCHANGED <<now, req, stop, conn, budget, effects>>
    <2>1. [id |-> i, attempts |-> job_queue[i].attempts + 1] \in Job
      BY <1>1 DEF Job
    <2>2. pc' = [pc EXCEPT ![w] = "handler"] \/ pc' = [pc EXCEPT ![w] = "unknown"]
      BY DEF Claim
    <2> QED BY <2>1, <2>2 DEF Claim
  <1>6. TypeOK'
    BY <1>3, <1>5 DEF TypeOK
  <1>7. HolderOwnsRow'
    BY <1>2, <1>3, <1>4, <1>5 DEF HolderOwnsRow, TypeOK, Busy, Ids
  <1>8. QueuedHasAttemptsLeft'
    BY <1>2, <1>3 DEF QueuedHasAttemptsLeft, Ids
  <1> QED BY <1>2, <1>3, <1>4, <1>6, <1>7, <1>8

(* Enqueueing touches no existing row. *)
LEMMA ProducingSteps ==
  ASSUME IInv, NEW p \in Producers,
         EnqueueInsert(p) \/ \E r \in Requests : EnqueueSelect(p, r)
  PROVE  /\ IInv'
         /\ UNCHANGED job
         /\ \/ UNCHANGED job_queue
            \/ \E r \in Row : r.status = "queued" /\ job_queue' = Append(job_queue, r)
  <1> USE QueueAssumption DEF IInv
  <1>1. CASE \E r \in Requests : EnqueueSelect(p, r)
    <2>1. TypeOK'
      BY <1>1 DEF EnqueueSelect, TypeOK, Insert
    <2>2. UNCHANGED <<job_queue, job, pc>>
      BY <1>1 DEF EnqueueSelect
    <2> QED BY <2>1, <2>2 DEF HolderOwnsRow, QueuedHasAttemptsLeft, Busy, Ids
  <1>2. CASE EnqueueInsert(p)
    <2> DEFINE r == [kind |-> req[p].kind, dedupe_key |-> req[p].dedupe_key,
                     status |-> "queued", attempts |-> 0, run_at |-> req[p].run_at]
    <2>1. req[p] \in Insert
      BY <1>2 DEF EnqueueInsert, TypeOK
    <2>2. r \in Row
      BY <2>1 DEF Insert, Row, Statuses
    <2>3. /\ job_queue' = Append(job_queue, r)
          /\ Len(job_queue) < MaxRows
          /\ req' = [req EXCEPT ![p] = NoRequest]
          /\ UNCHANGED <<now, pc, job, stop, conn, budget, effects>>
      BY <1>2 DEF EnqueueInsert
    <2>4. /\ job_queue' \in Seq(Row) /\ Len(job_queue') = Len(job_queue) + 1
          /\ \A j \in Ids : job_queue'[j] = job_queue[j]
          /\ job_queue'[Len(job_queue) + 1] = r
      BY <2>2, <2>3 DEF TypeOK, Ids
    <2>5. TypeOK'
      BY <2>3, <2>4 DEF TypeOK
    <2>6. HolderOwnsRow'
      BY <2>3, <2>4 DEF HolderOwnsRow, Busy, Ids, TypeOK
    <2>7. QueuedHasAttemptsLeft'
      BY <2>3, <2>4 DEF QueuedHasAttemptsLeft, Ids, TypeOK
    <2> QED BY <2>2, <2>3, <2>5, <2>6, <2>7
  <1> QED BY <1>1, <1>2

(* A requeue touches failed rows only, and no worker holds one of those. *)
LEMMA RequeueStep ==
  ASSUME IInv, NEW kinds \in SUBSET Kinds, RequeueFailed(kinds)
  PROVE  /\ IInv'
         /\ UNCHANGED job
         /\ Len(job_queue') = Len(job_queue)
         /\ \E S \in SUBSET Ids :
              /\ \A i \in S : job_queue[i].status = "failed"
              /\ job_queue' = [i \in Ids |->
                   IF i \in S THEN [job_queue[i] EXCEPT !.status = "queued",
                                                       !.attempts = 0, !.run_at = now]
                              ELSE job_queue[i]]
  <1> DEFINE S == {i \in Ids : job_queue[i].status = "failed" /\ job_queue[i].kind \in kinds}
             f == [i \in Ids |->
                   IF i \in S THEN [job_queue[i] EXCEPT !.status = "queued",
                                                       !.attempts = 0, !.run_at = now]
                              ELSE job_queue[i]]
  <1> USE QueueAssumption DEF IInv
  <1>1. job_queue' = f /\ UNCHANGED <<now, req, pc, job, stop, conn, effects>>
    BY DEF RequeueFailed, Revivable
  <1>2. budget' \in [FaultKinds -> Nat]
    BY SpendType DEF RequeueFailed, FaultKinds
  <1>3. f \in [Ids -> Row]
    <2> SUFFICES ASSUME NEW i \in Ids PROVE f[i] \in Row
      OBVIOUS
    <2>1. job_queue[i] \in Row
      BY DEF TypeOK, Ids
    <2>2. now \in Nat /\ 0 \in 0 .. MaxAttempts
      BY DEF TypeOK
    <2>3. [job_queue[i] EXCEPT !.status = "queued", !.attempts = 0, !.run_at = now] \in Row
      BY <2>1, <2>2 DEF Row, Statuses
    <2> QED BY <2>1, <2>3
  <1>4. job_queue' \in Seq(Row) /\ Len(job_queue') = Len(job_queue)
    <2>1. job_queue \in Seq(Row) /\ Len(job_queue) \in Nat
      BY DEF TypeOK
    <2> HIDE DEF f
    <2> QED BY <1>1, <1>3, <2>1, FunctionIsTable DEF Ids
  <1>5. TypeOK'
    BY <1>1, <1>2, <1>4 DEF TypeOK
  <1>6. HolderOwnsRow'
    BY <1>1, <1>4 DEF HolderOwnsRow, Busy, Ids, TypeOK
  <1>7. QueuedHasAttemptsLeft'
    <2> SUFFICES ASSUME NEW i \in Ids, job_queue'[i].status = "queued"
                 PROVE  job_queue'[i].attempts < MaxAttempts
      BY <1>4 DEF QueuedHasAttemptsLeft, Ids
    <2>1. CASE i \in S
      <3>1. job_queue[i] \in Row
        BY DEF TypeOK, Ids
      <3>2. job_queue'[i] = [job_queue[i] EXCEPT !.status = "queued",
                                                 !.attempts = 0, !.run_at = now]
        BY <1>1, <2>1
      <3>3. job_queue'[i].attempts = 0
        BY <3>1, <3>2 DEF Row
      <3> QED BY <3>3
    <2>2. CASE i \notin S
      BY <1>1, <2>2 DEF QueuedHasAttemptsLeft
    <2> QED BY <2>1, <2>2
  <1> QED BY <1>1, <1>4, <1>5, <1>6, <1>7

-----------------------------------------------------------------------------
(* Every step preserves the invariant ... *)
LEMMA NextInv == IInv /\ [Next]_vars => IInv'
  <1> SUFFICES ASSUME IInv, [Next]_vars PROVE IInv'
    OBVIOUS
  <1>1. CASE UNCHANGED vars
    BY <1>1 DEF vars, IInv, TypeOK, HolderOwnsRow, QueuedHasAttemptsLeft, Busy, Ids
  <1>2. CASE Produce
    BY <1>2, ProducingSteps DEF Produce
  <1>3. CASE Operate
    BY <1>3, RequeueStep DEF Operate
  <1>4. ASSUME NEW w \in Workers, Step(w) PROVE IInv'
    BY <1>4, ClaimStep, SettlingSteps, QuietSteps, DroppingSteps DEF Step
  <1>5. ASSUME NEW w \in Workers, Fault(w) PROVE IInv'
    BY <1>5, QuietSteps, DroppingSteps DEF Fault
  <1>6. CASE Tick /\ Workers # {}
    BY <1>6, QuietSteps
  <1>7. CASE Tick /\ Workers = {}
    BY <1>7 DEF Tick, IInv, TypeOK, HolderOwnsRow, QueuedHasAttemptsLeft, Busy, Ids
  <1> QED BY <1>1, <1>2, <1>3, <1>4, <1>5, <1>6, <1>7 DEF Next

(* ... so it holds in every reachable state. *)
LEMMA Invariance == Spec => []IInv
  BY InitInv, NextInv, PTL DEF Spec

(* Every variable of the queue keeps its type, whatever the workers do. *)
THEOREM TypeCorrect == Spec => []TypeOK
  BY Invariance, PTL DEF IInv

(***************************************************************************)
(* The unguarded UPDATEs of complete and fail only ever touch a row that   *)
(* is running, at the attempt claimed, and held by no other worker.        *)
(***************************************************************************)
THEOREM ExclusiveHolder == Spec => []HolderOwnsRow
  BY Invariance, PTL DEF IInv

(* No row is ever claimed more than max_attempts times without a requeue. *)
THEOREM BoundedRetries == Spec => []QueuedHasAttemptsLeft
  BY Invariance, PTL DEF IInv
-----------------------------------------------------------------------------
(* Finished rows are final and failed rows leave only by a full requeue. *)
THEOREM SettledRowsFinal == Spec => SettledRowsStay
  <1> DEFINE Stays(i) ==
        /\ i \in 1 .. Len(job_queue')
        /\ job_queue[i].status = "done" => job_queue'[i] = job_queue[i]
        /\ job_queue[i].status = "failed" =>
             \/ job_queue'[i] = job_queue[i]
             \/ job_queue'[i].status = "queued" /\ job_queue'[i].attempts = 0
  <1>1. IInv /\ [Next]_vars => [\A i \in Ids : Stays(i)]_vars
    <2> SUFFICES ASSUME IInv, Next, NEW i \in Ids PROVE Stays(i)
      OBVIOUS
    <2>1. job_queue \in Seq(Row) /\ job_queue[i] \in Row
      BY DEF IInv, TypeOK, Ids
    <2>2. CASE UNCHANGED job_queue
      BY <2>2 DEF Ids
    <2>3. ASSUME NEW j \in Ids, NEW r \in Row, job_queue' = [job_queue EXCEPT ![j] = r],
                 job_queue[j].status \in {"queued", "running"}
          PROVE  Stays(i)
      BY <2>1, <2>3, RowUpdate DEF Ids
    <2>4. CASE Produce
      <3>1. ASSUME NEW r \in Row, job_queue' = Append(job_queue, r) PROVE Stays(i)
        BY <2>1, <3>1 DEF Ids
      <3> QED BY <2>2, <2>4, <3>1, ProducingSteps DEF Produce
    <2>5. CASE Operate
      <3>1. PICK kinds \in SUBSET Kinds : RequeueFailed(kinds)
        BY <2>5 DEF Operate
      <3>2. PICK S \in SUBSET Ids :
              /\ \A k \in S : job_queue[k].status = "failed"
              /\ job_queue' = [k \in Ids |->
                   IF k \in S THEN [job_queue[k] EXCEPT !.status = "queued",
                                                       !.attempts = 0, !.run_at = now]
                              ELSE job_queue[k]]
              /\ Len(job_queue') = Len(job_queue)
        BY <3>1, RequeueStep
      <3>3. i \in S => job_queue'[i].status = "queued" /\ job_queue'[i].attempts = 0
        BY <2>1, <3>2 DEF Row
      <3>4. i \notin S => job_queue'[i] = job_queue[i]
        BY <3>2
      <3> QED BY <3>2, <3>3, <3>4 DEF Ids
    <2>6. ASSUME NEW w \in Workers, Step(w) PROVE Stays(i)
      <3>1. ASSUME NEW j \in Ids, Claim(w, j) PROVE Stays(i)
        <4>1. job_queue[j].status = "queued"
          BY <3>1 DEF Claim, Due
        <4>2. PICK r \in Row : job_queue' = [job_queue EXCEPT ![j] = r]
          BY <3>1, ClaimStep
        <4> QED BY <2>3, <4>1, <4>2
      <3>2. CASE Complete(w) \/ Fail(w) \/ FailUnknown(w)
        <4>1. job_queue[job[w].id].status = "running"
          BY <3>2, SettlingSteps DEF IInv, HolderOwnsRow
        <4> QED BY <2>3, <3>2, <4>1, SettlingSteps
      <3>3. CASE HandlerReturns(w) \/ HandlerRaises(w) \/ RunRaises(w) \/ Exit(w)
        BY <2>2, <3>3 DEF HandlerReturns, HandlerRaises, RunRaises, Exit
      <3> QED BY <2>6, <3>1, <3>2, <3>3 DEF Step
    <2>7. ASSUME NEW w \in Workers, Fault(w) PROVE Stays(i)
      BY <2>2, <2>7 DEF Fault, CompleteRaises, FailRaises, ConnectionLost, Signal, Crash
    <2>8. CASE Tick
      BY <2>2, <2>8 DEF Tick
    <2> QED BY <2>4, <2>5, <2>6, <2>7, <2>8 DEF Next
  <1> QED BY <1>1, Invariance, PTL DEF Spec, SettledRowsStay
-----------------------------------------------------------------------------
(* Refinement.  The abstract state of a concrete one: *)
Status == [i \in Ids |-> job_queue[i].status]
Held   == [w \in Workers |-> job[w].id]

(* Replacing row i replaces task i. *)
LEMMA StatusUpdate ==
  ASSUME TypeOK, NEW i \in Ids, NEW r \in Row, job_queue' = [job_queue EXCEPT ![i] = r]
  PROVE  Status' = [Status EXCEPT ![i] = r.status]
  <1>1. job_queue \in Seq(Row) /\ Ids' = Ids
    BY RowUpdate DEF TypeOK, Ids
  <1>2. \A j \in Ids : job_queue'[j] = IF j = i THEN r ELSE job_queue[j]
    BY <1>1, RowUpdate DEF Ids
  <1>3. Status' = [j \in Ids |-> job_queue'[j].status]
    BY <1>1 DEF Status
  <1>4. [Status EXCEPT ![i] = r.status] =
          [j \in Ids |-> IF j = i THEN r.status ELSE job_queue[j].status]
    BY DEF Status
  <1>5. \A j \in Ids :
          job_queue'[j].status = IF j = i THEN r.status ELSE job_queue[j].status
    BY <1>2
  <1> QED BY <1>3, <1>4, <1>5

(* Letting go of a job clears the held task. *)
LEMMA HeldUpdate ==
  ASSUME TypeOK, NEW w \in Workers, NEW n, NEW a,
         job' = [job EXCEPT ![w] = [id |-> n, attempts |-> a]]
  PROVE  Held' = [Held EXCEPT ![w] = n]
  BY DEF TypeOK, Held

(* A worker that is not inside run_one holds nothing. *)
LEMMA IdleHoldsNothing == Spec => [](\A w \in Workers : ~Busy(w) => job[w] = NoJob)
  <1> DEFINE I == \A w \in Workers : ~Busy(w) => job[w] = NoJob
  <1>1. Init => I
    BY DEF Init, Busy
  <1>2. TypeOK /\ I /\ [Next]_vars => I'
    <2> SUFFICES ASSUME TypeOK, I, [Next]_vars PROVE I'
      OBVIOUS
    <2> USE DEF TypeOK, Busy
    <2>1. CASE UNCHANGED <<pc, job>>
      BY <2>1
    <2>2. ASSUME NEW w \in Workers, Step(w) PROVE I'
      BY <2>2 DEF Step, Claim, HandlerReturns, HandlerRaises, Complete, Fail,
                  FailUnknown, RunRaises, Exit, Idle
    <2>3. ASSUME NEW w \in Workers, Fault(w) PROVE I'
      BY <2>3 DEF Fault, CompleteRaises, FailRaises, ConnectionLost, Signal, Crash, Idle
    <2>4. CASE Tick \/ Produce \/ Operate \/ UNCHANGED vars
      BY <2>1, <2>4 DEF Tick, Produce, EnqueueSelect, EnqueueInsert, Operate,
                        RequeueFailed, vars
    <2> QED BY <2>2, <2>3, <2>4 DEF Next
  <1> QED BY <1>1, <1>2, TypeCorrect, PTL DEF Spec

THEOREM Refinement == Spec => ImplementsTaskQueue
  <1> DEFINE I == \A w \in Workers : ~Busy(w) => job[w] = NoJob
             AbsNext == [Tasks!Next]_<<Status, Held>>
  <1>1. Init => Tasks!Init
    <2> SUFFICES ASSUME Init PROVE Tasks!Init
      OBVIOUS
    <2>1. Ids = {}
      BY DEF Init, Ids
    <2>2. Status = << >>
      BY <2>1 DEF Status
    <2>3. Held = [w \in Workers |-> 0]
      BY DEF Held, Init, NoJob
    <2> QED BY <2>2, <2>3 DEF Tasks!Init, Status, Held
  <1>2. IInv /\ I /\ [Next]_vars => AbsNext
    <2> SUFFICES ASSUME IInv, I, [Next]_vars PROVE AbsNext
      OBVIOUS
    <2>0. /\ TypeOK /\ HolderOwnsRow
          /\ job_queue \in Seq(Row) /\ Len(job_queue) \in Nat
          /\ Tasks!Ids = Ids
      BY DEF IInv, TypeOK, Tasks!Ids, Ids
    <2>1. CASE UNCHANGED <<job_queue, job>>
      BY <2>1 DEF Status, Held, Ids
    <2>2. ASSUME NEW w \in Workers, NEW i \in Ids, Claim(w, i) PROVE Tasks!Next
      <3>1. PICK r \in Row : r.status = "running" /\ job_queue' = [job_queue EXCEPT ![i] = r]
        BY <2>2, ClaimStep
      <3>2. Status' = [Status EXCEPT ![i] = "running"]
        BY <2>0, <3>1, StatusUpdate
      <3>3. Held' = [Held EXCEPT ![w] = i]
        BY <2>0, <2>2, HeldUpdate DEF Claim
      <3>4. Held[w] = 0 /\ Status[i] = "queued"
        BY <2>2 DEF Claim, Due, Held, Status, NoJob
      <3>5. \A v \in Workers : Held[v] # i
        BY <2>2, ClaimStep DEF Held, NoJob, Ids
      <3> QED BY <2>0, <3>2, <3>3, <3>4, <3>5 DEF Tasks!Next, Tasks!Take, Status, Held
    <2>3. ASSUME NEW w \in Workers, Complete(w) \/ Fail(w) \/ FailUnknown(w)
          PROVE  Tasks!Next
      <3>1. PICK r \in Row :
              /\ r.status \in {"done", "failed", "queued"}
              /\ job_queue' = [job_queue EXCEPT ![job[w].id] = r]
        BY <2>3, SettlingSteps
      <3>2. Busy(w) /\ job[w].id \in Ids /\ job' = [job EXCEPT ![w] = NoJob]
        BY <2>3, SettlingSteps
      <3>3. Status' = [Status EXCEPT ![Held[w]] = r.status]
        BY <2>0, <3>1, <3>2, StatusUpdate DEF Held
      <3>4. Held' = [Held EXCEPT ![w] = 0]
        BY <2>0, <3>2, HeldUpdate DEF NoJob
      <3>5. Held[w] \in Ids /\ Status[Held[w]] = "running"
        BY <2>0, <3>2 DEF HolderOwnsRow, Held, Status
      <3>6. \A v \in Workers \ {w} : Held[v] # Held[w]
        BY <2>0, <3>2 DEF HolderOwnsRow, Held, NoJob, Ids
      <3> QED BY <2>0, <3>1, <3>3, <3>4, <3>5, <3>6
              DEF Tasks!Next, Tasks!Settle, Status, Held
    <2>4. ASSUME NEW w \in Workers, FailRaises(w) \/ RunRaises(w) \/ Crash(w) PROVE AbsNext
      <3>1. UNCHANGED job_queue /\ job' = [job EXCEPT ![w] = NoJob]
        BY <2>4 DEF FailRaises, RunRaises, Crash, Idle
      <3>2. UNCHANGED Status
        BY <3>1 DEF Status, Ids
      <3>3. Held' = [Held EXCEPT ![w] = 0]
        BY <2>0, <3>1, HeldUpdate DEF NoJob
      <3>4. CASE Held[w] = 0
        BY <3>2, <3>3, <3>4 DEF Held
      <3>5. CASE Held[w] # 0
        BY <3>2, <3>3, <3>5 DEF Tasks!Next, Tasks!Drop, Status, Held
      <3> QED BY <3>4, <3>5
    <2>5. CASE Produce
      <3>1. ASSUME NEW r \in Row, r.status = "queued", UNCHANGED job,
                   job_queue' = Append(job_queue, r)
            PROVE  Tasks!Next
        <4>0. Len(job_queue') = Len(job_queue) + 1
          BY <2>0, <3>1
        <4>1. /\ Ids' = 1 .. Len(job_queue) + 1
              /\ \A j \in Ids : job_queue'[j] = job_queue[j]
              /\ job_queue'[Len(job_queue) + 1] = r
          <5>1. Ids' = 1 .. Len(job_queue')
            BY DEF Ids
          <5>2. Ids' = 1 .. Len(job_queue) + 1
            BY <4>0, <5>1
          <5>3. \A j \in Ids : job_queue'[j] = job_queue[j]
            BY <2>0, <3>1 DEF Ids
          <5>4. job_queue'[Len(job_queue) + 1] = r
            BY <2>0, <3>1
          <5> QED BY <5>2, <5>3, <5>4
        <4>2. Status \in Seq(Statuses) /\ Len(Status) = Len(job_queue)
          <5>1. \A j \in Ids : job_queue[j].status \in Statuses
            <6>1. \A j \in Ids : job_queue[j] \in Row
              BY <2>0 DEF Ids
            <6> QED BY <6>1 DEF Row
          <5>2. Status \in [1 .. Len(job_queue) -> Statuses]
            BY <5>1 DEF Status, Ids
          <5>3. Status \in Seq(Statuses)
            BY <2>0, <5>2, SeqDef
          <5> QED BY <2>0, <5>2, <5>3
        <4>3. Status' = Append(Status, "queued")
          BY <2>0, <3>1, <4>1, <4>2 DEF Status, Ids
        <4>4. UNCHANGED Held
          BY <3>1 DEF Held
        <4> QED BY <4>3, <4>4 DEF Tasks!Next, Tasks!Add, Status, Held
      <3> QED BY <2>1, <2>5, <3>1, ProducingSteps DEF Produce
    <2>6. CASE Operate
      <3>1. PICK S \in SUBSET Ids :
              /\ \A k \in S : job_queue[k].status = "failed"
              /\ job_queue' = [k \in Ids |->
                   IF k \in S THEN [job_queue[k] EXCEPT !.status = "queued",
                                                       !.attempts = 0, !.run_at = now]
                              ELSE job_queue[k]]
              /\ Len(job_queue') = Len(job_queue)
              /\ UNCHANGED job
        BY <2>6, RequeueStep DEF Operate
      <3>2. \A k \in Ids : job_queue'[k].status = IF k \in S THEN "queued" ELSE Status[k]
        <4> SUFFICES ASSUME NEW k \in Ids
                     PROVE  job_queue'[k].status = IF k \in S THEN "queued" ELSE Status[k]
          OBVIOUS
        <4>1. job_queue[k] \in Row
          BY <2>0 DEF Ids
        <4>2. CASE k \in S
          <5>1. job_queue'[k] = [job_queue[k] EXCEPT !.status = "queued",
                                                     !.attempts = 0, !.run_at = now]
            BY <3>1, <4>2
          <5> QED BY <4>1, <4>2, <5>1 DEF Row
        <4>3. CASE k \notin S
          BY <3>1, <4>3 DEF Status
        <4> QED BY <4>2, <4>3
      <3>3. Status' = [k \in Ids |-> IF k \in S THEN "queued" ELSE Status[k]]
        BY <3>1, <3>2 DEF Status, Ids
      <3>4. \A k \in S : Status[k] = "failed"
        BY <3>1 DEF Status
      <3>5. UNCHANGED Held
        BY <3>1 DEF Held
      <3> QED BY <2>0, <3>3, <3>4, <3>5 DEF Tasks!Next, Tasks!Revive, Status, Held
    <2>7. CASE Tick \/ UNCHANGED vars
      BY <2>1, <2>7 DEF Tick, vars
    <2>8. ASSUME NEW w \in Workers, Step(w) PROVE AbsNext
      <3>1. CASE HandlerReturns(w) \/ HandlerRaises(w) \/ Exit(w)
        BY <2>1, <3>1 DEF HandlerReturns, HandlerRaises, Exit
      <3> QED BY <2>2, <2>3, <2>4, <2>8, <3>1 DEF Step
    <2>9. ASSUME NEW w \in Workers, Fault(w) PROVE AbsNext
      <3>1. CASE CompleteRaises(w) \/ ConnectionLost(w) \/ Signal(w)
        BY <2>1, <3>1 DEF CompleteRaises, ConnectionLost, Signal
      <3> QED BY <2>4, <2>9, <3>1 DEF Fault
    <2> QED BY <2>5, <2>6, <2>7, <2>8, <2>9 DEF Next
  <1> QED
    BY <1>1, <1>2, Invariance, IdleHoldsNothing, PTL
    DEF Spec, ImplementsTaskQueue, Tasks!Spec, Status, Held
-----------------------------------------------------------------------------
(***************************************************************************)
(* Work neither repeated nor lost.  Each part of the property has its own  *)
(* inductive invariant, beside IInv.  Faults are only ever spent, so what  *)
(* has not happened after a step had not happened before it.               *)
(***************************************************************************)
BudgetSpent == \A f \in FaultKinds : budget[f] <= FaultBudget[f]

(* The handler of a row has not returned, unless the row is with complete or is done. *)
Once ==
  /\ \A i \in 1 .. MaxRows : effects[i] <= 1 /\ (i \notin Ids => effects[i] = 0)
  /\ \A i \in Ids : job_queue[i].status \in {"queued", "failed"} => effects[i] = 0
  /\ \A w \in Workers : Busy(w) /\ pc[w] # "complete" => effects[job[w].id] = 0

RunOnce == Without({"error"}) => Once

(* Without a lost connection every worker has one, so that none drops its row. *)
StillHeld ==
  /\ Without({"connloss"}) => \A w \in Workers : conn[w]
  /\ NotLost

(* A producer past its SELECT still finds no pending row of its key when it inserts. *)
KeyIsFree ==
  Without({"requeue"}) =>
    \A p \in Producers : req[p] # NoRequest /\ req[p].dedupe_key # NoKey =>
      \A i \in Ids : Pending(i) => job_queue[i].dedupe_key # req[p].dedupe_key

(* Without `fault`, none was spent in the step, and there was none before it. *)
LEMMA WithoutBefore ==
  ASSUME TypeOK, BudgetSpent, NEW F \in SUBSET FaultKinds, NEW g \in FaultKinds,
         Spend(g) \/ UNCHANGED budget
  PROVE  /\ BudgetSpent'
         /\ Without(F)' => Without(F)
         /\ Spend(g) /\ g \in F => ~Without(F)'
  <1>1. \A f \in FaultKinds : /\ budget[f] \in Nat /\ FaultBudget[f] \in Nat
                              /\ budget[f] <= FaultBudget[f]
    BY QueueAssumption DEF TypeOK, BudgetSpent
  <1>2. CASE UNCHANGED budget
    <2>1. ~Spend(g)
      BY <1>1, <1>2 DEF Spend, TypeOK
    <2> QED BY <1>2, <2>1 DEF BudgetSpent, Without
  <1>3. CASE Spend(g)
    <2>1. \A f \in FaultKinds : budget'[f] = IF f = g THEN budget[f] - 1 ELSE budget[f]
      BY <1>3 DEF Spend, TypeOK
    <2>2. \A f \in FaultKinds :
            /\ budget'[f] <= FaultBudget[f]
            /\ budget'[f] = FaultBudget[f] => budget[f] = FaultBudget[f] /\ f # g
      BY <1>1, <2>1
    <2> QED BY <2>2 DEF BudgetSpent, Without
  <1> QED BY <1>2, <1>3

(* Every step spends at most one fault, and the faults say which. *)
LEMMA StepSpends ==
  ASSUME [Next]_vars
  PROVE  \E g \in FaultKinds : Spend(g) \/ UNCHANGED budget
  <1> USE DEF FaultKinds
  <1>1. CASE UNCHANGED vars \/ Tick \/ Produce
    BY <1>1 DEF vars, Tick, Produce, EnqueueSelect, EnqueueInsert
  <1>2. CASE Operate
    BY <1>2 DEF Operate, RequeueFailed
  <1>3. ASSUME NEW w \in Workers, Step(w) PROVE UNCHANGED budget
    BY <1>3 DEF Step, Claim, HandlerReturns, HandlerRaises, Complete, Fail, FailUnknown,
                RunRaises, Exit
  <1>4. ASSUME NEW w \in Workers, Fault(w)
        PROVE  \E g \in FaultKinds : Spend(g)
    BY <1>4 DEF Fault, CompleteRaises, FailRaises, ConnectionLost, Signal, Crash
  <1> QED BY <1>1, <1>2, <1>3, <1>4 DEF Next

(* What is left of the faults only shrinks. *)
LEMMA BudgetStep ==
  ASSUME IInv, BudgetSpent, [Next]_vars
  PROVE  /\ BudgetSpent'
         /\ \A F \in SUBSET FaultKinds : Without(F)' => Without(F)
         /\ \A F \in SUBSET FaultKinds : \A g \in F : Spend(g) => ~Without(F)'
  <1>0. TypeOK
    BY DEF IInv
  <1>1. PICK g \in FaultKinds : Spend(g) \/ UNCHANGED budget
    BY StepSpends
  <1>2. BudgetSpent' /\ \A F \in SUBSET FaultKinds : Without(F)' => Without(F)
    BY <1>0, <1>1, WithoutBefore
  <1>3. ASSUME NEW F \in SUBSET FaultKinds, NEW h \in F, Spend(h) PROVE ~Without(F)'
    BY <1>0, <1>3, WithoutBefore
  <1> QED BY <1>2, <1>3

(* Ids are in the domain of the history. *)
LEMMA IdsBounded == TypeOK => Ids \subseteq 1 .. MaxRows
  <1> SUFFICES ASSUME TypeOK, NEW i \in Ids PROVE i \in 1 .. MaxRows
    OBVIOUS
  <1>1. Len(job_queue) \in Nat /\ Len(job_queue) <= MaxRows /\ MaxRows \in Nat
    BY QueueAssumption DEF TypeOK
  <1> QED BY <1>1 DEF Ids

LEMMA RunOnceStep ==
  ASSUME IInv, BudgetSpent, RunOnce, [Next]_vars
  PROVE  RunOnce'
  <1> SUFFICES ASSUME Without({"error"})' PROVE Once'
    BY DEF RunOnce
  <1>0. TypeOK /\ HolderOwnsRow /\ Once /\ ~Spend("error")
    <2>1. {"error"} \in SUBSET FaultKinds
      BY DEF FaultKinds
    <2>2. Without({"error"}) /\ ~Spend("error")
      BY <2>1, BudgetStep
    <2> QED BY <2>2 DEF RunOnce, IInv
  <1>1. ASSUME UNCHANGED <<job_queue, effects>>,
               \A w \in Workers : pc'[w] # "idle" /\ pc'[w] # "complete" =>
                 Busy(w) /\ pc[w] # "complete" /\ job'[w] = job[w]
        PROVE  Once'
    BY <1>0, <1>1 DEF Once, Busy, Ids
  <1>2. ASSUME NEW w \in Workers, NEW i \in Ids, Claim(w, i) PROVE Once'
    <2>1. PICK r \in Row : r.status = "running" /\ job_queue' = [job_queue EXCEPT ![i] = r]
      BY <1>2, ClaimStep
    <2>2. /\ Ids' = Ids
          /\ \A j \in Ids : job_queue'[j] = IF j = i THEN r ELSE job_queue[j]
      BY <1>0, <2>1, RowUpdate DEF TypeOK, Ids
    <2>3. job_queue[i].status = "queued" /\ effects[i] = 0 /\ UNCHANGED effects
      BY <1>0, <1>2 DEF Once, Claim, Due
    <2>4. \A v \in Workers : job'[v] = IF v = w THEN job'[w] ELSE job[v]
      BY <1>0, <1>2 DEF Claim, TypeOK
    <2>5. job'[w].id = i
      BY <1>0, <1>2 DEF Claim, TypeOK
    <2>6. \A v \in Workers \ {w} : pc'[v] = pc[v]
      BY <1>0, <1>2 DEF Claim, TypeOK
    <2> QED BY <1>0, <2>1, <2>2, <2>3, <2>4, <2>5, <2>6 DEF Once, Busy
  <1>3. ASSUME NEW w \in Workers, HandlerReturns(w) PROVE Once'
    <2>1. /\ job[w].id \in Ids /\ job_queue[job[w].id].status = "running"
          /\ \A v \in Workers \ {w} : Busy(v) => job[v].id # job[w].id
          /\ effects[job[w].id] = 0
      BY <1>0, <1>3 DEF HandlerReturns, HolderOwnsRow, Busy, Once
    <2>2. job[w].id \in 1 .. MaxRows
      BY <1>0, <2>1, IdsBounded
    <2>3. \A i \in 1 .. MaxRows :
            effects'[i] = IF i = job[w].id THEN 1 ELSE effects[i]
      BY <1>0, <1>3, <2>1, <2>2 DEF HandlerReturns, TypeOK
    <2>4. UNCHANGED <<job_queue, job>> /\ pc' = [pc EXCEPT ![w] = "complete"]
      BY <1>3 DEF HandlerReturns
    <2>5. \A v \in Workers : pc'[v] = IF v = w THEN "complete" ELSE pc[v]
      BY <1>0, <2>4 DEF TypeOK
    <2>6. Ids \subseteq 1 .. MaxRows
      BY <1>0, IdsBounded
    <2>7. \A v \in Workers : Busy(v) => job[v].id \in Ids
      BY <1>0 DEF HolderOwnsRow
    <2>8. \A i \in 1 .. MaxRows : effects'[i] <= 1 /\ (i \notin Ids => effects'[i] = 0)
      BY <1>0, <2>1, <2>3 DEF Once
    <2>9. \A i \in Ids : job_queue[i].status \in {"queued", "failed"} => effects'[i] = 0
      BY <1>0, <2>1, <2>3, <2>6 DEF Once
    <2>10. \A v \in Workers : pc'[v] # "idle" /\ pc'[v] # "complete" => effects'[job[v].id] = 0
      BY ZenonT(30), <1>0, <2>1, <2>3, <2>5, <2>6, <2>7 DEF Once, Busy
    <2> QED BY <2>4, <2>8, <2>9, <2>10 DEF Once, Busy, Ids
  <1>4. ASSUME NEW w \in Workers, Complete(w) \/ Fail(w) \/ FailUnknown(w) PROVE Once'
    <2>1. PICK r \in Row :
            /\ pc[w] = "complete" => r.status = "done"
            /\ job_queue' = [job_queue EXCEPT ![job[w].id] = r]
      BY <1>4, SettlingSteps
    <2>2. Busy(w) /\ job[w].id \in Ids
      BY <1>4, SettlingSteps
    <2>3. /\ Ids' = Ids
          /\ \A j \in Ids : job_queue'[j] = IF j = job[w].id THEN r ELSE job_queue[j]
      BY <1>0, <2>1, <2>2, RowUpdate DEF TypeOK, Ids
    <2>4. UNCHANGED effects /\ Idle(w)
      BY <1>4 DEF Complete, Fail, FailUnknown
    <2>5. \A v \in Workers :
            IF v = w THEN pc'[v] = "idle" ELSE pc'[v] = pc[v] /\ job'[v] = job[v]
      BY <1>0, <2>4 DEF Idle, TypeOK
    <2>6. r.status \in {"queued", "failed"} => effects[job[w].id] = 0
      BY <1>0, <2>1, <2>2 DEF Once
    <2> QED BY <1>0, <2>2, <2>3, <2>4, <2>5, <2>6 DEF Once, Busy
  <1>5. ASSUME NEW w \in Workers, Step(w) PROVE Once'
    <2>1. CASE HandlerRaises(w) \/ RunRaises(w) \/ Exit(w)
      BY <1>0, <1>1, <2>1 DEF HandlerRaises, RunRaises, Exit, Idle, Busy, TypeOK
    <2> QED BY <1>2, <1>3, <1>4, <1>5, <2>1 DEF Step
  <1>6. ASSUME NEW w \in Workers, Fault(w) PROVE Once'
    <2>1. ~CompleteRaises(w)
      BY <1>0 DEF CompleteRaises
    <2> QED BY <1>0, <1>1, <1>6, <2>1
            DEF Fault, FailRaises, ConnectionLost, Signal, Crash, Idle, Busy, TypeOK
  <1>7. CASE UNCHANGED vars \/ Tick
    BY <1>1, <1>7 DEF vars, Tick, Busy
  <1>8. CASE Produce
    <2>1. CASE UNCHANGED job_queue
      BY <1>1, <1>8, <2>1 DEF Produce, EnqueueInsert, EnqueueSelect, Busy
    <2>2. ASSUME NEW r \in Row, job_queue' = Append(job_queue, r) PROVE Once'
      <3>1. /\ Ids' = Ids \cup {Len(job_queue) + 1}
            /\ \A j \in Ids : job_queue'[j] = job_queue[j]
            /\ Len(job_queue) + 1 \notin Ids
        BY <1>0, <2>2 DEF TypeOK, Ids
      <3>2. UNCHANGED <<pc, job, effects>>
        BY <1>8 DEF Produce, EnqueueInsert, EnqueueSelect
      <3>3. Ids' \subseteq 1 .. MaxRows
        <4>1. TypeOK'
          BY NextInv DEF IInv
        <4>2. Len(job_queue') \in Nat /\ Len(job_queue') <= MaxRows /\ MaxRows \in Nat
          BY <4>1, QueueAssumption DEF TypeOK
        <4>3. \A i \in 1 .. Len(job_queue') : i \in 1 .. MaxRows
          BY <4>2
        <4> QED BY <4>3 DEF Ids
      <3>4. effects[Len(job_queue) + 1] = 0
        BY <1>0, <3>1, <3>3 DEF Once
      <3> QED BY <1>0, <3>1, <3>2, <3>3, <3>4 DEF Once, Busy
    <2> QED BY <1>8, <2>1, <2>2, ProducingSteps DEF Produce
  <1>9. CASE Operate
    <2>1. PICK S \in SUBSET Ids :
            /\ \A k \in S : job_queue[k].status = "failed"
            /\ job_queue' = [k \in Ids |->
                 IF k \in S THEN [job_queue[k] EXCEPT !.status = "queued",
                                                     !.attempts = 0, !.run_at = now]
                            ELSE job_queue[k]]
            /\ Len(job_queue') = Len(job_queue)
      BY <1>9, RequeueStep DEF Operate
    <2>2. UNCHANGED <<pc, job, effects>> /\ Ids' = Ids
      BY <1>9, <2>1 DEF Operate, RequeueFailed, Ids
    <2>3. \A k \in S : effects[k] = 0
      BY <1>0, <2>1 DEF Once
    <2>4. \A k \in Ids \ S : job_queue'[k] = job_queue[k]
      BY <2>1
    <2> QED BY <1>0, <2>2, <2>3, <2>4 DEF Once, Busy
  <1> QED BY <1>5, <1>6, <1>7, <1>8, <1>9 DEF Next

(***************************************************************************)
(* The first part of the property: whatever crashes, is redelivered or is  *)
(* requeued, a handler that returned is not run again for that row.        *)
(***************************************************************************)
THEOREM HandledOnce == Spec => []NotRepeated
  <1>1. Init => BudgetSpent /\ RunOnce
    BY QueueAssumption DEF Init, BudgetSpent, RunOnce, Once, Busy, Ids
  <1>2. IInv /\ BudgetSpent /\ RunOnce /\ [Next]_vars => BudgetSpent' /\ RunOnce'
    BY BudgetStep, RunOnceStep
  <1>3. RunOnce => NotRepeated
    BY DEF RunOnce, Once, NotRepeated
  <1> QED BY <1>1, <1>2, <1>3, Invariance, PTL DEF Spec
-----------------------------------------------------------------------------
LEMMA StillHeldStep ==
  ASSUME IInv, BudgetSpent, StillHeld, [Next]_vars
  PROVE  StillHeld'
  <1>0. /\ TypeOK /\ HolderOwnsRow
        /\ Without({"connloss"})' => Without({"connloss"}) /\ ~Spend("connloss")
    <2>1. {"connloss"} \in SUBSET FaultKinds
      BY DEF FaultKinds
    <2> QED BY <2>1, BudgetStep DEF IInv
  <1>1. Without({"connloss"})' => \A v \in Workers : conn'[v]
    <2> SUFFICES ASSUME Without({"connloss"})' PROVE \A v \in Workers : conn'[v]
      OBVIOUS
    <2>1. \A v \in Workers : conn[v]
      BY <1>0 DEF StillHeld
    <2>2. CASE UNCHANGED conn
      BY <2>1, <2>2
    <2>3. ASSUME NEW w \in Workers, conn' = [conn EXCEPT ![w] = TRUE]
          PROVE  \A v \in Workers : conn'[v]
      BY <1>0, <2>1, <2>3 DEF TypeOK
    <2>4. ASSUME NEW w \in Workers, Step(w) PROVE UNCHANGED conn \/ Exit(w)
      BY <2>4 DEF Step, Claim, HandlerReturns, HandlerRaises, Complete, Fail, FailUnknown,
                  RunRaises
    <2>5. ASSUME NEW w \in Workers, Fault(w) PROVE UNCHANGED conn \/ Crash(w)
      BY <1>0, <2>5 DEF Fault, CompleteRaises, FailRaises, ConnectionLost, Signal
    <2>6. CASE UNCHANGED vars \/ Tick \/ Produce \/ Operate
      BY <2>2, <2>6 DEF vars, Tick, Produce, EnqueueInsert, EnqueueSelect, Operate,
                        RequeueFailed
    <2> QED BY <2>2, <2>3, <2>4, <2>5, <2>6 DEF Next, Exit, Crash
  <1>2. ASSUME Without({"crash", "error", "connloss"})'
        PROVE  \A i \in Ids' : job_queue'[i].status = "running" =>
                 \E v \in Workers : Busy(v)' /\ job'[v].id = i
    <2> DEFINE F == {"crash", "error", "connloss"}
               Has(i) == \E v \in Workers : pc'[v] # "idle" /\ job'[v].id = i
    <2> SUFFICES ASSUME NEW i \in Ids', job_queue'[i].status = "running" PROVE Has(i)
      BY DEF Busy
    <2>0. /\ ~Spend("crash") /\ ~Spend("error") /\ ~Spend("connloss")
          /\ Without(F) /\ Without({"connloss"})
      <3>1. F \in SUBSET FaultKinds
        BY DEF FaultKinds
      <3>2. Without(F)
        BY <1>2, <3>1, BudgetStep
      <3>3. Without({"connloss"})
        BY <3>2 DEF Without
      <3> QED BY <1>2, <3>1, <3>2, <3>3, BudgetStep
    <2>1. /\ \A v \in Workers : conn[v]
          /\ \A k \in Ids : job_queue[k].status = "running" =>
               \E v \in Workers : Busy(v) /\ job[v].id = k
      BY <2>0 DEF StillHeld, NotLost
    <2>2. ASSUME i \in Ids, job_queue[i].status = "running",
                 \A v \in Workers : Busy(v) /\ job[v].id = i =>
                   pc'[v] # "idle" /\ job'[v].id = i
          PROVE  Has(i)
      BY <2>1, <2>2
    <2>3. ASSUME NEW w \in Workers, NEW j \in Ids, Claim(w, j) PROVE Has(i)
      <3>1. PICK r \in Row : r.status = "running" /\ job_queue' = [job_queue EXCEPT ![j] = r]
        BY <2>3, ClaimStep
      <3>2. /\ Ids' = Ids
            /\ \A k \in Ids : job_queue'[k] = IF k = j THEN r ELSE job_queue[k]
        BY <1>0, <3>1, RowUpdate DEF TypeOK, Ids
      <3>3. /\ pc'[w] # "idle" /\ job'[w].id = j
            /\ \A v \in Workers \ {w} : pc'[v] = pc[v] /\ job'[v] = job[v]
            /\ ~Busy(w)
        BY <1>0, <2>3 DEF Claim, TypeOK
      <3> QED BY <2>2, <3>2, <3>3 DEF Busy
    <2>4. ASSUME NEW w \in Workers, Complete(w) \/ Fail(w) \/ FailUnknown(w) PROVE Has(i)
      <3>1. PICK r \in Row : /\ r.status \in {"done", "failed", "queued"}
                             /\ job_queue' = [job_queue EXCEPT ![job[w].id] = r]
        BY <2>4, SettlingSteps
      <3>2. job[w].id \in Ids
        BY <2>4, SettlingSteps
      <3>3. /\ Ids' = Ids
            /\ \A k \in Ids : job_queue'[k] = IF k = job[w].id THEN r ELSE job_queue[k]
        BY <1>0, <3>1, <3>2, RowUpdate DEF TypeOK, Ids
      <3>4. Idle(w)
        BY <2>4 DEF Complete, Fail, FailUnknown
      <3>5. \A v \in Workers \ {w} : pc'[v] = pc[v] /\ job'[v] = job[v]
        BY <1>0, <3>4 DEF Idle, TypeOK
      <3> QED BY <2>2, <3>1, <3>3, <3>5 DEF Busy
    <2>5. ASSUME UNCHANGED <<job_queue, job>>,
                 \A v \in Workers : Busy(v) => pc'[v] # "idle"
          PROVE  Has(i)
      BY <2>2, <2>5 DEF Ids
    <2>6. ASSUME NEW w \in Workers, Step(w) PROVE Has(i)
      <3>1. ~RunRaises(w)
        BY <2>1 DEF RunRaises
      <3>2. CASE HandlerReturns(w) \/ HandlerRaises(w) \/ Exit(w)
        BY <1>0, <2>5, <3>2 DEF HandlerReturns, HandlerRaises, Exit, Busy, TypeOK
      <3> QED BY <2>3, <2>4, <2>6, <3>1, <3>2 DEF Step
    <2>7. ASSUME NEW w \in Workers, Fault(w) PROVE Has(i)
      BY <2>0, <2>5, <2>7
      DEF Fault, CompleteRaises, FailRaises, ConnectionLost, Signal, Crash, Busy
    <2>8. CASE UNCHANGED vars \/ Tick
      BY <2>5, <2>8 DEF vars, Tick, Busy
    <2>9. CASE Produce
      <3>1. UNCHANGED <<pc, job>>
        BY <2>9 DEF Produce, EnqueueInsert, EnqueueSelect
      <3>2. CASE UNCHANGED job_queue
        BY <2>5, <3>1, <3>2 DEF Busy
      <3>3. ASSUME NEW r \in Row, r.status = "queued", job_queue' = Append(job_queue, r)
            PROVE  Has(i)
        <4>1. /\ Ids' = Ids \cup {Len(job_queue) + 1}
              /\ \A j \in Ids : job_queue'[j] = job_queue[j]
              /\ job_queue'[Len(job_queue) + 1] = r
          BY <1>0, <3>3 DEF TypeOK, Ids
        <4> QED BY <2>2, <3>1, <3>3, <4>1 DEF Busy
      <3> QED BY <2>9, <3>2, <3>3, ProducingSteps DEF Produce
    <2>10. CASE Operate
      <3>1. PICK S \in SUBSET Ids :
              /\ job_queue' = [k \in Ids |->
                   IF k \in S THEN [job_queue[k] EXCEPT !.status = "queued",
                                                       !.attempts = 0, !.run_at = now]
                              ELSE job_queue[k]]
              /\ Len(job_queue') = Len(job_queue)
        BY <2>10, RequeueStep DEF Operate
      <3>2. UNCHANGED <<pc, job>> /\ Ids' = Ids
        BY <2>10, <3>1 DEF Operate, RequeueFailed, Ids
      <3>3. i \notin S
        <4> SUFFICES ASSUME i \in S PROVE FALSE
          OBVIOUS
        <4>1. job_queue'[i] = [job_queue[i] EXCEPT !.status = "queued",
                                                   !.attempts = 0, !.run_at = now]
          BY <3>1
        <4>2. job_queue[i] \in Row
          BY <1>0 DEF TypeOK, Ids
        <4>3. job_queue'[i].status = "queued"
          BY <4>1, <4>2 DEF Row
        <4> QED BY <4>3
      <3>4. job_queue'[i] = job_queue[i] /\ i \in Ids
        BY <3>1, <3>2, <3>3
      <3> QED BY <2>2, <3>2, <3>4 DEF Busy
    <2> QED BY <2>6, <2>7, <2>8, <2>9, <2>10 DEF Next
  <1> QED BY <1>1, <1>2 DEF StillHeld, NotLost

(***************************************************************************)
(* The third part: a running row has its worker, unless a worker was       *)
(* killed or the database failed it.                                       *)
(***************************************************************************)
THEOREM RunningIsHeld == Spec => []NotLost
  <1>1. Init => BudgetSpent /\ StillHeld
    BY QueueAssumption DEF Init, BudgetSpent, StillHeld, NotLost, Ids
  <1>2. IInv /\ BudgetSpent /\ StillHeld /\ [Next]_vars => BudgetSpent' /\ StillHeld'
    BY BudgetStep, StillHeldStep
  <1>3. StillHeld => NotLost
    BY DEF StillHeld
  <1> QED BY <1>1, <1>2, <1>3, Invariance, PTL DEF Spec
-----------------------------------------------------------------------------
(***************************************************************************)
(* The second part needs one producer.  With two, both may find no pending *)
(* row before either inserts (core/queue.py:100), and the key is queued    *)
(* twice; the property is false of the code then, and nothing here says    *)
(* otherwise.                                                              *)
(***************************************************************************)
OneProducer == \A p, q \in Producers : p = q

LEMMA NotDuplicatedStep ==
  ASSUME OneProducer, IInv, BudgetSpent, KeyIsFree, NotDuplicated, [Next]_vars
  PROVE  (KeyIsFree /\ NotDuplicated)'
  <1> SUFFICES ASSUME Without({"requeue"})' PROVE (KeyIsFree /\ NotDuplicated)'
    BY DEF KeyIsFree, NotDuplicated
  <1>0. /\ TypeOK /\ Without({"requeue"}) /\ ~Spend("requeue")
    <2>1. {"requeue"} \in SUBSET FaultKinds
      BY DEF FaultKinds
    <2> QED BY <2>1, BudgetStep DEF IInv
  <1>1. /\ \A p \in Producers : req[p] # NoRequest /\ req[p].dedupe_key # NoKey =>
             \A i \in Ids : Pending(i) => job_queue[i].dedupe_key # req[p].dedupe_key
        /\ \A i, j \in Ids :
             i # j /\ Pending(i) /\ Pending(j) =>
               \/ job_queue[i].dedupe_key = NoKey
               \/ job_queue[i].dedupe_key # job_queue[j].dedupe_key
    BY <1>0 DEF KeyIsFree, NotDuplicated
  <1>2. ASSUME UNCHANGED req, Ids' = Ids,
               \A i \in Ids : /\ job_queue'[i].dedupe_key = job_queue[i].dedupe_key
                              /\ job_queue'[i].status \in {"queued", "running"} => Pending(i)
        PROVE  (KeyIsFree /\ NotDuplicated)'
    <2>0. Ids' = Ids
      BY <1>2
    <2>1. ASSUME NEW i \in Ids, Pending(i)' PROVE Pending(i)
      <3>1. job_queue'[i].status \in {"queued", "running"}
        BY <2>1 DEF Pending
      <3> QED BY <1>2, <3>1
    <2>2. KeyIsFree'
      <3>1. ASSUME NEW p \in Producers, req[p] # NoRequest, req[p].dedupe_key # NoKey,
                   NEW i \in Ids, Pending(i)'
            PROVE  job_queue'[i].dedupe_key # req[p].dedupe_key
        BY <1>1, <1>2, <2>1, <3>1
      <3> QED BY <1>2, <2>0, <3>1 DEF KeyIsFree
    <2>3. NotDuplicated'
      <3>1. ASSUME NEW i \in Ids, NEW j \in Ids, i # j, Pending(i)', Pending(j)'
            PROVE  \/ job_queue'[i].dedupe_key = NoKey
                   \/ job_queue'[i].dedupe_key # job_queue'[j].dedupe_key
        <4>1. Pending(i) /\ Pending(j)
          BY <2>1, <3>1
        <4> QED BY <1>1, <1>2, <3>1, <4>1
      <3> QED BY <2>0, <3>1 DEF NotDuplicated
    <2> QED BY <2>2, <2>3
  <1>3. ASSUME NEW i \in Ids, NEW r \in Row, Pending(i), UNCHANGED req,
               r.dedupe_key = job_queue[i].dedupe_key, job_queue' = [job_queue EXCEPT ![i] = r]
        PROVE  (KeyIsFree /\ NotDuplicated)'
    <2>1. /\ Ids' = Ids
          /\ \A k \in Ids : job_queue'[k] = IF k = i THEN r ELSE job_queue[k]
      BY <1>0, <1>3, RowUpdate DEF TypeOK, Ids
    <2> QED BY <1>2, <1>3, <2>1 DEF Pending
  <1>4. ASSUME NEW w \in Workers, Step(w) PROVE (KeyIsFree /\ NotDuplicated)'
    <2>1. ASSUME NEW i \in Ids, Claim(w, i) PROVE (KeyIsFree /\ NotDuplicated)'
      <3>1. PICK r \in Row : /\ r.dedupe_key = job_queue[i].dedupe_key
                             /\ job_queue' = [job_queue EXCEPT ![i] = r]
        BY <2>1, ClaimStep
      <3>2. Pending(i) /\ UNCHANGED req
        BY <2>1 DEF Claim, Due, Pending
      <3> QED BY <1>3, <3>1, <3>2
    <2>2. CASE Complete(w) \/ Fail(w) \/ FailUnknown(w)
      <3>1. PICK r \in Row : /\ r.dedupe_key = job_queue[job[w].id].dedupe_key
                             /\ job_queue' = [job_queue EXCEPT ![job[w].id] = r]
        BY <2>2, SettlingSteps
      <3>2. Busy(w) /\ job[w].id \in Ids
        BY <2>2, SettlingSteps
      <3>3. Pending(job[w].id) /\ UNCHANGED req
        BY <2>2, <3>2 DEF IInv, HolderOwnsRow, Pending, Complete, Fail, FailUnknown
      <3> QED BY <1>3, <3>1, <3>2, <3>3
    <2>3. CASE HandlerReturns(w) \/ HandlerRaises(w) \/ RunRaises(w) \/ Exit(w)
      BY <1>2, <2>3 DEF HandlerReturns, HandlerRaises, RunRaises, Exit, Ids, Pending
    <2> QED BY <1>4, <2>1, <2>2, <2>3 DEF Step
  <1>5. ASSUME NEW w \in Workers, Fault(w) PROVE (KeyIsFree /\ NotDuplicated)'
    BY <1>2, <1>5
    DEF Fault, CompleteRaises, FailRaises, ConnectionLost, Signal, Crash, Ids, Pending
  <1>6. CASE UNCHANGED vars \/ Tick
    BY <1>2, <1>6 DEF vars, Tick, Ids, Pending
  <1>7. ASSUME NEW p \in Producers, NEW q \in Requests, EnqueueSelect(p, q)
        PROVE  (KeyIsFree /\ NotDuplicated)'
    <2>1. UNCHANGED job_queue /\ Ids' = Ids
      BY <1>7 DEF EnqueueSelect, Ids
    <2>2. /\ req'[p].dedupe_key = q.dedupe_key
          /\ \A o \in Producers : o = p
      BY <1>0, <1>7 DEF EnqueueSelect, TypeOK, OneProducer
    <2>3. q.dedupe_key # NoKey =>
            \A i \in Ids : Pending(i) => job_queue[i].dedupe_key # q.dedupe_key
      BY <1>7 DEF EnqueueSelect
    <2> QED BY <1>1, <2>1, <2>2, <2>3 DEF KeyIsFree, NotDuplicated, Pending
  <1>8. ASSUME NEW p \in Producers, EnqueueInsert(p) PROVE (KeyIsFree /\ NotDuplicated)'
    <2> DEFINE new == Len(job_queue) + 1
    <2>1. /\ Ids' = Ids \cup {new}
          /\ \A j \in Ids : job_queue'[j] = job_queue[j]
          /\ job_queue'[new].dedupe_key = req[p].dedupe_key
          /\ new \notin Ids
      BY <1>0, <1>8 DEF EnqueueInsert, TypeOK, Ids
    <2>2. /\ req[p] # NoRequest
          /\ \A o \in Producers : req'[o] = NoRequest
      BY <1>0, <1>8 DEF EnqueueInsert, TypeOK, OneProducer
    <2>3. req[p].dedupe_key # NoKey =>
            \A i \in Ids : Pending(i) => job_queue[i].dedupe_key # req[p].dedupe_key
      BY <1>1, <2>2
    <2> HIDE DEF new
    <2> QED BY <1>1, <2>1, <2>2, <2>3 DEF KeyIsFree, NotDuplicated, Pending
  <1>9. ~Operate
    BY <1>0 DEF Operate, RequeueFailed
  <1> QED BY <1>4, <1>5, <1>6, <1>7, <1>8, <1>9 DEF Next, Produce

(***************************************************************************)
(* The whole property, for one producer and any number of workers, keys,   *)
(* rows, attempts and faults.                                              *)
(***************************************************************************)
THEOREM WorkIsSafe == ASSUME OneProducer PROVE Spec => []NeitherRepeatedNorLost
  <1>1. Init => BudgetSpent /\ KeyIsFree /\ NotDuplicated
    BY QueueAssumption DEF Init, BudgetSpent, KeyIsFree, NotDuplicated, Ids
  <1>2. /\ IInv /\ BudgetSpent /\ KeyIsFree /\ NotDuplicated /\ [Next]_vars
        => BudgetSpent' /\ (KeyIsFree /\ NotDuplicated)'
    BY BudgetStep, NotDuplicatedStep
  <1> QED BY <1>1, <1>2, Invariance, HandledOnce, RunningIsHeld, PTL
          DEF Spec, NeitherRepeatedNorLost
=============================================================================
