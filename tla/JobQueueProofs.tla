---------------------------- MODULE JobQueueProofs ----------------------------
(***************************************************************************)
(* Proofs about the job queue, for any number of jobs, attempts, restarts  *)
(* and operators who retry.                                                *)
(***************************************************************************)
EXTENDS JobQueue, CommonProofs

\* A row of the queue; how often it was tried has no bound here.
QueuedJob == [status : JobStatus, attempts : Nat, wait : BOOLEAN]

\* The jobs of q wait, each once.
Waits(q, records) ==
  /\ q \in Seq(Jobs)
  /\ \A i \in 1..Len(q) : records[q[i]].status = "queued"
  /\ \A i, j \in 1..Len(q) : q[i] = q[j] => i = j

\* The status that a job has while the worker is at `at'.
StatusAt == [at \in {"handler", "backoff", "record"} |->
               CASE at = "handler" -> "active" [] at = "backoff" -> "queued" [] at = "record" -> "failed"]

\* The worker has the job, which does not wait and has no row yet.
Holds(w, q, records, rows) ==
  w # Idle =>
    /\ records[w.job].status = StatusAt[w.at]
    /\ rows[w.job] = "none"
    /\ \A i \in 1..Len(q) : q[i] # w.job

\* The queue, its worker and the rows.
QueueInv ==
  /\ job \in [Jobs -> QueuedJob]
  /\ worker \in Worker
  /\ failedRow \in [Jobs -> {"none", "failed", "retried"}]
  /\ Waits(pending, job)
  /\ Holds(worker, pending, job, failedRow)

ToldInv ==
  /\ told = [j \in Jobs |-> told[j]]
  /\ ToldFailureIsRecorded

\* What a retry carries: a job with a row, marked before it is enqueued.
RetryNamed(k, rows) ==
  k.op # "free" =>
    /\ k.op \in {"mark", "enqueue"} /\ "job" \in DOMAIN k /\ k.job \in Jobs
    /\ k.op = "mark" => rows[k.job] # "none" /\ k.reads = {k.job}
    /\ k.op = "enqueue" => rows[k.job] = "retried"
RetrySeen(k, rows) == k.op = "mark" /\ k.fresh => rows[k.job] = "failed"

\* Unless one was overtaken, a row with a retry that is still to enqueue the
\* job has no other, and none has enqueued it.
OneRetry ==
  ~overtaken =>
    /\ \A j \in Jobs : retries[j] <= 1
    /\ \A r \in Requests : request[r].op = "enqueue" =>
         /\ retries[request[r].job] = 0
         /\ \A q \in Requests \ {r} : request[q].op = "enqueue" => request[q].job # request[r].job

RetryInv ==
  /\ AllRequests
  /\ \A r \in Requests : RetryNamed(request[r], failedRow) /\ RetrySeen(request[r], failedRow)
  /\ retries \in [Jobs -> Nat]
  /\ \A j \in Jobs : retries[j] > 0 => failedRow[j] = "retried"
  /\ OneRetry

\* The invariant of the queue.
JobQueueInv == QueueInv /\ ToldInv /\ RetryInv

-----------------------------------------------------------------------------
(* The queue.                                                              *)

\* A job that is begun.
LEMMA Begun ==
  ASSUME NEW x \in QueuedJob
  PROVE  LET new == [x EXCEPT !.status = "active", !.attempts = @ + 1] IN
         new \in QueuedJob /\ new.status = "active" /\ new.wait = x.wait
  <1> DEFINE new == [x EXCEPT !.status = "active", !.attempts = @ + 1]
  <1>1. x.attempts \in Nat /\ x.wait \in BOOLEAN
    BY DEF QueuedJob
  <1>2. \A n \in Nat : n + 1 \in Nat
    OBVIOUS
  <1>3. DOMAIN x = {"status", "attempts", "wait"}
    BY DEF QueuedJob
  <1>4. /\ new = [f \in {"status", "attempts", "wait"} |-> new[f]]
        /\ new.status = "active" /\ new.wait = x.wait /\ new.attempts = x.attempts + 1
    BY <1>3
  <1> HIDE DEF new
  <1>5. new.attempts \in Nat
    BY <1>1, <1>2, <1>4
  <1> QED
    BY <1>1, <1>4, <1>5 DEF QueuedJob, JobStatus

\* The worker takes the first of the jobs that wait; a job moves from queued
\* to active, or stays as it is.
LEMMA PumpTakes ==
  ASSUME NEW records \in [Jobs -> QueuedJob], NEW queue, Waits(queue, records), Pump(records, queue),
         failedRow' \in [Jobs -> {"none", "failed", "retried"}],
         \A j \in Jobs : failedRow'[j] # "none" => records[j].status = "failed"
  PROVE  /\ QueueInv'
         /\ \A j \in Jobs : /\ job'[j].wait = records[j].wait
                            /\ job'[j].status # records[j].status => records[j].status = "queued"
  <1>1. CASE queue = <<>>
    BY <1>1 DEF Pump, QueueInv, Waits, Holds, Worker, Idle
  <1>2. CASE queue # <<>>
    <2> DEFINE h == Head(queue)
               new == [records[h] EXCEPT !.status = "active", !.attempts = @ + 1]
    <2>1. queue \in Seq(Jobs) /\ Len(queue) > 0 /\ h = queue[1] /\ h \in Jobs
      BY <1>2 DEF Waits
    <2>2. /\ job' = [records EXCEPT ![h] = new]
          /\ pending' = Tail(queue)
          /\ worker' = [at |-> "handler", job |-> h]
      BY <1>2 DEF Pump
    <2>3. records[h].status = "queued" /\ records[h] \in QueuedJob
      BY <2>1 DEF Waits
    <2>4. new \in QueuedJob /\ new.status = "active" /\ new.wait = records[h].wait
      BY <2>3, Begun
    <2> HIDE DEF new
    <2>5. /\ job' \in [Jobs -> QueuedJob] /\ job'[h] = new
          /\ \A j \in Jobs \ {h} : job'[j] = records[j]
      BY <2>1, <2>2, <2>4
    <2>6. /\ pending' \in Seq(Jobs) /\ Len(pending') = Len(queue) - 1
          /\ \A i \in 1..Len(pending') : i + 1 \in 1..Len(queue) /\ pending'[i] = queue[i + 1]
      BY <2>1, <2>2
    <2>7. \A i \in 1..Len(pending') : pending'[i] \in Jobs \ {h}
      <3> SUFFICES ASSUME NEW i \in 1..Len(pending') PROVE pending'[i] \in Jobs \ {h}
        OBVIOUS
      <3>1. i + 1 \in 1..Len(queue) /\ 1 \in 1..Len(queue) /\ i + 1 # 1 /\ pending'[i] = queue[i + 1]
        BY <2>1, <2>6
      <3> QED
        BY <2>1, <3>1 DEF Waits
    <2>8. Waits(pending', job')
      <3>1. ASSUME NEW i \in 1..Len(pending') PROVE job'[pending'[i]].status = "queued"
        <4>1. i + 1 \in 1..Len(queue) /\ pending'[i] = queue[i + 1]
          BY <2>6
        <4>2. records[queue[i + 1]].status = "queued"
          BY <4>1 DEF Waits
        <4> QED
          BY <2>5, <2>7, <4>1, <4>2
      <3>2. ASSUME NEW i \in 1..Len(pending'), NEW j \in 1..Len(pending'), pending'[i] = pending'[j]
            PROVE  i = j
        <4>1. i + 1 \in 1..Len(queue) /\ j + 1 \in 1..Len(queue) /\ queue[i + 1] = queue[j + 1]
          BY <2>6, <3>2
        <4>2. i + 1 = j + 1
          BY <4>1 DEF Waits
        <4> QED
          BY <4>2
      <3> QED
        BY <2>6, <3>1, <3>2 DEF Waits
    <2>9. Holds(worker', pending', job', failedRow')
      <3>1. worker'.at = "handler" /\ worker'.job = h
        BY <2>2
      <3>2. failedRow'[h] = "none"
        BY <2>1, <2>3
      <3> QED
        BY <2>4, <2>5, <2>7, <3>1, <3>2 DEF Holds, StatusAt
    <2>10. worker' \in Worker
      BY <2>1, <2>2 DEF Worker
    <2> QED
      BY <2>3, <2>4, <2>5, <2>8, <2>9, <2>10 DEF QueueInv
  <1> QED
    BY <1>1, <1>2

\* A job joins the end of a queue it is not in.
LEMMA Joins ==
  ASSUME NEW records \in [Jobs -> QueuedJob], NEW q, Waits(q, records), NEW j \in Jobs,
         NEW new \in QueuedJob, new.status = "queued", \A i \in 1..Len(q) : q[i] # j
  PROVE  Waits(Append(q, j), [records EXCEPT ![j] = new])
  <1> DEFINE p == Append(q, j)
             after == [records EXCEPT ![j] = new]
  <1>1. /\ p \in Seq(Jobs) /\ Len(p) = Len(q) + 1 /\ p[Len(q) + 1] = j
        /\ \A i \in 1..Len(q) : p[i] = q[i] /\ q[i] \in Jobs
        /\ Len(q) \in Nat
    BY DEF Waits
  <1>2. \A i \in 1..Len(p) : i \in 1..Len(q) \/ i = Len(q) + 1
    BY <1>1
  <1>3. after[j] = new /\ \A x \in Jobs \ {j} : after[x] = records[x]
    OBVIOUS
  <1> HIDE DEF p, after
  <1>4. \A i \in 1..Len(p) : after[p[i]].status = "queued"
    BY <1>1, <1>2, <1>3 DEF Waits
  <1>5. \A i, k \in 1..Len(p) : p[i] = p[k] => i = k
    BY <1>1, <1>2 DEF Waits
  <1> QED
    BY <1>1, <1>4, <1>5 DEF Waits, p, after

\* A job that nobody waits for, at whatever place, may change.
LEMMA Elsewhere ==
  ASSUME NEW records \in [Jobs -> QueuedJob], NEW q, Waits(q, records), NEW j \in Jobs, NEW new,
         \A i \in 1..Len(q) : q[i] # j
  PROVE  Waits(q, [records EXCEPT ![j] = new])
  BY DEF Waits

\* The worker is busy with a job of its own.
LEMMA AtWork ==
  ASSUME QueueInv, worker # Idle
  PROVE  /\ worker.job \in Jobs /\ worker.at \in {"handler", "backoff", "record"}
         /\ worker = [at |-> worker.at, job |-> worker.job]
         /\ job[worker.job].status = StatusAt[worker.at]
         /\ job[worker.job] \in QueuedJob
         /\ failedRow[worker.job] = "none"
         /\ \A i \in 1..Len(pending) : pending[i] # worker.job
  BY DEF QueueInv, Holds, Worker, Idle

LEMMA NotIdle == worker.at # "idle" => worker # Idle
  BY DEF Idle

\* The status of a job, by name.
LEMMA WithStatus ==
  ASSUME NEW x \in QueuedJob, NEW s \in JobStatus
  PROVE  LET new == [x EXCEPT !.status = s] IN
         new \in QueuedJob /\ new.status = s /\ new.wait = x.wait
  BY DEF QueuedJob

-----------------------------------------------------------------------------
(* The steps of the queue keep its invariant; a failure is never undone.   *)

FailuresStay == \A j \in Jobs : job[j].status = "failed" => job'[j].status = "failed"

LEMMA EnqueueKeeps ==
  ASSUME JobQueueInv, NEW j \in Jobs, NEW wait \in BOOLEAN, Enqueue(j, wait), UNCHANGED failedRow
  PROVE  QueueInv' /\ FailuresStay
  <1> DEFINE new == [status |-> "queued", attempts |-> 0, wait |-> wait]
             records == [job EXCEPT ![j] = new]
  <1>1. new \in QueuedJob /\ new.status = "queued" /\ job[j].status = "none"
    BY DEF QueuedJob, JobStatus, Enqueue
  <1>2. IF worker = Idle THEN Pump(records, Append(pending, j))
        ELSE job' = records /\ pending' = Append(pending, j) /\ UNCHANGED worker
    BY DEF Enqueue
  <1>3. \A i \in 1..Len(pending) : pending[i] # j
    BY <1>1 DEF JobQueueInv, QueueInv, Waits
  <1> HIDE DEF new
  <1>4. records \in [Jobs -> QueuedJob] /\ Waits(Append(pending, j), records)
    BY <1>1, <1>3, Joins DEF JobQueueInv, QueueInv
  <1>5. records[j] = new /\ \A x \in Jobs \ {j} : records[x] = job[x]
    BY DEF JobQueueInv, QueueInv
  <1>6. \A x \in Jobs : failedRow'[x] # "none" => records[x].status = "failed"
    BY <1>1, <1>5 DEF JobQueueInv, ToldInv, ToldFailureIsRecorded
  <1> HIDE DEF records
  <1>7. CASE worker = Idle
    <2>1. QueueInv' /\ \A x \in Jobs : job'[x].status # records[x].status => records[x].status = "queued"
      BY <1>2, <1>4, <1>6, <1>7, PumpTakes DEF JobQueueInv, QueueInv
    <2> QED
      BY <1>1, <1>5, <2>1 DEF FailuresStay
  <1>8. CASE worker # Idle
    <2>1. worker.job # j
      BY <1>1, <1>8, AtWork DEF JobQueueInv, StatusAt
    <2>2. \A i \in 1..Len(Append(pending, j)) : Append(pending, j)[i] # worker.job
      BY <1>8, <2>1, AtWork DEF JobQueueInv, QueueInv, Waits
    <2>3. Holds(worker', pending', job', failedRow')
      BY <1>2, <1>5, <1>8, <2>1, <2>2, AtWork DEF JobQueueInv, Holds
    <2> QED
      BY <1>1, <1>2, <1>4, <1>5, <1>8, <2>3 DEF JobQueueInv, QueueInv, FailuresStay
  <1> QED
    BY <1>7, <1>8

LEMMA HandlerReturnsKeeps ==
  ASSUME JobQueueInv, HandlerReturns
  PROVE  QueueInv' /\ FailuresStay
  <1> DEFINE j == worker.job
             new == [job[j] EXCEPT !.status = "completed"]
             records == [job EXCEPT ![j] = new]
  <1>1. /\ worker # Idle /\ j \in Jobs /\ job[j].status = "active" /\ job[j] \in QueuedJob
        /\ failedRow[j] = "none" /\ \A i \in 1..Len(pending) : pending[i] # j
    BY NotIdle, AtWork DEF HandlerReturns, JobQueueInv, StatusAt
  <1>2. new \in QueuedJob /\ new.status = "completed"
    BY <1>1, WithStatus DEF JobStatus
  <1>3. Pump(records, pending) /\ failedRow' = failedRow
    BY <1>1 DEF HandlerReturns, JobQueueInv, QueueInv
  <1> HIDE DEF new, j
  <1>4. records \in [Jobs -> QueuedJob] /\ Waits(pending, records)
    BY <1>1, <1>2, Elsewhere DEF JobQueueInv, QueueInv
  <1>5. records[j] = new /\ \A x \in Jobs \ {j} : records[x] = job[x]
    BY <1>1 DEF JobQueueInv, QueueInv
  <1>6. \A x \in Jobs : failedRow'[x] # "none" => records[x].status = "failed"
    BY <1>1, <1>3, <1>5 DEF JobQueueInv, ToldInv, ToldFailureIsRecorded
  <1> HIDE DEF records
  <1>7. QueueInv' /\ \A x \in Jobs : job'[x].status # records[x].status => records[x].status = "queued"
    BY <1>3, <1>4, <1>6, PumpTakes DEF JobQueueInv, QueueInv
  <1> QED
    BY <1>1, <1>2, <1>5, <1>7 DEF FailuresStay

LEMMA HandlerThrowsKeeps ==
  ASSUME JobQueueInv, HandlerThrows
  PROVE  QueueInv' /\ FailuresStay
  <1> DEFINE j == worker.job
             again == job[j].attempts < MaxAttempts
             s == IF again THEN "queued" ELSE "failed"
             at == IF again THEN "backoff" ELSE "record"
             new == [job[j] EXCEPT !.status = s]
  <1>1. /\ worker # Idle /\ j \in Jobs /\ job[j].status = "active" /\ job[j] \in QueuedJob
        /\ failedRow[j] = "none" /\ \A i \in 1..Len(pending) : pending[i] # j
        /\ worker = [at |-> worker.at, job |-> j]
    BY NotIdle, AtWork DEF HandlerThrows, JobQueueInv, StatusAt
  <1>2. s \in JobStatus /\ at \in {"backoff", "record"} /\ StatusAt[at] = s
    BY DEF JobStatus, StatusAt
  <1>3. new \in QueuedJob /\ new.status = s
    BY <1>1, <1>2, WithStatus
  <1>4. /\ job' = [job EXCEPT ![j] = new] /\ worker' = [worker EXCEPT !.at = at]
        /\ pending' = pending /\ failedRow' = failedRow
    BY <1>1 DEF HandlerThrows, JobQueueInv, QueueInv
  <1> HIDE DEF new, j, s, at
  <1>5. worker' = [at |-> at, job |-> j]
    BY <1>1, <1>4
  <1>6. job' \in [Jobs -> QueuedJob] /\ Waits(pending', job')
    BY <1>1, <1>3, <1>4, Elsewhere DEF JobQueueInv, QueueInv
  <1>7. job'[j] = new /\ \A x \in Jobs \ {j} : job'[x] = job[x]
    BY <1>1, <1>4 DEF JobQueueInv, QueueInv
  <1>8. worker' \in Worker /\ Holds(worker', pending', job', failedRow')
    BY <1>1, <1>2, <1>3, <1>4, <1>5, <1>7 DEF Worker, Holds
  <1> QED
    BY <1>1, <1>4, <1>6, <1>7, <1>8 DEF JobQueueInv, QueueInv, FailuresStay

LEMMA BackoffEndsKeeps ==
  ASSUME JobQueueInv, BackoffEnds
  PROVE  QueueInv' /\ FailuresStay
  <1> DEFINE j == worker.job
  <1>1. /\ j \in Jobs /\ job[j].status = "queued" /\ job[j] \in QueuedJob
        /\ \A i \in 1..Len(pending) : pending[i] # j
    BY NotIdle, AtWork DEF BackoffEnds, JobQueueInv, StatusAt
  <1>2. Pump(job, Append(pending, j)) /\ failedRow' = failedRow
    BY DEF BackoffEnds
  <1> HIDE DEF j
  <1>3. job \in [Jobs -> QueuedJob] /\ [job EXCEPT ![j] = job[j]] = job
    BY <1>1 DEF JobQueueInv, QueueInv
  <1>4. Waits(Append(pending, j), job)
    BY <1>1, <1>3, Joins DEF JobQueueInv, QueueInv
  <1>5. QueueInv' /\ \A x \in Jobs : job'[x].status # job[x].status => job[x].status = "queued"
    BY <1>2, <1>3, <1>4, PumpTakes DEF JobQueueInv, QueueInv, ToldInv, ToldFailureIsRecorded
  <1> QED
    BY <1>5 DEF FailuresStay

LEMMA RecordFailureKeeps ==
  ASSUME JobQueueInv, RecordFailure
  PROVE  QueueInv' /\ FailuresStay
  <1> DEFINE j == worker.job
  <1>1. j \in Jobs /\ job[j].status = "failed"
    BY NotIdle, AtWork DEF RecordFailure, JobQueueInv, StatusAt
  <1>2. Pump(job, pending) /\ failedRow' = [failedRow EXCEPT ![j] = "failed"]
    BY DEF RecordFailure
  <1> HIDE DEF j
  <1>3. \A x \in Jobs : failedRow'[x] # "none" => job[x].status = "failed"
    BY <1>1, <1>2 DEF JobQueueInv, QueueInv, ToldInv, ToldFailureIsRecorded
  <1>4. QueueInv' /\ \A x \in Jobs : job'[x].status # job[x].status => job[x].status = "queued"
    BY <1>2, <1>3, PumpTakes DEF JobQueueInv, QueueInv
  <1> QED
    BY <1>4 DEF FailuresStay

\* A restart empties the queue; the rows stand for jobs that failed before.
LEMMA CrashKeeps ==
  ASSUME JobQueueInv, Crash
  PROVE  /\ QueueInv'
         /\ \A j \in Jobs : failedRow[j] # "none" => job'[j].status = "failed"
  <1>1. \A j \in Jobs : [job[j] EXCEPT !.status = "lost"] \in QueuedJob
    BY WithStatus DEF JobQueueInv, QueueInv, JobStatus
  <1>2. job' = [j \in Jobs |-> IF job[j].status \in {"queued", "active"} \/ Unrecorded(j)
                               THEN [job[j] EXCEPT !.status = "lost"] ELSE job[j]]
    BY DEF Crash
  <1>3. \A j \in Jobs : Unrecorded(j) => failedRow[j] = "none"
    BY NotIdle, AtWork DEF Unrecorded, JobQueueInv
  <1>4. job' \in [Jobs -> QueuedJob]
    BY <1>1, <1>2 DEF JobQueueInv, QueueInv
  <1>5. \A j \in Jobs : failedRow[j] # "none" => job'[j].status = "failed"
    BY <1>2, <1>3 DEF JobQueueInv, ToldInv, ToldFailureIsRecorded
  <1>6. pending' = <<>> /\ worker' = Idle /\ failedRow' = failedRow
    BY DEF Crash
  <1> QED
    BY <1>4, <1>5, <1>6 DEF JobQueueInv, QueueInv, Waits, Holds, Worker, Idle

-----------------------------------------------------------------------------
(* The retries.                                                            *)

\* No retry has to do with a job whose row is written for the first time.
LEMMA RowIsNew ==
  ASSUME JobQueueInv, NEW j \in Jobs, failedRow[j] = "none",
         failedRow' = [failedRow EXCEPT ![j] = "failed"], UNCHANGED <<retries, handlerVars>>
  PROVE  RetryInv'
  <1>1. \A x \in Jobs \ {j} : failedRow'[x] = failedRow[x]
    BY DEF JobQueueInv, QueueInv
  <1>2. request' = request /\ overtaken' = overtaken /\ retries' = retries
    BY DEF handlerVars
  <1>3. \A r \in Requests : request[r].op # "free" => request[r].job # j
    BY DEF JobQueueInv, RetryInv, RetryNamed
  <1>4. ASSUME NEW r \in Requests
        PROVE  RetryNamed(request[r], failedRow') /\ RetrySeen(request[r], failedRow')
    BY <1>1, <1>3 DEF JobQueueInv, RetryInv, RetryNamed, RetrySeen
  <1>5. AllRequests'
    BY <1>2 DEF JobQueueInv, RetryInv, AllRequests
  <1>6. \A x \in Jobs : retries[x] > 0 => failedRow'[x] = "retried"
    BY <1>1 DEF JobQueueInv, RetryInv
  <1> QED
    BY <1>2, <1>4, <1>5, <1>6 DEF JobQueueInv, RetryInv, OneRetry

LEMMA RetryReadKeeps ==
  ASSUME JobQueueInv, NEW r \in Requests, RetryRead(r)
  PROVE  RetryInv'
  <1>1. PICK j \in Jobs :
          /\ failedRow[j] = "failed"
          /\ Begins(r, [op |-> "mark", reads |-> {j}, fresh |-> TRUE, job |-> j])
    BY DEF RetryRead
  <1> DEFINE k == [op |-> "mark", reads |-> {j}, fresh |-> TRUE, job |-> j]
  <1>2. IsRequest(k) /\ k.op = "mark"
    BY DEF IsRequest
  <1>3. RetryNamed(k, failedRow) /\ RetrySeen(k, failedRow)
    BY <1>1 DEF RetryNamed, RetrySeen
  <1> HIDE DEF k
  <1>4. /\ AllRequests' /\ request'[r] = k /\ overtaken' = overtaken
        /\ \A q \in Requests \ {r} : request'[q] = request[q]
    BY <1>1, <1>2, GoesOn DEF JobQueueInv, RetryInv, Begins, k
  <1>5. retries' = retries /\ failedRow' = failedRow
    BY DEF RetryRead
  <1>6. OneRetry'
    BY <1>2, <1>4, <1>5 DEF JobQueueInv, RetryInv, OneRetry
  <1> QED
    BY <1>3, <1>4, <1>5, <1>6 DEF JobQueueInv, RetryInv

LEMMA RetryMarkKeeps ==
  ASSUME JobQueueInv, NEW r \in Requests, RetryMark(r)
  PROVE  /\ RetryInv'
         /\ failedRow' \in [Jobs -> {"none", "failed", "retried"}]
         /\ \A j \in Jobs : failedRow'[j] # "none" <=> failedRow[j] # "none"
  <1> DEFINE o == request[r]
             j == o.job
             k == [o EXCEPT !.op = "enqueue", !.reads = {}]
  <1>1. /\ o.op = "mark" /\ failedRow' = [failedRow EXCEPT ![j] = "retried"]
        /\ Wrote(r, {j}, k) /\ retries' = retries
    BY DEF RetryMark
  <1>2. /\ IsRequest(o) /\ "job" \in DOMAIN o /\ j \in Jobs /\ failedRow[j] # "none"
        /\ o.fresh => failedRow[j] = "failed"
    BY <1>1 DEF JobQueueInv, RetryInv, AllRequests, RetryNamed, RetrySeen
  <1>3. IsRequest(k) /\ k.op = "enqueue" /\ "job" \in DOMAIN k /\ k.job = j
    BY <1>2 DEF IsRequest
  <1> HIDE DEF k
  <1>4. /\ AllRequests' /\ request'[r] = k
        /\ \A q \in Requests \ {r} :
              /\ request'[q].op = request[q].op
              /\ request'[q].reads = request[q].reads
              /\ DOMAIN request'[q] = DOMAIN request[q]
              /\ \A x \in DOMAIN request[q] \ {"fresh"} : request'[q][x] = request[q][x]
              /\ request'[q].fresh =>
                   request'[q] = request[q] /\ request[q].fresh /\ request[q].reads \intersect {j} = {}
        /\ ~overtaken' => ~overtaken /\ o.fresh
    BY <1>1, <1>3, WroteOver DEF JobQueueInv, RetryInv
  <1>5. failedRow'[j] = "retried" /\ \A x \in Jobs \ {j} : failedRow'[x] = failedRow[x]
    BY <1>1, <1>2 DEF JobQueueInv, QueueInv
  <1>6. ASSUME NEW q \in Requests \ {r}, request[q].op # "free"
        PROVE  "job" \in DOMAIN request[q] /\ request[q].job \in Jobs /\ request'[q].job = request[q].job
    BY <1>4, <1>6 DEF JobQueueInv, RetryInv, RetryNamed
  <1>7. ASSUME NEW q \in Requests \ {r}
        PROVE  RetryNamed(request'[q], failedRow') /\ RetrySeen(request'[q], failedRow')
    <2>1. RetryNamed(request[q], failedRow) /\ RetrySeen(request[q], failedRow)
      BY DEF JobQueueInv, RetryInv
    <2>2. RetryNamed(request'[q], failedRow')
      BY <1>4, <1>5, <1>6, <2>1 DEF RetryNamed
    <2>3. RetrySeen(request'[q], failedRow')
      BY <1>4, <1>5, <1>6, <2>1 DEF RetrySeen, RetryNamed
    <2> QED
      BY <2>2, <2>3
  <1>8. RetryNamed(k, failedRow') /\ RetrySeen(k, failedRow')
    BY <1>2, <1>3, <1>5 DEF RetryNamed, RetrySeen
  <1>9. OneRetry'
    <2> SUFFICES ASSUME ~overtaken' PROVE OneRetry'
      BY DEF OneRetry
    <2>1. ~overtaken /\ failedRow[j] = "failed" /\ OneRetry
      BY <1>2, <1>4 DEF JobQueueInv, RetryInv
    <2>2. retries[j] = 0
      BY <1>2, <2>1 DEF JobQueueInv, RetryInv
    <2>3. \A q \in Requests \ {r} : request[q].op = "enqueue" => request[q].job # j
      BY <2>1 DEF JobQueueInv, RetryInv, RetryNamed
    <2>4. \A q \in Requests \ {r} : request'[q].op = "enqueue" =>
            request[q].op = "enqueue" /\ request'[q].job = request[q].job
      BY <1>4, <1>6
    <2> QED
      BY <1>1, <1>3, <1>4, <2>1, <2>2, <2>3, <2>4 DEF OneRetry
  <1>10. \A x \in Jobs : retries[x] > 0 => failedRow'[x] = "retried"
    BY <1>5 DEF JobQueueInv, RetryInv
  <1>11. failedRow' \in [Jobs -> {"none", "failed", "retried"}]
    BY <1>1 DEF JobQueueInv, QueueInv
  <1> QED
    BY <1>1, <1>2, <1>4, <1>5, <1>7, <1>8, <1>9, <1>10, <1>11 DEF JobQueueInv, RetryInv

LEMMA RetryEnqueueKeeps ==
  ASSUME JobQueueInv, NEW r \in Requests, RetryEnqueue(r)
  PROVE  RetryInv'
  <1> DEFINE j == request[r].job
  <1>1. /\ request[r].op = "enqueue" /\ retries' = [retries EXCEPT ![j] = @ + 1]
        /\ Goes(r, Free) /\ failedRow' = failedRow
    BY DEF RetryEnqueue
  <1>2. j \in Jobs /\ failedRow[j] = "retried"
    BY <1>1 DEF JobQueueInv, RetryInv, RetryNamed
  <1> HIDE DEF j
  <1>3. /\ AllRequests' /\ request'[r] = Free /\ overtaken' = overtaken
        /\ \A q \in Requests \ {r} : request'[q] = request[q]
    BY <1>1, FreeIsRequest, GoesOn DEF JobQueueInv, RetryInv
  <1>4. /\ retries' \in [Jobs -> Nat] /\ retries'[j] = retries[j] + 1
        /\ \A x \in Jobs \ {j} : retries'[x] = retries[x]
    BY <1>1, <1>2 DEF JobQueueInv, RetryInv
  <1>5. Free.op = "free" /\ RetryNamed(Free, failedRow) /\ RetrySeen(Free, failedRow)
    BY DEF Free, RetryNamed, RetrySeen
  <1>6. OneRetry'
    <2> SUFFICES ASSUME ~overtaken' PROVE OneRetry'
      BY DEF OneRetry
    <2>1. /\ \A x \in Jobs : retries[x] <= 1
          /\ \A q \in Requests : request[q].op = "enqueue" =>
               /\ retries[request[q].job] = 0
               /\ \A p \in Requests \ {q} : request[p].op = "enqueue" => request[p].job # request[q].job
      BY <1>3 DEF JobQueueInv, RetryInv, OneRetry
    <2>2. retries'[j] = 1
      BY <1>1, <1>4, <2>1 DEF j
    <2>3. \A q \in Requests \ {r} : request[q].op = "enqueue" => request[q].job \in Jobs \ {j}
      BY <1>1, <2>1 DEF j, JobQueueInv, RetryInv, RetryNamed
    <2> QED
      BY <1>3, <1>4, <1>5, <2>1, <2>2, <2>3 DEF OneRetry
  <1>7. \A x \in Jobs : retries'[x] > 0 => failedRow[x] = "retried"
    BY <1>2, <1>4 DEF JobQueueInv, RetryInv
  <1> QED
    BY <1>1, <1>3, <1>4, <1>5, <1>6, <1>7 DEF JobQueueInv, RetryInv

\* The retries under way end with the process.
LEMMA CrashRetries ==
  ASSUME JobQueueInv, Crash
  PROVE  RetryInv'
  <1>1. /\ request' = [r \in Requests |-> Free] /\ failedRow' = failedRow
        /\ retries' = retries /\ overtaken' = overtaken
    BY DEF Crash
  <1>2. Free.op = "free" /\ RetryNamed(Free, failedRow) /\ RetrySeen(Free, failedRow)
    BY DEF Free, RetryNamed, RetrySeen
  <1>3. AllRequests'
    BY <1>1, FreeIsRequest DEF AllRequests
  <1> QED
    BY <1>1, <1>2, <1>3 DEF JobQueueInv, RetryInv, OneRetry

-----------------------------------------------------------------------------
(* What a step leaves alone.                                               *)

LEMMA RetriesAlone ==
  ASSUME RetryInv, UNCHANGED <<failedRow, retries, handlerVars>>
  PROVE  RetryInv'
  <1>1. request' = request /\ overtaken' = overtaken /\ retries' = retries /\ failedRow' = failedRow
    BY DEF handlerVars
  <1> QED
    BY <1>1 DEF RetryInv, AllRequests, OneRetry

LEMMA QueueAlone ==
  ASSUME QueueInv, ToldInv, UNCHANGED <<queueVars, told>>,
         failedRow' \in [Jobs -> {"none", "failed", "retried"}],
         \A j \in Jobs : failedRow'[j] # "none" <=> failedRow[j] # "none"
  PROVE  QueueInv' /\ ToldInv'
  <1>1. job' = job /\ pending' = pending /\ worker' = worker /\ told' = told
    BY DEF queueVars
  <1>2. Holds(worker', pending', job', failedRow')
    BY <1>1, AtWork DEF QueueInv, Holds
  <1> QED
    BY <1>1, <1>2 DEF QueueInv, ToldInv, ToldFailureIsRecorded

LEMMA ToldAlone ==
  ASSUME ToldInv, FailuresStay, UNCHANGED <<told, failedRow>>
  PROVE  ToldInv'
  BY DEF ToldInv, ToldFailureIsRecorded, FailuresStay

LEMMA JobQueueInvInit == Init => JobQueueInv
  <1> SUFFICES ASSUME Init PROVE JobQueueInv
    OBVIOUS
  <1>1. NoJob \in QueuedJob
    BY DEF NoJob, QueuedJob, JobStatus
  <1>2. QueueInv
    BY <1>1 DEF Init, QueueInv, Waits, Holds, Worker, Idle
  <1>3. ToldInv
    BY DEF Init, ToldInv, ToldFailureIsRecorded
  <1>4. \A r \in Requests : request[r] = Free
    BY DEF Init, HandlersInit
  <1>5. Free.op = "free" /\ RetryNamed(Free, failedRow) /\ RetrySeen(Free, failedRow)
    BY DEF Free, RetryNamed, RetrySeen
  <1>6. AllRequests
    BY FreeIsRequest DEF Init, HandlersInit, AllRequests
  <1>7. RetryInv
    BY <1>4, <1>5, <1>6 DEF Init, RetryInv, OneRetry
  <1> QED
    BY <1>2, <1>3, <1>7 DEF JobQueueInv

LEMMA JobQueueInvStep ==
  ASSUME JobQueueInv, [Next]_vars
  PROVE  JobQueueInv'
  <1>1. CASE Submit
    <2>1. QueueInv' /\ FailuresStay
      BY <1>1, EnqueueKeeps DEF Submit
    <2> QED
      BY <1>1, <2>1, ToldAlone, RetriesAlone DEF JobQueueInv, Submit
  <1>2. CASE HandlerReturns
    <2>1. QueueInv' /\ FailuresStay
      BY <1>2, HandlerReturnsKeeps
    <2>2. ToldInv'
      BY <1>2, <2>1 DEF HandlerReturns, Told, JobQueueInv, ToldInv, ToldFailureIsRecorded, FailuresStay
    <2> QED
      BY <1>2, <2>1, <2>2, RetriesAlone DEF JobQueueInv, HandlerReturns
  <1>3. CASE HandlerThrows
    <2>1. QueueInv' /\ FailuresStay
      BY <1>3, HandlerThrowsKeeps
    <2> QED
      BY <1>3, <2>1, ToldAlone, RetriesAlone DEF JobQueueInv, HandlerThrows
  <1>4. CASE BackoffEnds
    <2>1. QueueInv' /\ FailuresStay
      BY <1>4, BackoffEndsKeeps
    <2> QED
      BY <1>4, <2>1, ToldAlone, RetriesAlone DEF JobQueueInv, BackoffEnds
  <1>5. CASE RecordFailure
    <2>1. QueueInv' /\ FailuresStay
      BY <1>5, RecordFailureKeeps
    <2>2. /\ worker.job \in Jobs /\ job[worker.job].status = "failed" /\ failedRow[worker.job] = "none"
          /\ failedRow' = [failedRow EXCEPT ![worker.job] = "failed"]
      BY <1>5, NotIdle, AtWork DEF RecordFailure, JobQueueInv, StatusAt
    <2>3. ToldInv'
      BY <1>5, <2>1, <2>2 DEF RecordFailure, Told, JobQueueInv, QueueInv, ToldInv, ToldFailureIsRecorded,
                              FailuresStay
    <2>4. RetryInv'
      BY <1>5, <2>2, RowIsNew DEF RecordFailure
    <2> QED
      BY <2>1, <2>3, <2>4 DEF JobQueueInv
  <1>6. CASE Crash
    <2>1. ToldInv'
      BY <1>6, CrashKeeps DEF Crash, JobQueueInv, ToldInv, ToldFailureIsRecorded
    <2> QED
      BY <1>6, <2>1, CrashKeeps, CrashRetries DEF JobQueueInv
  <1>7. ASSUME NEW r \in Requests, RetryRead(r) PROVE JobQueueInv'
    <2>1. QueueInv' /\ ToldInv'
      BY <1>7, QueueAlone DEF RetryRead, JobQueueInv, QueueInv
    <2> QED
      BY <1>7, <2>1, RetryReadKeeps DEF JobQueueInv
  <1>8. ASSUME NEW r \in Requests, RetryMark(r) PROVE JobQueueInv'
    <2>1. QueueInv' /\ ToldInv'
      BY <1>8, RetryMarkKeeps, QueueAlone DEF RetryMark, JobQueueInv
    <2> QED
      BY <1>8, <2>1, RetryMarkKeeps DEF JobQueueInv
  <1>9. ASSUME NEW r \in Requests, RetryEnqueue(r) PROVE JobQueueInv'
    <2>1. QueueInv' /\ FailuresStay
      BY <1>9, EnqueueKeeps DEF RetryEnqueue
    <2> QED
      BY <1>9, <2>1, ToldAlone, RetryEnqueueKeeps DEF JobQueueInv, RetryEnqueue
  <1>10. CASE UNCHANGED vars
    <2>1. QueueInv' /\ ToldInv'
      BY <1>10, QueueAlone DEF vars, JobQueueInv, QueueInv
    <2> QED
      BY <1>10, <2>1, RetriesAlone DEF vars, JobQueueInv
  <1> QED
    BY <1>1, <1>2, <1>3, <1>4, <1>5, <1>6, <1>7, <1>8, <1>9, <1>10 DEF Next, Works

LEMMA JobQueueInvariant == Spec => []JobQueueInv
  BY JobQueueInvInit, JobQueueInvStep, PTL DEF Spec

\* Whoever was told that a job failed finds its row, before and after a
\* restart, and a row stands for a job that failed: insertFailedJob comes
\* before the answer, and nothing takes a failed job up again.
THEOREM ToldFailuresRecorded == Spec => []ToldFailureIsRecorded
  <1>1. JobQueueInv => ToldFailureIsRecorded
    BY DEF JobQueueInv, ToldInv
  <1> QED
    BY <1>1, JobQueueInvariant, PTL

\* Of the operators who retry a failed job only one enqueues it, unless one
\* reads the row before another marks it and marks it after.
THEOREM RetriedAtMostOnce == Spec => []RetriedOnce
  <1>1. JobQueueInv => RetriedOnce
    BY DEF JobQueueInv, RetryInv, OneRetry, RetriedOnce
  <1> QED
    BY <1>1, JobQueueInvariant, PTL

=============================================================================
