------------------------------- MODULE JobQueue -------------------------------
(***************************************************************************)
(* The in-memory job queue of the backend (QUEUE-1): one worker takes the  *)
(* jobs in order, tries a failing one again after a backoff, and leaves a  *)
(* row of failed_jobs for the one it gives up, which an operator may retry *)
(* as a new job.  The queue does not survive the process; the rows do.     *)
(*                                                                         *)
(* A job that is enqueued while the worker rests is begun in the same turn *)
(* of the event loop, and so is the next one when a job is done.           *)
(***************************************************************************)
EXTENDS Naturals, Sequences, Handlers

CONSTANTS
  Jobs,        \* ids, each given to one enqueued job
  MaxAttempts, \* MAX_JOB_ATTEMPTS
  MaxCrashes,  \* bound: after this many the process stays up
  None

ASSUME JobQueueAssumption ==
  /\ MaxAttempts \in Nat \ {0}
  /\ MaxCrashes \in Nat
  /\ None \notin Jobs

VARIABLES
  job,      \* [Jobs -> JobRecord]
  pending,  \* Seq(Jobs)
  worker,   \* what pump is awaiting
  failedRow,\* [Jobs -> status of its row of failed_jobs]
  \* Ghosts.
  told,     \* [Jobs -> what the caller that waits for the job was answered]
  retries,  \* [Jobs -> Nat]: jobs enqueued by retries of its row
  crashes   \* Nat

queueVars == <<job, pending, worker>>
vars == <<queueVars, failedRow, told, retries, crashes, handlerVars>>

\* `lost' and `none' jobs are not in the map of the queue.
JobStatus == {"none", "queued", "active", "completed", "failed", "lost"}
JobRecord == [status : JobStatus, attempts : 0..MaxAttempts, wait : BOOLEAN]
NoJob == [status |-> "none", attempts |-> 0, wait |-> FALSE]

\* The handler runs, the backoff sleeps, or insertFailedJob is under way.
Worker == [at : {"handler", "backoff", "record"}, job : Jobs]
            \union {[at |-> "idle", job |-> None]}
Idle == [at |-> "idle", job |-> None]

\* A retry has read the row, or has marked it.
Retry == [op : {"mark", "enqueue"}, reads : SUBSET Jobs, fresh : BOOLEAN, job : Jobs]

Init ==
  /\ job = [j \in Jobs |-> NoJob]
  /\ pending = <<>>
  /\ worker = Idle
  /\ failedRow = [j \in Jobs |-> "none"]
  /\ told = [j \in Jobs |-> "nothing"]
  /\ retries = [j \in Jobs |-> 0]
  /\ crashes = 0
  /\ HandlersInit

-----------------------------------------------------------------------------
(* The worker.                                                             *)

\* pump, from where a job is done, or was added while it rested: the oldest
\* pending job is begun (runOne, up to its handler).
Pump(records, queue) ==
  IF queue = <<>>
  THEN job' = records /\ pending' = queue /\ worker' = Idle
  ELSE /\ job' = [records EXCEPT ![Head(queue)].status = "active", ![Head(queue)].attempts = @ + 1]
       /\ pending' = Tail(queue)
       /\ worker' = [at |-> "handler", job |-> Head(queue)]

\* enqueue; `wait' keeps the caller until the job is done.
Enqueue(j, wait) ==
  /\ job[j].status = "none"
  /\ LET records == [job EXCEPT ![j] = [status |-> "queued", attempts |-> 0, wait |-> wait]] IN
     IF worker = Idle
     THEN Pump(records, Append(pending, j))
     ELSE job' = records /\ pending' = Append(pending, j) /\ UNCHANGED worker

\* A route, a timer or a domain event enqueues a job.
Submit ==
  /\ \E j \in Jobs, wait \in BOOLEAN : Enqueue(j, wait)
  /\ UNCHANGED <<failedRow, told, retries, crashes, handlerVars>>

\* The caller that waits for j is answered with the job's status.
Told(j, status) ==
  told' = IF job[j].wait THEN [told EXCEPT ![j] = status] ELSE told

HandlerReturns ==
  /\ worker.at = "handler"
  /\ Pump([job EXCEPT ![worker.job].status = "completed"], pending)
  /\ Told(worker.job, "completed")
  /\ UNCHANGED <<failedRow, retries, crashes, handlerVars>>

\* The handler throws: the worker itself sleeps through the backoff of a
\* job that has attempts left, and records the failure of another.
HandlerThrows ==
  /\ worker.at = "handler"
  /\ LET again == job[worker.job].attempts < MaxAttempts IN
       /\ job' = [job EXCEPT ![worker.job].status = IF again THEN "queued" ELSE "failed"]
       /\ worker' = [worker EXCEPT !.at = IF again THEN "backoff" ELSE "record"]
  /\ UNCHANGED <<pending, failedRow, told, retries, crashes, handlerVars>>

\* (mutation: the job is not put back)
BackoffEndsEmpty ==
  /\ worker.at = "backoff"
  /\ Pump(job, pending)
  /\ UNCHANGED <<failedRow, told, retries, crashes, handlerVars>>

\* The job goes to the end of the queue.
BackoffEnds ==
  /\ worker.at = "backoff"
  /\ Pump(job, Append(pending, worker.job))
  /\ UNCHANGED <<failedRow, told, retries, crashes, handlerVars>>

\* (mutation: the caller is answered, and the row written by whoever comes next)
RecordFailureLate ==
  /\ worker.at = "record"
  /\ Pump(job, pending)
  /\ Told(worker.job, "failed")
  /\ UNCHANGED <<failedRow, retries, crashes, handlerVars>>

\* failJob: the row first, then the answer.
RecordFailure ==
  /\ worker.at = "record"
  /\ failedRow' = [failedRow EXCEPT ![worker.job] = "failed"]
  /\ Pump(job, pending)
  /\ Told(worker.job, "failed")
  /\ UNCHANGED <<retries, crashes, handlerVars>>

Unrecorded(j) == worker.at = "record" /\ worker.job = j

\* The process ends and starts again: it is stopped, or insertFailedJob is
\* rejected, which nobody catches.  What the queue held is gone, and with it
\* the callers that waited and the retries under way.
Crash ==
  /\ crashes < MaxCrashes
  /\ crashes' = crashes + 1
  /\ job' = [j \in Jobs |-> IF job[j].status \in {"queued", "active"} \/ Unrecorded(j)
                            THEN [job[j] EXCEPT !.status = "lost"] ELSE job[j]]
  /\ pending' = <<>>
  /\ worker' = Idle
  /\ request' = [r \in Requests |-> Free]
  /\ UNCHANGED <<failedRow, told, retries, overtaken, cut>>

-----------------------------------------------------------------------------
(* Retry of a failed job by an operator (retryFailedJob).                  *)

\* (mutation: a row that was retried may be retried again)
RetryReadAny(r) ==
  /\ \E j \in Jobs :
       /\ failedRow[j] # "none"
       /\ Begins(r, [op |-> "mark", reads |-> {j}, fresh |-> TRUE, job |-> j])
  /\ UNCHANGED <<queueVars, failedRow, told, retries, crashes>>

RetryRead(r) ==
  /\ \E j \in Jobs :
       /\ failedRow[j] = "failed"
       /\ Begins(r, [op |-> "mark", reads |-> {j}, fresh |-> TRUE, job |-> j])
  /\ UNCHANGED <<queueVars, failedRow, told, retries, crashes>>

RetryMark(r) ==
  /\ request[r].op = "mark"
  /\ failedRow' = [failedRow EXCEPT ![request[r].job] = "retried"]
  /\ Wrote(r, {request[r].job}, [request[r] EXCEPT !.op = "enqueue", !.reads = {}])
  /\ UNCHANGED <<queueVars, told, retries, crashes>>

RetryEnqueue(r) ==
  /\ request[r].op = "enqueue"
  /\ \E j \in Jobs : Enqueue(j, FALSE)
  /\ retries' = [retries EXCEPT ![request[r].job] = @ + 1]
  /\ Goes(r, Free)
  /\ UNCHANGED <<failedRow, told, crashes>>

-----------------------------------------------------------------------------
Works == HandlerReturns \/ HandlerThrows \/ BackoffEnds \/ RecordFailure

Next ==
  \/ Submit
  \/ Works
  \/ Crash
  \/ \E r \in Requests : RetryRead(r) \/ RetryMark(r) \/ RetryEnqueue(r)

Spec == Init /\ [][Next]_vars

\* A handler ends, a backoff ends and a row is stored or the process ends:
\* the event loop runs what is due.
FairSpec == Spec /\ WF_vars(Works)

-----------------------------------------------------------------------------
(* Properties.                                                             *)

TypeOK ==
  /\ job \in [Jobs -> JobRecord]
  /\ pending \in Seq(Jobs)
  /\ worker \in Worker
  /\ failedRow \in [Jobs -> {"none", "failed", "retried"}]
  /\ told \in [Jobs -> {"nothing", "completed", "failed"}]
  /\ retries \in [Jobs -> Nat]
  /\ crashes \in Nat
  /\ request \in [Requests -> {Free} \union Retry]

\* Through retries, backoffs that requeue and handlers that always throw,
\* a job that the process lives to work on is completed or given up, and a
\* caller that waits for it is answered.
JobConcludes ==
  \A j \in Jobs :
    job[j].status \in {"queued", "active"} ~>
      \/ job[j].status = "lost"
      \/ job[j].status \in {"completed", "failed"} /\ (job[j].wait => told[j] = job[j].status)

\* A caller that was told of a failure, before or after a crash, finds the
\* row an operator can retry, and the row stands for a job that failed.
ToldFailureIsRecorded ==
  \A j \in Jobs :
    /\ told[j] = "failed" => failedRow[j] # "none"
    /\ failedRow[j] # "none" => job[j].status = "failed"

\* Unless two operators retry a failed job between the read of one and its
\* mark, the job is enqueued at most once for its row; never before the row
\* is marked.
RetriedOnce ==
  \A j \in Jobs :
    /\ ~overtaken => retries[j] <= 1
    /\ retries[j] > 0 => failedRow[j] = "retried"

=============================================================================
