----------------------------- MODULE Settlement -----------------------------
(***************************************************************************)
(* Settlement batches of one mine: the close jobs that calculate them, the *)
(* dual approval and lock (GOV-WORKFLOW-1), the operator's bank commands,  *)
(* the payment holds of missions, and the automatic payout job             *)
(* (BANK-AUTO-1) that pays a locked batch line by line.                    *)
(*                                                                         *)
(* Every HTTP handler reads the rows it checks and, after an await, writes *)
(* without checking again.  A handler is therefore two or three actions:   *)
(* the read, which puts what it read into `requests', and the write.  Jobs *)
(* run one at a time in the single worker of the in-memory queue; each     *)
(* await of the payout job is a control point of `worker'.                 *)
(*                                                                         *)
(* One period of each kind and one cooperative are modelled.  A line is a  *)
(* batch and an item: the mission it pays, or the household whose share of *)
(* the community pool it pays.                                             *)
(***************************************************************************)
EXTENDS Naturals, Sequences, FiniteSets

CONSTANTS
  Batches,      \* ids of the settlement_batches rows that may be created
  Missions,     \* verified missions of the period
  Households,   \* households the community pool is distributed to
  Payable,      \* items whose payee has an IBAN on file
  CoopAdmins,   \* users with role COOP_ADMIN
  OpAdmins,     \* users with role OPERATION_ADMIN
  MaxAttempts,  \* MAX_JOB_ATTEMPTS of the queue
  MaxInFlight,  \* bound: admin requests between their read and their write
  MaxFaults,    \* bound: transient faults of jobs and operator retries
  MaxCrashes,   \* bound: restarts of the backend
  BankAuto,     \* isBankAutoEnabled(): a bank adapter is configured
  None          \* a value that is no user, batch or item

Items == Missions \union Households
Lines == Batches \X Items
Users == CoopAdmins \union OpAdmins
Roles == {"COOP_ADMIN", "OPERATION_ADMIN"}

ASSUME SettlementAssumption ==
  /\ Missions \intersect Households = {}
  /\ CoopAdmins \intersect OpAdmins = {}
  /\ Payable \subseteq Items
  /\ IsFiniteSet(Items)
  /\ None \notin Batches \union Items \union Users
  /\ BankAuto \in BOOLEAN
  /\ MaxAttempts \in Nat \ {0}
  /\ {MaxInFlight, MaxFaults, MaxCrashes} \subseteq Nat

VARIABLES
  status,     \* [Batches -> BatchStatus]
  kind,       \* [Batches -> Kinds]: batch_type, with the period it is for
  items,      \* [Batches -> SUBSET Items]: settlement_lines
  approval,   \* [Batches -> [Roles -> user or None]]: settlement_batch_approvals
  statement,  \* the period statement: the batch it is linked to, its status
  pool,       \* the community pool of the period
  mission,    \* [Missions -> status]
  payment,    \* [Missions -> payment_state]
  payout,     \* [Lines -> PayoutStatus]: payment_payouts, one row a line
  manual,     \* lines whose payout row was inserted by markBatchPaid
  requests,   \* admin requests that have read and not yet written
  queue,      \* pending execute-payouts jobs
  worker,     \* the job the queue's worker is running
  failedJobs, \* batches with a retryable row in failed_jobs
  bank,       \* [Lines -> Nat]: transfers the bank accepted
  faults, crashes

batchVars == <<status, kind, items, approval, statement, pool>>
paymentVars == <<mission, payment, payout, manual, bank>>
jobVars == <<queue, worker, failedJobs>>
bounds == <<faults, crashes>>
vars == <<batchVars, paymentVars, requests, jobVars, bounds>>

\* "NONE": no such row.  CANCELLED, LOCKED and PAID are never written.
BatchStatus == {"NONE", "DRAFT", "CALCULATED", "READY_FOR_SETTLEMENT",
                "IN_BANK_QUEUE", "SETTLED", "FAILED", "MANUAL_REVIEW"}
\* CUSTOM: a COMBINED_LEGACY draft whose period_start is nobody else's.
Kinds == {"COMBINED_LEGACY", "OWNER_WEEKLY", "HOUSEHOLD_MONTHLY", "CUSTOM"}
PayoutStatus == {"NONE", "PROCESSING", "COMPLETED", "FAILED"}

Idle == [pc |-> "idle", kind |-> "CUSTOM", batch |-> None, attempts |-> 0,
         lines |-> {}, todo |-> {}, item |-> None, seen |-> "NONE",
         done |-> {}, failed |-> FALSE]

Live(b) == status[b] \notin {"NONE", "FAILED"}
Payees(S) == S \intersect Payable
RoleOf(u) == IF u \in CoopAdmins THEN "COOP_ADMIN" ELSE "OPERATION_ADMIN"

Init ==
  /\ status = [b \in Batches |-> "NONE"]
  /\ kind = [b \in Batches |-> "CUSTOM"]
  /\ items = [b \in Batches |-> {}]
  /\ approval = [b \in Batches |-> [r \in Roles |-> None]]
  /\ statement = [batch |-> None, status |-> "NONE"]
  /\ pool \in IF Households = {} THEN {"NONE"} ELSE {"NONE", "OPEN"}
  /\ mission = [m \in Missions |-> "VERIFIED"]
  /\ payment = [m \in Missions |-> "DISTRIBUTED"]
  /\ payout = [l \in Lines |-> "NONE"]
  /\ manual = {}
  /\ requests = {}
  /\ queue = <<>>
  /\ worker = Idle
  /\ failedJobs = {}
  /\ bank = [l \in Lines |-> 0]
  /\ faults = 0
  /\ crashes = 0

-----------------------------------------------------------------------------
(* Close jobs: monthly-close and the two of the daily cycle.               *)

\* findExistingBatch: a live batch of this type and period.
HasLiveBatch(k) == \E b \in Batches : Live(b) /\ kind[b] = k

\* missionEligibleForSettlementWhere, and in no live batch: of any kind for
\* the monthly close, of kind OWNER_WEEKLY only for the weekly one.
Eligible(k) ==
  {m \in Missions :
     /\ mission[m] = "VERIFIED"
     /\ payment[m] \notin {"HELD", "FAILED"}
     /\ \A b \in Batches :
          Live(b) /\ (k = "OWNER_WEEKLY" => kind[b] = k) => m \notin items[b]}

\* Bound: the rows not yet created; a close in progress keeps one of them.
Spare == {b \in Batches : status[b] = "NONE"}
Reserved == IF worker.pc = "create" THEN 1 ELSE 0

CloseWith(k, S) ==
  worker' = [Idle EXCEPT !.pc = "create", !.kind = k, !.lines = S]

MonthlyCloseRead ==
  /\ worker.pc = "idle"
  /\ Spare # {}
  /\ ~HasLiveBatch("COMBINED_LEGACY")
  /\ CloseWith("COMBINED_LEGACY", Eligible("COMBINED_LEGACY"))
  /\ UNCHANGED <<batchVars, paymentVars, requests, queue, failedJobs, bounds>>

OwnerWeeklyCloseRead ==
  /\ worker.pc = "idle"
  /\ Spare # {}
  /\ ~HasLiveBatch("OWNER_WEEKLY")
  /\ Eligible("OWNER_WEEKLY") # {}
  /\ CloseWith("OWNER_WEEKLY", Eligible("OWNER_WEEKLY"))
  /\ UNCHANGED <<batchVars, paymentVars, requests, queue, failedJobs, bounds>>

\* Distributes the pool first if the monthly close has not.
HouseholdMonthlyCloseRead ==
  /\ worker.pc = "idle"
  /\ Spare # {}
  /\ ~HasLiveBatch("HOUSEHOLD_MONTHLY")
  /\ pool # "NONE"
  /\ pool' = "DISTRIBUTED"
  /\ CloseWith("HOUSEHOLD_MONTHLY", {})
  /\ UNCHANGED <<status, kind, items, approval, statement, paymentVars,
                 requests, queue, failedJobs, bounds>>

AddBatch(b, s, k, S) ==
  /\ status[b] = "NONE"
  /\ status' = [status EXCEPT ![b] = s]
  /\ kind' = [kind EXCEPT ![b] = k]
  /\ items' = [items EXCEPT ![b] = S]
  /\ UNCHANGED <<approval, statement, pool>>

\* appendPoolDistributionLines begins.
Appending(b) == [worker EXCEPT !.pc = "append", !.batch = b, !.todo = Households]

CloseCreate(b) ==
  /\ worker.pc = "create"
  /\ AddBatch(b, "CALCULATED", worker.kind, worker.lines)
  /\ worker' = CASE worker.kind = "COMBINED_LEGACY" -> [worker EXCEPT !.pc = "pool", !.batch = b]
                 [] worker.kind = "HOUSEHOLD_MONTHLY" -> Appending(b)
                 [] OTHER -> Idle
  /\ UNCHANGED <<paymentVars, requests, queue, failedJobs, bounds>>

\* distributePool refuses a distributed pool, and then no line is appended.
MonthlyClosePool ==
  /\ worker.pc = "pool"
  /\ pool' = IF pool = "OPEN" THEN "DISTRIBUTED" ELSE pool
  /\ worker' = IF pool = "OPEN" THEN Appending(worker.batch)
                                ELSE [worker EXCEPT !.pc = "statement"]
  /\ UNCHANGED <<status, kind, items, approval, statement, paymentVars, requests,
                 queue, failedJobs, bounds>>

\* The lines of the pool are inserted one by one, in no transaction.
ClosePoolLine(h) ==
  LET left == worker.todo \ {h} IN
  /\ worker.pc = "append"
  /\ h \in worker.todo
  /\ items' = [items EXCEPT ![worker.batch] = @ \union {h}]
  /\ worker' = CASE left # {} -> [worker EXCEPT !.todo = left]
                 [] left = {} /\ worker.kind = "COMBINED_LEGACY" ->
                      [worker EXCEPT !.pc = "statement", !.todo = {}]
                 [] OTHER -> Idle
  /\ UNCHANGED <<status, kind, approval, statement, pool, paymentVars, requests,
                 queue, failedJobs, bounds>>

\* createPeriodStatementDraft keeps an existing statement of the period, and
\* with it the batch that statement is linked to.
MonthlyCloseStatement ==
  /\ worker.pc = "statement"
  /\ statement' = IF statement.status = "NONE"
                  THEN [batch |-> worker.batch, status |-> "OPEN"]
                  ELSE statement
  /\ worker' = Idle
  /\ UNCHANGED <<status, kind, items, approval, pool, paymentVars, requests,
                 queue, failedJobs, bounds>>

\* POST /settlement/batches: the operator lists the lines.
CreateDraft(b) ==
  /\ Cardinality(Spare) > Reserved
  /\ \E k \in {"COMBINED_LEGACY", "CUSTOM"}, S \in SUBSET Items :
       S # {} /\ AddBatch(b, "DRAFT", k, S)
  /\ UNCHANGED <<paymentVars, requests, jobVars, bounds>>

\* The review of the period statement up to its lock.
LockPeriodStatement ==
  /\ statement.status = "OPEN"
  /\ statement' = [statement EXCEPT !.status = "LOCKED"]
  /\ UNCHANGED <<status, kind, items, approval, pool, paymentVars, requests,
                 jobVars, bounds>>

RegisterMinePayment ==
  /\ statement.status = "LOCKED"
  /\ statement' = [statement EXCEPT !.status = "PAID"]
  /\ UNCHANGED <<status, kind, items, approval, pool, paymentVars, requests,
                 jobVars, bounds>>

-----------------------------------------------------------------------------
(* Admin requests.  A Read action checks the rows and admits the request;  *)
(* the Write action of the same name ends it.                              *)

Request(op, b, u, S) == [op |-> op, batch |-> b, user |-> u, lines |-> S]

Admit(r) ==
  /\ Cardinality(requests) < MaxInFlight
  /\ requests' = requests \union {r}

ReadOnly == UNCHANGED <<batchVars, paymentVars, jobVars, bounds>>

SetStatus(b, s) ==
  /\ status' = [status EXCEPT ![b] = s]
  /\ UNCHANGED <<kind, items, approval, statement, pool>>

ApproveRead(b, u) ==
  /\ status[b] \in {"CALCULATED", "DRAFT"}
  /\ Admit(Request("approve", b, u, {}))
  /\ ReadOnly

\* The upsert replaces an earlier approval of the same role.
ApproveWrite(r) ==
  /\ r.op = "approve"
  /\ requests' = requests \ {r}
  /\ approval' = [approval EXCEPT ![r.batch][RoleOf(r.user)] = r.user]
  /\ UNCHANGED <<status, kind, items, statement, pool, paymentVars, jobVars, bounds>>

\* (mutation: one role is enough)
HasAnyApproval(b) == \E role \in Roles : approval[b][role] # None

\* hasAllSettlementApprovals
HasAllApprovals(b) == \A role \in Roles : approval[b][role] # None

\* Only a LOCKED statement of this very batch is asked for its payment.
MinePaymentMissing(b) == statement = [batch |-> b, status |-> "LOCKED"]

LockRead(b, u) ==
  /\ status[b] \in {"CALCULATED", "DRAFT"}
  /\ HasAllApprovals(b)
  /\ \A role \in Roles : approval[b][role] # u
  /\ ~MinePaymentMissing(b)
  /\ Admit(Request("lock", b, u, {}))
  /\ ReadOnly

\* The route enqueues execute-payouts when the lock has succeeded.
LockWrite(r) ==
  /\ r.op = "lock"
  /\ requests' = requests \ {r}
  /\ SetStatus(r.batch, "READY_FOR_SETTLEMENT")
  /\ queue' = IF BankAuto THEN Append(queue, [batch |-> r.batch, attempts |-> 0])
                          ELSE queue
  /\ UNCHANGED <<paymentVars, worker, failedJobs, bounds>>

SendToBankRead(b, u) ==
  /\ status[b] = "READY_FOR_SETTLEMENT"
  /\ Admit(Request("send", b, u, {}))
  /\ ReadOnly

SendToBankWrite(r) ==
  /\ r.op = "send"
  /\ requests' = requests \ {r}
  /\ SetStatus(r.batch, "IN_BANK_QUEUE")
  /\ UNCHANGED <<paymentVars, jobVars, bounds>>

MarkPaidRead(b, u) ==
  /\ status[b] = "IN_BANK_QUEUE"
  /\ Admit(Request("pay", b, u, {}))
  /\ ReadOnly

\* The transaction reads the lines and finds every mission VERIFIED; when one
\* is not, mission_settle_failed ends the request.
MarkPaidVerify(r) ==
  LET S == items[r.batch] IN
  /\ r.op = "pay"
  /\ requests' =
       (requests \ {r}) \union
         IF \A m \in S \intersect Missions : mission[m] = "VERIFIED"
         THEN {[r EXCEPT !.op = "commit", !.lines = S]}
         ELSE {}
  /\ ReadOnly

\* (mutation: the status of the mission is forgotten)
SettlePaymentOnly(S) ==
  /\ UNCHANGED mission
  /\ payment' = [m \in Missions |-> IF m \in S THEN "SETTLED" ELSE payment[m]]

\* settleVerifiedMission, whose read is MarkPaidVerify or JobSettleRead.  The
\* hold on a payment is not looked at.
SettleMissions(S) ==
  /\ mission' = [m \in Missions |-> IF m \in S THEN "SETTLED" ELSE mission[m]]
  /\ payment' = [m \in Missions |-> IF m \in S THEN "SETTLED" ELSE payment[m]]

\* (mutation: the rows are deleted and not inserted again)
ReplacedRowsWithoutInsert(b, S) ==
  [l \in Lines |-> IF l[1] = b THEN "NONE" ELSE payout[l]]

\* Deletes the payout rows of the batch and inserts a COMPLETED one a line.
ReplacedRows(b, S) ==
  [l \in Lines |-> IF l[1] # b THEN payout[l]
                  ELSE IF l[2] \in S THEN "COMPLETED" ELSE "NONE"]

\* The transaction cannot delete a payout row that the job's open transaction
\* has updated.
MarkPaidCommit(r) ==
  /\ r.op = "commit"
  /\ ~(worker.pc = "commit" /\ worker.batch = r.batch)
  /\ requests' = requests \ {r}
  /\ SetStatus(r.batch, "SETTLED")
  /\ SettleMissions(r.lines)
  /\ payout' = ReplacedRows(r.batch, r.lines)
  /\ manual' = {l \in Lines : IF l[1] = r.batch THEN l[2] \in r.lines ELSE l \in manual}
  /\ UNCHANGED <<bank, jobVars, bounds>>

MarkFailedRead(b, u) ==
  /\ status[b] \in {"IN_BANK_QUEUE", "READY_FOR_SETTLEMENT"}
  /\ Admit(Request("fail", b, u, {}))
  /\ ReadOnly

MarkFailedWrite(r) ==
  /\ r.op = "fail"
  /\ requests' = requests \ {r}
  /\ SetStatus(r.batch, "FAILED")
  /\ UNCHANGED <<paymentVars, jobVars, bounds>>

\* holdMissionPayment, releaseMissionPayment and reverseMissionPayment (within
\* its time window) read the mission; the request carries it in `lines'.
PaymentRead(op, m) ==
  /\ CASE op = "hold"    -> payment[m] # "SETTLED"
       [] op = "release" -> payment[m] = "HELD"
       [] op = "reverse" -> mission[m] # "SETTLED" /\ payment[m] # "SETTLED"
  /\ Admit(Request(op, None, None, {m}))
  /\ ReadOnly

\* The payment_state each of the three commands writes.
PaymentAfter == [hold |-> "HELD", release |-> "DISTRIBUTED", reverse |-> "FAILED"]

PaymentWrite(r) ==
  /\ r.op \in DOMAIN PaymentAfter
  /\ requests' = requests \ {r}
  /\ payment' = [m \in Missions |-> IF m \in r.lines THEN PaymentAfter[r.op]
                                                   ELSE payment[m]]
  /\ UNCHANGED <<batchVars, mission, payout, manual, bank, jobVars, bounds>>

\* The handler throws, or PostgreSQL aborts its transaction.
RequestAborts(r) ==
  /\ requests' = requests \ {r}
  /\ ReadOnly

-----------------------------------------------------------------------------
(* The execute-payouts job.                                                *)

TakeJob ==
  /\ worker.pc = "idle"
  /\ queue # <<>>
  /\ worker' = [Idle EXCEPT !.pc = "start", !.batch = Head(queue).batch,
                            !.attempts = Head(queue).attempts + 1]
  /\ queue' = Tail(queue)
  /\ UNCHANGED <<batchVars, paymentVars, requests, failedJobs, bounds>>

\* The handler throws: the job goes back to the queue, or after its last
\* attempt into failed_jobs.  A close job is started again by its close.
JobFails ==
  /\ worker' = Idle
  /\ IF worker.attempts = 0
     THEN UNCHANGED <<queue, failedJobs>>
     ELSE IF worker.attempts < MaxAttempts
     THEN /\ queue' = Append(queue, [batch |-> worker.batch, attempts |-> worker.attempts])
          /\ UNCHANGED failedJobs
     ELSE /\ failedJobs' = failedJobs \union {worker.batch}
          /\ UNCHANGED queue

\* The job's own read of the batch ...
JobStart ==
  /\ worker.pc = "start"
  /\ CASE status[worker.batch] = "READY_FOR_SETTLEMENT" ->
            /\ worker' = [worker EXCEPT !.pc = "check"]
            /\ UNCHANGED <<queue, failedJobs>>
       [] status[worker.batch] = "IN_BANK_QUEUE" ->
            /\ worker' = [worker EXCEPT !.pc = "load"]
            /\ UNCHANGED <<queue, failedJobs>>
       [] OTHER -> JobFails
  /\ UNCHANGED <<batchVars, paymentVars, requests, bounds>>

\* ... and the one of sendToBank.
JobSendToBankRead ==
  /\ worker.pc = "check"
  /\ IF status[worker.batch] = "READY_FOR_SETTLEMENT"
     THEN worker' = [worker EXCEPT !.pc = "send"] /\ UNCHANGED <<queue, failedJobs>>
     ELSE JobFails
  /\ UNCHANGED <<batchVars, paymentVars, requests, bounds>>

JobSendToBank ==
  /\ worker.pc = "send"
  /\ SetStatus(worker.batch, "IN_BANK_QUEUE")
  /\ worker' = [worker EXCEPT !.pc = "load"]
  /\ UNCHANGED <<paymentVars, requests, queue, failedJobs, bounds>>

JobLoadLines ==
  /\ worker.pc = "load"
  /\ worker' = [worker EXCEPT !.pc = "line", !.lines = items[worker.batch],
                              !.todo = items[worker.batch]]
  /\ UNCHANGED <<batchVars, paymentVars, requests, queue, failedJobs, bounds>>

Line == <<worker.batch, worker.item>>

\* Lines already decided and lines without an IBAN are passed over.
JobReadPayout(i) ==
  LET p == payout[<<worker.batch, i>>]
      passed == [worker EXCEPT !.todo = @ \ {i}]
  IN
  /\ worker.pc = "line"
  /\ i \in worker.todo
  /\ worker' = CASE p = "COMPLETED"  -> [passed EXCEPT !.done = @ \union {i}]
                 [] p = "FAILED"     -> [passed EXCEPT !.failed = TRUE]
                 [] p \notin {"COMPLETED", "FAILED"} /\ i \notin Payable -> passed
                 [] OTHER -> [worker EXCEPT !.pc = "mark", !.item = i, !.seen = p]
  /\ UNCHANGED <<batchVars, paymentVars, requests, queue, failedJobs, bounds>>

\* (mutation: the row is upserted whatever has happened to it)
RowAnyhow == TRUE

\* The payout row is still the one that JobReadPayout read.
RowAsRead == payout[Line] = worker.seen

\* Inserts the row, or updates the PROCESSING row it read by id: either fails
\* when markBatchPaid has replaced the rows of the batch since.
JobMarkProcessing ==
  /\ worker.pc = "mark"
  /\ IF RowAsRead
     THEN /\ payout' = [payout EXCEPT ![Line] = "PROCESSING"]
          /\ worker' = [worker EXCEPT !.pc = "bank"]
          /\ UNCHANGED <<queue, failedJobs>>
     ELSE JobFails /\ UNCHANGED payout
  /\ UNCHANGED <<batchVars, mission, payment, manual, bank, requests, bounds>>

BankAccepts ==
  /\ worker.pc = "bank"
  /\ bank' = [bank EXCEPT ![Line] = @ + 1]
  /\ worker' = [worker EXCEPT !.pc = "settle"]
  /\ UNCHANGED <<batchVars, mission, payment, payout, manual, requests, queue,
                 failedJobs, bounds>>

\* (mutation: the answer of the bank is not looked at)
BankRejectsUnread ==
  /\ worker.pc = "bank"
  /\ worker' = [worker EXCEPT !.pc = "settle"]
  /\ UNCHANGED <<batchVars, paymentVars, requests, queue, failedJobs, bounds>>

\* The adapter answers with a failure, which ends the line and not the job.
BankRejects ==
  /\ worker.pc = "bank"
  /\ worker' = [worker EXCEPT !.pc = "reject"]
  /\ UNCHANGED <<batchVars, paymentVars, requests, queue, failedJobs, bounds>>

\* In the transaction: the row is updated by id, then the mission is read.
JobSettleRead ==
  /\ worker.pc = "settle"
  /\ IF /\ payout[Line] = "PROCESSING"
        /\ worker.item \in Missions => mission[worker.item] = "VERIFIED"
     THEN /\ worker' = [worker EXCEPT !.pc = "commit"]
          /\ UNCHANGED <<queue, failedJobs>>
     ELSE JobFails
  /\ UNCHANGED <<batchVars, paymentVars, requests, bounds>>

NextLine == [worker EXCEPT !.pc = "line", !.todo = @ \ {worker.item},
                           !.item = None, !.seen = "NONE"]

JobSettleCommit ==
  /\ worker.pc = "commit"
  /\ payout' = [payout EXCEPT ![Line] = "COMPLETED"]
  /\ SettleMissions({worker.item})
  /\ worker' = [NextLine EXCEPT !.done = @ \union {worker.item}]
  /\ UNCHANGED <<batchVars, manual, bank, requests, queue, failedJobs, bounds>>

JobRecordReject ==
  /\ worker.pc = "reject"
  /\ IF payout[Line] = "PROCESSING"
     THEN /\ payout' = [payout EXCEPT ![Line] = "FAILED"]
          /\ worker' = [NextLine EXCEPT !.failed = TRUE]
          /\ UNCHANGED <<queue, failedJobs>>
     ELSE JobFails /\ UNCHANGED payout
  /\ UNCHANGED <<batchVars, mission, payment, manual, bank, requests, bounds>>

\* (mutation: one paid line settles the batch)
OutcomeByCount ==
  IF /\ Payees(worker.lines) # {}
     /\ worker.done # {}
  THEN "SETTLED"
  ELSE status[worker.batch]

\* (mutation: a rejected line does not send the batch to review)
OutcomeWithoutReview ==
  IF /\ Payees(worker.lines) # {}
     /\ Cardinality(worker.done) >= Cardinality(Payees(worker.lines))
  THEN "SETTLED"
  ELSE status[worker.batch]

\* The outcome of the batch, written over whatever its status is by now.
Outcome ==
  IF worker.failed THEN "MANUAL_REVIEW"
  ELSE IF /\ Payees(worker.lines) # {}
          /\ Cardinality(worker.done) >= Cardinality(Payees(worker.lines))
  THEN "SETTLED"
  ELSE status[worker.batch]

JobFinish ==
  /\ worker.pc = "line"
  /\ worker.todo = {}
  /\ SetStatus(worker.batch, Outcome)
  /\ worker' = [worker EXCEPT !.pc = "publish"]
  /\ UNCHANGED <<paymentVars, requests, queue, failedJobs, bounds>>

JobEnds ==
  /\ worker.pc = "publish"
  /\ worker' = Idle
  /\ UNCHANGED <<batchVars, paymentVars, requests, queue, failedJobs, bounds>>

\* A query, the bank call or publishEvent throws; an open transaction of the
\* job is rolled back.
JobFault ==
  /\ worker.pc # "idle"
  /\ faults < MaxFaults
  /\ faults' = faults + 1
  /\ JobFails
  /\ UNCHANGED <<batchVars, paymentVars, requests, crashes>>

\* retryFailedJob: the operator puts a failed job back with fresh attempts.
RetryFailedJob(b) ==
  /\ b \in failedJobs
  /\ faults < MaxFaults
  /\ faults' = faults + 1
  /\ failedJobs' = failedJobs \ {b}
  /\ queue' = Append(queue, [batch |-> b, attempts |-> 0])
  /\ UNCHANGED <<batchVars, paymentVars, requests, worker, crashes>>

\* The queue and everything in flight live in memory only.
Crash ==
  /\ crashes < MaxCrashes
  /\ crashes' = crashes + 1
  /\ requests' = {}
  /\ queue' = <<>>
  /\ worker' = Idle
  /\ UNCHANGED <<batchVars, paymentVars, failedJobs, faults>>

-----------------------------------------------------------------------------

CloseJobStep ==
  \/ \E b \in Batches : CloseCreate(b)
  \/ MonthlyClosePool \/ MonthlyCloseStatement
  \/ \E h \in Households : ClosePoolLine(h)

CloseJob ==
  \/ MonthlyCloseRead \/ OwnerWeeklyCloseRead \/ HouseholdMonthlyCloseRead
  \/ CloseJobStep

AdminRequest ==
  \/ \E b \in Batches, u \in Users : ApproveRead(b, u)
  \/ \E b \in Batches, u \in OpAdmins :
       \/ LockRead(b, u) \/ SendToBankRead(b, u)
       \/ MarkPaidRead(b, u) \/ MarkFailedRead(b, u)
  \/ \E m \in Missions, op \in DOMAIN PaymentAfter : PaymentRead(op, m)
  \/ \E r \in requests :
       \/ ApproveWrite(r) \/ LockWrite(r) \/ SendToBankWrite(r)
       \/ MarkPaidVerify(r) \/ MarkPaidCommit(r) \/ MarkFailedWrite(r)
       \/ PaymentWrite(r) \/ RequestAborts(r)

PayoutJob ==
  \/ TakeJob \/ JobStart \/ JobSendToBankRead \/ JobSendToBank \/ JobLoadLines
  \/ \E i \in Items : JobReadPayout(i)
  \/ JobMarkProcessing \/ BankAccepts \/ BankRejects
  \/ JobSettleRead \/ JobSettleCommit \/ JobRecordReject
  \/ JobFinish \/ JobEnds

Next ==
  \/ CloseJob \/ AdminRequest \/ PayoutJob
  \/ \E b \in Batches : CreateDraft(b) \/ RetryFailedJob(b)
  \/ LockPeriodStatement \/ RegisterMinePayment
  \/ JobFault \/ Crash

\* The worker runs as long as the process does.  Operators owe nothing.
Worker == PayoutJob \/ CloseJobStep

Spec == Init /\ [][Next]_vars
FairSpec == Spec /\ WF_vars(Worker)

-----------------------------------------------------------------------------
(* Properties.  Household lines are left out of those about payout rows:   *)
(* the closes append them after they have created the batch.               *)

QueuedBatches == {queue[n].batch : n \in 1..Len(queue)}

JobPcs == {"start", "check", "send", "load", "line", "mark", "bank", "settle", "commit",
           "reject", "publish"}
BatchOps == {"approve", "lock", "send", "pay", "commit", "fail"}
Ops == BatchOps \union {"hold", "release", "reverse"}

RequestType == [op : Ops, batch : Batches \union {None},
                user : Users \union {None}, lines : SUBSET Items]
JobType == [batch : Batches, attempts : Nat]
WorkerType == [pc : {"idle", "create", "pool", "append", "statement"} \union JobPcs,
               kind : Kinds, batch : Batches \union {None}, attempts : Nat,
               lines : SUBSET Items, todo : SUBSET Items,
               item : Items \union {None}, seen : PayoutStatus,
               done : SUBSET Items, failed : BOOLEAN]

TypeOK ==
  /\ status \in [Batches -> BatchStatus]
  /\ kind \in [Batches -> Kinds]
  /\ items \in [Batches -> SUBSET Items]
  /\ approval \in [Batches -> [Roles -> Users \union {None}]]
  /\ statement \in [batch : Batches \union {None},
                    status : {"NONE", "OPEN", "LOCKED", "PAID"}]
  /\ pool \in {"NONE", "OPEN", "DISTRIBUTED"}
  /\ mission \in [Missions -> {"VERIFIED", "SETTLED"}]
  /\ payment \in [Missions -> {"DISTRIBUTED", "HELD", "FAILED", "SETTLED"}]
  /\ payout \in [Lines -> PayoutStatus]
  /\ manual \in SUBSET Lines
  /\ requests \in SUBSET RequestType
  /\ queue \in Seq(JobType)
  /\ worker \in WorkerType
  /\ failedJobs \in SUBSET Batches
  /\ bank \in [Lines -> Nat]
  /\ faults \in Nat
  /\ crashes \in Nat

\* A payout recorded COMPLETED and the SETTLED status of its mission go
\* together through every interleaving of the payout job, mark-paid, crashes and
\* retries: the transactions of executePayoutsForBatch and markBatchPaid.
CompletedLineMissionSettled ==
  \A b \in Batches, m \in Missions :
    payout[<<b, m>>] = "COMPLETED" => mission[m] = "SETTLED"

\* No mission becomes SETTLED, and so leaves the next close, without a payout row
\* that says who paid it - also after mark-paid has deleted and rewritten the
\* rows of its batch.
SettledMissionHasCompletedLine ==
  \A m \in Missions :
    mission[m] = "SETTLED" => \E b \in Batches : payout[<<b, m>>] = "COMPLETED"

\* A SETTLED batch has paid every mission line whose owner has an IBAN, whichever
\* of job and operator closed it and however often the job was retried: the
\* outcome computed at the end of executePayoutsForBatch.
SettledBatchFullyPaid ==
  \A b \in Batches, m \in Missions \intersect Payable :
    status[b] = "SETTLED" /\ m \in items[b] => payout[<<b, m>>] = "COMPLETED"

\* GOV-WORKFLOW-1: money of a batch moves only after both roles approved it -
\* whatever requests overlapped between the approval and the lock.
PaidOnlyAfterDualApproval ==
  \A b \in Batches :
    (status[b] \in {"READY_FOR_SETTLEMENT", "IN_BANK_QUEUE", "SETTLED", "MANUAL_REVIEW"}
       \/ \E i \in Items : payout[<<b, i>>] # "NONE" \/ bank[<<b, i>>] > 0)
    => \A role \in Roles : approval[b][role] # None

\* A row the job completed is backed by a transfer the bank accepted.
CompletedWasTransferred ==
  \A l \in Lines : payout[l] = "COMPLETED" /\ l \notin manual => bank[l] > 0

\* A decided payout of a mission stays decided: a completed one for ever, a
\* failed one until mark-paid replaces it, although the job updates rows it has
\* read several awaits ago.
DecidedPayoutIsFinal ==
  [][\A b \in Batches, m \in Missions :
       /\ payout[<<b, m>>] = "COMPLETED" => payout'[<<b, m>>] = "COMPLETED"
       /\ payout[<<b, m>>] = "FAILED" =>
            \/ payout'[<<b, m>>] = "FAILED"
            \/ payout'[<<b, m>>] = "COMPLETED" /\ <<b, m>> \in manual']_vars

\* A payout job that was queued for a locked batch settles the batch, hands it to
\* manual review, ends in failed_jobs, or had nobody to pay: no retry loop and no
\* line can hold it up for ever.
QueuedJob(b) ==
  \/ worker.batch = b /\ worker.pc \in JobPcs
  \/ b \in QueuedBatches

PayoutJobConcludes ==
  \A b \in Batches :
    (status[b] = "READY_FOR_SETTLEMENT" /\ QueuedJob(b)) ~>
      \/ status[b] \in {"SETTLED", "MANUAL_REVIEW", "FAILED"}
      \/ b \in failedJobs
      \/ Payees(items[b]) = {}

\* Every transaction that completes mission lines settles exactly their missions,
\* and no later step of job, operator or close takes either back.
MP == INSTANCE MissionPayment WITH
        paid <- {l \in Batches \X Missions : payout[l] = "COMPLETED"},
        settled <- {m \in Missions : mission[m] = "SETTLED"}

ImplementsMissionPayment == MP!Spec

\* The service's header: "Per-line payout via BankAdapter - idempotent per
\* settlement_line_id".
AtMostOneTransferPerLine == \A l \in Lines : bank[l] <= 1

\* HOLD-SETTLEMENT-1: a HELD mission is kept out of settlement.
HeldMissionNotSettled ==
  [][\A m \in Missions : payment[m] = "HELD" => mission'[m] = mission[m]]_vars

-----------------------------------------------------------------------------
(* The inductive invariant of SettlementProofs.                            *)

BatchPcs == JobPcs \union {"pool", "append", "statement"}
LinePcs == {"mark", "bank", "settle", "commit", "reject"}
LoadedPcs == LinePcs \union {"line"}

\* Whatever names a batch names a row that exists, and approvals precede
\* everything that moves its money.
BatchesExist ==
  /\ \A b \in Batches : status[b] = "NONE" => items[b] = {}
  /\ \A r \in requests : r.op \in BatchOps =>
       /\ r.batch \in Batches /\ status[r.batch] # "NONE"
       /\ r.user \in Users
  /\ worker.pc \in BatchPcs => worker.batch \in Batches /\ status[worker.batch] # "NONE"

JobsExist ==
  \A b \in QueuedBatches \union failedJobs : b \in Batches /\ status[b] # "NONE"

Approved(b) == \A role \in Roles : approval[b][role] # None

ApprovedFirst ==
  /\ \A r \in requests : r.op \in {"lock", "send", "pay", "commit"} => Approved(r.batch)
  /\ \A b \in QueuedBatches \union failedJobs : Approved(b)
  /\ worker.pc \in JobPcs => Approved(worker.batch)

\* A job works on lines of its batch, and what it remembers of their rows is
\* still true where it relies on it.
WorkerKnows ==
  /\ worker.pc \in {"create", "pool", "append", "statement"} <=> worker.pc # "idle" /\ worker.attempts = 0
  /\ worker.pc \in {"start", "check", "send", "load"} => worker.done = {}
  /\ worker.pc \in LoadedPcs =>
       /\ worker.todo \subseteq worker.lines
       /\ worker.lines \subseteq items[worker.batch]
       /\ items[worker.batch] \intersect Missions \subseteq worker.lines
       /\ \A m \in worker.done \intersect Missions : payout[<<worker.batch, m>>] = "COMPLETED"
       /\ ~worker.failed =>
            (worker.lines \ worker.todo) \intersect Payable \subseteq worker.done
  /\ worker.pc \in LinePcs => worker.item \in worker.todo
  /\ worker.pc = "mark" => worker.seen \in {"NONE", "PROCESSING"}
  /\ worker.pc \in {"settle", "commit"} => bank[Line] > 0
  /\ worker.pc = "commit" => payout[Line] = "PROCESSING"

\* Payout rows are rows of lines, and mark-paid will rewrite all of them.
RowsOfLines ==
  /\ \A b \in Batches, i \in Items : payout[<<b, i>>] # "NONE" => i \in items[b]
  /\ \A r \in requests : r.op = "commit" =>
       /\ r.lines \subseteq items[r.batch]
       /\ items[r.batch] \intersect Missions \subseteq r.lines

IInv ==
  /\ TypeOK /\ BatchesExist /\ JobsExist /\ ApprovedFirst /\ WorkerKnows /\ RowsOfLines
  /\ CompletedLineMissionSettled /\ SettledMissionHasCompletedLine
  /\ SettledBatchFullyPaid /\ PaidOnlyAfterDualApproval /\ CompletedWasTransferred

=============================================================================
