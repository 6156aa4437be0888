-------------------------- MODULE SettlementProofs --------------------------
(***************************************************************************)
(* Proofs about Settlement, for every value of its constants.              *)
(*                                                                         *)
(* The module follows the inductive invariant IInv: the types of the       *)
(* records first, then which actions write which variables (the frames),   *)
(* what only grows, one lemma for each conjunct of IInv, and last the      *)
(* theorems.                                                               *)
(***************************************************************************)
EXTENDS Settlement, TLAPS

(* Types of the records and of the steps that build them.                  *)

\* The idle worker has the type of a worker.
LEMMA IdleType == Idle \in WorkerType
  BY DEF Idle, WorkerType, JobPcs, Kinds, PayoutStatus

\* So has the worker of a close job that has just read its lines.
LEMMA CloseWorkerType ==
  ASSUME NEW k \in Kinds, NEW S \in SUBSET Items, CloseWith(k, S)
  PROVE  worker' \in WorkerType
  BY DEF CloseWith, Idle, WorkerType, JobPcs, Kinds, PayoutStatus

\* Request builds a well-typed admin request.
LEMMA RequestInType ==
  ASSUME NEW op \in Ops, NEW b \in Batches \union {None},
         NEW u \in Users \union {None}, NEW S \in SUBSET Items
  PROVE  Request(op, b, u, S) \in RequestType
  BY DEF Request, RequestType

\* A payout job that moves to another control point keeps its type.
LEMMA WorkerMoves ==
  ASSUME worker \in WorkerType, NEW pc \in JobPcs
  PROVE  [worker EXCEPT !.pc = pc] \in WorkerType
  BY DEF WorkerType, JobPcs

\* So does one that goes on to the next line.
LEMMA NextLineType ==
  ASSUME worker \in WorkerType, NEW S \in SUBSET Items, NEW f \in BOOLEAN
  PROVE  /\ [NextLine EXCEPT !.done = @ \union S] \in WorkerType
         /\ [NextLine EXCEPT !.failed = f] \in WorkerType
  BY DEF WorkerType, NextLine, JobPcs, PayoutStatus

\* A throwing job keeps queue, worker and failed_jobs well-typed, for it names a
\* batch whenever it has attempts.
LEMMA JobFailsType ==
  ASSUME worker \in WorkerType, queue \in Seq(JobType), failedJobs \in SUBSET Batches,
         worker.attempts # 0 => worker.batch \in Batches, JobFails
  PROVE  /\ worker' \in WorkerType
         /\ queue' \in Seq(JobType)
         /\ failedJobs' \in SUBSET Batches
  <1>1. worker' \in WorkerType
    BY IdleType DEF JobFails
  <1>2. worker.attempts # 0 => [batch |-> worker.batch, attempts |-> worker.attempts] \in JobType
    BY DEF JobType, WorkerType
  <1>3. queue' \in Seq(JobType)
    BY <1>2 DEF JobFails
  <1>4. failedJobs' \in SUBSET Batches
    BY DEF JobFails
  <1> QED
    BY <1>1, <1>3, <1>4

\* The steps of a close that distribute the pool and append its lines.
ClosesPool == MonthlyClosePool \/ \E h \in Households : ClosePoolLine(h)

\* A close keeps the batch it has created to its end.
LEMMA CloseMoves ==
  ASSUME worker \in WorkerType
  PROVE  /\ \A b \in Batches : CloseCreate(b) =>
              /\ worker' \in WorkerType /\ worker.pc = "create"
              /\ \/ worker' = Idle /\ worker'.pc = "idle"
                 \/ worker'.pc \in {"pool", "append"} /\ worker'.batch = b /\ worker'.attempts = worker.attempts
         /\ ClosesPool =>
              /\ worker.pc \in {"pool", "append"}
              /\ worker.batch \in Batches => worker' \in WorkerType
              /\ \/ worker' = Idle /\ worker'.pc = "idle"
                 \/ /\ worker'.pc \in {"append", "statement"}
                    /\ worker'.batch = worker.batch /\ worker'.attempts = worker.attempts
  <1>1. Households \subseteq Items
    BY DEF Items
  <1>2. Idle \in WorkerType /\ Idle.pc = "idle"
    BY IdleType DEF Idle
  <1>3. ASSUME NEW b \in Batches
        PROVE  /\ Appending(b) \in WorkerType
               /\ Appending(b).pc = "append" /\ Appending(b).batch = b /\ Appending(b).attempts = worker.attempts
    BY <1>1 DEF Appending, WorkerType
  <1>4. ASSUME NEW b \in Batches, CloseCreate(b)
        PROVE  /\ worker' \in WorkerType /\ worker.pc = "create"
               /\ \/ worker' = Idle /\ worker'.pc = "idle"
                  \/ worker'.pc \in {"pool", "append"} /\ worker'.batch = b /\ worker'.attempts = worker.attempts
    <2>1. CASE worker.kind = "COMBINED_LEGACY"
      BY <1>4, <2>1 DEF CloseCreate, WorkerType
    <2>2. CASE worker.kind = "HOUSEHOLD_MONTHLY"
      BY <1>3, <1>4, <2>2 DEF CloseCreate
    <2>3. CASE worker.kind \notin {"COMBINED_LEGACY", "HOUSEHOLD_MONTHLY"}
      BY <1>2, <1>4, <2>3 DEF CloseCreate
    <2> QED
      BY <2>1, <2>2, <2>3
  <1> DEFINE Kept == /\ worker.batch \in Batches => worker' \in WorkerType
                     /\ \/ worker' = Idle /\ worker'.pc = "idle"
                        \/ /\ worker'.pc \in {"append", "statement"}
                           /\ worker'.batch = worker.batch /\ worker'.attempts = worker.attempts
  <1>5. CASE MonthlyClosePool
    <2>1. worker.pc = "pool" /\ Kept
      <3>1. CASE pool = "OPEN"
        BY <1>1, <1>5, <3>1 DEF MonthlyClosePool, Appending, WorkerType
      <3>2. CASE pool # "OPEN"
        BY <1>5, <3>2 DEF MonthlyClosePool, WorkerType
      <3> QED
        BY <1>5, <3>1, <3>2 DEF MonthlyClosePool
    <2> QED
      BY <1>4, <2>1
  <1>6. ASSUME NEW h \in Households, ClosePoolLine(h)
        PROVE  worker.pc = "append" /\ Kept
    <2>1. CASE worker.todo \ {h} # {}
      BY <1>6, <2>1 DEF ClosePoolLine, WorkerType
    <2>2. CASE worker.todo \ {h} = {} /\ worker.kind = "COMBINED_LEGACY"
      BY <1>6, <2>2 DEF ClosePoolLine, WorkerType
    <2>3. CASE worker.todo \ {h} = {} /\ worker.kind # "COMBINED_LEGACY"
      BY <1>2, <1>6, <2>3 DEF ClosePoolLine
    <2> QED
      BY <1>6, <2>1, <2>2, <2>3 DEF ClosePoolLine
  <1> QED
    BY <1>4, <1>5, <1>6 DEF ClosesPool

\* Every action keeps every variable in its type.
LEMMA TypeStep == ASSUME IInv, [Next]_vars PROVE TypeOK'
  <1> USE SettlementAssumption DEF TypeOK
  <1>t. TypeOK
    BY DEF IInv
  <1>b. worker.pc \in BatchPcs => worker.batch \in Batches
    BY DEF IInv, BatchesExist
  <1>a. worker.pc # "idle" /\ worker.attempts # 0 => worker.batch \in Batches
    BY <1>t, <1>b DEF IInv, WorkerKnows, BatchPcs, WorkerType
  <1>r. \A r \in requests : r.op \in BatchOps => r.batch \in Batches
    BY DEF IInv, BatchesExist
  <1>l. worker.pc \in LinePcs => Line \in Lines
    BY <1>t, <1>b DEF IInv, WorkerKnows, LoadedPcs, LinePcs, BatchPcs, JobPcs, WorkerType, Line, Lines
  <1>i. Items = Missions \union Households
    BY DEF Items
  <1>e. \A k : Eligible(k) \in SUBSET Items
    BY <1>i DEF Eligible
  <1>f. ASSUME JobFails, worker.pc # "idle"
        PROVE  /\ worker' \in WorkerType
               /\ queue' \in Seq(JobType)
               /\ failedJobs' \in SUBSET Batches
    BY <1>f, <1>t, <1>a, JobFailsType
  <1>s. ASSUME NEW b \in Batches, NEW s \in BatchStatus, SetStatus(b, s)
        PROVE  /\ status' \in [Batches -> BatchStatus]
               /\ UNCHANGED <<kind, items, approval, statement, pool>>
    BY <1>t, <1>s DEF SetStatus
  <1>m. ASSUME NEW S, SettleMissions(S)
        PROVE  /\ mission' \in [Missions -> {"VERIFIED", "SETTLED"}]
               /\ payment' \in [Missions -> {"DISTRIBUTED", "HELD", "FAILED", "SETTLED"}]
    BY <1>t, <1>m DEF SettleMissions
  <1> USE DEF batchVars, paymentVars, jobVars, bounds
  <1>1. CASE MonthlyCloseRead
    <2>1. worker' \in WorkerType
      BY <1>1, <1>e, CloseWorkerType DEF MonthlyCloseRead, Kinds
    <2> QED
      BY <1>t, <1>1, <2>1 DEF MonthlyCloseRead
  <1>2. CASE OwnerWeeklyCloseRead
    <2>1. worker' \in WorkerType
      BY <1>2, <1>e, CloseWorkerType DEF OwnerWeeklyCloseRead, Kinds
    <2> QED
      BY <1>t, <1>2, <2>1 DEF OwnerWeeklyCloseRead
  <1>3. CASE HouseholdMonthlyCloseRead
    <2>1. worker' \in WorkerType
      BY <1>3, CloseWorkerType DEF HouseholdMonthlyCloseRead, Kinds
    <2> QED
      BY <1>t, <1>3, <2>1 DEF HouseholdMonthlyCloseRead
  <1>4. ASSUME NEW b \in Batches, CloseCreate(b) PROVE TypeOK'
    <2>1. worker' \in WorkerType
      BY <1>t, <1>4, CloseMoves
    <2>2. worker.kind \in Kinds /\ worker.lines \in SUBSET Items
      BY <1>t DEF WorkerType
    <2> QED
      BY <1>t, <1>4, <2>1, <2>2 DEF CloseCreate, AddBatch, BatchStatus
  <1>5. CASE ClosesPool
    <2>1. worker' \in WorkerType /\ worker.batch \in Batches
      BY <1>t, <1>b, <1>5, CloseMoves DEF BatchPcs
    <2>2. items' \in [Batches -> SUBSET Items]
      <3>1. ASSUME NEW h \in Households, ClosePoolLine(h) PROVE items' \in [Batches -> SUBSET Items]
        <4>1. items[worker.batch] \union {h} \in SUBSET Items
          BY <1>t, <1>i, <2>1
        <4> QED
          BY <1>t, <3>1, <4>1 DEF ClosePoolLine
      <3>2. CASE MonthlyClosePool
        BY <1>t, <3>2 DEF MonthlyClosePool
      <3> QED
        BY <1>5, <3>1, <3>2 DEF ClosesPool
    <2> QED
      BY <1>t, <1>5, <2>1, <2>2 DEF ClosesPool, MonthlyClosePool, ClosePoolLine
  <1>6. CASE MonthlyCloseStatement
    <2>1. worker.batch \in Batches
      BY <1>b, <1>6 DEF MonthlyCloseStatement, BatchPcs
    <2> QED
      BY <1>t, <1>6, <2>1, IdleType DEF MonthlyCloseStatement
  <1>7. ASSUME NEW b \in Batches, CreateDraft(b) PROVE TypeOK'
    BY <1>t, <1>7 DEF CreateDraft, AddBatch, BatchStatus, Kinds
  <1>8. CASE LockPeriodStatement
    BY <1>t, <1>8 DEF LockPeriodStatement
  <1>9. CASE RegisterMinePayment
    BY <1>t, <1>9 DEF RegisterMinePayment
  <1>10. ASSUME NEW op \in Ops, NEW b \in Batches \union {None},
                NEW u \in Users \union {None}, NEW S \in SUBSET Items,
                Admit(Request(op, b, u, S)), ReadOnly
         PROVE  TypeOK'
    <2>1. requests' \in SUBSET RequestType
      BY <1>t, <1>10, RequestInType DEF Admit
    <2> QED
      BY <1>t, <1>10, <2>1 DEF ReadOnly
  <1>11. ASSUME NEW b \in Batches, NEW u \in Users,
                \/ ApproveRead(b, u) \/ LockRead(b, u) \/ SendToBankRead(b, u)
                \/ MarkPaidRead(b, u) \/ MarkFailedRead(b, u)
         PROVE  TypeOK'
    BY <1>10, <1>11 DEF ApproveRead, LockRead, SendToBankRead, MarkPaidRead,
                        MarkFailedRead, Ops, BatchOps
  <1>12. ASSUME NEW m \in Missions, NEW op \in DOMAIN PaymentAfter, PaymentRead(op, m)
         PROVE  TypeOK'
    BY <1>i, <1>10, <1>12 DEF PaymentRead, PaymentAfter, Ops
  <1>13. ASSUME NEW r \in requests,
                \/ ApproveWrite(r) \/ LockWrite(r) \/ SendToBankWrite(r)
                \/ MarkPaidVerify(r) \/ MarkPaidCommit(r) \/ MarkFailedWrite(r)
                \/ PaymentWrite(r) \/ RequestAborts(r)
         PROVE  TypeOK'
    <2>r. r \in RequestType /\ requests \ {r} \in SUBSET RequestType
      BY <1>t
    <2>b. r.op \in BatchOps => r.batch \in Batches
      BY <1>r
    <2>1. CASE ApproveWrite(r)
      <3>1. r.user \in Users \union {None}
        BY <2>r DEF RequestType
      <3>2. approval' \in [Batches -> [Roles -> Users \union {None}]]
        BY <1>t, <2>1, <3>1 DEF ApproveWrite
      <3> QED
        BY <1>t, <2>r, <2>1, <3>2 DEF ApproveWrite
    <2>2. CASE LockWrite(r)
      <3>1. r.batch \in Batches
        BY <2>b, <2>2 DEF LockWrite, BatchOps
      <3>2. [batch |-> r.batch, attempts |-> 0] \in JobType
        BY <3>1 DEF JobType
      <3> QED
        BY <1>t, <1>s, <2>r, <2>2, <3>1, <3>2 DEF LockWrite, BatchStatus
    <2>3. CASE SendToBankWrite(r)
      BY <1>t, <1>s, <2>r, <2>b, <2>3 DEF SendToBankWrite, BatchStatus, BatchOps
    <2>4. CASE MarkPaidVerify(r)
      <3>1. r.batch \in Batches /\ items[r.batch] \in SUBSET Items
        BY <1>t, <2>b, <2>4 DEF MarkPaidVerify, BatchOps
      <3>2. [r EXCEPT !.op = "commit", !.lines = items[r.batch]] \in RequestType
        BY <2>r, <3>1 DEF RequestType, Ops, BatchOps
      <3> QED
        BY <1>t, <2>r, <2>4, <3>2 DEF MarkPaidVerify, ReadOnly
    <2>5. CASE MarkPaidCommit(r)
      <3>1. payout' \in [Lines -> PayoutStatus]
        BY <1>t, <2>5 DEF MarkPaidCommit, ReplacedRows, PayoutStatus
      <3> QED
        BY <1>t, <1>s, <1>m, <2>r, <2>b, <2>5, <3>1 DEF MarkPaidCommit, BatchStatus, BatchOps
    <2>6. CASE MarkFailedWrite(r)
      BY <1>t, <1>s, <2>r, <2>b, <2>6 DEF MarkFailedWrite, BatchStatus, BatchOps
    <2>7. CASE PaymentWrite(r)
      BY <1>t, <2>r, <2>7 DEF PaymentWrite, PaymentAfter
    <2>8. CASE RequestAborts(r)
      BY <1>t, <2>r, <2>8 DEF RequestAborts, ReadOnly
    <2> QED
      BY <1>13, <2>1, <2>2, <2>3, <2>4, <2>5, <2>6, <2>7, <2>8
  <1>14. CASE TakeJob
    <2>1. Head(queue) \in JobType /\ Tail(queue) \in Seq(JobType)
      BY <1>t, <1>14 DEF TakeJob
    <2>2. Head(queue).batch \in Batches /\ Head(queue).attempts + 1 \in Nat
      BY <2>1 DEF JobType
    <2>3. worker' \in WorkerType
      BY <2>2, <1>14 DEF TakeJob, Idle, WorkerType, JobPcs, Kinds, PayoutStatus
    <2> QED
      BY <1>t, <1>14, <2>1, <2>3 DEF TakeJob
  <1>15. CASE JobStart
    <2>1. /\ worker' \in WorkerType
          /\ queue' \in Seq(JobType)
          /\ failedJobs' \in SUBSET Batches
      BY <1>t, <1>f, <1>15, WorkerMoves DEF JobStart, JobPcs
    <2> QED
      BY <1>t, <1>15, <2>1 DEF JobStart
  <1>15a. CASE JobSendToBankRead
    <2>1. /\ worker' \in WorkerType
          /\ queue' \in Seq(JobType)
          /\ failedJobs' \in SUBSET Batches
      BY <1>t, <1>f, <1>15a, WorkerMoves DEF JobSendToBankRead, JobPcs
    <2> QED
      BY <1>t, <1>15a, <2>1 DEF JobSendToBankRead
  <1>16. CASE JobSendToBank
    BY <1>t, <1>b, <1>s, <1>16, WorkerMoves DEF JobSendToBank, BatchStatus, BatchPcs, JobPcs
  <1>17. CASE JobLoadLines
    <2>1. items[worker.batch] \in SUBSET Items
      BY <1>t, <1>b, <1>17 DEF JobLoadLines, BatchPcs, JobPcs
    <2>2. worker' \in WorkerType
      BY <1>t, <1>17, <2>1 DEF JobLoadLines, WorkerType, JobPcs
    <2> QED
      BY <1>t, <1>17, <2>2 DEF JobLoadLines
  <1>18. ASSUME NEW i \in Items, JobReadPayout(i) PROVE TypeOK'
    <2>1. payout[<<worker.batch, i>>] \in PayoutStatus
      BY <1>t, <1>b, <1>18 DEF JobReadPayout, BatchPcs, JobPcs, Lines
    <2>2. worker' \in WorkerType
      BY <1>t, <1>18, <2>1 DEF JobReadPayout, WorkerType, JobPcs
    <2> QED
      BY <1>t, <1>18, <2>2 DEF JobReadPayout
  <1>19. CASE JobMarkProcessing
    <2>1. /\ worker' \in WorkerType
          /\ queue' \in Seq(JobType)
          /\ failedJobs' \in SUBSET Batches
      BY <1>t, <1>f, <1>19, WorkerMoves DEF JobMarkProcessing, JobPcs
    <2> QED
      BY <1>t, <1>19, <2>1 DEF JobMarkProcessing, PayoutStatus
  <1>20. CASE BankAccepts
    <2>1. bank' \in [Lines -> Nat]
      BY <1>t, <1>20, <1>l DEF BankAccepts, LinePcs
    <2> QED
      BY <1>t, <1>20, <2>1, WorkerMoves DEF BankAccepts, JobPcs
  <1>21. CASE BankRejects
    BY <1>t, <1>21, WorkerMoves DEF BankRejects, JobPcs
  <1>22. CASE JobSettleRead
    <2>1. /\ worker' \in WorkerType
          /\ queue' \in Seq(JobType)
          /\ failedJobs' \in SUBSET Batches
      BY <1>t, <1>f, <1>22, WorkerMoves DEF JobSettleRead, JobPcs
    <2> QED
      BY <1>t, <1>22, <2>1 DEF JobSettleRead
  <1>23. CASE JobSettleCommit
    <2>1. worker.item \in Items
      BY <1>t, <1>23 DEF JobSettleCommit, WorkerType, IInv, WorkerKnows, LinePcs, LoadedPcs
    <2>2. {worker.item} \in SUBSET Items
      BY <2>1
    <2>3. [NextLine EXCEPT !.done = @ \union {worker.item}] \in WorkerType
      BY <1>t, <2>2, NextLineType
    <2>4. worker' \in WorkerType
      BY <1>23, <2>3 DEF JobSettleCommit
    <2> QED
      BY <1>t, <1>m, <1>23, <2>4 DEF JobSettleCommit, PayoutStatus
  <1>24. CASE JobRecordReject
    <2>1. /\ worker' \in WorkerType
          /\ queue' \in Seq(JobType)
          /\ failedJobs' \in SUBSET Batches
      BY <1>t, <1>f, <1>24, NextLineType DEF JobRecordReject
    <2> QED
      BY <1>t, <1>24, <2>1 DEF JobRecordReject, PayoutStatus
  <1>25. CASE JobFinish
    <2>1. worker.batch \in Batches
      BY <1>b, <1>25 DEF JobFinish, BatchPcs, JobPcs
    <2>2. Outcome \in BatchStatus
      BY <1>t, <2>1 DEF Outcome, BatchStatus
    <2> QED
      BY <1>t, <1>s, <1>25, <2>1, <2>2, WorkerMoves DEF JobFinish, JobPcs
  <1>26. CASE JobEnds
    BY <1>t, <1>26, IdleType DEF JobEnds
  <1>27. CASE JobFault
    BY <1>t, <1>f, <1>27 DEF JobFault
  <1>28. ASSUME NEW b \in Batches, RetryFailedJob(b) PROVE TypeOK'
    <2>1. [batch |-> b, attempts |-> 0] \in JobType
      BY DEF JobType
    <2> QED
      BY <1>t, <1>28, <2>1 DEF RetryFailedJob
  <1>29. CASE Crash
    BY <1>t, <1>29, IdleType DEF Crash
  <1>30. CASE UNCHANGED vars
    BY <1>t, <1>30 DEF vars
  <1> QED
    BY <1>1, <1>2, <1>3, <1>4, <1>5, <1>6, <1>7, <1>8, <1>9, <1>11, <1>12, <1>13,
       <1>14, <1>15, <1>15a, <1>16, <1>17, <1>18, <1>19, <1>20, <1>21, <1>22, <1>23,
       <1>24, <1>25, <1>26, <1>27, <1>28, <1>29, <1>30
       DEF Next, CloseJob, CloseJobStep, ClosesPool, AdminRequest, PayoutJob, Users

-----------------------------------------------------------------------------
(* Frames: the actions that write a group of variables.                    *)

\* The actions that write each column of a batch.
LEMMA BatchFrame ==
  ASSUME [Next]_vars
  PROVE  \/ UNCHANGED <<status, items, approval>>
         \/ \E b \in Batches : CloseCreate(b) \/ CreateDraft(b)
         \/ \E h \in Households : ClosePoolLine(h)
         \/ \E r \in requests :
              \/ ApproveWrite(r) \/ LockWrite(r) \/ SendToBankWrite(r)
              \/ MarkPaidCommit(r) \/ MarkFailedWrite(r)
         \/ JobSendToBank \/ JobFinish
  <1> USE DEF batchVars
  <1>1. CASE CloseJob
    BY <1>1 DEF CloseJob, CloseJobStep, MonthlyCloseRead, OwnerWeeklyCloseRead,
       HouseholdMonthlyCloseRead, MonthlyClosePool, MonthlyCloseStatement
  <1>2. CASE AdminRequest
    BY <1>2 DEF AdminRequest, ApproveRead, LockRead, SendToBankRead, MarkPaidRead,
       MarkFailedRead, PaymentRead, MarkPaidVerify, PaymentWrite, RequestAborts, ReadOnly
  <1>3. CASE PayoutJob
    BY <1>3 DEF PayoutJob, TakeJob, JobStart, JobSendToBankRead, JobLoadLines, JobReadPayout,
       JobMarkProcessing, BankAccepts, BankRejects, JobSettleRead, JobSettleCommit,
       JobRecordReject, JobEnds
  <1>4. CASE (\E b \in Batches : RetryFailedJob(b)) \/ LockPeriodStatement
             \/ RegisterMinePayment \/ JobFault \/ Crash \/ UNCHANGED vars
    BY <1>4 DEF RetryFailedJob, LockPeriodStatement, RegisterMinePayment, JobFault,
       Crash, vars
  <1> QED
    BY <1>1, <1>2, <1>3, <1>4 DEF Next

\* The actions that write missions, payout rows and the ledger of the bank.
LEMMA RowFrame ==
  ASSUME [Next]_vars
  PROVE  \/ UNCHANGED <<mission, payout, manual, bank>>
         \/ \E r \in requests : MarkPaidCommit(r)
         \/ JobMarkProcessing \/ BankAccepts \/ JobSettleCommit \/ JobRecordReject
  <1> USE DEF paymentVars
  <1>1. CASE CloseJob
    BY <1>1 DEF CloseJob, CloseJobStep, MonthlyCloseRead, OwnerWeeklyCloseRead,
       HouseholdMonthlyCloseRead, CloseCreate, MonthlyClosePool, ClosePoolLine,
       MonthlyCloseStatement
  <1>2. CASE AdminRequest
    BY <1>2 DEF AdminRequest, ApproveRead, LockRead, SendToBankRead, MarkPaidRead,
       MarkFailedRead, PaymentRead, ApproveWrite, LockWrite, SendToBankWrite,
       MarkPaidVerify, MarkFailedWrite, PaymentWrite, RequestAborts, ReadOnly
  <1>3. CASE PayoutJob
    BY <1>3 DEF PayoutJob, TakeJob, JobStart, JobSendToBankRead, JobSendToBank, JobLoadLines,
       JobReadPayout, BankRejects, JobSettleRead, JobFinish, JobEnds
  <1>4. CASE (\E b \in Batches : CreateDraft(b) \/ RetryFailedJob(b))
             \/ LockPeriodStatement \/ RegisterMinePayment \/ JobFault \/ Crash
             \/ UNCHANGED vars
    BY <1>4 DEF CreateDraft, RetryFailedJob, LockPeriodStatement, RegisterMinePayment,
       JobFault, Crash, vars
  <1> QED
    BY <1>1, <1>2, <1>3, <1>4 DEF Next

\* A request is new only when its Read action has just checked the batch.
LEMMA RequestFrame ==
  ASSUME [Next]_vars, IInv, NEW r \in requests', r \notin requests
  PROVE  \/ \E b \in Batches, u \in Users :
              \/ ApproveRead(b, u) /\ r = Request("approve", b, u, {})
              \/ LockRead(b, u) /\ r = Request("lock", b, u, {})
              \/ SendToBankRead(b, u) /\ r = Request("send", b, u, {})
              \/ MarkPaidRead(b, u) /\ r = Request("pay", b, u, {})
              \/ MarkFailedRead(b, u) /\ r = Request("fail", b, u, {})
         \/ \E q \in requests :
              /\ MarkPaidVerify(q)
              /\ r = [q EXCEPT !.op = "commit", !.lines = items[q.batch]]
         \/ \E m \in Missions, op \in {"hold", "release", "reverse"} :
              PaymentRead(op, m) /\ r = Request(op, None, None, {m})
  <1>1. CASE CloseJob
    BY <1>1 DEF CloseJob, CloseJobStep, MonthlyCloseRead, OwnerWeeklyCloseRead,
       HouseholdMonthlyCloseRead, CloseCreate, MonthlyClosePool, ClosePoolLine,
       MonthlyCloseStatement
  <1>2. CASE AdminRequest
    <2>1. CASE \E b \in Batches, u \in Users : ApproveRead(b, u)
      <3>1. PICK b \in Batches, u \in Users : ApproveRead(b, u)
        BY <2>1
      <3>2. r = Request("approve", b, u, {})
        BY <3>1 DEF ApproveRead, Admit
      <3> QED
        BY <3>1, <3>2
    <2>2. CASE \E b \in Batches, u \in OpAdmins :
                 \/ LockRead(b, u) \/ SendToBankRead(b, u)
                 \/ MarkPaidRead(b, u) \/ MarkFailedRead(b, u)
      BY <2>2 DEF LockRead, SendToBankRead, MarkPaidRead, MarkFailedRead, Admit, Users
    <2>3. CASE \E m \in Missions, op \in DOMAIN PaymentAfter : PaymentRead(op, m)
      <3>1. PICK m \in Missions, op \in DOMAIN PaymentAfter : PaymentRead(op, m)
        BY <2>3
      <3>2. op \in {"hold", "release", "reverse"}
        BY DEF PaymentAfter
      <3>3. r = Request(op, None, None, {m})
        BY <3>1 DEF PaymentRead, Admit
      <3> QED
        BY <3>1, <3>2, <3>3
    <2>4. CASE \E q \in requests : MarkPaidVerify(q)
      BY <2>4 DEF MarkPaidVerify
    <2>5. CASE \E q \in requests :
                 \/ ApproveWrite(q) \/ LockWrite(q) \/ SendToBankWrite(q)
                 \/ MarkPaidCommit(q) \/ MarkFailedWrite(q) \/ PaymentWrite(q)
                 \/ RequestAborts(q)
      BY <2>5 DEF ApproveWrite, LockWrite, SendToBankWrite, MarkPaidCommit,
         MarkFailedWrite, PaymentWrite, RequestAborts
    <2> QED
      BY <1>2, <2>1, <2>2, <2>3, <2>4, <2>5 DEF AdminRequest
  <1>3. CASE PayoutJob
    BY <1>3 DEF PayoutJob, TakeJob, JobStart, JobSendToBankRead, JobSendToBank, JobLoadLines,
       JobReadPayout, JobMarkProcessing, BankAccepts, BankRejects, JobSettleRead,
       JobSettleCommit, JobRecordReject, JobFinish, JobEnds
  <1>4. CASE (\E b \in Batches : CreateDraft(b) \/ RetryFailedJob(b))
             \/ LockPeriodStatement \/ RegisterMinePayment \/ JobFault \/ Crash
             \/ UNCHANGED vars
    BY <1>4 DEF CreateDraft, RetryFailedJob, LockPeriodStatement, RegisterMinePayment,
       JobFault, Crash, vars
  <1> QED
    BY <1>1, <1>2, <1>3, <1>4 DEF Next

\* The actions that move the worker.
LEMMA WorkerFrame ==
  ASSUME [Next]_vars
  PROVE  \/ UNCHANGED worker
         \/ worker' = Idle
         \/ \E k, S : CloseWith(k, S)
         \/ (\E b \in Batches : CloseCreate(b)) \/ ClosesPool
         \/ TakeJob \/ JobStart \/ JobSendToBankRead \/ JobSendToBank \/ JobLoadLines
         \/ \E i \in Items : JobReadPayout(i)
         \/ JobMarkProcessing \/ BankAccepts \/ BankRejects \/ JobSettleRead
         \/ JobSettleCommit \/ JobRecordReject \/ JobFinish
  <1>1. CASE CloseJob
    BY <1>1 DEF CloseJob, CloseJobStep, MonthlyCloseRead, OwnerWeeklyCloseRead,
       HouseholdMonthlyCloseRead, MonthlyCloseStatement, ClosesPool
  <1>2. CASE AdminRequest
    BY <1>2 DEF AdminRequest, ApproveRead, LockRead, SendToBankRead, MarkPaidRead,
       MarkFailedRead, PaymentRead, ApproveWrite, LockWrite, SendToBankWrite,
       MarkPaidVerify, MarkPaidCommit, MarkFailedWrite, PaymentWrite, RequestAborts,
       ReadOnly, jobVars
  <1>3. CASE PayoutJob
    BY <1>3 DEF PayoutJob, JobEnds
  <1>4. CASE (\E b \in Batches : CreateDraft(b) \/ RetryFailedJob(b))
             \/ LockPeriodStatement \/ RegisterMinePayment \/ JobFault \/ Crash
             \/ UNCHANGED vars
    BY <1>4 DEF CreateDraft, RetryFailedJob, LockPeriodStatement, RegisterMinePayment,
       JobFault, JobFails, Crash, vars, jobVars
  <1> QED
    BY <1>1, <1>2, <1>3, <1>4 DEF Next

\* A job stays on one batch from the moment it is taken to its end.
LEMMA JobKeepsBatch ==
  ASSUME worker \in WorkerType,
         \/ JobStart \/ JobSendToBankRead \/ JobSendToBank \/ JobLoadLines
         \/ \E i \in Items : JobReadPayout(i)
         \/ JobMarkProcessing \/ BankAccepts \/ BankRejects \/ JobSettleRead
         \/ JobSettleCommit \/ JobRecordReject \/ JobFinish
  PROVE  worker.pc \in JobPcs /\ (worker'.batch = worker.batch \/ worker' = Idle)
  <1>1. CASE JobStart \/ JobSendToBankRead \/ JobSendToBank \/ JobLoadLines
             \/ \E i \in Items : JobReadPayout(i)
    BY <1>1 DEF WorkerType, JobStart, JobSendToBankRead, JobSendToBank, JobLoadLines, JobReadPayout,
       JobFails, JobPcs
  <1>2. CASE JobMarkProcessing \/ BankAccepts \/ BankRejects \/ JobSettleRead
    BY <1>2 DEF WorkerType, JobMarkProcessing, BankAccepts, BankRejects, JobSettleRead,
       JobFails, JobPcs
  <1>3. CASE JobSettleCommit \/ JobRecordReject \/ JobFinish
    BY <1>3 DEF WorkerType, JobSettleCommit, JobRecordReject, JobFinish, JobFails,
       NextLine, JobPcs
  <1> QED
    BY <1>1, <1>2, <1>3

-----------------------------------------------------------------------------
(* What only grows.                                                        *)

\* Batches are never deleted, approvals are never withdrawn, lines are never
\* removed.
LEMMA BatchesGrow ==
  ASSUME IInv, [Next]_vars, NEW b \in Batches
  PROVE  /\ status[b] # "NONE" =>
              /\ status'[b] # "NONE"
              /\ items[b] \subseteq items'[b]
              /\ items'[b] \intersect Missions = items[b] \intersect Missions
         /\ status'[b] = "NONE" => items'[b] = {}
         /\ Approved(b) => Approved(b)'
  <1> DEFINE Grows ==
        /\ status[b] # "NONE" =>
              /\ status'[b] # "NONE"
              /\ items[b] \subseteq items'[b]
              /\ items'[b] \intersect Missions = items[b] \intersect Missions
        /\ status'[b] = "NONE" => items'[b] = {}
        /\ Approved(b) => Approved(b)'
  <1>t. /\ status \in [Batches -> BatchStatus]
        /\ items \in [Batches -> SUBSET Items]
        /\ approval \in [Batches -> [Roles -> Users \union {None}]]
        /\ status[b] = "NONE" => items[b] = {}
    BY DEF IInv, TypeOK, BatchesExist
  <1>1. CASE UNCHANGED <<status, items, approval>>
    BY <1>t, <1>1 DEF Approved
  <1>2. ASSUME NEW c \in Batches, CloseCreate(c) \/ CreateDraft(c)
        PROVE  Grows
    <2>1. PICK s, k, S : s \in {"DRAFT", "CALCULATED"} /\ AddBatch(c, s, k, S)
      BY <1>2 DEF CloseCreate, CreateDraft
    <2> QED
      BY <1>t, <2>1 DEF AddBatch, Approved
  <1>3. ASSUME NEW h \in Households, ClosePoolLine(h) PROVE Grows
    <2>1. worker.batch \in Batches /\ status[worker.batch] # "NONE"
      BY <1>3 DEF ClosePoolLine, IInv, BatchesExist, BatchPcs
    <2>2. h \notin Missions
      BY SettlementAssumption DEF SettlementAssumption
    <2> QED
      BY <1>t, <1>3, <2>1, <2>2 DEF ClosePoolLine, Approved
  <1>4. ASSUME NEW r \in requests, ApproveWrite(r) PROVE Grows
    <2>1. r.user \in Users
      BY <1>4 DEF ApproveWrite, IInv, BatchesExist, BatchOps
    <2>2. None \notin Users
      BY SettlementAssumption DEF SettlementAssumption
    <2> QED
      BY <1>t, <1>4, <2>1, <2>2 DEF ApproveWrite, Approved
  <1>5. ASSUME NEW c \in Batches, NEW s \in BatchStatus \ {"NONE"}, SetStatus(c, s)
        PROVE  Grows
    BY <1>t, <1>5 DEF SetStatus, Approved
  <1>6. ASSUME NEW r \in requests,
               LockWrite(r) \/ SendToBankWrite(r) \/ MarkPaidCommit(r) \/ MarkFailedWrite(r)
        PROVE  Grows
    <2>1. r.batch \in Batches
      BY <1>6 DEF IInv, BatchesExist, LockWrite, SendToBankWrite, MarkPaidCommit,
                  MarkFailedWrite, BatchOps
    <2> QED
      BY <1>5, <1>6, <2>1 DEF LockWrite, SendToBankWrite, MarkPaidCommit,
                              MarkFailedWrite, BatchStatus
  <1>7. CASE JobSendToBank \/ JobFinish
    <2>1. worker.batch \in Batches /\ status[worker.batch] # "NONE"
      BY <1>7 DEF IInv, BatchesExist, JobSendToBank, JobFinish, BatchPcs, JobPcs
    <2>2. Outcome \in BatchStatus \ {"NONE"}
      BY <1>t, <2>1 DEF Outcome, BatchStatus
    <2> QED
      BY <1>5, <1>7, <2>1, <2>2 DEF JobSendToBank, JobFinish, BatchStatus
  <1> QED
    BY <1>1, <1>2, <1>3, <1>4, <1>6, <1>7, BatchFrame

\* The batch and line a job is at.
LEMMA WorkerLine ==
  ASSUME IInv
  PROVE  /\ worker.pc \in BatchPcs => worker.batch \in Batches /\ status[worker.batch] # "NONE"
         /\ worker.pc \in LinePcs => /\ Line \in Lines
                                     /\ worker.item \in items[worker.batch]
  BY DEF IInv, TypeOK, BatchesExist, WorkerKnows, LoadedPcs, LinePcs, BatchPcs, JobPcs,
         WorkerType, Line, Lines

\* Rows of missions that are decided, settled missions and accepted transfers.
LEMMA RowsGrow ==
  ASSUME IInv, [Next]_vars
  PROVE  /\ \A b \in Batches, m \in Missions :
              /\ payout[<<b, m>>] = "COMPLETED" => payout'[<<b, m>>] = "COMPLETED"
              /\ payout[<<b, m>>] = "FAILED" =>
                   \/ payout'[<<b, m>>] = "FAILED"
                   \/ payout'[<<b, m>>] = "COMPLETED" /\ <<b, m>> \in manual'
         /\ \A m \in Missions : mission[m] = "SETTLED" => mission'[m] = "SETTLED"
         /\ \A l \in Lines : bank[l] > 0 => bank'[l] > 0
  <1> DEFINE Grow ==
         /\ \A b \in Batches, m \in Missions :
              /\ payout[<<b, m>>] = "COMPLETED" => payout'[<<b, m>>] = "COMPLETED"
              /\ payout[<<b, m>>] = "FAILED" =>
                   \/ payout'[<<b, m>>] = "FAILED"
                   \/ payout'[<<b, m>>] = "COMPLETED" /\ <<b, m>> \in manual'
         /\ \A m \in Missions : mission[m] = "SETTLED" => mission'[m] = "SETTLED"
         /\ \A l \in Lines : bank[l] > 0 => bank'[l] > 0
  <1>t. /\ payout \in [Lines -> PayoutStatus]
        /\ mission \in [Missions -> {"VERIFIED", "SETTLED"}]
        /\ bank \in [Lines -> Nat]
        /\ \A b \in Batches, m \in Missions : <<b, m>> \in Lines
    BY DEF IInv, TypeOK, Lines, Items
  <1>1. CASE UNCHANGED <<mission, payout, manual, bank>>
    BY <1>1
  <1>2. ASSUME NEW r \in requests, MarkPaidCommit(r) PROVE Grow
    <2>1. \A m \in Missions : payout[<<r.batch, m>>] # "NONE" => m \in r.lines
      BY <1>2 DEF IInv, RowsOfLines, BatchesExist, BatchOps, MarkPaidCommit, Items
    <2>2. /\ mission' = [m \in Missions |-> IF m \in r.lines THEN "SETTLED" ELSE mission[m]]
          /\ payout' = ReplacedRows(r.batch, r.lines)
          /\ bank' = bank
          /\ manual' = {l \in Lines : IF l[1] = r.batch THEN l[2] \in r.lines ELSE l \in manual}
      BY <1>2 DEF MarkPaidCommit, SettleMissions
    <2>3. ASSUME NEW b \in Batches, NEW m \in Missions, payout[<<b, m>>] \in {"COMPLETED", "FAILED"}
          PROVE  IF b = r.batch
                 THEN payout'[<<b, m>>] = "COMPLETED" /\ <<b, m>> \in manual'
                 ELSE payout'[<<b, m>>] = payout[<<b, m>>]
      BY <1>t, <2>1, <2>2, <2>3 DEF ReplacedRows
    <2> QED
      BY <2>2, <2>3
  <1>3. CASE JobMarkProcessing
    <2>1. payout[Line] \in {"COMPLETED", "FAILED"} => payout' = payout
      BY <1>3 DEF JobMarkProcessing, RowAsRead, IInv, WorkerKnows
    <2>2. payout' = payout \/ payout' = [payout EXCEPT ![Line] = "PROCESSING"]
      BY <1>3 DEF JobMarkProcessing
    <2> QED
      BY <1>t, <1>3, <2>1, <2>2 DEF JobMarkProcessing
  <1>4. CASE BankAccepts
    BY <1>t, <1>4 DEF BankAccepts
  <1>5. CASE JobSettleCommit
    <2>1. payout[Line] = "PROCESSING"
      BY <1>5 DEF JobSettleCommit, IInv, WorkerKnows
    <2> QED
      BY <1>t, <1>5, <2>1 DEF JobSettleCommit, SettleMissions
  <1>6. CASE JobRecordReject
    BY <1>t, <1>6 DEF JobRecordReject
  <1> QED
    BY <1>1, <1>2, <1>3, <1>4, <1>5, <1>6, RowFrame

\* Appending a job adds its batch to those queued.
LEMMA EnqueuedBatches ==
  ASSUME queue \in Seq(JobType), NEW e \in JobType, queue' = Append(queue, e)
  PROVE  QueuedBatches' = QueuedBatches \union {e.batch}
  <1>1. Len(queue') = Len(queue) + 1 /\ Len(queue) \in Nat /\ queue'[Len(queue) + 1] = e
    OBVIOUS
  <1>2. \A n \in 1..Len(queue) : queue'[n] = queue[n]
    OBVIOUS
  <1>3. 1..Len(queue') = (1..Len(queue)) \union {Len(queue) + 1}
    BY <1>1
  <1> QED
    BY <1>1, <1>2, <1>3 DEF QueuedBatches

\* Taking the first job leaves no batch in the queue that was not there.
LEMMA TakenBatches ==
  ASSUME queue \in Seq(JobType), queue # <<>>
  PROVE  /\ Head(queue).batch \in QueuedBatches
         /\ queue' = Tail(queue) => QueuedBatches' \subseteq QueuedBatches
  <1>1. Head(queue) = queue[1] /\ 1 \in 1..Len(queue)
    OBVIOUS
  <1>2. ASSUME queue' = Tail(queue), NEW n \in 1..Len(queue')
        PROVE  n + 1 \in 1..Len(queue) /\ queue'[n] = queue[n + 1]
    BY <1>2
  <1> QED
    BY <1>1, <1>2 DEF QueuedBatches

-----------------------------------------------------------------------------
(* The conjuncts of the inductive invariant.                               *)

\* Requests and jobs go on naming batches that exist.
LEMMA BatchesExistStep == ASSUME IInv, [Next]_vars PROVE BatchesExist'
  <1>t. TypeOK /\ BatchesExist
    BY DEF IInv
  <1>1. \A b \in Batches : status'[b] = "NONE" => items'[b] = {}
    BY BatchesGrow
  <1>2. ASSUME NEW r \in requests', r.op \in BatchOps
        PROVE  /\ r.batch \in Batches /\ status'[r.batch] # "NONE"
               /\ r.user \in Users
    <2>1. ASSUME r.batch \in Batches, status[r.batch] # "NONE", r.user \in Users
          PROVE  /\ r.batch \in Batches /\ status'[r.batch] # "NONE"
                 /\ r.user \in Users
      BY <2>1, BatchesGrow
    <2>2. CASE r \in requests
      BY <1>t, <1>2, <2>1, <2>2 DEF BatchesExist
    <2>3. ASSUME NEW b \in Batches, NEW u \in Users, NEW op, r = Request(op, b, u, {}),
                 status[b] # "NONE"
          PROVE  r.batch \in Batches /\ status[r.batch] # "NONE" /\ r.user \in Users
      BY <2>3 DEF Request
    <2>4. ASSUME NEW q \in requests, MarkPaidVerify(q),
                 r = [q EXCEPT !.op = "commit", !.lines = items[q.batch]]
          PROVE  r.batch \in Batches /\ status[r.batch] # "NONE" /\ r.user \in Users
      <3>1. q.batch \in Batches /\ status[q.batch] # "NONE" /\ q.user \in Users
        BY <1>t, <2>4 DEF BatchesExist, MarkPaidVerify, BatchOps
      <3>2. q \in RequestType
        BY <1>t DEF TypeOK
      <3> QED
        BY <2>4, <3>1, <3>2 DEF RequestType
    <2>5. ASSUME NEW m \in Missions, NEW op \in {"hold", "release", "reverse"},
                 r = Request(op, None, None, {m})
          PROVE  FALSE
      BY <1>2, <2>5 DEF Request, BatchOps
    <2>6. CASE r \notin requests
      <3>1. ASSUME NEW b \in Batches, NEW u \in Users,
              \/ ApproveRead(b, u) /\ r = Request("approve", b, u, {})
              \/ LockRead(b, u) /\ r = Request("lock", b, u, {})
              \/ SendToBankRead(b, u) /\ r = Request("send", b, u, {})
              \/ MarkPaidRead(b, u) /\ r = Request("pay", b, u, {})
              \/ MarkFailedRead(b, u) /\ r = Request("fail", b, u, {})
            PROVE  status[b] # "NONE" /\ \E op : r = Request(op, b, u, {})
        BY <3>1 DEF ApproveRead, LockRead, SendToBankRead, MarkPaidRead, MarkFailedRead
      <3>2. CASE \E b \in Batches, u \in Users :
              \/ ApproveRead(b, u) /\ r = Request("approve", b, u, {})
              \/ LockRead(b, u) /\ r = Request("lock", b, u, {})
              \/ SendToBankRead(b, u) /\ r = Request("send", b, u, {})
              \/ MarkPaidRead(b, u) /\ r = Request("pay", b, u, {})
              \/ MarkFailedRead(b, u) /\ r = Request("fail", b, u, {})
        <4>1. PICK b \in Batches, u \in Users :
                status[b] # "NONE" /\ \E op : r = Request(op, b, u, {})
          BY <3>1, <3>2
        <4> QED
          BY <2>1, <2>3, <4>1
      <3>3. CASE \E q \in requests :
                   /\ MarkPaidVerify(q)
                   /\ r = [q EXCEPT !.op = "commit", !.lines = items[q.batch]]
        BY <2>1, <2>4, <3>3
      <3>4. CASE \E m \in Missions, op \in {"hold", "release", "reverse"} :
                   PaymentRead(op, m) /\ r = Request(op, None, None, {m})
        BY <2>5, <3>4
      <3> QED
        BY <1>2, <2>6, <3>2, <3>3, <3>4, RequestFrame
    <2> QED
      BY <2>2, <2>6
  <1>3. worker'.pc \in BatchPcs => worker'.batch \in Batches /\ status'[worker'.batch] # "NONE"
    <2>1. CASE UNCHANGED worker
      BY <1>t, <2>1, BatchesGrow DEF BatchesExist
    <2>2. CASE worker' = Idle \/ \E k, S : CloseWith(k, S)
      <3>1. Idle.pc = "idle"
        BY DEF Idle
      <3>2. ASSUME NEW k, NEW S, CloseWith(k, S) PROVE worker'.pc = "create"
        BY <3>2 DEF CloseWith, Idle
      <3> QED
        BY <2>2, <3>1, <3>2 DEF BatchPcs, JobPcs
    <2>3. ASSUME NEW b \in Batches, CloseCreate(b)
          PROVE  worker'.pc \in BatchPcs => worker'.batch \in Batches /\ status'[worker'.batch] # "NONE"
      <3>1. status'[b] # "NONE"
        BY <1>t, <2>3 DEF CloseCreate, AddBatch, TypeOK
      <3>2. worker'.pc = "idle" \/ worker'.batch = b
        BY <1>t, <2>3, CloseMoves DEF TypeOK
      <3> QED
        BY <2>3, <3>1, <3>2 DEF BatchPcs, JobPcs
    <2>4. CASE TakeJob
      <3>1. worker'.batch \in QueuedBatches
        BY <1>t, <2>4, TakenBatches DEF TypeOK, TakeJob, Idle
      <3>2. worker'.batch \in Batches /\ status[worker'.batch] # "NONE"
        BY <3>1 DEF IInv, JobsExist
      <3> QED
        BY <3>2, BatchesGrow
    <2>5. CASE \/ ClosesPool \/ JobStart \/ JobSendToBankRead \/ JobSendToBank \/ JobLoadLines
               \/ \E i \in Items : JobReadPayout(i)
               \/ JobMarkProcessing \/ BankAccepts \/ BankRejects \/ JobSettleRead
               \/ JobSettleCommit \/ JobRecordReject \/ JobFinish
      <3>1. worker.pc \in BatchPcs /\ (worker'.batch = worker.batch \/ worker' = Idle)
        <4>1. worker \in WorkerType
          BY <1>t DEF TypeOK
        <4>2. CASE ClosesPool
          BY <4>1, <4>2, CloseMoves DEF BatchPcs
        <4> QED
          BY <2>5, <4>1, <4>2, JobKeepsBatch DEF BatchPcs
      <3>2. worker.batch \in Batches /\ status[worker.batch] # "NONE"
        BY <1>t, <3>1 DEF BatchesExist
      <3> QED
        BY <3>1, <3>2, BatchesGrow DEF Idle, BatchPcs, JobPcs
    <2> QED
      BY <2>1, <2>2, <2>3, <2>4, <2>5, WorkerFrame
  <1> QED
    BY <1>1, <1>2, <1>3 DEF BatchesExist

\* A queued job is an old one, the one a lock enqueues, the one that has just
\* thrown, or one that an operator retries.
LEMMA QueueFrame ==
  ASSUME IInv, [Next]_vars, NEW b \in QueuedBatches' \union failedJobs'
  PROVE  \/ b \in QueuedBatches \union failedJobs
         \/ \E r \in requests : LockWrite(r) /\ b = r.batch
         \/ worker.pc \in JobPcs /\ b = worker.batch
  <1> DEFINE Framed ==
         \/ b \in QueuedBatches \union failedJobs
         \/ \E r \in requests : LockWrite(r) /\ b = r.batch
         \/ worker.pc \in JobPcs /\ b = worker.batch
  <1>t. queue \in Seq(JobType)
    BY DEF IInv, TypeOK
  <1>1. CASE UNCHANGED <<queue, failedJobs>>
    BY <1>1 DEF QueuedBatches
  <1>2. ASSUME NEW r \in requests, LockWrite(r) PROVE Framed
    <2>1. [batch |-> r.batch, attempts |-> 0] \in JobType
      BY <1>2 DEF JobType, IInv, BatchesExist, LockWrite, BatchOps
    <2>2. QueuedBatches' \subseteq QueuedBatches \union {r.batch} /\ failedJobs' = failedJobs
      BY <1>2, <1>t, <2>1, EnqueuedBatches DEF LockWrite, QueuedBatches
    <2> QED
      BY <1>2, <2>2
  <1>3. ASSUME JobFails, worker.pc # "idle" PROVE Framed
    <2>1. worker.attempts # 0 =>
            /\ worker.pc \in JobPcs
            /\ [batch |-> worker.batch, attempts |-> worker.attempts] \in JobType
      BY <1>3 DEF JobType, IInv, BatchesExist, WorkerKnows, TypeOK, WorkerType, BatchPcs
    <2>2. CASE /\ worker.attempts # 0
               /\ queue' = Append(queue, [batch |-> worker.batch, attempts |-> worker.attempts])
               /\ failedJobs' = failedJobs
      BY <1>t, <2>1, <2>2, EnqueuedBatches
    <2>3. CASE worker.attempts # 0 /\ queue' = queue /\ failedJobs' = failedJobs \union {worker.batch}
      BY <2>1, <2>3 DEF QueuedBatches
    <2> QED
      BY <1>1, <1>3, <2>2, <2>3 DEF JobFails
  <1>4. CASE TakeJob
    BY <1>t, <1>4, TakenBatches DEF TakeJob
  <1>5. ASSUME NEW c \in Batches, RetryFailedJob(c) PROVE Framed
    <2>1. [batch |-> c, attempts |-> 0] \in JobType
      BY DEF JobType
    <2> QED
      BY <1>5, <1>t, <2>1, EnqueuedBatches DEF RetryFailedJob
  <1>6. CASE Crash
    BY <1>6 DEF Crash, QueuedBatches
  <1>7. CASE CloseJob
    BY <1>1, <1>7 DEF CloseJob, CloseJobStep, MonthlyCloseRead, OwnerWeeklyCloseRead,
       HouseholdMonthlyCloseRead, CloseCreate, MonthlyClosePool, ClosePoolLine,
       MonthlyCloseStatement
  <1>8. CASE AdminRequest
    BY <1>1, <1>2, <1>8 DEF AdminRequest, ApproveRead, LockRead, SendToBankRead, MarkPaidRead,
       MarkFailedRead, PaymentRead, ApproveWrite, SendToBankWrite, MarkPaidVerify,
       MarkPaidCommit, MarkFailedWrite, PaymentWrite, RequestAborts, ReadOnly, jobVars
  <1>9. CASE PayoutJob \/ JobFault
    <2>1. UNCHANGED <<queue, failedJobs>> \/ (JobFails /\ worker.pc # "idle") \/ TakeJob
      BY <1>9 DEF PayoutJob, JobStart, JobSendToBankRead, JobSendToBank, JobLoadLines,
       JobReadPayout, JobMarkProcessing, BankAccepts, BankRejects, JobSettleRead,
       JobSettleCommit, JobRecordReject, JobFinish, JobEnds, JobFault
    <2> QED
      BY <1>1, <1>3, <1>4, <2>1
  <1>10. CASE (\E c \in Batches : CreateDraft(c)) \/ LockPeriodStatement
              \/ RegisterMinePayment \/ UNCHANGED vars
    BY <1>1, <1>10 DEF CreateDraft, LockPeriodStatement, RegisterMinePayment, vars, jobVars
  <1> QED
    BY <1>5, <1>6, <1>7, <1>8, <1>9, <1>10 DEF Next

\* So do the queue and failed_jobs.
LEMMA JobsExistStep == ASSUME IInv, [Next]_vars PROVE JobsExist'
  <1>1. ASSUME NEW r \in requests, LockWrite(r)
        PROVE  r.batch \in Batches /\ status[r.batch] # "NONE"
    BY <1>1 DEF IInv, BatchesExist, LockWrite, BatchOps
  <1>2. worker.pc \in JobPcs => worker.batch \in Batches /\ status[worker.batch] # "NONE"
    BY DEF IInv, BatchesExist, BatchPcs
  <1>3. \A b \in QueuedBatches \union failedJobs : b \in Batches /\ status[b] # "NONE"
    BY DEF IInv, JobsExist
  <1>4. \A b \in QueuedBatches' \union failedJobs' : b \in Batches /\ status[b] # "NONE"
    BY <1>1, <1>2, <1>3, QueueFrame
  <1> QED
    BY <1>4, BatchesGrow DEF JobsExist

\* No request, job or retry that moves the money of a batch starts before both
\* approvals of the batch are recorded, and approvals are never withdrawn.
LEMMA ApprovedFirstStep == ASSUME IInv, [Next]_vars PROVE ApprovedFirst'
  <1>g. \A b \in Batches : Approved(b) => Approved(b)'
    BY BatchesGrow
  <1>s. \A b \in Batches : status[b] \in {"READY_FOR_SETTLEMENT", "IN_BANK_QUEUE"} => Approved(b)
    BY DEF IInv, PaidOnlyAfterDualApproval, Approved
  <1>1. ASSUME NEW r \in requests', r.op \in {"lock", "send", "pay", "commit"}
        PROVE  Approved(r.batch)'
    <2>1. r.batch \in Batches
      BY <1>1, BatchesExistStep DEF BatchesExist, BatchOps
    <2>2. CASE r \in requests
      BY <1>1, <1>g, <2>1, <2>2 DEF IInv, ApprovedFirst
    <2>3. ASSUME NEW b \in Batches, NEW u \in Users,
            \/ ApproveRead(b, u) /\ r = Request("approve", b, u, {})
            \/ LockRead(b, u) /\ r = Request("lock", b, u, {})
            \/ SendToBankRead(b, u) /\ r = Request("send", b, u, {})
            \/ MarkPaidRead(b, u) /\ r = Request("pay", b, u, {})
            \/ MarkFailedRead(b, u) /\ r = Request("fail", b, u, {})
          PROVE  r.batch = b /\ Approved(b)
      <3>1. CASE LockRead(b, u) /\ r = Request("lock", b, u, {})
        BY <3>1 DEF LockRead, HasAllApprovals, Approved, Request
      <3>2. CASE SendToBankRead(b, u) /\ r = Request("send", b, u, {})
        BY <1>s, <3>2 DEF SendToBankRead, Request
      <3>3. CASE MarkPaidRead(b, u) /\ r = Request("pay", b, u, {})
        BY <1>s, <3>3 DEF MarkPaidRead, Request
      <3>4. CASE r = Request("approve", b, u, {}) \/ r = Request("fail", b, u, {})
        BY <1>1, <3>4 DEF Request
      <3> QED
        BY <2>3, <3>1, <3>2, <3>3, <3>4
    <2>4. ASSUME NEW q \in requests, MarkPaidVerify(q),
                 r = [q EXCEPT !.op = "commit", !.lines = items[q.batch]]
          PROVE  r.batch = q.batch /\ Approved(q.batch)
      <3>1. q \in RequestType
        BY DEF IInv, TypeOK
      <3> QED
        BY <2>4, <3>1 DEF IInv, ApprovedFirst, MarkPaidVerify, RequestType
    <2>5. ASSUME NEW m \in Missions, NEW op \in {"hold", "release", "reverse"},
                 r = Request(op, None, None, {m})
          PROVE  FALSE
      BY <1>1, <2>5 DEF Request
    <2>6. CASE r \notin requests
      <3>1. Approved(r.batch)
        BY <2>3, <2>4, <2>5, <2>6, RequestFrame
      <3> QED
        BY <1>g, <2>1, <3>1
    <2> QED
      BY <2>2, <2>6
  <1>2. /\ \A r \in requests : LockWrite(r) => r.batch \in Batches /\ Approved(r.batch)
        /\ worker.pc \in JobPcs => worker.batch \in Batches /\ Approved(worker.batch)
        /\ \A b \in QueuedBatches \union failedJobs : b \in Batches /\ Approved(b)
    BY DEF IInv, ApprovedFirst, BatchesExist, JobsExist, BatchPcs, BatchOps, LockWrite
  <1>3. \A b \in QueuedBatches' \union failedJobs' : b \in Batches /\ Approved(b)
    BY <1>2, QueueFrame
  <1>5. worker'.pc \in JobPcs => worker'.batch \in Batches /\ Approved(worker'.batch)
    <2>1. CASE UNCHANGED worker
      BY <1>2, <2>1
    <2>2. CASE worker' = Idle
      BY <2>2 DEF Idle, JobPcs
    <2>3. CASE \E k, S : CloseWith(k, S)
      <3>1. ASSUME NEW k, NEW S, CloseWith(k, S) PROVE worker'.pc = "create"
        BY <3>1 DEF CloseWith, Idle
      <3> QED
        BY <2>3, <3>1 DEF JobPcs
    <2>4. CASE (\E b \in Batches : CloseCreate(b)) \/ ClosesPool
      BY <2>4, CloseMoves DEF IInv, TypeOK, JobPcs
    <2>5. CASE TakeJob
      <3>1. worker'.batch \in QueuedBatches
        BY <2>5, TakenBatches DEF IInv, TypeOK, TakeJob, Idle
      <3> QED
        BY <1>2, <3>1
    <2>6. CASE \/ JobStart \/ JobSendToBankRead \/ JobSendToBank \/ JobLoadLines
               \/ \E i \in Items : JobReadPayout(i)
               \/ JobMarkProcessing \/ BankAccepts \/ BankRejects \/ JobSettleRead
               \/ JobSettleCommit \/ JobRecordReject \/ JobFinish
      <3>1. worker.pc \in JobPcs /\ (worker'.batch = worker.batch \/ worker' = Idle)
        BY <2>6, JobKeepsBatch DEF IInv, TypeOK
      <3> QED
        BY <1>2, <3>1 DEF Idle, JobPcs
    <2> QED
      BY <2>1, <2>2, <2>3, <2>4, <2>5, <2>6, WorkerFrame
  <1> QED
    BY <1>1, <1>3, <1>5, <1>g DEF ApprovedFirst

\* Payout rows are only written for lines of the batch, and the lines that a
\* mark-paid has read stay all its mission lines.
LEMMA RowsOfLinesStep == ASSUME IInv, [Next]_vars PROVE RowsOfLines'
  <1>t. /\ payout \in [Lines -> PayoutStatus]
        /\ \A b \in Batches, i \in Items : <<b, i>> \in Lines
    BY DEF IInv, TypeOK, Lines
  <1>g. \A b \in Batches, i \in Items : i \in items[b] => i \in items'[b]
    BY BatchesGrow DEF IInv, BatchesExist
  <1>o. \A b \in Batches, i \in Items : payout[<<b, i>>] # "NONE" => i \in items[b]
    BY DEF IInv, RowsOfLines
  <1>1. ASSUME NEW b \in Batches, NEW i \in Items, payout'[<<b, i>>] # "NONE"
        PROVE  i \in items[b]
    <2>1. CASE UNCHANGED payout
      BY <1>1, <1>o, <2>1
    <2>2. ASSUME NEW r \in requests, MarkPaidCommit(r) PROVE i \in items[b]
      <3>1. r.lines \subseteq items[r.batch]
        BY <2>2 DEF IInv, RowsOfLines, MarkPaidCommit
      <3>2. payout' = ReplacedRows(r.batch, r.lines)
        BY <2>2 DEF MarkPaidCommit
      <3> QED
        BY <1>t, <1>o, <1>1, <3>1, <3>2 DEF ReplacedRows
    <2>3. CASE JobMarkProcessing \/ JobSettleCommit \/ JobRecordReject
      <3>1. worker.item \in items[worker.batch]
        BY <2>3, WorkerLine DEF JobMarkProcessing, JobSettleCommit, JobRecordReject, LinePcs
      <3>2. \A l \in Lines : payout'[l] = payout[l] \/ l = Line
        BY <1>t, <2>3 DEF JobMarkProcessing, JobSettleCommit, JobRecordReject
      <3> QED
        BY <1>t, <1>o, <1>1, <3>1, <3>2 DEF Line
    <2> QED
      BY <2>1, <2>2, <2>3, RowFrame DEF BankAccepts
  <1>2. ASSUME NEW r \in requests', r.op = "commit"
        PROVE  /\ r.lines \subseteq items'[r.batch]
               /\ items'[r.batch] \intersect Missions \subseteq r.lines
    <2>1. ASSUME NEW b \in Batches, status[b] # "NONE"
          PROVE  /\ items[b] \subseteq items'[b]
                 /\ items'[b] \intersect Missions = items[b] \intersect Missions
      BY <2>1, BatchesGrow
    <2>2. CASE r \in requests
      <3>1. r.batch \in Batches /\ status[r.batch] # "NONE"
        BY <1>2, <2>2 DEF IInv, BatchesExist, BatchOps
      <3>2. r.lines \subseteq items[r.batch] /\ items[r.batch] \intersect Missions \subseteq r.lines
        BY <1>2, <2>2 DEF IInv, RowsOfLines
      <3> QED
        BY <2>1, <3>1, <3>2
    <2>3. ASSUME NEW q \in requests, MarkPaidVerify(q),
                 r = [q EXCEPT !.op = "commit", !.lines = items[q.batch]]
          PROVE  items' = items /\ r.lines = items[r.batch]
      <3>1. q \in RequestType
        BY DEF IInv, TypeOK
      <3> QED
        BY <2>3, <3>1 DEF MarkPaidVerify, ReadOnly, batchVars, RequestType
    <2>4. CASE r \notin requests
      <3>1. /\ \A b, u : /\ r # Request("approve", b, u, {})
                         /\ r # Request("lock", b, u, {})
                         /\ r # Request("send", b, u, {})
                         /\ r # Request("pay", b, u, {})
                         /\ r # Request("fail", b, u, {})
            /\ \A op \in {"hold", "release", "reverse"} : \A m : r # Request(op, None, None, {m})
        BY <1>2 DEF Request
      <3>2. \E q \in requests :
              /\ MarkPaidVerify(q)
              /\ r = [q EXCEPT !.op = "commit", !.lines = items[q.batch]]
        BY <2>4, <3>1, RequestFrame
      <3> QED
        BY <2>3, <3>2
    <2> QED
      BY <2>2, <2>4
  <1> QED
    BY <1>1, <1>2, <1>g DEF RowsOfLines

\* A row becomes COMPLETED only where its mission becomes SETTLED.
LEMMA CompletedLineMissionSettledStep ==
  ASSUME IInv, [Next]_vars PROVE CompletedLineMissionSettled'
  <1>t. /\ payout \in [Lines -> PayoutStatus]
        /\ mission \in [Missions -> {"VERIFIED", "SETTLED"}]
        /\ \A b \in Batches, m \in Missions : <<b, m>> \in Lines
    BY DEF IInv, TypeOK, Lines, Items
  <1>o. CompletedLineMissionSettled
    BY DEF IInv
  <1> SUFFICES ASSUME NEW b \in Batches, NEW m \in Missions, payout'[<<b, m>>] = "COMPLETED"
               PROVE  mission'[m] = "SETTLED"
    BY DEF CompletedLineMissionSettled
  <1>1. CASE payout[<<b, m>>] = "COMPLETED"
    BY <1>1, <1>o, RowsGrow DEF CompletedLineMissionSettled
  <1>2. ASSUME NEW r \in requests, MarkPaidCommit(r) PROVE mission'[m] = "SETTLED"
    <2>1. /\ mission' = [n \in Missions |-> IF n \in r.lines THEN "SETTLED" ELSE mission[n]]
          /\ payout' = ReplacedRows(r.batch, r.lines)
      BY <1>2 DEF MarkPaidCommit, SettleMissions
    <2> QED
      BY <1>t, <1>1, <2>1 DEF ReplacedRows
  <1>3. CASE JobSettleCommit
    BY <1>t, <1>1, <1>3 DEF JobSettleCommit, SettleMissions, Line
  <1>4. CASE JobMarkProcessing \/ JobRecordReject \/ BankAccepts
             \/ UNCHANGED <<mission, payout, manual, bank>>
    BY <1>t, <1>1, <1>4 DEF JobMarkProcessing, JobRecordReject, BankAccepts
  <1> QED
    BY <1>2, <1>3, <1>4, RowFrame

\* A mission becomes SETTLED only with a COMPLETED row, and mark-paid rewrites
\* rows to COMPLETED, so that the row survives it.
LEMMA SettledMissionHasCompletedLineStep ==
  ASSUME IInv, [Next]_vars PROVE SettledMissionHasCompletedLine'
  <1>t. /\ payout \in [Lines -> PayoutStatus]
        /\ mission \in [Missions -> {"VERIFIED", "SETTLED"}]
        /\ \A b \in Batches, m \in Missions : <<b, m>> \in Lines
    BY DEF IInv, TypeOK, Lines, Items
  <1> SUFFICES ASSUME NEW m \in Missions, mission'[m] = "SETTLED"
               PROVE  \E b \in Batches : payout'[<<b, m>>] = "COMPLETED"
    BY DEF SettledMissionHasCompletedLine
  <1>1. CASE mission[m] = "SETTLED"
    BY <1>1, RowsGrow DEF IInv, SettledMissionHasCompletedLine
  <1>2. ASSUME NEW r \in requests, MarkPaidCommit(r), mission[m] # "SETTLED"
        PROVE  payout'[<<r.batch, m>>] = "COMPLETED" /\ r.batch \in Batches
    <2>1. /\ mission' = [n \in Missions |-> IF n \in r.lines THEN "SETTLED" ELSE mission[n]]
          /\ payout' = ReplacedRows(r.batch, r.lines)
          /\ r.batch \in Batches
      BY <1>2 DEF MarkPaidCommit, SettleMissions, IInv, BatchesExist, BatchOps
    <2>2. m \in r.lines
      BY <1>2, <2>1
    <2> QED
      BY <1>t, <2>1, <2>2 DEF ReplacedRows
  <1>3. ASSUME JobSettleCommit, mission[m] # "SETTLED"
        PROVE  payout'[<<worker.batch, m>>] = "COMPLETED" /\ worker.batch \in Batches
    <2>1. worker.batch \in Batches
      BY <1>3, WorkerLine DEF JobSettleCommit, BatchPcs, JobPcs
    <2>2. m = worker.item
      BY <1>3 DEF JobSettleCommit, SettleMissions
    <2> QED
      BY <1>t, <1>3, <2>1, <2>2 DEF JobSettleCommit, Line
  <1>4. CASE JobMarkProcessing \/ JobRecordReject \/ BankAccepts
             \/ UNCHANGED <<mission, payout, manual, bank>>
    BY <1>1, <1>4 DEF JobMarkProcessing, JobRecordReject, BankAccepts
  <1> QED
    BY <1>1, <1>2, <1>3, <1>4, RowFrame

\* A job that met no failed line has done every payee it has passed; a mark-paid
\* completes all lines.
LEMMA SettledBatchFullyPaidStep ==
  ASSUME IInv, [Next]_vars PROVE SettledBatchFullyPaid'
  <1>t. /\ payout \in [Lines -> PayoutStatus]
        /\ status \in [Batches -> BatchStatus]
        /\ \A b \in Batches, m \in Missions : <<b, m>> \in Lines
    BY DEF IInv, TypeOK, Lines, Items
  <1> SUFFICES ASSUME NEW b \in Batches, NEW m \in Missions \intersect Payable,
                      status'[b] = "SETTLED", m \in items'[b]
               PROVE  payout'[<<b, m>>] = "COMPLETED"
    BY DEF SettledBatchFullyPaid
  <1>1. status[b] # "NONE"
    <2>1. ASSUME NEW c \in Batches, CloseCreate(c) \/ CreateDraft(c) PROVE status[b] # "NONE"
      <3>1. PICK s, k, S : s \in {"DRAFT", "CALCULATED"} /\ AddBatch(c, s, k, S)
        BY <2>1 DEF CloseCreate, CreateDraft
      <3> QED
        BY <1>t, <3>1 DEF AddBatch
    <2>2. ASSUME NEW r \in requests,
                 ApproveWrite(r) \/ LockWrite(r) \/ SendToBankWrite(r)
                 \/ MarkPaidCommit(r) \/ MarkFailedWrite(r)
          PROVE  status[b] # "NONE"
      <3>1. r.op \in BatchOps
        BY <2>2 DEF ApproveWrite, LockWrite, SendToBankWrite, MarkPaidCommit,
                    MarkFailedWrite, BatchOps
      <3>2. status[r.batch] # "NONE"
        BY <3>1 DEF IInv, BatchesExist
      <3> QED
        BY <1>t, <2>2, <3>2 DEF ApproveWrite, LockWrite, SendToBankWrite, MarkPaidCommit,
                                MarkFailedWrite, SetStatus
    <2>3. CASE JobSendToBank \/ JobFinish
      <3>1. status[worker.batch] # "NONE"
        BY <2>3, WorkerLine DEF JobSendToBank, JobFinish, BatchPcs, JobPcs
      <3> QED
        BY <1>t, <2>3, <3>1 DEF JobSendToBank, JobFinish, SetStatus
    <2> QED
      BY <2>1, <2>2, <2>3, BatchFrame DEF ClosePoolLine
  <1>2. m \in items[b]
    BY <1>1, BatchesGrow
  <1>3. CASE status[b] = "SETTLED"
    BY <1>2, <1>3, RowsGrow DEF IInv, SettledBatchFullyPaid
  <1>4. ASSUME NEW r \in requests, MarkPaidCommit(r), status[b] # "SETTLED"
        PROVE  payout'[<<b, m>>] = "COMPLETED"
    <2>1. r.batch = b
      BY <1>t, <1>4 DEF MarkPaidCommit, SetStatus
    <2>2. m \in r.lines
      BY <1>2, <1>4, <2>1 DEF MarkPaidCommit, IInv, RowsOfLines
    <2> QED
      BY <1>t, <1>4, <2>1, <2>2 DEF MarkPaidCommit, ReplacedRows
  <1>5. ASSUME JobFinish, status[b] # "SETTLED"
        PROVE  payout'[<<b, m>>] = "COMPLETED"
    <2>1. worker.batch = b /\ Outcome = "SETTLED"
      BY <1>t, <1>5 DEF JobFinish, SetStatus
    <2>2. ~worker.failed
      BY <2>1 DEF Outcome
    <2>3. m \in worker.done
      BY <1>2, <1>5, <2>1, <2>2 DEF JobFinish, IInv, WorkerKnows, LoadedPcs
    <2>4. payout[<<b, m>>] = "COMPLETED"
      BY <1>5, <2>1, <2>3 DEF JobFinish, IInv, WorkerKnows, LoadedPcs
    <2> QED
      BY <2>4, RowsGrow
  <1>6. CASE (\E r \in requests : ApproveWrite(r) \/ LockWrite(r) \/ SendToBankWrite(r)
                                  \/ MarkFailedWrite(r))
             \/ (\E h \in Households : ClosePoolLine(h))
             \/ JobSendToBank \/ UNCHANGED <<status, items, approval>>
    <2>1. status[b] = "SETTLED"
      BY <1>t, <1>6 DEF ApproveWrite, LockWrite, SendToBankWrite, MarkFailedWrite,
                        JobSendToBank, ClosePoolLine, SetStatus
    <2> QED
      BY <1>3, <2>1
  <1>7. ASSUME NEW c \in Batches, CloseCreate(c) \/ CreateDraft(c)
        PROVE  status[b] = "SETTLED"
    <2>1. PICK s, k, S : s \in {"DRAFT", "CALCULATED"} /\ AddBatch(c, s, k, S)
      BY <1>7 DEF CloseCreate, CreateDraft
    <2> QED
      BY <1>t, <2>1 DEF AddBatch
  <1> QED
    BY <1>3, <1>4, <1>5, <1>6, <1>7, BatchFrame

\* What moves money starts from a request or a job that is ApprovedFirst.
LEMMA PaidOnlyAfterDualApprovalStep ==
  ASSUME IInv, [Next]_vars PROVE PaidOnlyAfterDualApproval'
  <1> DEFINE Moving == {"READY_FOR_SETTLEMENT", "IN_BANK_QUEUE", "SETTLED", "MANUAL_REVIEW"}
  <1>t. /\ payout \in [Lines -> PayoutStatus]
        /\ bank \in [Lines -> Nat]
        /\ status \in [Batches -> BatchStatus]
        /\ \A b \in Batches, i \in Items : <<b, i>> \in Lines
    BY DEF IInv, TypeOK, Lines
  <1>o. \A b \in Batches :
          (status[b] \in Moving \/ \E i \in Items : payout[<<b, i>>] # "NONE" \/ bank[<<b, i>>] > 0)
          => Approved(b)
    BY DEF IInv, PaidOnlyAfterDualApproval, Approved
  <1>w. worker.pc \in JobPcs => Approved(worker.batch)
    BY DEF IInv, ApprovedFirst
  <1>r. \A r \in requests : r.op \in {"lock", "send", "pay", "commit"} => Approved(r.batch)
    BY DEF IInv, ApprovedFirst
  <1>1. ASSUME NEW b \in Batches, status'[b] \in Moving PROVE Approved(b)
    <2>1. CASE status[b] \in Moving
      BY <1>o, <2>1
    <2>2. ASSUME NEW r \in requests, LockWrite(r) \/ SendToBankWrite(r) \/ MarkPaidCommit(r)
          PROVE  Approved(b)
      <3>1. Approved(r.batch)
        BY <1>r, <2>2 DEF LockWrite, SendToBankWrite, MarkPaidCommit
      <3>2. b = r.batch \/ status'[b] = status[b]
        BY <1>t, <2>2 DEF LockWrite, SendToBankWrite, MarkPaidCommit, SetStatus
      <3> QED
        BY <1>1, <2>1, <3>1, <3>2
    <2>3. CASE JobSendToBank \/ JobFinish
      <3>1. Approved(worker.batch)
        BY <1>w, <2>3 DEF JobSendToBank, JobFinish, JobPcs
      <3>2. b = worker.batch \/ status'[b] = status[b]
        BY <1>t, <2>3 DEF JobSendToBank, JobFinish, SetStatus
      <3> QED
        BY <1>1, <2>1, <3>1, <3>2
    <2>4. ASSUME NEW r \in requests, ApproveWrite(r) \/ MarkFailedWrite(r)
          PROVE  status[b] \in Moving
      BY <1>t, <1>1, <2>4 DEF ApproveWrite, MarkFailedWrite, SetStatus
    <2>5. ASSUME NEW c \in Batches, CloseCreate(c) \/ CreateDraft(c)
          PROVE  status[b] \in Moving
      <3>1. PICK s, k, S : s \in {"DRAFT", "CALCULATED"} /\ AddBatch(c, s, k, S)
        BY <2>5 DEF CloseCreate, CreateDraft
      <3> QED
        BY <1>t, <1>1, <3>1 DEF AddBatch
    <2> QED
      BY <1>1, <2>1, <2>2, <2>3, <2>4, <2>5, BatchFrame DEF ClosePoolLine
  <1>2. ASSUME NEW b \in Batches, NEW i \in Items,
               payout'[<<b, i>>] # "NONE" \/ bank'[<<b, i>>] > 0
        PROVE  Approved(b)
    <2>1. CASE payout[<<b, i>>] # "NONE" \/ bank[<<b, i>>] > 0
      BY <1>o, <2>1
    <2>2. ASSUME NEW r \in requests, MarkPaidCommit(r) PROVE Approved(b)
      <3>1. Approved(r.batch)
        BY <1>r, <2>2 DEF MarkPaidCommit
      <3>2. payout' = ReplacedRows(r.batch, r.lines) /\ bank' = bank
        BY <2>2 DEF MarkPaidCommit
      <3> QED
        BY <1>t, <1>2, <2>1, <3>1, <3>2 DEF ReplacedRows
    <2>3. CASE JobMarkProcessing \/ BankAccepts \/ JobSettleCommit \/ JobRecordReject
      <3>1. Approved(worker.batch)
        BY <1>w, <2>3 DEF JobMarkProcessing, BankAccepts, JobSettleCommit, JobRecordReject, JobPcs
      <3>2. \A l \in Lines : l # Line => payout'[l] = payout[l] /\ bank'[l] = bank[l]
        BY <1>t, <2>3 DEF JobMarkProcessing, BankAccepts, JobSettleCommit, JobRecordReject
      <3> QED
        BY <1>t, <1>2, <2>1, <3>1, <3>2 DEF Line
    <2> QED
      BY <1>2, <2>1, <2>2, <2>3, RowFrame
  <1> QED
    BY <1>1, <1>2, BatchesGrow DEF PaidOnlyAfterDualApproval, Approved

\* The job completes a row only at "commit", which it reaches from "bank".
LEMMA CompletedWasTransferredStep ==
  ASSUME IInv, [Next]_vars PROVE CompletedWasTransferred'
  <1>t. payout \in [Lines -> PayoutStatus] /\ bank \in [Lines -> Nat]
    BY DEF IInv, TypeOK
  <1>o. CompletedWasTransferred
    BY DEF IInv
  <1> SUFFICES ASSUME NEW l \in Lines, payout'[l] = "COMPLETED", l \notin manual'
               PROVE  bank'[l] > 0
    BY DEF CompletedWasTransferred
  <1>1. CASE payout[l] = "COMPLETED" /\ l \notin manual
    BY <1>1, <1>o, RowsGrow DEF CompletedWasTransferred
  <1>2. ASSUME NEW r \in requests, MarkPaidCommit(r)
        PROVE  payout[l] = "COMPLETED" /\ l \notin manual
    BY <1>2 DEF MarkPaidCommit, ReplacedRows
  <1>3. CASE JobSettleCommit
    <2>1. bank[Line] > 0
      BY <1>3 DEF JobSettleCommit, IInv, WorkerKnows
    <2>2. l = Line \/ payout'[l] = payout[l]
      BY <1>t, <1>3 DEF JobSettleCommit
    <2> QED
      BY <1>1, <1>3, <2>1, <2>2, RowsGrow DEF JobSettleCommit
  <1>4. CASE JobMarkProcessing \/ JobRecordReject \/ BankAccepts
             \/ UNCHANGED <<mission, payout, manual, bank>>
    BY <1>t, <1>1, <1>4 DEF JobMarkProcessing, JobRecordReject, BankAccepts
  <1> QED
    BY <1>1, <1>2, <1>3, <1>4, RowFrame

\* What the job remembers survives the requests that run between its awaits.
LEMMA WorkerKnowsStep == ASSUME IInv, [Next]_vars PROVE WorkerKnows'
  <1>t. /\ worker \in WorkerType
        /\ payout \in [Lines -> PayoutStatus]
        /\ bank \in [Lines -> Nat]
        /\ WorkerKnows
    BY DEF IInv, TypeOK
  <1>t2. worker' \in WorkerType
    BY TypeStep DEF TypeOK
  <1>b. worker.pc \in JobPcs => worker.batch \in Batches /\ status[worker.batch] # "NONE"
    BY WorkerLine DEF BatchPcs
  <1>l. worker.pc \in LinePcs => Line \in Lines /\ worker.batch \in Batches
    BY WorkerLine, <1>b DEF LinePcs, JobPcs
  <1>g. worker.pc \in JobPcs =>
          /\ items[worker.batch] \subseteq items'[worker.batch]
          /\ items'[worker.batch] \intersect Missions = items[worker.batch] \intersect Missions
    BY <1>b, BatchesGrow
  <1>d. worker.pc \in LoadedPcs =>
          \A m \in worker.done \intersect Missions : payout'[<<worker.batch, m>>] = "COMPLETED"
    BY <1>t, <1>b, RowsGrow DEF WorkerKnows, LoadedPcs, LinePcs, JobPcs
  \* The facts about the lines of the batch, for a worker w of the next state.
  <1> DEFINE Loaded(w) ==
        /\ w.todo \subseteq w.lines
        /\ w.lines \subseteq items'[w.batch]
        /\ items'[w.batch] \intersect Missions \subseteq w.lines
        /\ \A m \in w.done \intersect Missions : payout'[<<w.batch, m>>] = "COMPLETED"
        /\ ~w.failed => (w.lines \ w.todo) \intersect Payable \subseteq w.done
  <1>L. worker.pc \in LoadedPcs => Loaded(worker)
    BY <1>t, <1>g, <1>d DEF WorkerKnows, LoadedPcs, LinePcs, JobPcs
  <1>1. CASE UNCHANGED worker
    <2>1. worker.pc \in {"settle", "commit"} => bank'[Line] > 0
      BY <1>t, <1>l, RowsGrow DEF WorkerKnows, LinePcs
    <2>2. ASSUME worker.pc = "commit" PROVE payout'[Line] = "PROCESSING"
      <3>1. payout[Line] = "PROCESSING" /\ Line \in Lines
        BY <1>t, <1>l, <2>2 DEF WorkerKnows, LinePcs
      <3>2. ASSUME NEW r \in requests, MarkPaidCommit(r) PROVE payout'[Line] = payout[Line]
        BY <2>2, <3>1, <3>2 DEF MarkPaidCommit, ReplacedRows, Line
      <3>3. CASE JobMarkProcessing \/ BankAccepts \/ JobSettleCommit \/ JobRecordReject
        <4>1. ~JobSettleCommit
          BY <1>1, <1>t, <2>2 DEF JobSettleCommit, NextLine, WorkerType
        <4> QED
          BY <2>2, <3>3, <4>1 DEF JobMarkProcessing, BankAccepts, JobRecordReject
      <3> QED
        BY <3>1, <3>2, <3>3, RowFrame
    <2>3. Line' = Line
      BY <1>1 DEF Line
    <2> QED
      BY <1>t, <1>1, <1>L, <2>1, <2>2, <2>3 DEF WorkerKnows
  <1>2. CASE worker' = Idle
    BY <1>2 DEF WorkerKnows, Idle, LoadedPcs, LinePcs
  <1>3. ASSUME worker'.pc \in {"create", "pool", "append", "statement"}, worker'.attempts = 0
        PROVE  WorkerKnows'
    BY <1>3 DEF WorkerKnows, LoadedPcs, LinePcs
  <1>4. ASSUME NEW k, NEW S, CloseWith(k, S) PROVE WorkerKnows'
    BY <1>3, <1>4 DEF CloseWith, Idle
  <1>5. ASSUME NEW b \in Batches, CloseCreate(b) PROVE WorkerKnows'
    BY <1>t, <1>2, <1>3, <1>5, CloseMoves DEF WorkerKnows
  <1>6. CASE ClosesPool
    BY <1>t, <1>2, <1>3, <1>6, CloseMoves DEF WorkerKnows
  <1>7. ASSUME worker.pc \in JobPcs, worker'.attempts = worker.attempts,
               worker'.pc \in {"check", "send", "load"}, worker.pc \in {"start", "check", "send"},
               worker'.done = worker.done
        PROVE  WorkerKnows'
    BY <1>t, <1>7 DEF WorkerKnows, LoadedPcs, LinePcs
  <1>8. CASE TakeJob
    <2>1. Head(queue).attempts \in Nat
      <3>1. Head(queue) \in JobType
        BY <1>8 DEF IInv, TypeOK, TakeJob
      <3> QED
        BY <3>1 DEF JobType
    <2>2. worker'.pc = "start" /\ worker'.done = {} /\ worker'.attempts # 0
      BY <1>8, <2>1 DEF TakeJob, Idle
    <2> QED
      BY <2>2 DEF WorkerKnows, LoadedPcs, LinePcs
  <1>9. CASE JobStart \/ JobSendToBankRead \/ JobSendToBank
    <2>1. CASE \E pc \in {"check", "send", "load"} : worker' = [worker EXCEPT !.pc = pc]
      BY <1>t, <1>7, <1>9, <2>1 DEF JobStart, JobSendToBankRead, JobSendToBank, WorkerType, JobPcs
    <2> QED
      BY <1>2, <1>9, <2>1 DEF JobStart, JobSendToBankRead, JobSendToBank, JobFails
  <1>10. CASE JobLoadLines
    <2>1. /\ worker'.pc = "line" /\ worker'.attempts = worker.attempts
          /\ worker'.lines = items[worker.batch] /\ worker'.todo = items[worker.batch]
          /\ worker'.batch = worker.batch /\ worker'.done = {}
      BY <1>t, <1>10 DEF JobLoadLines, WorkerType, WorkerKnows
    <2>2. Loaded(worker')
      BY <1>g, <1>10, <2>1 DEF JobLoadLines, JobPcs
    <2> QED
      BY <1>t, <1>10, <2>1, <2>2 DEF JobLoadLines, WorkerKnows, LoadedPcs, LinePcs
  \* A step within the line loop keeps what is known of the lines.
  <1>11. ASSUME worker.pc \in LoadedPcs, worker'.pc \in LoadedPcs,
                worker'.attempts = worker.attempts, Loaded(worker'),
                worker'.pc \in LinePcs => worker'.item \in worker'.todo,
                worker'.pc = "mark" => worker'.seen \in {"NONE", "PROCESSING"},
                worker'.pc \in {"settle", "commit"} => bank'[Line'] > 0,
                worker'.pc = "commit" => payout'[Line'] = "PROCESSING"
         PROVE  WorkerKnows'
    BY <1>t, <1>11 DEF WorkerKnows, LoadedPcs, LinePcs
  <1>12. ASSUME NEW i \in Items, JobReadPayout(i) PROVE WorkerKnows'
    <2> DEFINE p == payout[<<worker.batch, i>>]
    <2>0. /\ worker.pc = "line" /\ i \in worker.todo /\ Loaded(worker)
          /\ worker.batch \in Batches /\ <<worker.batch, i>> \in Lines
          /\ payout' = payout /\ p \in PayoutStatus
      BY <1>t, <1>b, <1>L, <1>12 DEF JobReadPayout, LoadedPcs, JobPcs, Lines, paymentVars
    <2>1. CASE p = "COMPLETED"
      <3>1. worker' = [worker EXCEPT !.todo = @ \ {i}, !.done = @ \union {i}]
        BY <1>t, <1>12, <2>1 DEF JobReadPayout, WorkerType
      <3>2. /\ worker'.pc = "line" /\ worker'.attempts = worker.attempts
            /\ worker'.todo = worker.todo \ {i} /\ worker'.done = worker.done \union {i}
            /\ worker'.lines = worker.lines /\ worker'.batch = worker.batch
            /\ worker'.failed = worker.failed
        BY <1>t, <2>0, <3>1 DEF WorkerType
      <3>3. Loaded(worker')
        BY <2>0, <2>1, <3>2
      <3> QED
        BY <1>11, <2>0, <3>2, <3>3 DEF LoadedPcs, LinePcs
    <2>2. CASE p = "FAILED"
      <3>1. worker' = [worker EXCEPT !.todo = @ \ {i}, !.failed = TRUE]
        BY <1>t, <1>12, <2>2 DEF JobReadPayout, WorkerType
      <3>2. /\ worker'.pc = "line" /\ worker'.attempts = worker.attempts
            /\ worker'.todo = worker.todo \ {i} /\ worker'.done = worker.done
            /\ worker'.lines = worker.lines /\ worker'.batch = worker.batch
            /\ worker'.failed
        BY <1>t, <2>0, <3>1 DEF WorkerType
      <3>3. Loaded(worker')
        BY <2>0, <2>2, <3>2
      <3> QED
        BY <1>11, <2>0, <3>2, <3>3 DEF LoadedPcs, LinePcs
    <2>3. CASE p \notin {"COMPLETED", "FAILED"} /\ i \notin Payable
      <3>1. worker' = [worker EXCEPT !.todo = @ \ {i}]
        BY <1>t, <1>12, <2>3 DEF JobReadPayout, WorkerType
      <3>2. /\ worker'.pc = "line" /\ worker'.attempts = worker.attempts
            /\ worker'.todo = worker.todo \ {i} /\ worker'.done = worker.done
            /\ worker'.lines = worker.lines /\ worker'.batch = worker.batch
            /\ worker'.failed = worker.failed
        BY <1>t, <2>0, <3>1 DEF WorkerType
      <3>3. Loaded(worker')
        BY <2>0, <2>3, <3>2
      <3> QED
        BY <1>11, <2>0, <3>2, <3>3 DEF LoadedPcs, LinePcs
    <2>4. CASE p \notin {"COMPLETED", "FAILED"} /\ i \in Payable
      <3>1. worker' = [worker EXCEPT !.pc = "mark", !.item = i, !.seen = p]
        BY <1>12, <2>4 DEF JobReadPayout
      <3>2. /\ worker'.pc = "mark" /\ worker'.attempts = worker.attempts
            /\ worker'.todo = worker.todo /\ worker'.done = worker.done
            /\ worker'.lines = worker.lines /\ worker'.batch = worker.batch
            /\ worker'.failed = worker.failed
            /\ worker'.item = i /\ worker'.seen = p
        BY <1>t, <3>1 DEF WorkerType
      <3>3. Loaded(worker')
        BY <2>0, <3>2
      <3>4. p \in {"NONE", "PROCESSING"}
        BY <2>0, <2>4 DEF PayoutStatus
      <3> QED
        BY <1>11, <2>0, <3>2, <3>3, <3>4 DEF LoadedPcs, LinePcs
    <2> QED
      BY <2>1, <2>2, <2>3, <2>4
  \* Moving on with the same line.
  <1>13. ASSUME NEW pc \in {"bank", "settle", "reject", "commit"}, worker.pc \in LinePcs,
                worker' = [worker EXCEPT !.pc = pc],
                pc \in {"settle", "commit"} => bank'[Line] > 0,
                pc = "commit" => payout'[Line] = "PROCESSING"
         PROVE  WorkerKnows'
    <2>1. /\ worker'.pc = pc /\ worker'.attempts = worker.attempts
          /\ worker'.todo = worker.todo /\ worker'.done = worker.done
          /\ worker'.lines = worker.lines /\ worker'.batch = worker.batch
          /\ worker'.failed = worker.failed /\ worker'.item = worker.item
      BY <1>t, <1>13 DEF WorkerType
    <2>2. Loaded(worker') /\ worker.item \in worker.todo
      BY <1>t, <1>L, <1>13, <2>1 DEF LoadedPcs, WorkerKnows
    <2>3. Line' = Line
      BY <2>1 DEF Line
    <2> QED
      BY <1>11, <1>13, <2>1, <2>2, <2>3 DEF LoadedPcs, LinePcs
  <1>14. CASE JobMarkProcessing \/ BankRejects
    BY <1>2, <1>13, <1>14 DEF JobMarkProcessing, BankRejects, JobFails, LinePcs
  <1>15. CASE BankAccepts
    <2>1. bank'[Line] > 0
      BY <1>t, <1>l, <1>15 DEF BankAccepts, LinePcs
    <2> QED
      BY <1>13, <1>15, <2>1 DEF BankAccepts, LinePcs
  <1>16. CASE JobSettleRead
    <2>1. bank'[Line] > 0
      BY <1>t, <1>16 DEF JobSettleRead, WorkerKnows, paymentVars
    <2> QED
      BY <1>2, <1>13, <1>16, <2>1 DEF JobSettleRead, JobFails, LinePcs, paymentVars
  <1>17. CASE JobSettleCommit
    <2>1. /\ worker'.pc = "line" /\ worker'.attempts = worker.attempts
          /\ worker'.todo = worker.todo \ {worker.item}
          /\ worker'.done = worker.done \union {worker.item}
          /\ worker'.lines = worker.lines /\ worker'.batch = worker.batch
          /\ worker'.failed = worker.failed
      BY <1>t, <1>17 DEF JobSettleCommit, NextLine, WorkerType
    <2>2. payout'[<<worker.batch, worker.item>>] = "COMPLETED"
      BY <1>t, <1>l, <1>17 DEF JobSettleCommit, LinePcs, Line
    <2>3. worker.pc = "commit" /\ Loaded(worker)
      BY <1>L, <1>17 DEF JobSettleCommit, LoadedPcs, LinePcs
    <2>4. Loaded(worker')
      BY <2>1, <2>2, <2>3
    <2> QED
      BY <1>11, <2>1, <2>3, <2>4 DEF LoadedPcs, LinePcs
  <1>18. CASE JobRecordReject
    <2>1. CASE worker' = Idle
      BY <1>2, <2>1
    <2>2. CASE worker' = [NextLine EXCEPT !.failed = TRUE]
      <3>1. /\ worker'.pc = "line" /\ worker'.attempts = worker.attempts
            /\ worker'.todo = worker.todo \ {worker.item}
            /\ worker'.done = worker.done
            /\ worker'.lines = worker.lines /\ worker'.batch = worker.batch
            /\ worker'.failed
        BY <1>t, <2>2 DEF NextLine, WorkerType
      <3>2. worker.pc = "reject" /\ Loaded(worker)
        BY <1>L, <1>18 DEF JobRecordReject, LoadedPcs, LinePcs
      <3>3. Loaded(worker')
        BY <3>1, <3>2
      <3> QED
        BY <1>11, <3>1, <3>2, <3>3 DEF LoadedPcs, LinePcs
    <2> QED
      BY <1>18, <2>1, <2>2 DEF JobRecordReject, JobFails
  <1>19. CASE JobFinish
    <2>1. worker.pc = "line" /\ worker'.pc = "publish" /\ worker'.attempts = worker.attempts
      BY <1>t, <1>19 DEF JobFinish, WorkerType
    <2> QED
      BY <1>t, <2>1 DEF WorkerKnows, LoadedPcs, LinePcs
  <1> QED
    BY <1>1, <1>2, <1>4, <1>5, <1>6, <1>8, <1>9, <1>10, <1>12, <1>14, <1>15, <1>16,
       <1>17, <1>18, <1>19, WorkerFrame

-----------------------------------------------------------------------------
(* Theorems.                                                               *)

\* The invariant holds of an empty database.
LEMMA InitIInv == Init => IInv
  <1> SUFFICES ASSUME Init PROVE IInv
    OBVIOUS
  <1> USE SettlementAssumption DEF Init
  <1>1. TypeOK
    <2>1. queue \in Seq(JobType) /\ QueuedBatches = {}
      BY DEF QueuedBatches
    <2> QED
      BY <2>1, IdleType DEF TypeOK, BatchStatus, Kinds, PayoutStatus
  <1>2. BatchesExist /\ JobsExist /\ ApprovedFirst
    BY DEF BatchesExist, JobsExist, ApprovedFirst, QueuedBatches, Idle, BatchPcs, JobPcs
  <1>3. WorkerKnows /\ RowsOfLines
    BY DEF WorkerKnows, RowsOfLines, Idle, LoadedPcs, LinePcs, Lines
  <1>4. /\ CompletedLineMissionSettled /\ SettledMissionHasCompletedLine
        /\ SettledBatchFullyPaid /\ PaidOnlyAfterDualApproval /\ CompletedWasTransferred
    <2>1. \A b \in Batches, i \in Items : payout[<<b, i>>] = "NONE" /\ bank[<<b, i>>] = 0
      BY DEF Lines
    <2>2. \A b \in Batches, m \in Missions : payout[<<b, m>>] = "NONE"
      BY <2>1 DEF Items
    <2>3. \A l \in Lines : payout[l] # "COMPLETED"
      OBVIOUS
    <2>4. PaidOnlyAfterDualApproval
      <3>1. ASSUME NEW b \in Batches, NEW i \in Items
            PROVE  ~(payout[<<b, i>>] # "NONE" \/ bank[<<b, i>>] > 0)
        BY <2>1
      <3>2. \A b \in Batches : status[b] = "NONE"
        OBVIOUS
      <3> QED
        BY <3>1, <3>2 DEF PaidOnlyAfterDualApproval
    <2> QED
      BY <2>2, <2>3, <2>4
         DEF CompletedLineMissionSettled, SettledMissionHasCompletedLine,
             SettledBatchFullyPaid, CompletedWasTransferred
  <1> QED
    BY <1>1, <1>2, <1>3, <1>4 DEF IInv

\* The inductive invariant, for any number of batches, missions, households and
\* users and any bound on requests in flight, faults and restarts.
THEOREM SettlementInvariant == Spec => []IInv
  <1>1. IInv /\ [Next]_vars => IInv'
    BY TypeStep, BatchesExistStep, JobsExistStep, ApprovedFirstStep, WorkerKnowsStep,
       RowsOfLinesStep, CompletedLineMissionSettledStep, SettledMissionHasCompletedLineStep,
       SettledBatchFullyPaidStep, PaidOnlyAfterDualApprovalStep, CompletedWasTransferredStep
       DEF IInv
  <1> QED
    BY <1>1, InitIInv, PTL DEF Spec

\* Every variable keeps its type.
THEOREM SettlementTypeOK == Spec => []TypeOK
  <1>1. IInv => TypeOK
    BY DEF IInv
  <1> QED
    BY <1>1, SettlementInvariant, PTL

\* A completed payout row and the settlement of its mission are never seen apart,
\* whatever job, operator, crash and retry interleave.
THEOREM CompletedLinesSettle ==
  Spec => [](CompletedLineMissionSettled /\ SettledMissionHasCompletedLine)
  <1>1. IInv => CompletedLineMissionSettled /\ SettledMissionHasCompletedLine
    BY DEF IInv
  <1> QED
    BY <1>1, SettlementInvariant, PTL

\* A mission that is SETTLED has a payout line that was completed.
THEOREM SettledMissionsPaid == Spec => []SettledMissionHasCompletedLine
  <1>1. IInv => SettledMissionHasCompletedLine
    BY DEF IInv
  <1> QED
    BY <1>1, SettlementInvariant, PTL

\* A batch that is reported SETTLED has paid all its mission lines that have a
\* payee, although the job counts lines and never compares them.
THEOREM SettledBatchesPaid == Spec => []SettledBatchFullyPaid
  <1>1. IInv => SettledBatchFullyPaid
    BY DEF IInv
  <1> QED
    BY <1>1, SettlementInvariant, PTL

\* No status, payout row or transfer is ahead of the two approvals.
THEOREM DualApproval == Spec => []PaidOnlyAfterDualApproval
  <1>1. IInv => PaidOnlyAfterDualApproval
    BY DEF IInv
  <1> QED
    BY <1>1, SettlementInvariant, PTL

\* What the job records as completed the bank has accepted.
THEOREM CompletedTransferred == Spec => []CompletedWasTransferred
  <1>1. IInv => CompletedWasTransferred
    BY DEF IInv
  <1> QED
    BY <1>1, SettlementInvariant, PTL

\* No stale write of the job overturns a decided payout row.
THEOREM DecidedRowsFinal == Spec => DecidedPayoutIsFinal
  <1>1. IInv /\ [Next]_vars =>
          [\A b \in Batches, m \in Missions :
             /\ payout[<<b, m>>] = "COMPLETED" => payout'[<<b, m>>] = "COMPLETED"
             /\ payout[<<b, m>>] = "FAILED" =>
                  \/ payout'[<<b, m>>] = "FAILED"
                  \/ payout'[<<b, m>>] = "COMPLETED" /\ <<b, m>> \in manual']_vars
    BY RowsGrow
  <1> QED
    BY <1>1, SettlementInvariant, PTL DEF Spec, DecidedPayoutIsFinal

\* Settlement implements MissionPayment: each step completes a set of mission
\* lines and settles their missions, or neither.
THEOREM SettlementImplementsMissionPayment == Spec => ImplementsMissionPayment
  <1> DEFINE P == {l \in Batches \X Missions : payout[l] = "COMPLETED"}
             M == {m \in Missions : mission[m] = "SETTLED"}
  <1>1. Init => MP!Init
    BY DEF Init, MP!Init, Lines, Items
  <1>2. IInv /\ [Next]_vars => [MP!Next]_<<P, M>>
    <2> SUFFICES ASSUME IInv, [Next]_vars PROVE MP!Next \/ UNCHANGED <<P, M>>
      OBVIOUS
    <2>t. /\ payout \in [Lines -> PayoutStatus]
          /\ mission \in [Missions -> {"VERIFIED", "SETTLED"}]
          /\ \A b \in Batches, m \in Missions : <<b, m>> \in Lines
      BY DEF IInv, TypeOK, Lines, Items
    <2> DEFINE S == P' \ P
    <2>1. P' = P \union S
      BY RowsGrow
    <2>2. M' = M \union {l[2] : l \in S}
      <3>1. M \subseteq M'
        BY RowsGrow
      <3>2. \A l \in S : l[2] \in M'
        BY CompletedLineMissionSettledStep DEF CompletedLineMissionSettled
      <3>3. ASSUME NEW m \in M', m \notin M PROVE \E l \in S : l[2] = m
        <4>1. PICK b \in Batches : payout'[<<b, m>>] = "COMPLETED"
          BY <3>3, SettledMissionHasCompletedLineStep DEF SettledMissionHasCompletedLine
        <4>2. payout[<<b, m>>] # "COMPLETED"
          BY <3>3 DEF IInv, CompletedLineMissionSettled
        <4>3. <<b, m>> \in S
          BY <3>3, <4>1, <4>2
        <4> QED
          BY <4>3
      <3> QED
        BY <3>1, <3>2, <3>3
    <2>3. CASE S = {}
      BY <2>1, <2>2, <2>3
    <2>4. CASE S # {}
      BY <2>1, <2>2, <2>4 DEF MP!Next, MP!Pay, MP!MissionLines
    <2> QED
      BY <2>3, <2>4
  <1> QED
    BY <1>1, <1>2, SettlementInvariant, PTL DEF Spec, ImplementsMissionPayment, MP!Spec

=============================================================================
