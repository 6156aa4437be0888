# Verification of the Mineral Haul Platform

TLA+ models of the platform's protocols, TLC configurations that check
them on small instances, and TLAPS proofs for every value of the constants.
`PROJECT.json` relates every definition to the lines of `src/` it stands for,
and lists the runs, the mutations, the findings and the hazards.

Contents: 1 the system · 2 the modules · 3 settlement · 4 idempotency keys ·
5 the driver app's offline queue · 6 handlers in flight · 7 the weighbridge and
its agent · 8 job queue, events and messages · 9 the desks · 10 what the runs
check and the bounds · 11 what is proved · 12 findings and observations ·
13 what is left out · 14 plan

## 1. The system

A cooperative hauls ore for mines. A mine publishes operation needs; dispatch
turns them into missions of drivers and vehicles; a driver takes a mission
through its steps with a phone app that also works offline; the weighbridge
registers the truck empty and loaded; an approval of the ticket verifies the
mission and credits owner, driver and community pool; settlement batches pay
what was earned.

`src/apps/backend` (TypeScript, express, Prisma, PostgreSQL at READ COMMITTED)
holds all rules. It is one process with an in-memory job queue and one worker.
`src/apps/mobile` (Flutter) is the driver's and the community's app,
`src/apps/weighbridge-agent` a Node script at the bridge, `src/apps/web` the
administration. The recurring shape of the backend is

    row = await read(id); if (!allowed(row)) return error;
    ...more awaits...
    await write(id, newValues)          // without looking at the row again

so every check is as old as the awaits between it and the write. This is the
source of most hazards in `PROJECT.json`.

| component | state | operations | correct when |
|---|---|---|---|
| Settlement batches (`settlementRepository`, routes, cycle jobs) | batches, their lines, approvals of two roles, payout rows | three close jobs, draft, approve, lock, send to bank, mark paid, mark failed | no money moves before both approvals; a batch that is SETTLED has paid its lines; payout rows and missions agree |
| Payout job (`settlementService`, `bankAdapter`) | the job's progress; the bank's transfers | send, then per line: row PROCESSING, bank call, settle in a transaction; outcome | no transfer is lost or doubled; decided rows stay; the job ends in a visible status |
| Payment holds (`missionStore`) | `payment_state` of a mission | hold, release, reverse | a held mission is not paid |
| Job queue (`jobQueue`) | pending jobs, `failed_jobs` | enqueue, pump, retry, timers | every job is run, retried and at last recorded; one failure stops nobody else |
| Period statement (`periodStatementService`) | statement, its lines, approvals, tasks, mine payment | draft, edit, review rounds, reject, lock, register payment | a lock rests on approvals of what is locked; a payment is registered once; a role that is missing has its task |
| Community pool (`communityPoolsRepository`) | pool total, status, snapshot, shares | add, adjust, lock a snapshot, distribute | every contribution counts; every household of the snapshot is credited once |
| Missions (`missionStore`, `missionFsm`) | mission status | driver steps, approve, adjust, cancel | statuses follow the chain; terminal ones stay |
| Dispatch (`haulDispatchStrategy`, `dispatchService`) | needs, loads, missions | dispatch, redispatch, cancel, reopen | one active mission a driver and a vehicle; a need is dispatched once |
| Weighbridge (`weighbridgeIngestService`, `missionStore`) | tickets, agent readings, adjustment requests | ingest, manual weights, approve, reject, adjust | a mission is credited once, for the net weight of one weighing |
| Weighbridge agent (`index.js`) | offline queue file | capture, post, flush | no reading is lost |
| Ledger, wallets, rules (`financeLedgerRepository`, `walletsRepository`, `financePolicyService`) | ledger rows, balances, settings | split, adjust, change a rule | the parts are the fare; one wallet a party |
| Hourly logs (`hourlyWorkLogStore`) | work logs | start, end, verify, reject | a log is credited once, at the rate it shows |
| Rate cards, service contracts | cards, contracts with two signatures | draft, edit, sign, activate, amend, version | every day has a rate; what is in force stays as signed |
| Applicants: households, drivers, fleet owners, vehicles (`coopKyc`, `EntitiesStore`) | rows, and copies of them in memory | apply, approve by quorum, reject, suspend, correct, IBAN | no household without its quorum; the copy the guards read is the row |
| User provisioning (`userProvisioningService`) | requests, accounts, memberships | ask, approve, reject, create, change, delete | an approved request has its account and membership |
| Idempotency keys (`middleware/idempotency`) | `idempotency_keys` | find, acquire, replay, take over, store the answer | a side effect happens once a key |
| Driver app offline (`core/offline`, three screens) | queue of steps in a Hive box | tap, enqueue, sync, clear | queued steps reach the server, in order, once |
| Events, notifications (`eventBus`, `notificationService`) | event log, `notifications`, jobs | publish, verify the log, send | an event is logged once; a message is on record or retried |
| OTP login, sessions | codes, sessions | request, verify, refresh | attempts and rates are bounded |
| Reconciliation, KPI, reports, audit, inboxes, administration, web client | read models, forms | | |

Interaction. Routes call stores and repositories directly; the lock of a batch
enqueues the payout job; the settlement of a mission is written by the payout
job and by the operator's mark-paid; the closes read missions, the pool and
the statement; approvals write missions, ledger and pool in one transaction;
the driver app and the bridge agent repeat requests, the first under an
Idempotency-Key, the second under the reading's natural key. Fares are priced
from the contract in force or the rate card of the day; a mission needs an
approved vehicle and driver; domain events, published after the rows are
written, end in the job queue, where the log and the text messages are.

What is hard: overlapping handlers (all of the above), the restart of a
process whose queue is memory, retries of a job that has already moved money,
lost answers and repeats under one key, two syncs of one queue, and an
operator who acts on a batch while the job pays it.

## 2. The modules

| module | models | kind |
|---|---|---|
| `Settlement` | closes, batches, approvals, holds, operator commands, payout job, queue and worker as far as payout jobs need | detailed specification |
| `MissionPayment` | what settlement promises about missions | abstract specification |
| `Idempotency` | the middleware and its table; no next-state relation | component, extended by the next two |
| `IdempotentPost` | the middleware before a handler with one side effect | component, and abstract specification of `DriverSync`'s server side |
| `DriverSync` | driver app, network, middleware, step handler, for one mission | composition |
| `Handlers` | HTTP handlers between their read and their write | component, extended by all below |
| `Weighing` | ticket, readings, approval, rejection, adjustments of one mission | component |
| `JobQueue` | queue, worker, retries, `failed_jobs`, waiting callers, restarts | component |
| `Dispatch` | needs, missions, vehicles, drivers; redispatch; steps and approvals beside it | component |
| `Statement` | period statement with approvals, tasks, lock and payment | component |
| `Kyc` | review of an applicant, with row and copy | component |
| `Hourly` | hourly work logs | component |
| `Rates` | rate cards and the rate of a day | component |
| `Contracts` | service contracts | component |
| `Pool` | community pool | component |
| `Provisioning` | requests for accounts, accounts, memberships | component |
| `Agent` | the weighbridge agent's posts and file | component |
| `Notices` | event log, its verification job, text messages | component |
| `Ledger` | splits of fares and adjustments, wallets, rules | component |
| `MCSettlement`, `MCIdempotentPost`, `MCDriverSync`, `MCWeighing`, `MCJobQueue`, `MCDesks` | instances for TLC | models |
| `SettlementProofs`, `IdempotentPostProofs`, `WeighingProofs`, `JobQueueProofs`, `DriverSyncProofs` | the components of these names | proofs |
| `OperationsProofs` | `Dispatch`, `Provisioning`, `Kyc`, `Agent`, `Notices` | proofs |
| `FinanceProofs` | `Contracts`, `Rates`, `Statement`, `Hourly`, `Pool`, `Ledger` | proofs |
| `CommonProofs` | `Handlers`; least and greatest elements, sums over finite sets | lemmas |

Conventions. A handler is split where it awaits between reading and writing:
`XRead` checks what the code checks and `XWrite` writes what it writes.
Calls that a transaction makes atomic are one action. Definitions marked
`(mutation: ...)` are not part of the specification: each stands in for the
definition it precedes to show that a property notices that mistake.

## 3. Settlement

`Settlement` models a period: the closes that create batches, the operators who
drive a batch through

    CALCULATED/DRAFT -> READY_FOR_SETTLEMENT -> IN_BANK_QUEUE -> SETTLED
                                              \-> FAILED   \-> MANUAL_REVIEW, FAILED

and the payout job that does the last steps on its own.

State. `status`, `kind`, `items`, `approval` are the rows of
`settlement_batches`, `settlement_lines` and `settlement_batch_approvals`;
`payout` is `payment_payouts`, one row a line; `mission` and `payment` are the
two status columns of a mission; `statement` and `pool` are what a lock and
the monthly close ask of the period statement and the community pool; `queue`,
`worker`, `failedJobs` are the job queue; `bank` counts the transfers the bank
accepted. `manual` is a ghost: the rows that mark-paid wrote.

Admin requests. `requests` holds the requests that have read what they check
and not yet written. `LockRead` is `lockBatch` up to its last check, `LockWrite`
is the update and the enqueueing of the payout job; likewise for `Approve`,
`SendToBank`, `MarkFailed`, and for hold, release and reverse (`PaymentRead`,
`PaymentWrite`). `markBatchPaid` has three: the check of the status
(`MarkPaidRead`), the reads in its transaction (`MarkPaidVerify`), and the
commit. `RequestAborts` lets any of them throw.

The worker. A close job reads the eligible missions (`...CloseRead`), creates the
batch (`CloseCreate`), and the monthly one then distributes the pool, appends its
lines and writes the statement draft. The household close distributes the pool first,
creates an empty batch and appends its lines. Lines are inserted one by one
(`ClosePoolLine`) in no transaction, so a fault leaves what was done, a part of the lines
included; the deletion of a household batch without lines does not occur, as a distributed
pool has a transaction for each household. The payout job has one control point per await of
`executePayoutsForBatch`:

| `worker.pc` | the code is about to | source |
|---|---|---|
| `start` | read the batch | settlementService.ts 64-77 |
| `check` | read it again in `sendToBank` | settlementRepository.ts 741-743 |
| `send` | write IN_BANK_QUEUE | settlementRepository.ts 744-753 |
| `load` | load the lines | settlementService.ts 79-88 |
| `line` | read the payout row of the next line, or write the outcome | 95-130, 223-255 |
| `mark` | insert the row or make it PROCESSING | 132-152 |
| `bank` | call the adapter | 154-161 |
| `settle`, `commit` | complete row and mission in a transaction | 161-176 |
| `reject` | record a refusal | 192-202 |
| `publish` | publish the event | 256-262 |

`JobFault` is a throw at any of these; `JobFails` is what `runOne` then does.
`Crash` empties everything that is memory.

`MissionPayment` is what all this promises about a mission: one atomic step
completes payout lines and settles exactly their missions, and neither is ever
undone. The refinement maps `paid` to the lines with a COMPLETED row and
`settled` to the missions that are SETTLED; the work is in mark-paid, which
deletes the rows of its batch and rewrites them while the job may hold one.

What the model allows beyond the code: a close may run while a failed payout job
waits for its retry (the code sleeps inside the worker), any request may abort.
What it leaves out: amounts, more than one period of each kind and one
cooperative, hourly lines, export files, approval tasks, audit rows and events.

## 4. Idempotency keys

`Idempotency` is the middleware of the sensitive POST routes. A `call` is at
one of its awaits: `find` (look for the key), `replace` (delete a row read as
stale), `acquire` (insert), `refind` and `drop` (what follows a unique violation),
`handler` and `write` (the route), `answer` (the response goes out), `persist`
(the `finish` listener stores a 2xx or deletes the row). `row` is the key's row:
`running` and `stale` (unanswered for five minutes) have no answer, `done` has.
A body is `seen` and `dropped`: `hashRequest` gives `JSON.stringify` the names of the top-level
fields as a filter, which leaves fields nested deeper out of the hash unless a top-level field
has their name. The table stores `Hash(body)` and compares nothing else.
`Abandon` is a connection that closes before the answer, so that `finish` never
fires; `PersistFails` is the swallowed error.

`IdempotentPost` puts clients that repeat themselves without limit in front of it and
a handler with one side effect behind it, which may succeed, refuse, fail
before its effect, or fail after it. It counts `effects`, `takeovers` (deletions
of a stale row) and `unclean` failures, because these are what the guarantee is
made of: **a side effect happens at most 1 + takeovers + unclean times**. Keys
do not interact in the code (every query names the key), so one key is enough.
`ReplayIsStoredAnswer` says whose answer a replay is: that of a request with the key whose effect
was made and whose body has the *same hash*, and the only one if no handler failed after its
effect. That it is a request with the same body is what the middleware's 422 suggests and
does not hold (section 12). The driver's steps have no nested fields, so in `DriverSync` hash and body
are one.
The row's expiry after 24 hours is out of the modelled time.

## 5. The driver app's offline queue

`DriverSync` composes the app, the network, the middleware and the handler of
`POST /driver/missions/:id/steps` for one mission. A tap is queued
(`TapOffline`) or posted (`TapOnline`, after a sync when steps are queued);
`StartSync` and `Probe` start a sync, which posts its snapshot of the queue item
by item; `Receive` is what sync and tap do with each kind of answer; `TimeOut`
is a lost request, a lost answer or fifteen seconds, after which the same key goes to
the next base URL while the server may still be at work on the first. The server
side is `StepRead` (validate the transition and the ticket) and `StepWrite`
(write the status, unconditionally). `RedispatchRead` and `RedispatchCancel`
are the redispatch that takes the mission away, `Weigh` is the weighbridge.

Activities (`thread`) interleave at their awaits, because the code lets them:
the guard `_syncing` is read before an await and set after it, a refresh that ends
enables the button while another tap is under way, and a screen that is opened
anew has a sync service of its own while the old one's requests go on (`left`).

Two properties say what the driver and the server may rely on:
`AckedIsWritten` and `NoStepSkipped`. They hold although
the queue itself is not kept (`QueuedStepKept`, section 8): the transition check
on the server is what carries them. `ImplementsIdempotentPost` states that the
server side is an `IdempotentPost` whose side effect is the write of the status,
with `write` mapped to `handler` and the bound `MaxUnclean` to `MaxTroubles`; so
the bound on repeated effects holds here too.

Simplifications. The Hive box is read and written without an await of its own; queue
order is creation order (device clocks do not run backwards); a refresh gets the
mission or fails; location and fence errors are `StepFails`; the ticket is none,
open or weighed. That a queue is ever emptied is not claimed: the app has no
timer, a sync starts when connectivity changes, a screen opens, or the driver
acts.

## 6. Handlers in flight

`Handlers` is the shape of section 1 made explicit, shared by `Weighing`,
`JobQueue` and all the desks. `request[r]` is what is left of a handler at its
await: what it is about to do (`op`), the rows it has read (`reads`), the values it
carries, and `fresh`, which becomes false when somebody else writes one of those
rows. `Goes` is a step that writes nothing, `Wrote(r, W, k)` one that writes the rows
`W` and goes on as `k`, `Ends` a handler that stops there: a check refuses, the
database is away, the process restarts.

Two ghosts name the two things that go wrong. `overtaken`: some handler has written
after a row it had read was written. `cut`: some handler has ended between
two of its writes. `Undisturbed` is neither, now or with the writes that are pending.

No row in this code has a version and hardly any write has a condition, so most
properties fail once a handler is overtaken. They are therefore stated as what the
code does promise: "unless a handler is overtaken ...". That is not a property that
holds by construction. Handlers still interleave freely, with everything between
the read of one and its write that does not touch the rows it read; the rows a
handler ought to have looked at and does not are not among its `reads`; and
`reads` are the rows the code's checks read, nothing more. The properties that hold
with no condition on overlaps (`EveryDayHasRate`, `QuorumReached`, `ReadingAppliedOnce`,
`NetIsOneWeighing`, `ToldFailureIsRecorded`, `NoStepSkipped`, the signatures in `TermsStand`, the first half of
`AccountsAreMembers`, and all of settlement) are those that a unique index, a row lock, a monotone set or the shape of
the write carries. What "unless overtaken" excludes is often the very race a hazard names: the property then shows that
this race is the *only* way to the damage, and the hazard's `note` in `PROJECT.json` says what the
code does in it.

## 7. The weighbridge and its agent

`Weighing` is one ticket. The agent sends each reading again until it is answered,
and two copies may be in the server at once (`IngestRead`, `IngestWrite`: the natural
key of a reading is unique, so the second insert fails and the transaction with it).
The panel enters weights by hand (`Manual...`), two users may approve or reject
(`Approve...`, `Reject...`; a manual entry asks for an OPERATION_ADMIN), and adjustment
requests are proposed, approved and rejected. Approval makes the mission VERIFIED
and credits it; an approved adjustment credits the difference.

The fare is a rate times the net weight, and the rate does not matter here, so money is
counted in kilograms: `ledger` is the kilograms the wallets were credited for.
The ticket statuses WEIGHED, of which the code has two (LOADED_REGISTERED and
PENDING_HOLD), are one: the same guards accept both. `LedgerFollowsNet` excludes, beside
overtaken handlers, an adjustment that was proposed for a net weight that has changed
since (`outdated`): its difference is stored when it is proposed.

`Agent` is the Node script at the bridge: a capture posts its reading and puts it
into the file when the post fails; a timer flushes the file, whether or not the last
flush is over, and saves what is left of what it had loaded. `ReadingsKept` says that
a reading is stored, in the file or on its way, unless a flush saves over a file
that was written since it was loaded or the process ends during a first post.

## 8. Job queue, events and messages

`JobQueue` is the queue in general: jobs that nobody or a caller waits for, one worker that
runs the handler, sleeps through a backoff in place and puts the job at the end, or
writes the row of `failed_jobs` and only then answers the caller. `Crash` is the end
of the process, wanted or by an insert of that row that nobody catches: memory is
gone, rows stay. An operator's retry reads the row, marks it and enqueues a new job.
`JobConcludes` is its liveness, `ToldFailureIsRecorded` and `RetriedOnce` its safety.

`Notices` puts on that queue what a domain event causes: `publish` inserts the row of the event
log, enqueues a job that looks for the row among the latest `LogWindow` (20) and inserts
it if it does not see it, and a job for the message. The message is sent before its row
is stored. One user and one channel per event; an insert that commits and still
throws is not modelled, and neither is that the job looks for the row's id where the model looks for its event: without
such an insert an event's rows are alike. The stub provider counts as sending. `MaxTries` counts the attempts of one job:
an operator's retry of a message that was given up is a new job with as many attempts again, and is
`JobQueue`'s subject.

## 9. The desks

Eleven components share no row with one another as far as they are modelled;
`MCDesks` checks them in one run, each behaviour being one desk's.

- **Dispatch.** A dispatch plans outside and checks inside a READ COMMITTED transaction that locks
  nothing; redispatch is a cancellation, a reopening and a dispatch, in three
  transactions; driver steps and the approval write a mission's status without a condition.
  Which of the possible pairs a plan prefers is left to choice.
- **Statement.** No handler runs in a transaction, so every write is an action and a handler may be
  `cut` after each. `LockedAsApproved` relates approvals, total, lines, lock and payment.
- **Kyc.** Each guard reads the copy that `EntitiesStore` keeps in memory; each write goes to
  the row and then puts what the handler believes the row to be into the copy. Approvals of a
  household are never deleted, which is why `QuorumReached` holds without a condition.
- **Hourly.** The verification credits at a rate it looks up a second time.
- **Rates.** Activation reads its draft in one statement and the active cards of its scope in
  another (`ActivateDraftRead`, `ActivateCardRead`), then archives those and activates the draft. A day's rate is looked up
  among all that were ever active, so an overlap can change past days (`RatesChangeForward`). It leaves no day
  without a rate (`EveryDayHasRate`), with one exception: of two activations of the same draft, one that
  stalls between its reads may find the successor, archive it, and leave an ACTIVE card that has ended.
- **Contracts.** A unique index allows one ACTIVE; the edit of a draft writes its terms without
  looking at the status again.
- **Pool.** `given` is what was added, `held` what of it the distribution has read; later additions stay in the
  row. An administrator may fix the households (`LockSnapshot...`), a distribution of an open pool fixes them
  itself. Two columns are read and written apart, total and status. `Abs` is what `createTransaction` does to a
  share below zero: it credits it; `PoolAddsUp` equates shares and total only for a total that is not negative.
- **Provisioning.** Account, membership and request are three writes. One person is enough:
  different numbers share nothing but unique indexes. Moving a user of a household clears the cooperative, and the
  membership that follows throws (`cooperative_required`): `MoveUserWrite` with `NoPlace`, after which the handler can only end.
- **Agent**, **Notices**: sections 7 and 8.
- **Ledger.** Splits with their rounding, for an owner, the platform and the pool; wallets are a
  sequence because two first credits can make two of one party. Fares are whole rials;
  old and new net of an adjustment are priced by one look-up; a new rule begins at once, and the three
  transactions that save the mine's community settings are one write; hauls and shifts have one tariff; the amendment chain of the mine's settings is three actions of `Contracts`.

In the instance, dispatch, applicants and ledger stop at the first overtaken handler, and
statement, hourly logs and contracts when a handler is no longer `Undisturbed`, the pool when one was overtaken: all
their conditional properties are about states before that. The unconditional ones
of these desks hold beyond it: `QuorumReached` and the signatures in `TermsStand` are
also proved without that limit. Rates, provisioning, agent and notices go on.

## 10. What the runs check, and the bounds

| run | instance | distinct states | properties |
|---|---|---|---|
| `lines` | 1 batch; 2 missions, one payee without IBAN; 1 household; 1 request in flight; 1 fault | 3.2 M | `SettledBatchFullyPaid`, `CompletedWasTransferred` |
| `requests` | 1 batch, 1 mission; 2 requests in flight; 1 fault; 1 crash | 3.6 M | `PaidOnlyAfterDualApproval`, `SettledMissionHasCompletedLine`, `DecidedPayoutIsFinal` |
| `batches` | 2 batches, 1 mission; 1 request in flight | 2.6 M | `CompletedLineMissionSettled`, `ImplementsMissionPayment` |
| `payout_concludes` | 1 batch, 1 mission; 1 fault; `FairSpec` | 77 K | `PayoutJobConcludes` |
| `post` | 1 key, 2 hashes of 2 bodies each, 3 calls; 1 stale row; 1 unclean failure | 2.0 M | `EffectsBounded`, `ReplayIsStoredAnswer`, `SingleFlight` |
| `driver_sync` | from ARRIVED, 2 keys, 2 base URLs, 2 activities, 2 calls, 1 trouble, 1 stale row | 124 K | `AckedIsWritten`, `NoStepSkipped`, `ImplementsIdempotentPost` |
| `weighing` | 2 handlers, 2 adjustments, 2 empty weights, 1 loaded, 1 adjusted | 2.5 M | `ReadingAppliedOnce`, `NetIsOneWeighing`, `CreditedOnce`, `LedgerFollowsNet`, `ManualIsSupervised` |
| `jobs` | 3 jobs, 2 attempts, 2 retries in flight, 1 crash; `FairSpec` | 100 K | `ToldFailureIsRecorded`, `RetriedOnce`, `JobConcludes` |
| `desks` | 2 handlers; per desk 2 or 3 of each row | 1.2 M | dispatch: `LockHoldsUnlessOvertaken`, `DispatchedOnce`, `FinalUnlessOvertaken`; statement: `LockedAsApproved`, `NobodyForgotten`; applicants: `QuorumReached`, `CopyIsRow`, `ReturnsByApplication`; `HoursPaidOnce`; rate cards: `EveryDayHasRate`, `RatesChangeForward`; `TermsStand`; `PoolAddsUp`; `AccountsAreMembers`; `ReadingsKept`; notices: `LoggedAgainOnlyBehind`, `MessagesAccountedFor`; `SharesOfFare` |
| `transfer_once`, `hold`, `driver_kept` | see section 12 | stops at the violation | one each |

Why the bounds are enough to be interesting:

- *Two missions, one without an IBAN, and a household line* give the payout job a
  line it passes over, one it pays and one without a mission. *Two batches and one
  mission* let the closes and a draft list the mission twice. *Two requests in
  flight* is the least at which two operators overlap, and one of them with the
  job. *One fault with two attempts* lets a job be retried after any await; with
  the job's own failures (a row replaced under it) it also reaches `failed_jobs`.
- *Two hashes of two bodies each* are requests that differ in what the hash sees, only in what it
  drops, in both or in nothing.
- *Three calls* of the middleware are a first execution, a takeover of it and a
  third that finds what the two have left.
- *Two keys* of the app are two queued steps, or one posted under two base URLs; *two
  activities* are a sync and a tap, or two syncs.
- *Two handlers* of a desk are the least that overlap, and the least at which one
  overtakes the other. *Two adjustments* let one be outdated by the other. *Three cards*
  are one in force and two that replace it; *three readings* are two in the file and
  one under way; *three jobs* are one at work, one that waits and the retry of one.
- *`LogWindow` 1* (20 in the code) is a worker that is one row behind; *`MaxTries`* and
  *`MaxAttempts` 2* (4) a first try and a last: later attempts repeat the second.
- *Households' shares 3, 4, -2*, three of them, leave a remainder, come after a distribution, and take the total
  below zero. *Fees, tariffs and parts* of the ledger are small numbers that round both ways.

The proofs of section 11 cover every value of these constants.

Deadlock is checked in `post` and `weighing`. Elsewhere the configurations say
`CHECK_DEADLOCK FALSE`: a settlement instance really stops when its batches are
settled and its bounds used, a driver when the mission is over or keys run out, the
queue when no job is left, a desk when its rows are used up or, as above, disturbed.

Fairness. `FairSpec` of `Settlement` adds weak fairness of `Worker`, the steps of payout jobs
and of a close that has begun, and that of `JobQueue` weak fairness of `Works`, the steps of
the worker; neither adds any for operators, clocks or faults. The code
justifies it: `pump` takes the next job whenever the worker is free, every await
of a job ends (the adapter and the database answer or throw; a backoff is a timer), and
node's event loop runs the continuation. The answer of the bank, and whether a handler
throws, is left to choice; all outcomes make
progress. `PayoutJobConcludes` then says that no retry, rejected line or operator
can hold a queued job up for ever, and `JobConcludes` that no job that fails
again and again keeps another, or its caller, from an end.

Symmetry is used for batches and operators, calls and the parts of bodies, activities, requests,
adjustments, missions and provisioning requests; not in the
liveness runs, and not where keys are ordered.

Every property of a passing run has a mutation in `PROJECT.json`, an operator
beside the definition it replaces, that makes the property fail.

## 11. What is proved

All proof modules are checked by TLAPS with Z3, Zenon and LS4. Some theorems are about
formulas that no run lists because they only support others (`IInv`, the type invariants,
`StoredAnswerStays`).

**Settlement** (`SettlementProofs`; assumption `SettlementAssumption`: missions and
households are disjoint, an administrator has one role, items are finitely many,
bounds are naturals). The inductive invariant is

    IInv == TypeOK /\ BatchesExist /\ JobsExist /\ ApprovedFirst /\ WorkerKnows
            /\ RowsOfLines /\ CompletedLineMissionSettled /\ SettledMissionHasCompletedLine
            /\ SettledBatchFullyPaid /\ PaidOnlyAfterDualApproval /\ CompletedWasTransferred

The five properties alone are not inductive, since writers act on what they read
earlier; the other conjuncts say what is still true of it when they write:

- `BatchesExist`, `JobsExist`: requests, queued, failed and running jobs name rows
  that exist, and a batch without a row has no lines.
- `ApprovedFirst`: a request past its check, a queued, failed or running job is
  about a batch with both approvals; approvals are replaced and never removed.
- `WorkerKnows`: the job's snapshot has all mission lines of its batch (only pool lines
  are added later), the missions it counts as done have COMPLETED rows, a
  line it no longer has to do and whose payee is known is done unless the job has
  seen a failure, and in `commit` its row is still PROCESSING, because mark-paid
  waits for the row's lock.
- `RowsOfLines`: payout rows belong to lines, and a mark-paid about to commit
  covers all mission lines of its batch.

`SettledBatchFullyPaid` is the hard one: the job compares two *numbers*
(`completed >= internalLineCount`). That equal numbers mean equal sets follows from
`done` covering the payable lines when nothing is left to do and nothing failed;
it needs `WorkerKnows` across retries and across mark-paid in the middle of the job.

Theorems: `SettlementInvariant`, `SettlementTypeOK`, `CompletedLinesSettle`,
`SettledMissionsPaid`, `SettledBatchesPaid`, `DualApproval`, `CompletedTransferred`, `DecidedRowsFinal`
(an action property), and `SettlementImplementsMissionPayment`. The frame lemmas
(`BatchFrame`, `RowFrame`, `RequestFrame`, `WorkerFrame`, `QueueFrame`) say once which
actions touch which rows; each conjunct then treats only those.

**Idempotency** (`IdempotentPostProofs`; assumptions `IdempotencyAssumption`,
`PostAssumption`). Two invariants on top of `Basic`, the type invariant with the
codes of calls at `persist`:

- `Budget` gives each key a budget: `effects`, plus one for every call that is in the
  handler or whose refusal or failure will remove the row, plus one while the key has no
  row, is at most `1 + takeovers + unclean`. Each action moves a unit from one summand
  to another, or adds one to both sides. It needs the cardinality of a finite set of calls, and gives
  `EffectsAreBounded` for any number of overlapping requests.
- `KeyInv`, for a key that was never taken over: `OwnedRow` (the one owner of the
  row, and the row has its hash), `StoredRow` (a stored answer was served to a body of the row's hash) and `Replays`.
  It gives `OneFlightAtATime`, `ReplaysAreStoredAnswers` and `StoredAnswersStay`;
  `TypeCorrect` comes from `Basic`.

**Handlers** (`CommonProofs`, no assumption). What every component with handlers in
flight needs and says once: `GoesOn`, `EndsHere` and `WroteOver` (after a write of `W` a
handler that is still fresh is unchanged and has read nothing of `W`; any other is
about to do the same as before). An invariant over handlers then has two
parts: what a request *carries*, fresh or not, and what a fresh one has *seen* and is still so.

**Sums and maxima** (`CommonProofs`, no assumption). The models add up with the folds of the community
modules, which are defined by a recursion over a chosen element. An induction theorem
that takes the induction's predicate as a parameter cannot be used, so every induction here is
a *least counterexample*: `Least` (from `WFMin` and the well-foundedness of `<` on the
naturals) gives a subset of least cardinality for which a claim fails, and a smaller one
for which it holds. `SumsExist` and `SumsUnique` say that there is exactly one function
that sums up every subset, `FoldIsSum` that the fold is its value; `SumSplits`, `SumSame`, `SumPlus` and
`SumOfEqual` are the laws that the proofs of `Pool` and `Ledger` cite.

**Applicants** (`OperationsProofs`; `KycAssumption`). `KycTypes`, and `HouseholdsNeedQuorum`:
only a count lets a handler set a household APPROVED, and `signed` only grows, so the
count it took is still a lower bound when it writes (`Counted`). `GuardsLookAtTheRow`:
a handler that is about to write the copy carries the row (`KycSeen`), and while copy and row
differ, or an approved household has no wallet, a handler owes the copy or the wallet (`CopyOwed`).
`ApplicantsReturnByApplication` follows from the same `KycSeen`: a fresh decision has not seen a rejection.

**Weighbridge** (`WeighingProofs`; `WeighingAssumption`). The invariant is

    IInv == TypeOK /\ ReadingAppliedOnce /\ NetIsOneWeighing /\ InFlightInv
            /\ TicketInv /\ AdjustingInv /\ CreditInv

`InFlightInv` is what handlers carry and have seen; `TicketInv` says that a ticket without
an empty weight has no other and that a manual one is WEIGHED only with a supervisor;
`AdjustingInv`, that nothing is adjusted before there is a ticket; `CreditInv` describes the
states before the credit and after it, which no un-overtaken handler leaves otherwise.
Theorems: `WeighingInvariant`, `ReadingsOnce`, `NetOfOneWeighing`, `CreditedAtMostOnce`,
`WalletsFollowNet`, `ManualNeedsSupervisor`: every property of the run.

**Job queue** (`JobQueueProofs`). `JobQueueInv` has three parts: `QueueInv` (jobs that
wait are queued, each once; the job at the worker has the status of where the worker is, does
not wait and has no row), `ToldInv` and `RetryInv` (what a retry carries and has
seen, and `OneRetry`: unless one was overtaken, a row has at most one retry that has
enqueued or is about to). `ToldFailuresRecorded` and `RetriedAtMostOnce` follow.

**Contracts** (`FinanceProofs`). `ContractsStand`: an activation that is about to write carries a
contract that both sides have signed, and no write takes a signature away, so what is
in force has both, overtaken or not; a fresh one has seen the statuses it will
replace, which gives the rest of `TermsStand`.

**Dispatch** (`OperationsProofs`). `LocksHold`, `NeedsDispatchedOnce`, `FinalMissionsStay`: a fresh
dispatch has read the need and the vehicles and drivers of its plan, and every write of a
mission writes its locks too (`MissionsOnly`), so what it has seen free is still free. What
`rounds` and the statuses of a need have to do with one another holds while no handler
was overtaken.

**Period statement** (`FinanceProofs`). `LockedIsApproved` and `ReviewersAreTold`. `RowsAgree` holds
between the writes of a handler too; what does not hold there is owed by a handler halfway:
`SumsAgree` (the sums of an edited line), `RolesTold` (the task or the approval of a role). Each
action is shown to settle what its handler owed or to owe it still (`Settles`), and
one that ends halfway sets `cut`.

**Hourly work logs** (`FinanceProofs`). `LogsPaidOnce`: a log that is not approved has billed and paid
nothing (`PaidRow`), and a fresh verification has seen it ENDED and the rate that it will credit.

**Provisioning** (`OperationsProofs`). `ApprovedHaveAccounts`: first without any condition, since a
handler that is about to approve carries the place it has made a membership of
(`ProvisioningNamed`); then `JoinsSoon`, that an account which is not a member of its place has a
handler about to join it, and `OnePending`.

**Agent** (`OperationsProofs`). `ReadingsAreKept`: whatever a fresh flush will leave out of the file is
stored (`FlushSeen`). The two lemmas on sequences, `AppendedElements` and `HeadAndTail`, say what
`ToSet` of an appended sequence and of a tail is.

**Notices** (`OperationsProofs`). `NoticesInv` has three parts. `PublicationInv`: an event is published by one
handler, and what it has not written yet is nowhere (`Untold`). `WorkerInv`: a job is in the
queue or at the worker once (`QueuedOnce`), a try sends at most one message (`Tries`), and a message is in
one row or one job (`SettledOnce`, `Kept`). `LogInv`: a job that is about to insert has an
event that is not on the log or that `LogWindow` later rows hide (`HiddenBehind`); rows are only
added, so what hides a row keeps hiding it (`LogGrows`). `LoggedTwiceOnlyBehind` and
`MessagesAreAccountedFor` follow for any number of events, tries and restarts.

**Rate cards** (`FinanceProofs`). An archived card ends on the day its successor begins, which may be
before it began itself, and overlapping activations archive a card more than once; so neither days nor the order
of the writes says why some card is in force. `InOrder` does: there is a ranking of the cards in
which every card that has ended was succeeded, from its end on, by one of higher rank. Of the cards that
have begun by a day, one of the highest rank (`Greatest`) has not ended, or it is the exception: `DaysHaveRates`. A card
that is ended while a stalled activation still has it as its draft is ACTIVE again when that is done, and has an end.
`EarlierRatesStand` needs that, unless a handler was overtaken, a card in force has no end.

**Pool** (`FinanceProofs`; `PoolAssumption`: the families are finitely many). A fresh distribution has read the
status that it changes and a total that was `given` then, and the snapshot it carries is that of the row; what the shares leave is
the remainder, by `SumSplits` and `SumOfEqual`: `PoolIsDistributed`. An addition or a lock alters no share.

**Ledger** (`FinanceProofs`; `LedgerAssumption`: hauls and shifts are finitely many). `SharesAreOfTheFare`. While no handler was
overtaken, each party has one wallet (`OneEach`) and a fresh split has found it, or found
none (`FoundIn`). `SharesHold` is the property in terms of what the wallets hold. One entry moves it on
(`SharesMove`): what the paid work amounts to changes by the row that was written
(`PaidMoves`), the owner gets what the platform does not, and a quotient rounds to the nearest
(`RoundedIsNear`), so that the distance from the exact part grows by at most half a rial
(`CloseAdds`). A change of the settings keeps the property only before the first entry, which is what `repriced` says.

**Driver steps** (`DriverSyncProofs`; `DriverSyncAssumption`). `StepsInOrder`: nothing is needed of the app. `OrderInv`
says that the mission is where it started, where a written step has brought it, or cancelled,
and that a step about to be written was preceded; `Preceded` only grows, and no call but one that
has looked at the mission comes to its write (`NoNewWrite`).

`AcksAreWritten` needs the app. `KeyedInv` says that there is a function from keys to steps, the same
in the queue, in the snapshots and taps of the activities, in the calls and in the rows (`AppInv`,
`CallsInv`, `RowsInv`); that a stored or answered 2xx is for a step that was written; and
that an activity waits for the call that carries its own item (`LinkInv`). A tap uses the next
keys, so an earlier choice of the function can be kept and extended.

`StepsAreIdempotent` is the refinement: `ImplementsIdempotentPost`, by simulation. Each action of the app, the
network, the middleware and the handler is an action of `IdempotentPost` under the mapping of section 5, or
leaves its variables alone (the lemmas `...Sim`). `KeyedInv` is needed for a handler's body,
`GhostInv` for the bound on unclean failures, which are some of the troubles.

Every safety property and the two refinements that the passing runs check are theorems. Only
model-checked are liveness (`PayoutJobConcludes`, `JobConcludes`), out of the
prover's reach, and the three violations.

## 12. Findings and observations

Each finding is a run whose one property quotes the repository and fails.

- `transfer_once`. "Per-line payout via BankAdapter — idempotent per
  settlement_line_id" (settlementService.ts:57). A fault after the bank accepted
  and before the commit leaves the row PROCESSING; the retry sends the line again.
  The reference is the same both times, and the adapter in the repository ignores it.
- `hold`. "Mission must be VERIFIED, not payment-held/failed"
  (settlementEligibility.ts:3) is asked by the closes only. A hold that comes
  later, or a draft that lists a held mission, does not stop the settlement, which
  overwrites HELD.
- `driver_kept`. "Replays queued mission steps when connectivity returns"
  (mission_sync_service.dart:18). A tap whose sync did not get through posts a later step,
  is refused, and `_handleConflict` clears the queue; an `idempotency_in_progress`
  answer to a sync drops its step.

Observed while modelling, part of the models, and not stated as runs:

- Settlement. "For SETTLED batches: sum of settlement_lines must equal sum of lines with
  COMPLETED payouts" (reconciliationService.ts:51) fails for a batch with a line
  without an IBAN, which is passed over. A batch closed again after FAILED leaves the statement linked
  to the first one (settlementRepository.ts:632). Hourly credits never become
  lines (settlementRepository.ts:181).
- Idempotency. "deduplicates POST side-effects for 24h" (idempotency.ts:76): after five
  minutes without an answer the handler runs again, at work or not. `EffectsBounded` is
  the promise that is left. "Idempotency-Key was already used with a different request body"
  (idempotency.ts:40) is told of a different hash only: `hashRequest` (19) drops nested fields, so two drafts of
  `POST /settlement/batches` that differ in their lines' wallets and amounts count as one, and the second is
  answered with the first.
- Missions. A driver step written late may bring a CANCELLED mission back or overwrite VERIFIED.
- Weighbridge. An adjustment of a ticket that was never approved blocks its approval, and changes
  the pool without a first credit. The mission row's `community_contribution_rial` is not
  updated by an adjustment; its `rate_per_ton_snapshot` may differ from the rate credited;
  an adjustment prices old and new net weight at today's tariff.
- Agent. A restart during a first post loses the reading: it is not in the file yet.
- Applicants. An import with IMPORT_AUTO_APPROVE approves without a quorum. A household's change of
  its own IBAN puts a stale status into the copy.
- Statement. The second look of `approve` makes a statement that was LOCKED meanwhile APPROVED.
- Hourly. An end that is written late reopens an APPROVED log, which can be credited again.
- Rates, contracts. A rate card of one cooperative prices the missions of others at the
  same mine. Terms edited after one side has signed keep that signature. An amendment leaves no
  contract in force until the new one is activated.
- Rates. A second activation of one draft that stalls between its two reads (rateCardsRepository.ts:190, 197)
  may archive the card that has replaced it: no rate from there on, though a card is ACTIVE.
- Pool. What is added after the distribution is never distributed. A stale lock of a snapshot overwrites
  DISTRIBUTED, and the pool can be distributed again (communityPoolsRepository.ts:214-216). A total below zero is
  credited to the households: the share is stored as its absolute value (walletsRepository.ts:130).
- Provisioning. A handler cut after the creation of the account leaves a request that can never be
  approved; a user who is moved keeps the old membership. A household's user cannot be moved without an error: the
  update clears the cooperative and then asks for it.
- Events. The job that verifies the log stores an event twice when the worker is more than 20 events
  behind. A message whose row fails is sent again.
- Wallets. Two first credits may make two wallets of one party, as there is no unique index; later
  look-ups show one of them.

## 13. What is left out, and why

- *OTP login and sessions*: rows of one number that no workflow here reads.
- *Administration, KPI, reports, audit, inboxes, objections, mine onboarding*: edits of single rows without a
  protocol, read models and append-only rows. The account operations of `routes/admin.ts`
  are in `Provisioning`.
- *Web client, community app*: forms over the backend's rules; no state outlives a page.
- *`entitiesStore.approveRole`*: nothing calls it. *Demo seeds.*
- *Adjustment of a SETTLED mission*: it writes an audit row and nothing else. *Anomaly flags* of a
  weight: shown to the approver, read by no guard.
- *In-app and push notifications*: a row each, without a provider; the edit of preferences.
- *Amounts of settlement lines, export files, the wording of periods and versions*: data.
- Of a settlement more than one period of each kind; 24-hour purges of keys.

About half of the repository's lines are user interface (`apps/web`, the two Flutter apps' screens),
and a fifth are test and seed scripts; the lines that are mapped are the handlers, stores,
repositories, services and offline queues that change state.

The database is taken as PostgreSQL at READ COMMITTED: a statement is atomic, an
interactive transaction is atomic in what it writes, its reads see what is
committed, and a row updated by an open transaction cannot be updated or deleted by
another.

## 14. Plan

What the runs check is proved, but for liveness. What is left, in this order.

1. Type correctness of the desks as theorems of their own: the invariants state what
   the arguments need of the types, and no bound of a counter.
2. The steps of the liveness arguments that are safety: that a job which is queued keeps
   a worker, and that the measure by which it comes closer to its end never grows.
3. New operations go into the module of their rows.
