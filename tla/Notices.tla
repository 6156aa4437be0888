------------------------------- MODULE Notices -------------------------------
(***************************************************************************)
(* Domain events (EVENT-1) and the text messages they cause (NOTIF-1).  A  *)
(* handler that has changed its rows publishes an event: a row of the      *)
(* event log, a job that looks for that row again, and a job for each user *)
(* to be told.  Both jobs wait in the queue of the process for its one     *)
(* worker (JobQueue); a job that throws comes back at the end of the queue.*)
(***************************************************************************)
EXTENDS Naturals, Sequences, FiniteSets, SequencesExt, Handlers

CONSTANTS
  DomainEvents, \* events, each published once and told to one user
  LogWindow,    \* rows of the log that runPersistEvent looks at
  MaxTries      \* MAX_JOB_ATTEMPTS

ASSUME NoticesAssumption == LogWindow \in Nat /\ MaxTries \in Nat \ {0}

VARIABLES
  eventLog,   \* the rows of events
  now,        \* the time, in events that were given an occurred_at
  todo,       \* Seq(Job): pending jobs
  doing,      \* the job the worker is at, and how far, or Rest
  failedJobs, \* jobs with a row of failed_jobs
  recipient,  \* whether the user takes text messages, and has a number
  notices,    \* the rows of notifications
  \* Ghosts.
  texted,     \* [DomainEvents -> Nat]: messages the provider has taken
  published,  \* events whose publication has begun
  asked       \* events whose message was enqueued

noticesRows == <<eventLog, now, todo, doing, failedJobs, recipient, notices, texted, published, asked>>
noticesVars == <<noticesRows, handlerVars>>

LogRow == [event : DomainEvents, occurred_at : Nat]
Job == [kind : {"log", "sms"}, event : DomainEvents, attempts : 0..MaxTries]
Rest == [at |-> "rest"]
Stages == {"log", "insert", "sms", "send", "sent", "failed", "failed_no_mobile", "backoff", "giveup"}
Notice == [event : DomainEvents, try : 1..MaxTries, status : {"sent", "failed", "failed_no_mobile"}]

\* About to store the event, to enqueue its log job, or to look up its user.
NoticesRequest ==
  {Free} \union [op : {"persist", "emit", "lookup"}, reads : {{}}, fresh : {TRUE},
                 event : DomainEvents, occurred_at : Nat]

NoticesInit ==
  /\ eventLog = {}
  /\ now = 0
  /\ todo = <<>>
  /\ doing = Rest
  /\ failedJobs = {}
  /\ recipient \in {"reachable", "no_mobile", "sms_off"}
  /\ notices = {}
  /\ texted = [e \in DomainEvents |-> 0]
  /\ published = {}
  /\ asked = {}
  /\ HandlersInit

-----------------------------------------------------------------------------
(* publishEvent.                                                           *)

\* occurred_at is the time before the row is stored.
Publish(r) ==
  /\ \E e \in DomainEvents \ published :
       /\ published' = published \union {e}
       /\ Begins(r, [op |-> "persist", reads |-> {}, fresh |-> TRUE, event |-> e, occurred_at |-> now])
  /\ now' = now + 1
  /\ UNCHANGED <<eventLog, todo, doing, failedJobs, recipient, notices, texted, asked>>

\* persistEvent
Persist(r) ==
  /\ request[r].op = "persist"
  /\ eventLog' = eventLog \union {[event |-> request[r].event, occurred_at |-> request[r].occurred_at]}
  /\ Goes(r, [request[r] EXCEPT !.op = "emit"])
  /\ UNCHANGED <<now, todo, doing, failedJobs, recipient, notices, texted, published, asked>>

NewJob(kind, e) == [kind |-> kind, event |-> e, attempts |-> 0]

\* emitToSubscribers, up to the lookup of the user.
Emit(r) ==
  /\ request[r].op = "emit"
  /\ todo' = Append(todo, NewJob("log", request[r].event))
  /\ Goes(r, [request[r] EXCEPT !.op = "lookup"])
  /\ UNCHANGED <<eventLog, now, doing, failedJobs, recipient, notices, texted, published, asked>>

\* handleDomainEventNotification
EnqueueNotification(r) ==
  /\ request[r].op = "lookup"
  /\ todo' = Append(todo, NewJob("sms", request[r].event))
  /\ asked' = asked \union {request[r].event}
  /\ Goes(r, Free)
  /\ UNCHANGED <<eventLog, now, doing, failedJobs, recipient, notices, texted, published>>

\* The row cannot be stored, the event tells nobody, or the lookup of the
\* user throws, which runHandlers swallows.
PublishEnds(r) ==
  /\ request[r].op # "emit"
  /\ Ends(r, FALSE)
  /\ UNCHANGED noticesRows

-----------------------------------------------------------------------------
(* The worker.                                                             *)

Take ==
  /\ doing = Rest
  /\ todo # <<>>
  /\ doing' = [at |-> Head(todo).kind, job |-> [Head(todo) EXCEPT !.attempts = @ + 1]]
  /\ todo' = Tail(todo)
  /\ UNCHANGED <<eventLog, now, failedJobs, recipient, notices, texted, published, asked, handlerVars>>

At(stage) == doing.at = stage

\* The latest rows by occurred_at.
listDomainEvents ==
  {x \in eventLog : Cardinality({y \in eventLog : y.occurred_at > x.occurred_at}) < LogWindow}

\* (mutation: the row is not looked for)
PersistJobReadNothing ==
  /\ At("log")
  /\ doing' = [doing EXCEPT !.at = "insert"]
  /\ UNCHANGED <<eventLog, now, todo, failedJobs, recipient, notices, texted, published, asked, handlerVars>>

\* runPersistEvent looks for the row ...
PersistJobRead ==
  /\ At("log")
  /\ doing' = IF \E x \in listDomainEvents : x.event = doing.job.event
              THEN Rest
              ELSE [doing EXCEPT !.at = "insert"]
  /\ UNCHANGED <<eventLog, now, todo, failedJobs, recipient, notices, texted, published, asked, handlerVars>>

\* ... and stores another one, of now, if it is not there.
PersistJobInsert ==
  /\ At("insert")
  /\ eventLog' = eventLog \union {[event |-> doing.job.event, occurred_at |-> now]}
  /\ now' = now + 1
  /\ doing' = Rest
  /\ UNCHANGED <<todo, failedJobs, recipient, notices, texted, published, asked, handlerVars>>

\* sendNotification and deliverSms, up to the provider.
SmsRead ==
  /\ At("sms")
  /\ doing' = CASE recipient = "sms_off" -> Rest
                [] recipient = "no_mobile" -> [doing EXCEPT !.at = "failed_no_mobile"]
                [] recipient = "reachable" -> [doing EXCEPT !.at = "send"]
  /\ UNCHANGED <<eventLog, now, todo, failedJobs, recipient, notices, texted, published, asked, handlerVars>>

\* A provider that refuses is noted, and not tried again.
SmsSend ==
  /\ At("send")
  /\ \/ /\ doing' = [doing EXCEPT !.at = "sent"]
        /\ texted' = [texted EXCEPT ![doing.job.event] = @ + 1]
     \/ /\ doing' = [doing EXCEPT !.at = "failed"]
        /\ UNCHANGED texted
  /\ UNCHANGED <<eventLog, now, todo, failedJobs, recipient, notices, published, asked, handlerVars>>

\* createNotification
SmsRecord ==
  /\ doing.at \in {"sent", "failed", "failed_no_mobile"}
  /\ notices' = notices \union {[event |-> doing.job.event, try |-> doing.job.attempts, status |-> doing.at]}
  /\ doing' = Rest
  /\ UNCHANGED <<eventLog, now, todo, failedJobs, recipient, texted, published, asked, handlerVars>>

\* (mutation: a job that has sent its message is not tried again)
JobThrowsUnlessSent ==
  /\ doing.at \in {"log", "insert", "sms", "sent", "failed", "failed_no_mobile"}
  /\ doing' = IF doing.at = "sent" THEN Rest
              ELSE [doing EXCEPT !.at = IF doing.job.attempts < MaxTries THEN "backoff" ELSE "giveup"]
  /\ UNCHANGED <<eventLog, now, todo, failedJobs, recipient, notices, texted, published, asked, handlerVars>>

\* The database throws, anywhere but at the provider.
JobThrows ==
  /\ doing.at \in {"log", "insert", "sms", "sent", "failed", "failed_no_mobile"}
  /\ doing' = [doing EXCEPT !.at = IF doing.job.attempts < MaxTries THEN "backoff" ELSE "giveup"]
  /\ UNCHANGED <<eventLog, now, todo, failedJobs, recipient, notices, texted, published, asked, handlerVars>>

BackoffEnds ==
  /\ At("backoff")
  /\ todo' = Append(todo, doing.job)
  /\ doing' = Rest
  /\ UNCHANGED <<eventLog, now, failedJobs, recipient, notices, texted, published, asked, handlerVars>>

\* failJob
GiveUp ==
  /\ At("giveup")
  /\ failedJobs' = failedJobs \union {doing.job}
  /\ doing' = Rest
  /\ UNCHANGED <<eventLog, now, todo, recipient, notices, texted, published, asked, handlerVars>>

\* The process ends, with its queue.
NoticesRestart ==
  /\ doing # Rest \/ todo # <<>> \/ \E r \in Requests : request[r].op # "free"
  /\ todo' = <<>>
  /\ doing' = Rest
  /\ request' = [r \in Requests |-> Free]
  /\ cut' = (cut \/ doing # Rest \/ todo # <<>>)
  /\ UNCHANGED <<eventLog, now, failedJobs, recipient, notices, texted, published, asked, overtaken>>

-----------------------------------------------------------------------------
NoticesNext ==
  \/ \E r \in Requests : Publish(r) \/ Persist(r) \/ Emit(r) \/ EnqueueNotification(r) \/ PublishEnds(r)
  \/ Take \/ PersistJobRead \/ PersistJobInsert
  \/ SmsRead \/ SmsSend \/ SmsRecord
  \/ JobThrows \/ BackoffEnds \/ GiveUp
  \/ NoticesRestart

NoticesSpec == NoticesInit /\ [][NoticesNext]_noticesVars

-----------------------------------------------------------------------------
(* Properties.                                                             *)

NoticesTypeOK ==
  /\ eventLog \subseteq LogRow
  /\ now \in Nat
  /\ todo \in Seq(Job)
  /\ doing \in {Rest} \union [at : Stages, job : Job]
  /\ failedJobs \subseteq Job
  /\ notices \subseteq Notice
  /\ texted \in [DomainEvents -> Nat]
  /\ published \subseteq DomainEvents
  /\ asked \subseteq published
  /\ request \in [Requests -> NoticesRequest]

\* The job that verifies the log stores an event a second time only when the
\* worker was so far behind that LogWindow later rows hide the first: never
\* on a retry, and never for two jobs that overlap a publication.
LoggedAgainOnlyBehind ==
  \A x, y \in eventLog :
    x.event = y.event /\ x.occurred_at < y.occurred_at =>
      Cardinality({z \in eventLog : x.occurred_at < z.occurred_at /\ z # y}) >= LogWindow

\* The job the worker is at.
Held == IF doing = Rest THEN {} ELSE {doing.job}

\* While the process lives, a message that was asked for is on record, once;
\* or its job waits, or was given up and can be retried.  A message that was
\* sent and not recorded is sent again, at most MaxTries times in all.
MessagesAccountedFor ==
  \A e \in DomainEvents :
    LET rows == {x \in notices : x.event = e}
        jobs == {j \in ToSet(todo) \union Held \union failedJobs : j.kind = "sms" /\ j.event = e} IN
    /\ ~cut /\ e \in asked /\ recipient # "sms_off" => Cardinality(rows) + Cardinality(jobs) = 1
    /\ texted[e] <= MaxTries
    /\ texted[e] > 0 => \E x \in eventLog : x.event = e

=============================================================================
