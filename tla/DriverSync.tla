----------------------------- MODULE DriverSync -----------------------------
(***************************************************************************)
(* A driver takes one mission through its steps with the offline-capable   *)
(* app (OFFLINE-1): taps are posted directly or queued on the device, and  *)
(* queued steps are replayed when the app believes it is online, each      *)
(* under the Idempotency-Key it was queued with.  The server runs the      *)
(* idempotency middleware and the handler of POST                          *)
(* /driver/missions/:id/steps, which reads the mission and writes its      *)
(* status after further awaits.                                            *)
(*                                                                         *)
(* Activities of the app (a sync, a tap) interleave at their awaits; each  *)
(* is a thread.  Requests and answers may be lost, answered late, or       *)
(* repeated under the same key on the second base URL.                     *)
(***************************************************************************)
EXTENDS Idempotency, Sequences

CONSTANTS
  Start,       \* status of the mission when the app opens it
  Threads,     \* bound: activities of the app at a time
  Bases,       \* base URLs a request is tried on
  MaxTroubles  \* bound: losses, failures, restarts, redispatches, stale rows

\* missionFsm: the chain of statuses a driver advances.
Chain == <<"ASSIGNED", "ACCEPTED", "ARRIVED", "LOADED", "IN_TRANSIT", "DELIVERED">>
Statuses == {Chain[n] : n \in 1..Len(Chain)}
Follows(s, t) == \E n \in 1..(Len(Chain) - 1) : Chain[n] = s /\ Chain[n + 1] = t
Steps == {t \in Statuses : \E s \in Statuses : Follows(s, t)}

ASSUME DriverSyncAssumption ==
  /\ Start \in Statuses
  /\ Seen = Steps /\ Dropped = {None}
  /\ IsFiniteSet(Keys) /\ Keys = 1..Cardinality(Keys)
  /\ None \notin CallIds
  /\ Bases \in Nat \ {0}
  /\ MaxTroubles \in Nat

VARIABLES
  mission,  \* missions.status of the mission
  ticket,   \* its weighbridge ticket: none, open, or with a weight
  taking,   \* a redispatch has read the mission and is about to cancel it
  view,     \* the status the app shows while nothing is queued
  queue,    \* the box mission_step_queue_v1: steps with their keys
  thread,   \* [Threads -> Activity]
  syncing,  \* MissionSyncService._syncing
  used,     \* idempotency keys the app generated
  effects, served, takeovers, unclean,  \* the ghosts of IdempotentPost
  troubles  \* counts what MaxTroubles bounds

ghosts == <<effects, served, takeovers, unclean>>
server == <<mission, ticket, taking, ghosts>>
app == <<view, queue, thread, syncing, used>>
vars == <<idemVars, server, app, troubles>>

Item == [key : Keys, step : Steps]
NoItem == [key |-> 0, step |-> "NONE"]

\* "probe" awaits isOnline, "post" is about to send, "await" waits for the
\* answer to `call'.  A sync posts the items of its snapshot `todo'; then,
\* or without a sync, a tap posts `tap'.  `left': its screen was left.
Activity == [pc : {"idle", "probe", "post", "await"}, todo : Seq(Item),
             tap : Item \union {NoItem}, tries : 0..(Bases - 1),
             call : CallIds \union {None}, left : BOOLEAN]
IdleThread == [pc |-> "idle", todo |-> <<>>, tap |-> NoItem, tries |-> 0,
               call |-> None, left |-> FALSE]

\* The body of a step: it has no nested object that the hash would leave out.
StepBody(step) == [seen |-> step, dropped |-> None]

InSync(t) == thread[t].todo # <<>>
Posting(t) == IF InSync(t) THEN Head(thread[t].todo) ELSE thread[t].tap

Init ==
  /\ IdemInit
  /\ mission = Start
  /\ ticket = IF Start \in {"ASSIGNED", "ACCEPTED"} THEN "none"
              ELSE IF Start = "ARRIVED" THEN "open" ELSE "weighed"
  /\ taking = FALSE
  /\ view = Start
  /\ queue = <<>>
  /\ thread = [t \in Threads |-> IdleThread]
  /\ syncing = FALSE
  /\ used = 0
  /\ effects = [k \in Keys |-> 0]
  /\ served = {}
  /\ takeovers = [k \in Keys |-> 0]
  /\ unclean = [k \in Keys |-> 0]
  /\ troubles = 0

Trouble == troubles < MaxTroubles /\ troubles' = troubles + 1

-----------------------------------------------------------------------------
(* The server.                                                             *)

\* (mutation: the transition is not validated)
StepReadUnchecked(i) ==
  /\ call[i].at = "handler"
  /\ Moves(i, "write", "none")
  /\ UNCHANGED <<row, aged, server, app, troubles>>

\* driverUpdateStep up to its checks; every reason but location and fence is
\* answered 409 invalid_transition.
StepRead(i) ==
  /\ call[i].at = "handler"
  /\ LET step == call[i].body.seen IN
     IF /\ Follows(mission, step)
        /\ step = "LOADED" => ticket = "weighed"
     THEN Moves(i, "write", "none")
     ELSE Moves(i, "answer", "refused")
  /\ UNCHANGED <<row, aged, server, app, troubles>>

\* A step ARRIVED creates the ticket before it writes the status.
TicketAfter(i) ==
  IF call[i].at = "write" /\ call[i].body.seen = "ARRIVED" /\ ticket = "none"
  THEN "open" ELSE ticket

Write(i) ==
  /\ mission' = call[i].body.seen
  /\ ticket' = TicketAfter(i)
  /\ effects' = [effects EXCEPT ![call[i].key] = @ + 1]
  /\ served' = served \union {<<call[i].key, call[i].body>>}

\* The status is written whatever it has become since it was read.
StepWrite(i) ==
  /\ call[i].at = "write"
  /\ Write(i)
  /\ Moves(i, "answer", "ok")
  /\ UNCHANGED <<row, aged, taking, takeovers, unclean, app, troubles>>

\* An error other than invalid_transition: before the status is written, or
\* after it, when the event cannot be published.
StepFails(i) ==
  /\ Executing(i)
  /\ Trouble
  /\ Moves(i, "answer", "failed")
  /\ \/ /\ ticket' \in {ticket, TicketAfter(i)}
        /\ UNCHANGED <<mission, effects, served, unclean>>
     \/ /\ call[i].at = "write" /\ call[i].body.seen \in {"ACCEPTED", "DELIVERED"}
        /\ Write(i)
        /\ unclean' = [unclean EXCEPT ![call[i].key] = @ + 1]
  /\ UNCHANGED <<row, aged, taking, takeovers, app>>

\* The weighbridge registers a weight of the truck.
Weigh ==
  /\ ticket = "open"
  /\ ticket' = "weighed"
  /\ UNCHANGED <<idemVars, mission, taking, ghosts, app, troubles>>

\* redispatchMission takes the mission away.
RedispatchRead ==
  /\ Trouble
  /\ ~taking
  /\ mission \in {"ASSIGNED", "ACCEPTED", "ARRIVED", "LOADED", "IN_TRANSIT"}
  /\ taking' = TRUE
  /\ UNCHANGED <<idemVars, mission, ticket, ghosts, app>>

\* The status is not looked at again.
RedispatchCancel ==
  /\ taking
  /\ taking' = FALSE
  /\ mission' = "CANCELLED"
  /\ UNCHANGED <<idemVars, ticket, ghosts, app, troubles>>

ServerTakeOver(i) ==
  /\ Replace(i) \/ DropStale(i)
  /\ takeovers' = [takeovers EXCEPT ![call[i].key] = @ + 1]
  /\ UNCHANGED <<mission, ticket, taking, effects, served, unclean, app, troubles>>

\* Nobody waits for the answer any more.
Orphan(i) == \A t \in Threads : thread[t].call # i

\* (mutation: the row of a closed connection is removed)
AnswerOrphanCleansUp(i) ==
  /\ Orphan(i)
  /\ call[i].at = "answer"
  /\ row' = [row EXCEPT ![call[i].key] = NoRow]
  /\ Leaves(i)
  /\ UNCHANGED <<aged, server, app, troubles>>

AnswerOrphan(i) ==
  /\ Orphan(i)
  /\ Answer(i) \/ Abandon(i)
  /\ UNCHANGED <<server, app, troubles>>

BackendRestart ==
  /\ Trouble
  /\ Restart
  /\ taking' = FALSE
  /\ thread' = [t \in Threads |-> [thread[t] EXCEPT !.call = None]]
  /\ UNCHANGED <<mission, ticket, ghosts, view, queue, syncing, used>>

-----------------------------------------------------------------------------
(* The app.                                                                *)

SetThread(t, a) == thread' = [thread EXCEPT ![t] = a]

\* _refresh: the status is fetched, or the fetch fails and the view stays.
Refreshed(t) == view' \in IF thread[t].left THEN {view} ELSE {view, mission}

\* _syncing is a field of the service of one screen.
SetSyncing(t, b) == syncing' = IF thread[t].left THEN syncing ELSE b

\* What a sync does when it is over: the tap it was run for goes on with the
\* step it was made for, unless its screen was left.
AfterSync(t) ==
  SetThread(t, IF thread[t].tap = NoItem \/ thread[t].left THEN IdleThread
               ELSE [IdleThread EXCEPT !.pc = "post", !.tap = thread[t].tap])

\* MissionFlow.nextDriverStep of the effective status.
Shown == IF queue = <<>> THEN view ELSE queue[Len(queue)].step
InPlace(step) == step \in {"ACCEPTED", "LOADED", "IN_TRANSIT"}

\* The delivery screen opens only for a mission the server has IN_TRANSIT.
MayTap(step) == Follows(Shown, step) /\ (step = "DELIVERED" => mission = "IN_TRANSIT")

TapOffline(t, step) ==
  /\ thread[t].pc = "idle"
  /\ MayTap(step)
  /\ used + 1 \in Keys
  /\ used' = used + 1
  /\ queue' = Append(queue, [key |-> used + 1, step |-> step])
  /\ IF InPlace(step) THEN view' = step ELSE Refreshed(t)
  /\ UNCHANGED <<idemVars, server, thread, syncing, troubles>>

\* Two keys: one for the post, one for the queue if the post gets no answer.
\* An in-place tap syncs what is queued first, unless a sync is running.
\* Taps may overlap: a refresh that ends enables the button again.
TapOnline(t, step) ==
  /\ thread[t].pc = "idle"
  /\ MayTap(step)
  /\ used + 2 \in Keys
  /\ used' = used + 2
  /\ SetThread(t, [IdleThread EXCEPT
       !.pc = IF InPlace(step) /\ queue # <<>> /\ ~syncing THEN "probe" ELSE "post",
       !.tap = [key |-> used + 1, step |-> step]])
  /\ UNCHANGED <<idemVars, server, view, queue, syncing, troubles>>

\* Connectivity came back, the screen was opened, or the driver pulled down.
StartSync(t) ==
  /\ thread[t].pc = "idle"
  /\ ~syncing
  /\ queue # <<>>
  /\ SetThread(t, [IdleThread EXCEPT !.pc = "probe"])
  /\ UNCHANGED <<idemVars, server, view, queue, syncing, used, troubles>>

\* The guard of _syncing lies before this await, its assignment after it.
Probe(t) ==
  /\ thread[t].pc = "probe"
  /\ \/ /\ queue # <<>>
        /\ SetSyncing(t, TRUE)
        /\ SetThread(t, [thread[t] EXCEPT !.pc = "post", !.todo = queue])
     \/ \* nothing is pending, or the device is offline
        /\ AfterSync(t)
        /\ UNCHANGED syncing
  /\ UNCHANGED <<idemVars, server, view, queue, used, troubles>>

PostStep(t, i) ==
  /\ thread[t].pc = "post"
  /\ Orphan(i)
  /\ Arrives(i, Posting(t).key, StepBody(Posting(t).step))
  /\ SetThread(t, [thread[t] EXCEPT !.pc = "await", !.call = i])
  /\ UNCHANGED <<server, view, queue, syncing, used, troubles>>

\* The box has one entry under a key; without it, later ones move up.
Place(k) == CHOOSE n \in 1..Len(queue) : queue[n].key = k
Without(k) ==
  IF \A n \in 1..Len(queue) : queue[n].key # k THEN queue
  ELSE [n \in 1..(Len(queue) - 1) |-> queue[IF n < Place(k) THEN n ELSE n + 1]]

\* _syncOne on an answer, and the loop around it.
SyncAnswer(t, code) ==
  LET rest == Tail(thread[t].todo) IN
  \/ /\ code \in {"ok", "replay"}
     /\ queue' = Without(Posting(t).key)
     /\ IF rest = <<>>
        THEN SetSyncing(t, FALSE) /\ Refreshed(t) /\ AfterSync(t)
        ELSE /\ SetThread(t, [thread[t] EXCEPT !.pc = "post", !.todo = rest,
                                !.tries = 0, !.call = None])
             /\ UNCHANGED <<syncing, view>>
  \/ \* a conflict: the queue of the mission is cleared
     /\ code = "refused"
     /\ queue' = <<>>
     /\ SetSyncing(t, FALSE)
     /\ Refreshed(t)
     /\ AfterSync(t)
  \/ \* any other error: the item is dropped, and the sync stops
     /\ code \in {"failed", "in_progress", "mismatch"}
     /\ queue' = Without(Posting(t).key)
     /\ SetSyncing(t, FALSE)
     /\ AfterSync(t)
     /\ UNCHANGED view

\* A tap's own post is answered; only the in-place screen clears the queue.
TapAnswer(t, code) ==
  /\ SetThread(t, IdleThread)
  /\ queue' = IF code = "refused" /\ InPlace(Posting(t).step) THEN <<>> ELSE queue
  /\ Refreshed(t)
  /\ UNCHANGED syncing

Receive(t) ==
  /\ thread[t].pc = "await"
  /\ thread[t].call # None
  /\ Answer(thread[t].call)
  /\ IF InSync(t) THEN SyncAnswer(t, call[thread[t].call].code)
                  ELSE TapAnswer(t, call[thread[t].call].code)
  /\ UNCHANGED <<server, used, troubles>>

\* A network error: the same key goes to the next base URL; after the last
\* one a sync stops and keeps its queue, a tap is queued under a new key.
NetworkError(t) ==
  IF thread[t].tries + 1 < Bases
  THEN /\ SetThread(t, [thread[t] EXCEPT !.pc = "post", !.call = None, !.tries = @ + 1])
       /\ UNCHANGED <<view, queue, syncing>>
  ELSE IF InSync(t)
  THEN /\ SetSyncing(t, FALSE)
       /\ AfterSync(t)
       /\ UNCHANGED <<view, queue>>
  ELSE LET step == thread[t].tap.step IN
       /\ queue' = IF thread[t].left /\ ~InPlace(step) THEN queue
                   ELSE Append(queue, [key |-> thread[t].tap.key + 1, step |-> step])
       /\ IF InPlace(step) /\ ~thread[t].left THEN view' = step ELSE Refreshed(t)
       /\ SetThread(t, IdleThread)
       /\ UNCHANGED syncing

\* The request or its answer is lost, or 15 seconds pass: the call goes on.
Severed(t) == thread[t].pc = "await" /\ thread[t].call = None

TimeOut(t) ==
  /\ thread[t].pc \in {"post", "await"}
  /\ IF Severed(t) THEN UNCHANGED troubles ELSE Trouble
  /\ NetworkError(t)
  /\ UNCHANGED <<idemVars, server, used>>

Refresh ==
  /\ view # mission
  /\ view' = mission
  /\ UNCHANGED <<idemVars, server, queue, thread, syncing, used, troubles>>

\* The driver leaves the screen and opens it again: what is under way goes
\* on, but the new screen has a sync service of its own.
Reopen ==
  /\ Trouble
  /\ \E t \in Threads : thread[t].pc # "idle"
  /\ thread' = [t \in Threads |->
                 IF thread[t].pc = "idle" THEN thread[t]
                 ELSE [thread[t] EXCEPT !.left = TRUE]]
  /\ syncing' = FALSE
  /\ view' = mission
  /\ UNCHANGED <<idemVars, server, queue, used>>

\* The app is killed and opened again: only the box survives.
AppRestart ==
  /\ Trouble
  /\ thread' = [t \in Threads |-> IdleThread]
  /\ syncing' = FALSE
  /\ view' = mission
  /\ UNCHANGED <<idemVars, server, queue, used>>

-----------------------------------------------------------------------------

Next ==
  \/ \E i \in CallIds :
       \/ MiddlewareStep(i) /\ UNCHANGED <<server, app, troubles>>
       \/ StepRead(i)
       \/ StepWrite(i)
       \/ StepFails(i)
       \/ ServerTakeOver(i)
       \/ AnswerOrphan(i)
  \/ \E k \in Keys : Age(k) /\ Trouble /\ UNCHANGED <<server, app>>
  \/ Weigh
  \/ RedispatchRead
  \/ RedispatchCancel
  \/ BackendRestart
  \/ \E t \in Threads :
       \/ \E step \in Steps : TapOffline(t, step) \/ TapOnline(t, step)
       \/ StartSync(t)
       \/ Probe(t)
       \/ \E i \in CallIds : PostStep(t, i)
       \/ Receive(t)
       \/ TimeOut(t)
  \/ Refresh
  \/ Reopen
  \/ AppRestart

Spec == Init /\ [][Next]_vars

-----------------------------------------------------------------------------

TypeOK ==
  /\ IdemTypeOK
  /\ mission \in Statuses \union {"CANCELLED"}
  /\ ticket \in {"none", "open", "weighed"}
  /\ taking \in BOOLEAN
  /\ view \in Statuses \union {"CANCELLED"}
  /\ queue \in Seq(Item)
  /\ thread \in [Threads -> Activity]
  /\ syncing \in BOOLEAN
  /\ used \in Nat

\* A 2xx that reaches the app means that the very step was written, whether
\* it is answered first hand, replayed, or repeated on the second base URL
\* (mission_sync_service.dart 67-81, idempotency.ts 65-69).
AckedIsWritten ==
  \A t \in Threads :
    /\ thread[t].call # None
    /\ call[thread[t].call].code \in {"ok", "replay"}
    => <<Posting(t).key, StepBody(Posting(t).step)>> \in served

\* No step is ever written before the one it follows: not by a replay of the
\* queue, a tap that overtakes it, or two syncs at a time
\* (missionStore.ts 304-305).
NoStepSkipped ==
  \A entry \in served :
    \/ Follows(Start, entry[2].seen)
    \/ \E earlier \in served : Follows(earlier[2].seen, entry[2].seen)

\* The server side is an instance of IdempotentPost, whose side effect is
\* the write of the mission's status.
AtServer ==
  [i \in CallIds |->
    [call[i] EXCEPT !.at = IF @ = "write" THEN "handler" ELSE @]]
Server == INSTANCE IdempotentPost WITH
  MaxUnclean <- MaxTroubles, call <- AtServer
ImplementsIdempotentPost == Server!Spec

\* A queued step leaves the device only when it is on the server, or when
\* the handler itself answered a sync that it cannot take the queued step.
QueuedStepKept ==
  [][\A n \in 1..Len(queue) :
       (\A m \in 1..Len(queue') : queue'[m] # queue[n]) =>
         \/ \E k \in Keys : <<k, StepBody(queue[n].step)>> \in served
         \/ \E t \in Threads :
              /\ InSync(t) /\ thread[t].call # None
              /\ call[thread[t].call].code \in {"refused", "failed"}]_vars

=============================================================================
