--------------------------- MODULE DriverSyncProofs ----------------------------
(***************************************************************************)
(* Proofs about the queue of steps, for any number of activities of the    *)
(* app, of calls on the server, of keys, of losses and of restarts.  The   *)
(* order of the steps needs nothing of the app: whatever it posts, the     *)
(* server looks at the mission before it writes.  An acknowledgement means *)
(* what it says because a key stands for one step, on the phone and on the *)
(* server; and then the server of the steps is one of IdempotentPost.      *)
(***************************************************************************)
EXTENDS DriverSync, FiniteSetTheorems, TLAPS

-----------------------------------------------------------------------------
(* The order of the steps.                                                 *)

\* The step was preceded by the one it follows, or by the start.
Preceded(step) == Follows(Start, step) \/ \E earlier \in served : Follows(earlier[2].seen, step)

\* The mission is where it started, where a step has brought it, or
\* cancelled; a step about to be written was preceded.
OrderInv ==
  /\ call = [i \in CallIds |-> call[i]]
  /\ mission \in {Start, "CANCELLED"} \/ \E entry \in served : entry[2].seen = mission
  /\ \A i \in CallIds : call[i].at = "write" => Preceded(call[i].body.seen)
  /\ NoStepSkipped

LEMMA NothingFollowsCancelled == ASSUME NEW step PROVE ~Follows("CANCELLED", step)
  BY DEF Follows, Chain

\* No call comes to its write, other than by a look at the mission.
NoNewWrite ==
  /\ call' = [i \in CallIds |-> call'[i]]
  /\ \A i \in CallIds : call'[i].at = "write" => call[i].at = "write" /\ call'[i].body = call[i].body

LEMMA CallMoved ==
  ASSUME OrderInv, NEW i \in CallIds, NEW p, NEW c, Moves(i, p, c), p # "write"
  PROVE  NoNewWrite
  BY DEF OrderInv, Moves, NoNewWrite

LEMMA CallLeft ==
  ASSUME OrderInv, NEW i \in CallIds, Leaves(i)
  PROVE  NoNewWrite
  BY DEF OrderInv, Leaves, NoCall, NoNewWrite

\* The middleware never comes to the write.
LEMMA VerdictsMove ==
  ASSUME OrderInv, NEW i \in CallIds,
         Find(i) \/ Replace(i) \/ Acquire(i) \/ Refind(i) \/ DropStale(i)
  PROVE  NoNewWrite
  <1>1. Find(i) => \E p \in {"acquire", "replace", "answer"} : \E c : Moves(i, p, c)
    BY DEF Find
  <1>2. Replace(i) => Moves(i, "acquire", "none")
    BY DEF Replace
  <1>3. Acquire(i) => Moves(i, "handler", "none") \/ Moves(i, "refind", "none")
    BY DEF Acquire
  <1>4. Refind(i) => \E p \in {"drop", "answer"} : \E c : Moves(i, p, c)
    BY DEF Refind
  <1>5. DropStale(i) => Moves(i, "answer", "in_progress")
    BY DEF DropStale
  <1> QED
    BY <1>1, <1>2, <1>3, <1>4, <1>5, CallMoved

LEMMA AnswersMove ==
  ASSUME OrderInv, NEW i \in CallIds, Answer(i) \/ Abandon(i) \/ Persist(i) \/ PersistFails(i)
  PROVE  NoNewWrite
  <1>1. Answer(i) => Leaves(i) \/ Moves(i, "persist", call[i].code)
    BY DEF Answer
  <1>2. Abandon(i) \/ Persist(i) \/ PersistFails(i) => Leaves(i)
    BY DEF Abandon, Persist, PersistFails
  <1> QED
    BY <1>1, <1>2, CallMoved, CallLeft

LEMMA RestartMoves == ASSUME OrderInv, Restart PROVE NoNewWrite
  BY DEF Restart, NoCall, NoNewWrite

LEMMA ArrivalMoves ==
  ASSUME OrderInv, NEW i \in CallIds, NEW k, NEW b, Arrives(i, k, b)
  PROVE  NoNewWrite
  BY DEF OrderInv, Arrives, NoNewWrite

\* What was preceded stays so; so a step that writes nothing, but perhaps
\* cancels the mission, keeps the invariant.
LEMMA NothingWritten ==
  ASSUME OrderInv, NoNewWrite, served' = served, mission' = mission \/ mission' = "CANCELLED"
  PROVE  OrderInv'
  BY DEF OrderInv, NoNewWrite, NoStepSkipped, Preceded

LEMMA StepReadInv ==
  ASSUME OrderInv, NEW i \in CallIds, StepRead(i)
  PROVE  OrderInv'
  <1>1. UNCHANGED <<served, mission>>
    BY DEF StepRead, server, ghosts
  <1>2. CASE Moves(i, "answer", "refused")
    BY <1>1, <1>2, CallMoved, NothingWritten
  <1>3. CASE Moves(i, "write", "none") /\ Follows(mission, call[i].body.seen)
    <2>1. Preceded(call[i].body.seen)
      BY <1>3, NothingFollowsCancelled DEF OrderInv, Preceded
    <2>2. /\ call' = [j \in CallIds |-> call'[j]]
          /\ \A j \in CallIds : call'[j].at = "write" => Preceded(call'[j].body.seen)
      BY <1>3, <2>1 DEF Moves, OrderInv
    <2> QED
      BY <1>1, <2>2 DEF OrderInv, NoStepSkipped, Preceded
  <1> QED
    BY <1>2, <1>3 DEF StepRead

\* The write of a step, and the calls that go on after it.
LEMMA WriteInv ==
  ASSUME OrderInv, NoNewWrite, NEW i \in CallIds, call[i].at = "write", Write(i)
  PROVE  OrderInv'
  <1> DEFINE entry == <<call[i].key, call[i].body>>
  <1>1. mission' = entry[2].seen /\ served' = served \union {entry} /\ Preceded(entry[2].seen)
    BY DEF Write, OrderInv
  <1> HIDE DEF entry
  <1>2. NoStepSkipped'
    BY <1>1 DEF NoStepSkipped, Preceded, OrderInv
  <1>3. \E e \in served' : e[2].seen = mission'
    BY <1>1
  <1>4. ASSUME NEW j \in CallIds, call'[j].at = "write" PROVE Preceded(call[j].body.seen)'
    <2>1. call'[j].body = call[j].body /\ Preceded(call[j].body.seen)
      BY <1>4 DEF OrderInv, NoNewWrite
    <2> QED
      BY <1>1, <2>1 DEF Preceded
  <1> QED
    BY <1>2, <1>3, <1>4 DEF OrderInv, NoNewWrite

LEMMA StepWriteInv ==
  ASSUME OrderInv, NEW i \in CallIds, StepWrite(i) \/ StepFails(i)
  PROVE  OrderInv'
  <1>1. NoNewWrite
    BY CallMoved DEF StepWrite, StepFails
  <1>2. CASE call[i].at = "write" /\ Write(i)
    BY <1>1, <1>2, WriteInv
  <1>3. CASE UNCHANGED <<served, mission>>
    BY <1>1, <1>3, NothingWritten
  <1> QED
    BY <1>2, <1>3 DEF StepWrite, StepFails

LEMMA OrderStep ==
  ASSUME OrderInv, [Next]_vars
  PROVE  OrderInv'
  <1>1. ASSUME NEW i \in CallIds,
               \/ MiddlewareStep(i) /\ UNCHANGED <<server, app, troubles>>
               \/ ServerTakeOver(i) \/ AnswerOrphan(i)
        PROVE  OrderInv'
    <2>1. NoNewWrite
      BY <1>1, VerdictsMove, AnswersMove DEF MiddlewareStep, ServerTakeOver, AnswerOrphan
    <2>2. UNCHANGED <<served, mission>>
      BY <1>1 DEF ServerTakeOver, AnswerOrphan, server, ghosts
    <2> QED
      BY <2>1, <2>2, NothingWritten
  <1>2. ASSUME NEW i \in CallIds, StepRead(i) \/ StepWrite(i) \/ StepFails(i)
        PROVE  OrderInv'
    BY <1>2, StepReadInv, StepWriteInv
  <1>3. ASSUME UNCHANGED call, served' = served, mission' = mission \/ mission' = "CANCELLED"
        PROVE  OrderInv'
    <2>1. NoNewWrite
      BY <1>3 DEF OrderInv, NoNewWrite
    <2> QED
      BY <1>3, <2>1, NothingWritten
  <1>4. CASE \/ \E k \in Keys : Age(k) /\ Trouble /\ UNCHANGED <<server, app>>
             \/ Weigh \/ RedispatchRead \/ RedispatchCancel \/ Refresh \/ Reopen \/ AppRestart
             \/ UNCHANGED vars
    BY <1>3, <1>4 DEF Age, Weigh, RedispatchRead, RedispatchCancel, Refresh, Reopen, AppRestart,
       vars, idemVars, server, ghosts
  <1>5. CASE BackendRestart
    BY <1>5, RestartMoves, NothingWritten DEF BackendRestart, ghosts
  <1>6. ASSUME NEW t \in Threads,
               \/ \E step \in Steps : TapOffline(t, step) \/ TapOnline(t, step)
               \/ StartSync(t) \/ Probe(t) \/ TimeOut(t)
        PROVE  OrderInv'
    BY <1>3, <1>6 DEF TapOffline, TapOnline, StartSync, Probe, TimeOut, idemVars, server, ghosts
  <1>7. ASSUME NEW t \in Threads, NEW i \in CallIds, PostStep(t, i)
        PROVE  OrderInv'
    BY <1>7, ArrivalMoves, NothingWritten DEF PostStep, server, ghosts
  <1>8. ASSUME NEW t \in Threads, Receive(t), thread[t].call \in CallIds
        PROVE  OrderInv'
    BY <1>8, AnswersMove, NothingWritten DEF Receive, server, ghosts
  <1>9. ASSUME NEW t \in Threads, Receive(t), thread[t].call \notin CallIds
        PROVE  OrderInv'
    <2>1. call' = call
      BY <1>9 DEF Receive, Answer, Moves, Leaves, OrderInv
    <2> QED
      BY <1>3, <1>9, <2>1 DEF Receive, server, ghosts
  <1> QED
    BY <1>1, <1>2, <1>4, <1>5, <1>6, <1>7, <1>8, <1>9 DEF Next

\* No step of a mission is written before the one it follows, however taps,
\* syncs, repetitions, lost answers and restarts interleave.
THEOREM StepsInOrder == Spec => []NoStepSkipped
  <1>1. Init => OrderInv
    BY DEF Init, IdemInit, OrderInv, NoStepSkipped, NoCall
  <1>2. OrderInv /\ [Next]_vars => OrderInv'
    BY OrderStep
  <1>3. OrderInv => NoStepSkipped
    BY DEF OrderInv
  <1> QED
    BY <1>1, <1>2, <1>3, PTL DEF Spec

-----------------------------------------------------------------------------
(* A key stands for one step.                                              *)

\* A key stands for one step, `f', from the tap that made it on; the first
\* `made' of them are made.
Means(f, made, item) == item \in Item /\ item.key \in 1..made /\ item.step = f[item.key]

\* Requests carry keys that were made, with their step, and no answer while
\* the handler runs; a 2xx is answered only for a step that was written.
CallsInv(f) ==
  \A i \in CallIds :
    /\ call[i].at # "idle" => call[i].key \in 1..used /\ call[i].body = StepBody(f[call[i].key])
    /\ Executing(i) => call[i].code = "none"
    /\ call[i].code \in {"ok", "replay"} =>
         call[i].at # "idle" /\ <<call[i].key, call[i].body>> \in served

\* So do the rows; a stored answer is that of a step that was written.
RowsInv(f) ==
  \A k \in Keys :
    /\ row[k].state # "none" => k \in 1..used /\ row[k].hash = f[k]
    /\ row[k].state = "done" => <<k, StepBody(f[k])>> \in served

\* What an activity of the app is about to post: an item of its snapshot, or
\* a tap, with the key after it set aside for the queue.
Prepared(f, made, a) ==
  /\ \A n \in 1..Len(a.todo) : Means(f, made, a.todo[n])
  /\ a.tap # NoItem => /\ Means(f, made, a.tap)
                       /\ Means(f, made, [key |-> a.tap.key + 1, step |-> a.tap.step])
  /\ a.pc \in {"post", "await"} => a.todo # <<>> \/ a.tap # NoItem
  /\ a.call # None => a.pc = "await"

\* So do the queue and every activity of the app.
AppInv(f) ==
  /\ \A n \in 1..Len(queue) : Means(f, used, queue[n])
  /\ \A t \in Threads : Prepared(f, used, thread[t])

\* An activity waits for the call that carries its own item, and no two wait
\* for the same.
LinkInv ==
  /\ \A t \in Threads :
       thread[t].call # None =>
         /\ call[thread[t].call].at \notin {"idle", "persist"}
         /\ call[thread[t].call].key = Posting(t).key
         /\ call[thread[t].call].body = StepBody(Posting(t).step)
  /\ \A t, u \in Threads :
       thread[t].call # None /\ thread[t].call = thread[u].call => t = u

\* All of them, for what the keys stand for.
SyncInv(f) == CallsInv(f) /\ RowsInv(f) /\ AppInv(f) /\ LinkInv

\* Some choice of steps for the keys makes it so.
KeyedInv == TypeOK /\ \E f \in [Keys -> Steps] : SyncInv(f)

-----------------------------------------------------------------------------

\* What is left of the items to post is as good as they were.
LEMMA MeantTail ==
  ASSUME NEW f, NEW made, NEW s \in Seq(Item), s # <<>>, \A n \in 1..Len(s) : Means(f, made, s[n])
  PROVE  Tail(s) \in Seq(Item) /\ \A n \in 1..Len(Tail(s)) : Means(f, made, Tail(s)[n])
  <1>1. /\ Tail(s) \in Seq(Item) /\ Len(Tail(s)) = Len(s) - 1 /\ Len(s) \in Nat
        /\ \A n \in 1..Len(Tail(s)) : Tail(s)[n] = s[n + 1]
    OBVIOUS
  <1>2. \A n \in 1..Len(Tail(s)) : n + 1 \in 1..Len(s)
    BY <1>1
  <1> QED
    BY <1>1, <1>2

LEMMA KeysAreNats ==
  /\ \A k \in Keys : k \in Nat /\ k > 0
  /\ \A n \in Nat \ {0} : n + 1 \in Keys => n \in Keys
  <1>1. Cardinality(Keys) \in Nat
    BY DriverSyncAssumption, FS_CardinalityType
  <1> QED
    BY <1>1, DriverSyncAssumption

LEMMA KeysBelow == ASSUME NEW n \in Nat, n + 1 \in Keys PROVE 1..n \subseteq Keys
  <1>1. Cardinality(Keys) \in Nat
    BY DriverSyncAssumption, FS_CardinalityType
  <1> QED
    BY <1>1, DriverSyncAssumption

LEMMA StepsAreStatuses ==
  /\ Steps \subseteq Statuses /\ Seen = Steps
  /\ \A body \in Bodies : body.seen \in Steps
  /\ \A step \in Steps : StepBody(step) \in Bodies /\ Hash(StepBody(step)) = step
  BY DriverSyncAssumption DEF Steps, Bodies, StepBody, Hash

\* Idle activities, and those that go on with a tap after a sync.
LEMMA IdleIsActivity ==
  /\ IdleThread \in Activity
  /\ IdleThread.call = None /\ IdleThread.tap = NoItem /\ IdleThread.todo = <<>>
  /\ IdleThread.pc = "idle"
  BY DriverSyncAssumption DEF Activity, IdleThread

LEMMA AfterSyncIs ==
  ASSUME TypeOK, NEW t \in Threads, AfterSync(t)
  PROVE  \E a \in Activity : /\ SetThread(t, a)
                             /\ a.call = None /\ a.todo = <<>>
                             /\ \/ a.pc = "idle" /\ a.tap = NoItem
                                \/ a.pc = "post" /\ a.tap = thread[t].tap /\ a.tap # NoItem
  <1> DEFINE b == [IdleThread EXCEPT !.pc = "post", !.tap = thread[t].tap]
  <1>1. b \in Activity /\ b.call = None /\ b.todo = <<>> /\ b.pc = "post" /\ b.tap = thread[t].tap
    BY IdleIsActivity DEF Activity, IdleThread, TypeOK
  <1> HIDE DEF b
  <1>2. CASE thread[t].tap = NoItem \/ thread[t].left
    BY <1>2, IdleIsActivity DEF AfterSync
  <1>3. CASE ~(thread[t].tap = NoItem \/ thread[t].left)
    <2>1. SetThread(t, b)
      BY <1>3 DEF AfterSync, b
    <2> QED
      BY <1>1, <1>3, <2>1
  <1> QED
    BY <1>2, <1>3

LEMMA WithoutKeeps ==
  ASSUME queue \in Seq(Item), NEW k
  PROVE  /\ Without(k) \in Seq(Item)
         /\ \A n \in 1..Len(Without(k)) : \E m \in 1..Len(queue) : Without(k)[n] = queue[m]
  <1>1. CASE \A n \in 1..Len(queue) : queue[n].key # k
    BY <1>1 DEF Without
  <1>2. CASE \E n \in 1..Len(queue) : queue[n].key = k
    <2> DEFINE at(n) == IF n < Place(k) THEN n ELSE n + 1
    <2>1. Place(k) \in 1..Len(queue)
      BY <1>2 DEF Place
    <2>2. \A n \in 1..(Len(queue) - 1) : at(n) \in 1..Len(queue)
      BY <2>1
    <2>3. Without(k) = [n \in 1..(Len(queue) - 1) |-> queue[at(n)]]
      BY <1>2 DEF Without
    <2>4. Len(queue) - 1 \in Nat
      BY <2>1
    <2> HIDE DEF at
    <2> QED
      BY <2>2, <2>3, <2>4
  <1> QED
    BY <1>1, <1>2

-----------------------------------------------------------------------------
(* What happens to a call, for the app and for the keys.                   *)

LEMMA MovesIs ==
  ASSUME call \in [CallIds -> Call \union {NoCall}], NEW i \in CallIds, call[i].at # "idle",
         NEW p \in Points \ {"idle"}, NEW c \in Codes, Moves(i, p, c)
  PROVE  /\ call' \in [CallIds -> Call \union {NoCall}]
         /\ call'[i].at = p /\ call'[i].code = c
         /\ call'[i].key = call[i].key /\ call'[i].body = call[i].body
         /\ \A j \in CallIds \ {i} : call'[j] = call[j]
  <1>1. call[i] \in Call
    BY DEF NoCall
  <1> QED
    BY <1>1 DEF Moves, Call

LEMMA LeavesIs ==
  ASSUME call \in [CallIds -> Call \union {NoCall}], NEW i \in CallIds, Leaves(i)
  PROVE  /\ call' \in [CallIds -> Call \union {NoCall}]
         /\ call'[i] = NoCall
         /\ \A j \in CallIds \ {i} : call'[j] = call[j]
  BY DEF Leaves

LEMMA MovesSync ==
  ASSUME TypeOK, NEW f \in [Keys -> Steps], CallsInv(f), LinkInv,
         NEW i \in CallIds, call[i].at # "idle",
         NEW p \in Points \ {"idle"}, NEW c \in Codes, Moves(i, p, c),
         c \in {"ok", "replay"} => <<call[i].key, call[i].body>> \in served',
         p \in {"handler", "write"} => c = "none",
         p = "persist" => Orphan(i),
         served \subseteq served', UNCHANGED <<used, thread>>
  PROVE  call' \in [CallIds -> Call \union {NoCall}] /\ CallsInv(f)' /\ LinkInv'
  <1>1. /\ call' \in [CallIds -> Call \union {NoCall}]
        /\ call'[i].at = p /\ call'[i].code = c
        /\ call'[i].key = call[i].key /\ call'[i].body = call[i].body
        /\ \A j \in CallIds \ {i} : call'[j] = call[j]
    BY MovesIs DEF TypeOK, IdemTypeOK
  <1>2. CallsInv(f)'
    BY <1>1 DEF CallsInv, Executing
  <1>3. \A t \in Threads : thread[t].call # None => thread[t].call \in CallIds
    BY DEF TypeOK, Activity
  <1>4. LinkInv'
    BY <1>1, <1>3 DEF LinkInv, Posting, InSync, Orphan
  <1> QED
    BY <1>1, <1>2, <1>4

\* An orphaned call is removed.
LEMMA LeavesSync ==
  ASSUME TypeOK, NEW f \in [Keys -> Steps], CallsInv(f), LinkInv,
         NEW i \in CallIds, Leaves(i), Orphan(i),
         served \subseteq served', UNCHANGED <<used, thread>>
  PROVE  call' \in [CallIds -> Call \union {NoCall}] /\ CallsInv(f)' /\ LinkInv'
  <1>1. /\ call' \in [CallIds -> Call \union {NoCall}]
        /\ call'[i] = NoCall
        /\ \A j \in CallIds \ {i} : call'[j] = call[j]
    BY LeavesIs DEF TypeOK, IdemTypeOK
  <1>2. CallsInv(f)'
    BY <1>1 DEF CallsInv, Executing, NoCall
  <1>3. \A t \in Threads : thread[t].call # None => thread[t].call \in CallIds
    BY DEF TypeOK, Activity
  <1>4. LinkInv'
    BY <1>1, <1>3 DEF LinkInv, Posting, InSync, Orphan
  <1> QED
    BY <1>1, <1>2, <1>4

\* The keys of the app and of the rows do not notice what else happens.
LEMMA AppKept ==
  ASSUME NEW f, AppInv(f), UNCHANGED <<queue, thread, used>>
  PROVE  AppInv(f)'
  BY DEF AppInv, Prepared, Means

LEMMA RowsKept ==
  ASSUME NEW f, RowsInv(f), UNCHANGED <<row, used>>, served \subseteq served'
  PROVE  RowsInv(f)'
  BY DEF RowsInv

LEMMA RowPut ==
  ASSUME TypeOK, NEW f, RowsInv(f), NEW k \in Keys, NEW r \in Row, row' = [row EXCEPT ![k] = r],
         served \subseteq served', used' = used,
         r.state # "none" => k \in 1..used /\ r.hash = f[k],
         r.state = "done" => <<k, StepBody(f[k])>> \in served'
  PROVE  RowsInv(f)' /\ row' \in [Keys -> Row]
  BY DEF RowsInv, TypeOK, IdemTypeOK

LEMMA VerdictIs ==
  ASSUME TypeOK, NEW f \in [Keys -> Steps], CallsInv(f), RowsInv(f),
         NEW i \in CallIds, call[i].at # "idle", row[call[i].key].state # "none"
  PROVE  /\ call[i].key \in Keys
         /\ Verdict(i, row[call[i].key]) \in {"in_progress", "replay", "none"}
         /\ Verdict(i, row[call[i].key]) = "replay" => <<call[i].key, call[i].body>> \in served
  <1>1. call[i] \in Call
    BY DEF NoCall, TypeOK, IdemTypeOK
  <1>2. call[i].key \in Keys /\ row[call[i].key] \in Row /\ row[call[i].key].hash = Hash(call[i].body)
    BY <1>1, StepsAreStatuses DEF Call, TypeOK, IdemTypeOK, CallsInv, RowsInv
  <1>3. row[call[i].key].state \in {"running", "stale", "done"}
    BY <1>2 DEF Row, RowStates
  <1>4. row[call[i].key].state = "done" => <<call[i].key, call[i].body>> \in served
    BY <1>2 DEF CallsInv, RowsInv
  <1> QED
    BY <1>2, <1>3, <1>4 DEF Verdict

-----------------------------------------------------------------------------
(* The server keeps the invariant.                                         *)

\* What a step of the server that leaves the app alone has to keep.
ServerKeeps(f) ==
  /\ call' \in [CallIds -> Call \union {NoCall}] /\ CallsInv(f)' /\ LinkInv'
  /\ row' \in [Keys -> Row] /\ RowsInv(f)'
  /\ aged' \in 0..MaxAged

LEMMA ServerKept ==
  ASSUME TypeOK, NEW f, AppInv(f), ServerKeeps(f), UNCHANGED app,
         mission' \in Statuses \union {"CANCELLED"}, ticket' \in {"none", "open", "weighed"},
         taking' \in BOOLEAN
  PROVE  TypeOK' /\ SyncInv(f)'
  <1>1. UNCHANGED <<queue, thread, used, view, syncing>>
    BY DEF app
  <1>2. TypeOK'
    BY <1>1 DEF TypeOK, IdemTypeOK, ServerKeeps
  <1>3. AppInv(f)'
    BY <1>1, AppKept
  <1> QED
    BY <1>2, <1>3 DEF SyncInv, ServerKeeps

LEMMA NoRowIsRow == NoRow \in Row /\ NoRow.state = "none"
  BY DEF NoRow, Row, RowStates

\* The await at which a call looks for the row, or at which it is answered.
LEMMA LooksSync ==
  ASSUME TypeOK, NEW f \in [Keys -> Steps], SyncInv(f), NEW i \in CallIds, Find(i) \/ Refind(i),
         UNCHANGED <<server, app>>
  PROVE  ServerKeeps(f)
  <1>1. served' = served /\ UNCHANGED <<row, aged, used, thread>> /\ call[i].at # "idle"
    BY DEF server, ghosts, app, Find, Refind
  <1> DEFINE v == Verdict(i, row[call[i].key])
  <1>2. row[call[i].key].state # "none" =>
          v \in {"in_progress", "replay", "none"}
          /\ (v = "replay" => <<call[i].key, call[i].body>> \in served)
    BY <1>1, VerdictIs DEF SyncInv
  <1> HIDE DEF v
  <1>3. \E p \in Points \ {"idle", "persist", "handler", "write"}, c \in {"none", "in_progress", "replay"} :
          /\ Moves(i, p, c)
          /\ c = "replay" => <<call[i].key, call[i].body>> \in served
    <2>1. CASE Find(i)
      <3>1. \/ Moves(i, "acquire", "none") \/ Moves(i, "replace", "none")
            \/ row[call[i].key].state # "none" /\ Moves(i, "answer", v)
        BY <2>1 DEF Find, v
      <3> QED
        BY <1>2, <2>1, <3>1 DEF Find, v, Points
    <2>2. CASE Refind(i)
      <3>1. \/ Moves(i, "answer", "in_progress") \/ Moves(i, "drop", "none")
            \/ row[call[i].key].state # "none" /\ Moves(i, "answer", v)
        BY <2>2 DEF Refind, v
      <3> QED
        BY <1>2, <2>2, <3>1 DEF Refind, v, Points
    <2> QED
      BY <2>1, <2>2
  <1>4. PICK p \in Points \ {"idle", "persist", "handler", "write"}, c \in {"none", "in_progress", "replay"} :
          /\ Moves(i, p, c)
          /\ c = "replay" => <<call[i].key, call[i].body>> \in served
    BY <1>3
  <1>5. call' \in [CallIds -> Call \union {NoCall}] /\ CallsInv(f)' /\ LinkInv'
    BY <1>1, <1>4, MovesSync DEF SyncInv, Codes, OwnCodes
  <1>6. RowsInv(f)'
    BY <1>1, RowsKept DEF SyncInv
  <1> QED
    BY <1>1, <1>5, <1>6 DEF ServerKeeps, TypeOK, IdemTypeOK

LEMMA AcquireSync ==
  ASSUME TypeOK, NEW f \in [Keys -> Steps], SyncInv(f), NEW i \in CallIds, Acquire(i),
         UNCHANGED <<server, app>>
  PROVE  ServerKeeps(f)
  <1>1. /\ served' = served /\ UNCHANGED <<aged, used, thread>> /\ call[i].at # "idle"
        /\ \E p \in {"handler", "refind"} : Moves(i, p, "none")
    BY DEF server, ghosts, app, Acquire
  <1>2. call[i] \in Call /\ call[i].key \in Keys /\ call[i].body \in Bodies
    BY <1>1 DEF TypeOK, IdemTypeOK, NoCall, Call
  <1>3. call' \in [CallIds -> Call \union {NoCall}] /\ CallsInv(f)' /\ LinkInv'
    BY <1>1, MovesSync DEF SyncInv, Codes, Points
  <1>4. RowsInv(f)' /\ row' \in [Keys -> Row]
    <2>1. CASE row' = row
      BY <1>1, <2>1, RowsKept DEF SyncInv, TypeOK, IdemTypeOK
    <2>2. CASE row' = [row EXCEPT ![call[i].key] = [state |-> "running", hash |-> Hash(call[i].body)]]
      <3> DEFINE r == [state |-> "running", hash |-> Hash(call[i].body)]
      <3>1. r \in Row /\ r.state = "running" /\ r.hash = f[call[i].key] /\ call[i].key \in 1..used
        BY <1>1, <1>2, StepsAreStatuses DEF Row, RowStates, SyncInv, CallsInv
      <3>2. row' = [row EXCEPT ![call[i].key] = r]
        BY <2>2
      <3> HIDE DEF r
      <3> QED
        BY <1>1, <1>2, <3>1, <3>2, RowPut DEF SyncInv
    <2> QED
      BY <2>1, <2>2 DEF Acquire
  <1> QED
    BY <1>1, <1>3, <1>4 DEF ServerKeeps, TypeOK, IdemTypeOK

\* Nobody of the app waits for a call at persist.
LEMMA PersistSync ==
  ASSUME TypeOK, NEW f \in [Keys -> Steps], SyncInv(f), NEW i \in CallIds,
         Persist(i) \/ PersistFails(i),
         UNCHANGED <<server, app>>
  PROVE  ServerKeeps(f)
  <1>1. /\ served' = served /\ UNCHANGED <<aged, used, thread>>
        /\ call[i].at = "persist" /\ Leaves(i)
    BY DEF server, ghosts, app, Persist, PersistFails
  <1>2. call[i] \in Call /\ call[i].key \in Keys
    BY <1>1 DEF TypeOK, IdemTypeOK, NoCall, Call
  <1>3. Orphan(i)
    BY <1>1, DriverSyncAssumption DEF SyncInv, LinkInv, Orphan
  <1>4. call' \in [CallIds -> Call \union {NoCall}] /\ CallsInv(f)' /\ LinkInv'
    BY <1>1, <1>3, LeavesSync DEF SyncInv
  <1> DEFINE k == call[i].key
             done == [state |-> "done", hash |-> row[k].hash]
  <1>5. RowsInv(f)' /\ row' \in [Keys -> Row]
    <2>1. CASE row' = row
      BY <1>1, <2>1, RowsKept DEF SyncInv, TypeOK, IdemTypeOK
    <2>2. CASE row' = [row EXCEPT ![k] = NoRow]
      BY <1>1, <1>2, <2>2, NoRowIsRow, RowPut DEF SyncInv
    <2>3. CASE call[i].code = "ok" /\ row[k].state # "none" /\ row' = [row EXCEPT ![k] = done]
      <3>1. done \in Row /\ done.state = "done" /\ done.hash = f[k] /\ call[i].body = StepBody(f[k]) /\ k \in 1..used
        BY <1>1, <1>2, <2>3 DEF Row, RowStates, SyncInv, RowsInv, CallsInv, TypeOK, IdemTypeOK
      <3>2. <<k, StepBody(f[k])>> \in served
        BY <2>3, <3>1 DEF SyncInv, CallsInv
      <3> HIDE DEF done
      <3> QED
        BY <1>1, <1>2, <2>3, <3>1, <3>2, RowPut DEF SyncInv
    <2> QED
      BY <2>1, <2>2, <2>3 DEF Persist, PersistFails
  <1> QED
    BY <1>1, <1>4, <1>5 DEF ServerKeeps, TypeOK, IdemTypeOK

LEMMA TakeOverSync ==
  ASSUME TypeOK, NEW f \in [Keys -> Steps], SyncInv(f), NEW i \in CallIds, ServerTakeOver(i)
  PROVE  ServerKeeps(f)
  <1>1. /\ served' = served /\ UNCHANGED <<aged, used, thread>> /\ call[i].at # "idle"
        /\ \E p \in {"acquire", "answer"}, c \in {"none", "in_progress"} : Moves(i, p, c)
        /\ row' = [row EXCEPT ![call[i].key] = NoRow]
    BY DEF ghosts, app, ServerTakeOver, Replace, DropStale
  <1>2. call[i] \in Call /\ call[i].key \in Keys
    BY <1>1 DEF TypeOK, IdemTypeOK, NoCall, Call
  <1>3. call' \in [CallIds -> Call \union {NoCall}] /\ CallsInv(f)' /\ LinkInv'
    BY <1>1, MovesSync DEF SyncInv, Codes, OwnCodes, Points
  <1>4. RowsInv(f)' /\ row' \in [Keys -> Row]
    BY <1>1, <1>2, NoRowIsRow, RowPut DEF SyncInv
  <1> QED
    BY <1>1, <1>3, <1>4 DEF ServerKeeps, TypeOK, IdemTypeOK

LEMMA AnswerOrphanSync ==
  ASSUME TypeOK, NEW f \in [Keys -> Steps], SyncInv(f), NEW i \in CallIds, AnswerOrphan(i)
  PROVE  ServerKeeps(f)
  <1>1. /\ served' = served /\ UNCHANGED <<row, aged, used, thread>> /\ call[i].at = "answer"
        /\ Orphan(i)
        /\ Leaves(i) \/ Moves(i, "persist", call[i].code)
    BY DEF ghosts, server, app, AnswerOrphan, Answer, Abandon
  <1>2. call[i] \in Call /\ call[i].code \in Codes
    BY <1>1 DEF TypeOK, IdemTypeOK, NoCall, Call
  <1>3. call' \in [CallIds -> Call \union {NoCall}] /\ CallsInv(f)' /\ LinkInv'
    <2>1. CASE Leaves(i)
      BY <1>1, <2>1, LeavesSync DEF SyncInv
    <2>2. CASE Moves(i, "persist", call[i].code)
      <3>1. call[i].code \in {"ok", "replay"} => <<call[i].key, call[i].body>> \in served'
        BY <1>1 DEF SyncInv, CallsInv
      <3> QED
        BY <1>1, <1>2, <2>2, <3>1, MovesSync DEF SyncInv, Points
    <2> QED
      BY <1>1, <2>1, <2>2
  <1>4. RowsInv(f)'
    BY <1>1, RowsKept DEF SyncInv
  <1> QED
    BY <1>1, <1>3, <1>4 DEF ServerKeeps, TypeOK, IdemTypeOK

\* The handler of the step.
LEMMA HandlerSync ==
  ASSUME TypeOK, NEW f \in [Keys -> Steps], SyncInv(f), NEW i \in CallIds,
         StepRead(i) \/ StepWrite(i) \/ StepFails(i)
  PROVE  /\ ServerKeeps(f) /\ UNCHANGED app /\ taking' = taking
         /\ mission' \in Statuses \union {"CANCELLED"} /\ ticket' \in {"none", "open", "weighed"}
  <1>1. /\ UNCHANGED <<row, aged, app, taking>> /\ call[i].at # "idle"
    BY DEF StepRead, StepWrite, StepFails, server, Executing
  <1>2. UNCHANGED <<used, thread>>
    BY <1>1 DEF app
  <1>3. call[i] \in Call /\ call[i].body.seen \in Statuses
    BY <1>1, StepsAreStatuses DEF TypeOK, IdemTypeOK, NoCall, Call
  <1>4. /\ served \subseteq served'
        /\ \E p \in {"write", "answer"}, c \in {"none", "refused", "ok", "failed"} :
             /\ Moves(i, p, c) /\ (p = "write" => c = "none")
             /\ (c = "ok" => <<call[i].key, call[i].body>> \in served')
    BY DEF StepRead, StepWrite, StepFails, server, ghosts, Write
  <1>5. call' \in [CallIds -> Call \union {NoCall}] /\ CallsInv(f)' /\ LinkInv'
    BY <1>1, <1>2, <1>4, MovesSync DEF SyncInv, Codes, HandlerCodes, Points
  <1>6. RowsInv(f)'
    BY <1>1, <1>2, <1>4, RowsKept DEF SyncInv
  <1>7. /\ mission' \in Statuses \union {"CANCELLED"} /\ ticket' \in {"none", "open", "weighed"}
    BY <1>3 DEF StepRead, StepWrite, StepFails, Write, TicketAfter, server, TypeOK
  <1> QED
    BY <1>1, <1>5, <1>6, <1>7 DEF ServerKeeps, TypeOK, IdemTypeOK

\* A step that touches neither calls nor the app.
LEMMA AsideSync ==
  ASSUME TypeOK, NEW f \in [Keys -> Steps], SyncInv(f), UNCHANGED <<row, call, aged, served, app>>
  PROVE  ServerKeeps(f)
  <1>1. UNCHANGED <<used, thread>>
    BY DEF app
  <1>2. RowsInv(f)'
    BY <1>1, RowsKept DEF SyncInv
  <1>3. CallsInv(f)' /\ LinkInv'
    BY <1>1 DEF SyncInv, CallsInv, Executing, LinkInv, Posting, InSync
  <1> QED
    BY <1>2, <1>3 DEF ServerKeeps, TypeOK, IdemTypeOK

LEMMA AgeSync ==
  ASSUME TypeOK, NEW f \in [Keys -> Steps], SyncInv(f), NEW k \in Keys, Age(k),
         UNCHANGED <<server, app>>
  PROVE  ServerKeeps(f)
  <1> DEFINE r == [state |-> "stale", hash |-> row[k].hash]
  <1>1. served' = served /\ UNCHANGED <<call, used, thread>> /\ row' = [row EXCEPT ![k] = r]
    BY DEF server, ghosts, app, Age
  <1>2. r \in Row /\ r.state = "stale" /\ r.hash = f[k] /\ k \in 1..used
    BY DEF Row, RowStates, SyncInv, RowsInv, TypeOK, IdemTypeOK, Age
  <1> HIDE DEF r
  <1>3. RowsInv(f)' /\ row' \in [Keys -> Row]
    BY <1>1, <1>2, RowPut DEF SyncInv
  <1>4. CallsInv(f)' /\ LinkInv'
    BY <1>1 DEF SyncInv, CallsInv, Executing, LinkInv, Posting, InSync
  <1>5. aged' \in 0..MaxAged
    BY IdempotencyAssumption DEF Age, TypeOK, IdemTypeOK
  <1> QED
    BY <1>1, <1>3, <1>4, <1>5 DEF ServerKeeps, TypeOK, IdemTypeOK

\* After a restart of the backend nobody waits any more.
LEMMA BackendRestartSync ==
  ASSUME TypeOK, NEW f \in [Keys -> Steps], SyncInv(f), BackendRestart
  PROVE  TypeOK' /\ SyncInv(f)'
  <1>1. /\ UNCHANGED <<row, aged, mission, ticket, ghosts, served, view, queue, syncing, used>>
        /\ call' = [i \in CallIds |-> NoCall] /\ taking' = FALSE
    BY DEF BackendRestart, Restart, ghosts
  <1>2. /\ thread' = [t \in Threads |-> thread'[t]]
        /\ \A t \in Threads : /\ thread'[t] \in Activity
                              /\ thread'[t].pc = thread[t].pc /\ thread'[t].todo = thread[t].todo
                              /\ thread'[t].tap = thread[t].tap /\ thread'[t].call = None
    <2>1. thread' = [t \in Threads |-> [thread[t] EXCEPT !.call = None]]
      BY DEF BackendRestart
    <2>2. ASSUME NEW a \in Activity
          PROVE  LET b == [a EXCEPT !.call = None] IN
                 b \in Activity /\ b.pc = a.pc /\ b.todo = a.todo /\ b.tap = a.tap /\ b.call = None
      BY DEF Activity
    <2>3. \A t \in Threads : thread[t] \in Activity
      BY DEF TypeOK
    <2> QED
      BY <2>1, <2>2, <2>3
  <1>3. thread' \in [Threads -> Activity]
    BY <1>2 DEF TypeOK, Activity
  <1>4. TypeOK'
    BY <1>1, <1>3 DEF TypeOK, IdemTypeOK
  <1>5. CallsInv(f)' /\ RowsInv(f)'
    BY <1>1 DEF SyncInv, CallsInv, Executing, RowsInv, NoCall
  <1>6. AppInv(f)'
    BY <1>1, <1>2 DEF SyncInv, AppInv, Prepared, Means
  <1>7. LinkInv'
    BY <1>2 DEF LinkInv
  <1> QED
    BY <1>4, <1>5, <1>6, <1>7 DEF SyncInv

-----------------------------------------------------------------------------
(* The app keeps the invariant.                                            *)

\* What a step of one activity has to keep; the call it waited for may go.
AppKeeps(t, f) ==
  /\ \E a \in Activity : SetThread(t, a) /\ Prepared(f, used', a) /\ a.call = None
  /\ queue' \in Seq(Item) /\ \A n \in 1..Len(queue') : Means(f, used', queue'[n])
  /\ view' \in Statuses \union {"CANCELLED"} /\ syncing' \in BOOLEAN
  /\ call' \in [CallIds -> Call \union {NoCall}] /\ CallsInv(f)'
  /\ \A i \in CallIds \ {thread[t].call} : call'[i] = call[i]
  /\ UNCHANGED <<row, aged, server, served>>

LEMMA AppKept1 ==
  ASSUME TypeOK, NEW t \in Threads, NEW f \in [Keys -> Steps], NEW g \in [Keys -> Steps],
         SyncInv(f), AppKeeps(t, g),
         used' \in Nat, used <= used', \A k \in 1..used : g[k] = f[k]
  PROVE  TypeOK' /\ SyncInv(g)'
  <1>1. PICK a \in Activity : SetThread(t, a) /\ Prepared(g, used', a) /\ a.call = None
    BY DEF AppKeeps
  <1>2. /\ thread' = [u \in Threads |-> thread'[u]]
        /\ thread'[t] = a /\ \A u \in Threads \ {t} : thread'[u] = thread[u]
    BY <1>1 DEF SetThread, TypeOK
  <1>3. TypeOK'
    <2>1. UNCHANGED <<row, aged, mission, ticket, taking>>
      BY DEF AppKeeps, server
    <2>2. thread' \in [Threads -> Activity]
      BY <1>2 DEF TypeOK
    <2> QED
      BY <2>1, <2>2 DEF AppKeeps, TypeOK, IdemTypeOK
  <1>4. ASSUME NEW item, Means(f, used, item) PROVE Means(g, used', item)
    BY <1>4 DEF Means, TypeOK
  <1>5. \A u \in Threads : Prepared(g, used', thread'[u])
    <2> SUFFICES ASSUME NEW u \in Threads, u # t PROVE Prepared(g, used', thread'[u])
      BY <1>1, <1>2
    <2>1. Prepared(f, used, thread[u]) /\ thread'[u] = thread[u]
      BY <1>2 DEF SyncInv, AppInv
    <2> QED
      BY <1>4, <2>1 DEF Prepared
  <1>6. AppInv(g)'
    BY <1>5 DEF AppInv, AppKeeps
  <1>7. RowsInv(g)'
    <2>1. row' = row /\ served' = served
      BY DEF AppKeeps
    <2>2. \A k \in 1..used : g[k] = f[k] /\ k \in 1..used'
      BY DEF TypeOK
    <2> QED
      BY <2>1, <2>2 DEF RowsInv, SyncInv
  <1>8. LinkInv'
    <2>1. \A u \in Threads : thread'[u].call # None =>
            u # t /\ thread'[u] = thread[u] /\ thread[u].call \in CallIds \ {thread[t].call}
      BY <1>1, <1>2 DEF SyncInv, LinkInv, TypeOK, Activity
    <2>2. \A u \in Threads : thread'[u] = thread[u] => Posting(u)' = Posting(u)
      BY DEF Posting, InSync
    <2>3. \A i \in CallIds \ {thread[t].call} : call'[i] = call[i]
      BY DEF AppKeeps
    <2> QED
      BY <2>1, <2>2, <2>3 DEF SyncInv, LinkInv
  <1> QED
    BY <1>3, <1>6, <1>7, <1>8 DEF SyncInv, AppKeeps

LEMMA CallsKept ==
  ASSUME TypeOK, NEW f \in [Keys -> Steps], NEW g \in [Keys -> Steps], CallsInv(f),
         UNCHANGED <<call, served>>, used' \in Nat, used <= used', \A k \in 1..used : g[k] = f[k]
  PROVE  CallsInv(g)'
  <1>1. \A k \in 1..used : g[k] = f[k] /\ k \in 1..used'
    BY DEF TypeOK
  <1> QED
    BY <1>1 DEF CallsInv, Executing

LEMMA AppMeans ==
  ASSUME TypeOK, NEW f, NEW g, AppInv(f), used' \in Nat, used <= used', \A k \in 1..used : g[k] = f[k]
  PROVE  /\ \A n \in 1..Len(queue) : Means(g, used', queue[n])
         /\ \A t \in Threads : Prepared(g, used', thread[t])
  <1>1. ASSUME NEW item, Means(f, used, item) PROVE Means(g, used', item)
    BY <1>1 DEF Means, TypeOK
  <1> QED
    BY <1>1 DEF AppInv, Prepared

\* A step of an activity that makes no key.
LEMMA AppSteps ==
  ASSUME TypeOK, NEW t \in Threads, NEW f \in [Keys -> Steps], SyncInv(f), used' = used, AppKeeps(t, f)
  PROVE  TypeOK' /\ SyncInv(f)'
  <1>1. used \in Nat /\ used <= used
    BY DEF TypeOK
  <1> QED
    BY <1>1, AppKept1

LEMMA AfterSyncKeeps ==
  ASSUME TypeOK, NEW t \in Threads, NEW f, AppInv(f), AfterSync(t), used' = used
  PROVE  \E a \in Activity : SetThread(t, a) /\ Prepared(f, used', a) /\ a.call = None
  <1>1. PICK a \in Activity : /\ SetThread(t, a)
                              /\ a.call = None /\ a.todo = <<>>
                              /\ \/ a.pc = "idle" /\ a.tap = NoItem
                                 \/ a.pc = "post" /\ a.tap = thread[t].tap /\ a.tap # NoItem
    BY AfterSyncIs
  <1>2. Prepared(f, used, thread[t])
    BY DEF AppInv
  <1>3. Prepared(f, used, a)
    <2>1. Len(a.todo) = 0
      BY <1>1
    <2>2. a.tap # NoItem => a.tap = thread[t].tap
      BY <1>1
    <2> QED
      BY <1>1, <1>2, <2>1, <2>2 DEF Prepared
  <1> QED
    BY <1>1, <1>3

LEMMA IdlePrepared == ASSUME NEW f, NEW made PROVE Prepared(f, made, IdleThread)
  <1>1. Len(IdleThread.todo) = 0
    BY IdleIsActivity
  <1> QED
    BY <1>1, IdleIsActivity DEF Prepared

LEMMA WaitsForNobody ==
  ASSUME TypeOK, NEW t \in Threads, NEW f, AppInv(f), thread[t].pc # "await"
  PROVE  thread[t].call = None
  BY DEF AppInv, Prepared

LEMMA TapOfflineSync ==
  ASSUME TypeOK, NEW f \in [Keys -> Steps], SyncInv(f), NEW t \in Threads, NEW step \in Steps,
         TapOffline(t, step)
  PROVE  \E g \in [Keys -> Steps] : TypeOK' /\ SyncInv(g)'
  <1> DEFINE item == [key |-> used + 1, step |-> step]
  <1>1. /\ used + 1 \in Keys /\ used' = used + 1 /\ used \in Nat
        /\ queue' = Append(queue, item) /\ thread[t].pc = "idle"
        /\ UNCHANGED <<row, call, aged, server, served, thread, syncing>>
    BY DEF TapOffline, TypeOK, idemVars, server, ghosts
  <1>g. PICK g \in [Keys -> Steps] : g[used + 1] = step /\ \A k \in 1..used : g[k] = f[k]
    <2>1. [f EXCEPT ![used + 1] = step] \in [Keys -> Steps]
      BY <1>1
    <2>2. [f EXCEPT ![used + 1] = step][used + 1] = step
      BY <1>1
    <2>3. \A k \in 1..used : [f EXCEPT ![used + 1] = step][k] = f[k]
      BY <1>1, KeysBelow
    <2> QED
      BY <2>1, <2>2, <2>3
  <1>2. item \in Item /\ used <= used'
    BY <1>1 DEF Item
  <1>3. Means(g, used', item)
    BY <1>g, <1>1, <1>2, KeysAreNats DEF Means
  <1> HIDE DEF item
  <1>4. CallsInv(g)'
    BY <1>g, <1>1, <1>2, CallsKept DEF SyncInv
  <1>5. queue' \in Seq(Item) /\ \A n \in 1..Len(queue') : Means(g, used', queue'[n])
    <2>1. \A n \in 1..Len(queue) : Means(g, used', queue[n])
      BY <1>g, <1>1, <1>2, AppMeans DEF SyncInv
    <2> QED
      BY <1>1, <1>2, <1>3, <2>1 DEF TypeOK
  <1>6. \E a \in Activity : SetThread(t, a) /\ Prepared(g, used', a) /\ a.call = None
    <2>1. SetThread(t, thread[t]) /\ thread[t] \in Activity
      BY <1>1 DEF TypeOK, SetThread
    <2> QED
      BY <1>g, <1>1, <1>2, <2>1, AppMeans, WaitsForNobody DEF SyncInv
  <1>7. view' \in Statuses \union {"CANCELLED"}
    BY StepsAreStatuses DEF TapOffline, Refreshed, TypeOK
  <1>8. AppKeeps(t, g)
    BY <1>1, <1>4, <1>5, <1>6, <1>7 DEF AppKeeps, TypeOK, IdemTypeOK
  <1> QED
    BY <1>g, <1>1, <1>2, <1>8, AppKept1

LEMMA TapOnlineSync ==
  ASSUME TypeOK, NEW f \in [Keys -> Steps], SyncInv(f), NEW t \in Threads, NEW step \in Steps,
         TapOnline(t, step)
  PROVE  \E g \in [Keys -> Steps] : TypeOK' /\ SyncInv(g)'
  <1> DEFINE item == [key |-> used + 1, step |-> step]
             pc == IF InPlace(step) /\ queue # <<>> /\ ~syncing THEN "probe" ELSE "post"
             a == [IdleThread EXCEPT !.pc = pc, !.tap = item]
  <1>1. /\ used + 2 \in Keys /\ used' = used + 2 /\ used \in Nat /\ SetThread(t, a)
        /\ UNCHANGED <<row, call, aged, server, served, queue, view, syncing>>
    BY DEF TapOnline, TypeOK, idemVars, server, ghosts
  <1>2. used + 1 \in Keys
    <2>1. used + 1 \in Nat \ {0} /\ (used + 1) + 1 = used + 2
      BY <1>1
    <2> QED
      BY <1>1, <2>1, KeysAreNats
  <1>3. PICK g \in [Keys -> Steps] :
          g[used + 1] = step /\ g[used + 2] = step /\ \A k \in 1..used : g[k] = f[k]
    <2> DEFINE h == [k \in Keys |-> IF k \in {used + 1, used + 2} THEN step ELSE f[k]]
    <2>1. h \in [Keys -> Steps] /\ h[used + 1] = step /\ h[used + 2] = step
      BY <1>1, <1>2
    <2>2. \A k \in 1..used : h[k] = f[k]
      <3>1. 1..used \subseteq Keys
        BY <1>1, <1>2, KeysBelow
      <3> QED
        BY <1>1, <3>1
    <2> QED
      BY <2>1, <2>2
  <1>u. used <= used'
    BY <1>1
  <1>4. Means(g, used', item) /\ Means(g, used', [key |-> item.key + 1, step |-> item.step])
    BY <1>1, <1>2, <1>3, KeysAreNats DEF Means, Item
  <1>5. a \in Activity /\ a.call = None /\ a.todo = <<>> /\ a.tap = item /\ item \in Item
    <2>1. item \in Item
      BY <1>2 DEF Item
    <2> HIDE DEF item
    <2>2. pc \in {"probe", "post"}
      OBVIOUS
    <2> HIDE DEF pc
    <2>3. IdleThread \in Activity /\ IdleThread.call = None /\ IdleThread.todo = <<>>
      BY IdleIsActivity
    <2> QED
      BY <2>1, <2>2, <2>3 DEF Activity
  <1> HIDE DEF item, pc, a
  <1>6. Prepared(g, used', a)
    <2>1. Len(a.todo) = 0 /\ item # NoItem
      BY <1>5, KeysAreNats DEF Item, NoItem
    <2> QED
      BY <1>4, <1>5, <2>1 DEF Prepared
  <1>7. CallsInv(g)'
    BY <1>1, <1>3, <1>u, CallsKept DEF SyncInv
  <1>8. \A n \in 1..Len(queue') : Means(g, used', queue'[n])
    BY <1>1, <1>3, <1>u, AppMeans DEF SyncInv
  <1>9. AppKeeps(t, g)
    BY <1>1, <1>5, <1>6, <1>7, <1>8 DEF AppKeeps, TypeOK, IdemTypeOK
  <1> QED
    BY <1>1, <1>3, <1>u, <1>9, AppKept1

\* A step of an activity that leaves the server and its calls alone.
LEMMA AppAlone ==
  ASSUME TypeOK, NEW f \in [Keys -> Steps], SyncInv(f), NEW t \in Threads,
         UNCHANGED <<idemVars, server, used>>,
         \E a \in Activity : SetThread(t, a) /\ Prepared(f, used', a) /\ a.call = None,
         queue' \in Seq(Item) /\ \A n \in 1..Len(queue') : Means(f, used', queue'[n]),
         view' \in Statuses \union {"CANCELLED"}, syncing' \in BOOLEAN
  PROVE  TypeOK' /\ SyncInv(f)'
  <1>1. UNCHANGED <<row, call, aged, served>> /\ used' \in Nat /\ used <= used'
    BY DEF idemVars, server, ghosts, TypeOK
  <1>2. CallsInv(f)'
    BY <1>1, CallsKept DEF SyncInv
  <1>3. call' \in [CallIds -> Call \union {NoCall}]
    BY <1>1 DEF TypeOK, IdemTypeOK
  <1>4. AppKeeps(t, f)
    BY <1>1, <1>2, <1>3 DEF AppKeeps
  <1> QED
    BY <1>4, AppSteps

LEMMA QueueMeans ==
  ASSUME TypeOK, NEW f, AppInv(f), UNCHANGED <<queue, used>>
  PROVE  queue' \in Seq(Item) /\ \A n \in 1..Len(queue') : Means(f, used', queue'[n])
  BY DEF TypeOK, AppInv

LEMMA RefreshedIs ==
  ASSUME TypeOK, NEW t, Refreshed(t)
  PROVE  view' \in Statuses \union {"CANCELLED"}
  BY DEF TypeOK, Refreshed

LEMMA SetSyncingIs ==
  ASSUME TypeOK, NEW t, NEW b \in BOOLEAN, SetSyncing(t, b)
  PROVE  syncing' \in BOOLEAN
  BY DEF TypeOK, SetSyncing

LEMMA StartSyncSync ==
  ASSUME TypeOK, NEW f \in [Keys -> Steps], SyncInv(f), NEW t \in Threads, StartSync(t)
  PROVE  TypeOK' /\ SyncInv(f)'
  <1> DEFINE a == [IdleThread EXCEPT !.pc = "probe"]
  <1>1. SetThread(t, a) /\ UNCHANGED <<idemVars, server, view, queue, syncing, used>>
    BY DEF StartSync
  <1>2. a \in Activity /\ a.pc = "probe" /\ a.call = None /\ a.todo = <<>> /\ a.tap = NoItem
    BY IdleIsActivity DEF Activity
  <1> HIDE DEF a
  <1>3. Prepared(f, used', a)
    <2>1. Len(a.todo) = 0
      BY <1>2
    <2> QED
      BY <1>2, <2>1 DEF Prepared
  <1>4. view' \in Statuses \union {"CANCELLED"} /\ syncing' \in BOOLEAN
    BY <1>1 DEF TypeOK
  <1>5. queue' \in Seq(Item) /\ \A n \in 1..Len(queue') : Means(f, used', queue'[n])
    BY <1>1, QueueMeans DEF SyncInv
  <1> QED
    BY <1>1, <1>2, <1>3, <1>4, <1>5, AppAlone

LEMMA ProbeSync ==
  ASSUME TypeOK, NEW f \in [Keys -> Steps], SyncInv(f), NEW t \in Threads, Probe(t)
  PROVE  TypeOK' /\ SyncInv(f)'
  <1>1. thread[t].pc = "probe" /\ UNCHANGED <<idemVars, server, view, queue, used>>
    BY DEF Probe
  <1>2. \E a \in Activity : SetThread(t, a) /\ Prepared(f, used', a) /\ a.call = None
    <2>1. CASE AfterSync(t)
      BY <1>1, <2>1, AfterSyncKeeps DEF SyncInv
    <2>2. CASE queue # <<>> /\ SetThread(t, [thread[t] EXCEPT !.pc = "post", !.todo = queue])
      <3> DEFINE a == [thread[t] EXCEPT !.pc = "post", !.todo = queue]
      <3>1. /\ thread[t] \in Activity /\ queue \in Seq(Item)
            /\ thread[t].call = None /\ Prepared(f, used, thread[t])
        BY <1>1, WaitsForNobody DEF TypeOK, SyncInv, AppInv
      <3>2. a \in Activity /\ a.pc = "post" /\ a.call = None /\ a.todo = queue /\ a.tap = thread[t].tap
        BY <3>1 DEF Activity
      <3>3. SetThread(t, a)
        BY <2>2
      <3> HIDE DEF a
      <3>4. Prepared(f, used, a)
        BY <2>2, <3>1, <3>2 DEF Prepared, SyncInv, AppInv
      <3> QED
        BY <1>1, <3>2, <3>3, <3>4
    <2> QED
      BY <2>1, <2>2 DEF Probe
  <1>3. view' \in Statuses \union {"CANCELLED"} /\ syncing' \in BOOLEAN
    BY <1>1 DEF TypeOK, Probe, SetSyncing
  <1>4. queue' \in Seq(Item) /\ \A n \in 1..Len(queue') : Means(f, used', queue'[n])
    BY <1>1, QueueMeans DEF SyncInv
  <1> QED
    BY <1>1, <1>2, <1>3, <1>4, AppAlone

LEMMA TimeOutSync ==
  ASSUME TypeOK, NEW f \in [Keys -> Steps], SyncInv(f), NEW t \in Threads, TimeOut(t)
  PROVE  TypeOK' /\ SyncInv(f)'
  <1> DEFINE Keep == /\ \E a \in Activity : SetThread(t, a) /\ Prepared(f, used', a) /\ a.call = None
                     /\ queue' \in Seq(Item) /\ \A n \in 1..Len(queue') : Means(f, used', queue'[n])
                     /\ view' \in Statuses \union {"CANCELLED"} /\ syncing' \in BOOLEAN
  <1>1. /\ thread[t].pc \in {"post", "await"} /\ UNCHANGED <<idemVars, server, used>>
        /\ NetworkError(t)
    BY DEF TimeOut
  <1>2. thread[t] \in Activity /\ Prepared(f, used, thread[t]) /\ used' = used
    BY <1>1 DEF TypeOK, SyncInv, AppInv
  <1>3. view \in Statuses \union {"CANCELLED"} /\ syncing \in BOOLEAN
    BY DEF TypeOK
  <1> SUFFICES Keep
    BY <1>1, AppAlone
  <1>4. CASE thread[t].tries + 1 < Bases
    <2> DEFINE a == [thread[t] EXCEPT !.pc = "post", !.call = None, !.tries = @ + 1]
    <2>1. SetThread(t, a) /\ UNCHANGED <<view, queue, syncing>>
      BY <1>1, <1>4 DEF NetworkError
    <2>2. /\ a \in Activity /\ a.pc = "post" /\ a.call = None
          /\ a.todo = thread[t].todo /\ a.tap = thread[t].tap
      <3>1. thread[t].tries + 1 \in 0..(Bases - 1)
        BY <1>2, <1>4, DriverSyncAssumption DEF Activity
      <3>2. ASSUME NEW b \in Activity, NEW n \in 0..(Bases - 1)
            PROVE  LET c == [b EXCEPT !.pc = "post", !.call = None, !.tries = n] IN
                   /\ c \in Activity /\ c.pc = "post" /\ c.call = None
                   /\ c.todo = b.todo /\ c.tap = b.tap
        BY DEF Activity
      <3> QED
        BY <1>2, <3>1, <3>2
    <2> HIDE DEF a
    <2>3. Prepared(f, used, a)
      BY <1>1, <1>2, <2>2 DEF Prepared
    <2>4. queue' \in Seq(Item) /\ \A n \in 1..Len(queue') : Means(f, used', queue'[n])
      BY <1>2, <2>1, QueueMeans DEF SyncInv
    <2> QED
      BY <1>2, <1>3, <2>1, <2>2, <2>3, <2>4
  <1>5. CASE ~(thread[t].tries + 1 < Bases) /\ InSync(t)
    <2>1. SetSyncing(t, FALSE) /\ AfterSync(t) /\ UNCHANGED <<view, queue>>
      BY <1>1, <1>5 DEF NetworkError
    <2>2. queue' \in Seq(Item) /\ \A n \in 1..Len(queue') : Means(f, used', queue'[n])
      BY <1>2, <2>1, QueueMeans DEF SyncInv
    <2> QED
      BY <1>2, <1>3, <2>1, <2>2, AfterSyncKeeps, SetSyncingIs DEF SyncInv
  <1>6. CASE ~(thread[t].tries + 1 < Bases) /\ ~InSync(t)
    <2> DEFINE step == thread[t].tap.step
               item == [key |-> thread[t].tap.key + 1, step |-> step]
    <2>1. /\ queue' = queue \/ queue' = Append(queue, item)
          /\ view' = step \/ Refreshed(t)
          /\ SetThread(t, IdleThread) /\ syncing' = syncing
      BY <1>1, <1>6 DEF NetworkError
    <2>2. thread[t].tap # NoItem
      BY <1>1, <1>2, <1>6 DEF Prepared, InSync
    <2>3. Means(f, used, item) /\ thread[t].tap \in Item
      BY <1>2, <2>2 DEF Prepared, Means
    <2>4. item \in Item /\ step \in Statuses
      BY <2>3, StepsAreStatuses DEF Means, Item
    <2> HIDE DEF item, step
    <2>5. queue' \in Seq(Item) /\ \A n \in 1..Len(queue') : Means(f, used', queue'[n])
      BY <1>2, <2>1, <2>3, <2>4 DEF SyncInv, AppInv, TypeOK
    <2>6. view' \in Statuses \union {"CANCELLED"}
      BY <2>1, <2>4, RefreshedIs
    <2> QED
      BY <1>3, <2>1, <2>5, <2>6, IdleIsActivity, IdlePrepared
  <1> QED
    BY <1>4, <1>5, <1>6

\* The answer is received; the sync or the tap that waited for it goes on.
LEMMA ReceiveSync ==
  ASSUME TypeOK, NEW f \in [Keys -> Steps], SyncInv(f), NEW t \in Threads, Receive(t)
  PROVE  TypeOK' /\ SyncInv(f)'
  <1> DEFINE i == thread[t].call
             code == call[i].code
             rest == Tail(thread[t].todo)
  <1>1. /\ i \in CallIds /\ call[i].at = "answer" /\ call[i] \in Call
        /\ Leaves(i) \/ Moves(i, "persist", code)
        /\ UNCHANGED <<row, aged, server, served, used>>
        /\ IF InSync(t) THEN SyncAnswer(t, code) ELSE TapAnswer(t, code)
    BY DEF Receive, Answer, TypeOK, Activity, IdemTypeOK, NoCall, server, ghosts
  <1>2. /\ call' \in [CallIds -> Call \union {NoCall}]
        /\ call'[i].at # "idle" => /\ call'[i].key = call[i].key /\ call'[i].body = call[i].body
                                   /\ call'[i].code = call[i].code
        /\ call'[i].at \in {"idle", "persist"}
        /\ call'[i].at = "idle" => call'[i].code = "none"
        /\ \A j \in CallIds \ {i} : call'[j] = call[j]
    <2>1. CASE Leaves(i)
      BY <1>1, <2>1, LeavesIs DEF TypeOK, IdemTypeOK, NoCall
    <2>2. CASE Moves(i, "persist", code)
      <3>1. code \in Codes
        BY <1>1 DEF Call
      <3> QED
        BY <1>1, <2>2, <3>1, MovesIs DEF TypeOK, IdemTypeOK, Points
    <2> QED
      BY <1>1, <2>1, <2>2
  <1>3. CallsInv(f)'
    BY <1>1, <1>2 DEF SyncInv, CallsInv, Executing
  <1>4. thread[t] \in Activity /\ Prepared(f, used, thread[t]) /\ view \in Statuses \union {"CANCELLED"}
    BY DEF TypeOK, SyncInv, AppInv
  <1>5. /\ queue' \in {queue, <<>>} \/ \E k : queue' = Without(k)
        /\ UNCHANGED view \/ Refreshed(t)
        /\ UNCHANGED syncing \/ SetSyncing(t, FALSE)
        /\ \/ AfterSync(t) \/ SetThread(t, IdleThread)
           \/ /\ InSync(t) /\ rest # <<>>
              /\ SetThread(t, [thread[t] EXCEPT !.pc = "post", !.todo = rest,
                                 !.tries = 0, !.call = None])
    <2>1. CASE InSync(t)
      BY <1>1, <2>1 DEF SyncAnswer
    <2>2. CASE ~InSync(t)
      BY <1>1, <2>2 DEF TapAnswer
    <2> QED
      BY <2>1, <2>2
  <1> HIDE DEF code, i
  <1>6. \E a \in Activity : SetThread(t, a) /\ Prepared(f, used', a) /\ a.call = None
    <2>1. CASE AfterSync(t)
      BY <1>1, <2>1, AfterSyncKeeps DEF SyncInv
    <2>2. CASE SetThread(t, IdleThread)
      BY <2>2, IdleIsActivity, IdlePrepared
    <2>3. CASE /\ InSync(t) /\ rest # <<>>
               /\ SetThread(t, [thread[t] EXCEPT !.pc = "post", !.todo = rest,
                                  !.tries = 0, !.call = None])
      <3>1. rest \in Seq(Item) /\ \A n \in 1..Len(rest) : Means(f, used, rest[n])
        <4>1. thread[t].todo \in Seq(Item) /\ \A n \in 1..Len(thread[t].todo) : Means(f, used, thread[t].todo[n])
          BY <1>4 DEF Prepared, Activity
        <4>2. thread[t].todo # <<>>
          BY <2>3 DEF InSync
        <4> QED
          BY <4>1, <4>2, MeantTail
      <3>2. ASSUME NEW b \in Activity, NEW q \in Seq(Item)
            PROVE  LET c == [b EXCEPT !.pc = "post", !.todo = q, !.tries = 0, !.call = None] IN
                   /\ c \in Activity /\ c.pc = "post" /\ c.call = None
                   /\ c.todo = q /\ c.tap = b.tap
        <4>1. 0 \in 0..(Bases - 1)
          BY DriverSyncAssumption
        <4> QED
          BY <4>1 DEF Activity
      <3> HIDE DEF rest
      <3> DEFINE a == [thread[t] EXCEPT !.pc = "post", !.todo = rest, !.tries = 0, !.call = None]
      <3>3. a \in Activity /\ a.pc = "post" /\ a.call = None /\ a.todo = rest /\ a.tap = thread[t].tap
        BY <1>4, <3>1, <3>2
      <3>4. SetThread(t, a)
        BY <2>3
      <3> HIDE DEF a
      <3>5. Prepared(f, used, a)
        BY <1>4, <2>3, <3>1, <3>3 DEF Prepared
      <3> QED
        BY <1>1, <3>3, <3>4, <3>5
    <2> QED
      BY <1>5, <2>1, <2>2, <2>3
  <1>7. queue' \in Seq(Item) /\ \A n \in 1..Len(queue') : Means(f, used', queue'[n])
    <2>1. queue \in Seq(Item) /\ \A n \in 1..Len(queue) : Means(f, used, queue[n])
      BY DEF TypeOK, SyncInv, AppInv
    <2>2. CASE \E k : queue' = Without(k)
      BY <1>1, <2>1, <2>2, WithoutKeeps
    <2>3. CASE queue' = queue
      BY <1>1, <2>1, <2>3
    <2>4. CASE queue' = <<>>
      <3>1. <<>> \in Seq(Item) /\ Len(<<>>) = 0
        OBVIOUS
      <3> QED
        BY <2>4, <3>1
    <2> QED
      BY <1>5, <2>2, <2>3, <2>4
  <1>8. view' \in Statuses \union {"CANCELLED"} /\ syncing' \in BOOLEAN
    BY <1>4, <1>5, RefreshedIs, SetSyncingIs DEF TypeOK
  <1>9. AppKeeps(t, f)
    BY <1>1, <1>2, <1>3, <1>6, <1>7, <1>8 DEF AppKeeps, i
  <1> QED
    BY <1>1, <1>9, AppSteps

\* What an activity posts, it has prepared.
LEMMA PostingMeans ==
  ASSUME TypeOK, NEW f, AppInv(f), NEW t \in Threads, thread[t].pc = "post"
  PROVE  Means(f, used, Posting(t))
  <1>1. thread[t] \in Activity /\ Prepared(f, used, thread[t])
    BY DEF TypeOK, AppInv
  <1>2. CASE InSync(t)
    <2>1. thread[t].todo \in Seq(Item) /\ thread[t].todo # <<>>
      BY <1>1, <1>2 DEF Activity, InSync
    <2>2. Head(thread[t].todo) = thread[t].todo[1] /\ 1 \in 1..Len(thread[t].todo)
      BY <2>1
    <2> QED
      BY <1>1, <1>2, <2>2 DEF Prepared, Posting
  <1>3. CASE ~InSync(t)
    BY <1>1, <1>3 DEF Prepared, InSync, Posting
  <1> QED
    BY <1>2, <1>3

LEMMA PostStepSync ==
  ASSUME TypeOK, NEW f \in [Keys -> Steps], SyncInv(f), NEW t \in Threads, NEW i \in CallIds,
         PostStep(t, i)
  PROVE  TypeOK' /\ SyncInv(f)'
  <1> DEFINE item == Posting(t)
             a == [thread[t] EXCEPT !.pc = "await", !.call = i]
             new == [at |-> "find", key |-> item.key, body |-> StepBody(item.step), code |-> "none"]
  <1>1. /\ thread[t].pc = "post" /\ Orphan(i) /\ call[i].at = "idle"
        /\ call' = [call EXCEPT ![i] = new]
        /\ SetThread(t, a)
        /\ UNCHANGED <<row, aged, server, served, queue, view, syncing, used>>
    BY DEF PostStep, Arrives, server, ghosts
  <1>2. thread[t] \in Activity /\ Prepared(f, used, thread[t])
    BY DEF TypeOK, SyncInv, AppInv
  <1>3. Means(f, used, item)
    BY <1>1, PostingMeans DEF SyncInv
  <1>4. /\ a \in Activity /\ a.pc = "await" /\ a.call = i
        /\ a.todo = thread[t].todo /\ a.tap = thread[t].tap
    BY <1>2 DEF Activity
  <1>5. /\ new \in Call /\ new.at = "find" /\ new.code = "none"
        /\ new.key \in 1..used /\ new.body = StepBody(f[new.key])
    BY <1>3, StepsAreStatuses DEF Means, Item, Call, Points, Codes
  <1>k. new.key = item.key /\ new.body = StepBody(item.step)
    OBVIOUS
  <1>6. /\ thread' = [u \in Threads |-> thread'[u]]
        /\ thread'[t] = a /\ \A u \in Threads \ {t} : thread'[u] = thread[u]
    BY <1>1 DEF SetThread, TypeOK
  <1> HIDE DEF a, new
  <1>7. /\ call' \in [CallIds -> Call \union {NoCall}]
        /\ call'[i] = new /\ \A j \in CallIds \ {i} : call'[j] = call[j]
    BY <1>1, <1>5 DEF TypeOK, IdemTypeOK
  <1>8. TypeOK'
    <2>1. thread' \in [Threads -> Activity]
      BY <1>4, <1>6 DEF TypeOK
    <2> QED
      BY <1>1, <1>7, <2>1 DEF TypeOK, IdemTypeOK, server
  <1>9. CallsInv(f)'
    BY <1>1, <1>5, <1>7 DEF SyncInv, CallsInv, Executing
  <1>10. RowsInv(f)'
    BY <1>1, RowsKept DEF SyncInv
  <1>11. AppInv(f)'
    <2>1. Prepared(f, used, a)
      BY <1>1, <1>2, <1>4 DEF Prepared
    <2>2. \A u \in Threads : Prepared(f, used, thread'[u])
      BY <1>6, <2>1 DEF SyncInv, AppInv
    <2> QED
      BY <1>1, <2>2 DEF SyncInv, AppInv
  <1>12. LinkInv'
    <2>1. Posting(t)' = item
      BY <1>4, <1>6 DEF Posting, InSync
    <2>2. \A u \in Threads \ {t} : Posting(u)' = Posting(u) /\ thread[u].call # i
      BY <1>1, <1>6 DEF Posting, InSync, Orphan
    <2>3. \A u \in Threads : thread[u].call # None => thread[u].call \in CallIds
      BY DEF TypeOK, Activity
    <2> HIDE DEF item
    <2> QED
      BY <1>4, <1>5, <1>k, <1>6, <1>7, <2>1, <2>2, <2>3 DEF SyncInv, LinkInv
  <1> QED
    BY <1>8, <1>9, <1>10, <1>11, <1>12 DEF SyncInv

\* The screen is refreshed, opened again, or the app is.
LEMMA ScreenSync ==
  ASSUME TypeOK, NEW f \in [Keys -> Steps], SyncInv(f), Refresh \/ Reopen \/ AppRestart
  PROVE  TypeOK' /\ SyncInv(f)'
  <1>1. /\ UNCHANGED <<row, call, aged, mission, ticket, taking, served, queue, used>>
        /\ view' = mission /\ syncing' \in BOOLEAN
    BY DEF Refresh, Reopen, AppRestart, idemVars, server, ghosts, TypeOK
  <1>2. /\ thread' = [t \in Threads |-> thread'[t]]
        /\ \A t \in Threads :
             \/ thread'[t] = IdleThread
             \/ /\ thread'[t] \in Activity
                /\ thread'[t].pc = thread[t].pc /\ thread'[t].todo = thread[t].todo
                /\ thread'[t].tap = thread[t].tap /\ thread'[t].call = thread[t].call
    <2>1. ASSUME NEW b \in Activity
          PROVE  LET c == [b EXCEPT !.left = TRUE] IN
                 c \in Activity /\ c.pc = b.pc /\ c.todo = b.todo /\ c.tap = b.tap /\ c.call = b.call
      BY DEF Activity
    <2>2. \A t \in Threads : thread[t] \in Activity
      BY DEF TypeOK
    <2>3. CASE Refresh
      BY <2>2, <2>3 DEF Refresh, TypeOK
    <2>4. CASE AppRestart
      BY <2>4 DEF AppRestart
    <2>5. CASE Reopen
      BY <2>1, <2>2, <2>5 DEF Reopen
    <2> QED
      BY <2>3, <2>4, <2>5
  <1>3. TypeOK'
    <2>1. thread' \in [Threads -> Activity]
      BY <1>2, IdleIsActivity
    <2> QED
      BY <1>1, <2>1 DEF TypeOK, IdemTypeOK
  <1>4. CallsInv(f)' /\ RowsInv(f)'
    BY <1>1 DEF SyncInv, CallsInv, Executing, RowsInv
  <1>5. AppInv(f)'
    <2>1. \A t \in Threads : Prepared(f, used, thread'[t])
      BY <1>2, IdlePrepared DEF SyncInv, AppInv, Prepared
    <2> QED
      BY <1>1, <2>1 DEF SyncInv, AppInv
  <1>6. LinkInv'
    <2>1. \A t \in Threads : thread'[t].call # None =>
            Posting(t)' = Posting(t) /\ thread'[t].call = thread[t].call
      BY <1>2, IdleIsActivity DEF Posting, InSync
    <2> QED
      BY <1>1, <2>1 DEF SyncInv, LinkInv
  <1> QED
    BY <1>3, <1>4, <1>5, <1>6 DEF SyncInv

LEMMA KeyedStep ==
  ASSUME KeyedInv, [Next]_vars
  PROVE  KeyedInv'
  <1>1. PICK f \in [Keys -> Steps] : SyncInv(f)
    BY DEF KeyedInv
  <1>t. TypeOK
    BY DEF KeyedInv
  <1> SUFFICES \E g \in [Keys -> Steps] : TypeOK' /\ SyncInv(g)'
    BY DEF KeyedInv
  <1>a. AppInv(f)
    BY <1>1 DEF SyncInv
  <1>b. /\ mission \in Statuses \union {"CANCELLED"} /\ ticket \in {"none", "open", "weighed"}
        /\ taking \in BOOLEAN
    BY <1>t DEF TypeOK
  <1>2. ASSUME NEW i \in CallIds, MiddlewareStep(i) /\ UNCHANGED <<server, app, troubles>>
        PROVE  TypeOK' /\ SyncInv(f)'
    <2>1. ServerKeeps(f)
      BY <1>1, <1>t, <1>2, LooksSync, AcquireSync, PersistSync DEF MiddlewareStep
    <2>2. UNCHANGED <<mission, ticket, taking, app>>
      BY <1>2 DEF server
    <2> QED
      BY <1>t, <1>a, <1>b, <2>1, <2>2, ServerKept
  <1>3. ASSUME NEW i \in CallIds, StepRead(i) \/ StepWrite(i) \/ StepFails(i)
        PROVE  TypeOK' /\ SyncInv(f)'
    BY <1>1, <1>t, <1>3, <1>a, <1>b, HandlerSync, ServerKept
  <1>4. ASSUME NEW i \in CallIds, ServerTakeOver(i) \/ AnswerOrphan(i)
        PROVE  TypeOK' /\ SyncInv(f)'
    <2>1. ServerKeeps(f)
      BY <1>1, <1>t, <1>4, TakeOverSync, AnswerOrphanSync
    <2>2. UNCHANGED <<mission, ticket, taking, app>>
      BY <1>4 DEF server, ServerTakeOver, AnswerOrphan
    <2> QED
      BY <1>t, <1>a, <1>b, <2>1, <2>2, ServerKept
  <1>5. ASSUME NEW k \in Keys, Age(k), UNCHANGED <<server, app>>
        PROVE  TypeOK' /\ SyncInv(f)'
    <2>1. UNCHANGED <<mission, ticket, taking, app>>
      BY <1>5 DEF server
    <2> QED
      BY <1>1, <1>t, <1>5, <1>a, <1>b, <2>1, AgeSync, ServerKept
  <1>6. CASE Weigh \/ RedispatchRead \/ RedispatchCancel
    <2>1. /\ UNCHANGED <<row, call, aged, served, app>>
          /\ mission' \in Statuses \union {"CANCELLED"} /\ ticket' \in {"none", "open", "weighed"}
          /\ taking' \in BOOLEAN
      BY <1>6, <1>b DEF Weigh, RedispatchRead, RedispatchCancel, idemVars, ghosts
    <2> QED
      BY <1>1, <1>t, <1>a, <2>1, AsideSync, ServerKept
  <1>7. CASE UNCHANGED vars
    <2>1. UNCHANGED <<row, call, aged, served, app, mission, ticket, taking>>
      BY <1>7 DEF vars, idemVars, server, ghosts
    <2> QED
      BY <1>1, <1>t, <1>a, <1>b, <2>1, AsideSync, ServerKept
  <1>8. CASE BackendRestart
    BY <1>1, <1>t, <1>8, BackendRestartSync
  <1>9. ASSUME NEW t \in Threads, NEW step \in Steps, TapOffline(t, step) \/ TapOnline(t, step)
        PROVE  \E g \in [Keys -> Steps] : TypeOK' /\ SyncInv(g)'
    BY <1>1, <1>t, <1>9, TapOfflineSync, TapOnlineSync
  <1>10. ASSUME NEW t \in Threads, StartSync(t) \/ Probe(t) \/ Receive(t) \/ TimeOut(t)
         PROVE  TypeOK' /\ SyncInv(f)'
    BY <1>1, <1>t, <1>10, StartSyncSync, ProbeSync, ReceiveSync, TimeOutSync
  <1>11. ASSUME NEW t \in Threads, NEW i \in CallIds, PostStep(t, i)
         PROVE  TypeOK' /\ SyncInv(f)'
    BY <1>1, <1>t, <1>11, PostStepSync
  <1>12. CASE Refresh \/ Reopen \/ AppRestart
    BY <1>1, <1>t, <1>12, ScreenSync
  <1> QED
    BY <1>2, <1>3, <1>4, <1>5, <1>6, <1>7, <1>8, <1>9, <1>10, <1>11, <1>12 DEF Next

LEMMA KeyedInit == Init => KeyedInv
  <1> SUFFICES ASSUME Init PROVE KeyedInv
    OBVIOUS
  <1>1. TypeOK
    <2>1. NoRow \in Row /\ <<>> \in Seq(Item)
      BY NoRowIsRow
    <2>2. row \in [Keys -> Row] /\ call \in [CallIds -> Call \union {NoCall}] /\ aged \in 0..MaxAged
      BY <2>1, IdempotencyAssumption DEF Init, IdemInit
    <2> QED
      BY <2>1, <2>2, IdleIsActivity, DriverSyncAssumption DEF Init, TypeOK, IdemTypeOK
  <1>2. PICK f : f \in [Keys -> Steps]
    <2>1. "ACCEPTED" \in Steps
      BY DEF Steps, Statuses, Follows, Chain
    <2>2. [k \in Keys |-> "ACCEPTED"] \in [Keys -> Steps]
      BY <2>1
    <2> QED
      BY <2>2
  <1>3. CallsInv(f) /\ RowsInv(f) /\ LinkInv
    BY IdleIsActivity DEF Init, IdemInit, CallsInv, Executing, RowsInv, LinkInv, NoCall, NoRow
  <1>4. AppInv(f)
    <2>1. Len(queue) = 0
      BY DEF Init
    <2> QED
      BY <2>1, IdlePrepared DEF Init, AppInv
  <1> QED
    BY <1>1, <1>2, <1>3, <1>4 DEF KeyedInv, SyncInv

\* A 2xx that reaches the app means that the very step was written, whether
\* it is answered first hand, replayed, or repeated on another base URL.
THEOREM AcksAreWritten == Spec => []AckedIsWritten
  <1>2. KeyedInv /\ [Next]_vars => KeyedInv'
    BY KeyedStep
  <1>3. KeyedInv => AckedIsWritten
    BY DEF KeyedInv, SyncInv, CallsInv, LinkInv, AckedIsWritten, TypeOK, Activity
  <1> QED
    BY KeyedInit, <1>2, <1>3, PTL DEF Spec

-----------------------------------------------------------------------------
(* The server implements IdempotentPost.                                   *)

\* A handler that fails after its effect is one of the troubles.
GhostInv ==
  /\ unclean \in [Keys -> Nat] /\ troubles \in 0..MaxTroubles
  /\ \A k \in Keys : unclean[k] <= troubles

LEMMA GhostStep ==
  ASSUME TypeOK, GhostInv, [Next]_vars
  PROVE  GhostInv'
  <1>1. ASSUME unclean' = unclean, troubles' = troubles \/ Trouble
        PROVE  GhostInv'
    BY <1>1, DriverSyncAssumption DEF GhostInv, Trouble
  <1>2. ASSUME NEW i \in CallIds, StepFails(i)
        PROVE  GhostInv'
    <2>1. call[i].key \in Keys /\ Trouble
      BY <1>2 DEF StepFails, Executing, TypeOK, IdemTypeOK, NoCall, Call
    <2>2. unclean' = unclean \/ unclean' = [unclean EXCEPT ![call[i].key] = @ + 1]
      BY <1>2 DEF StepFails
    <2> QED
      BY <2>1, <2>2, DriverSyncAssumption DEF GhostInv, Trouble
  <1>3. ASSUME NEW i \in CallIds,
               \/ MiddlewareStep(i) /\ UNCHANGED <<server, app, troubles>>
               \/ StepRead(i) \/ StepWrite(i) \/ ServerTakeOver(i) \/ AnswerOrphan(i)
        PROVE  GhostInv'
    BY <1>1, <1>3 DEF StepRead, StepWrite, ServerTakeOver, AnswerOrphan, server, ghosts
  <1>4. CASE \/ \E k \in Keys : Age(k) /\ Trouble /\ UNCHANGED <<server, app>>
             \/ Weigh \/ RedispatchRead \/ RedispatchCancel \/ BackendRestart
             \/ Refresh \/ Reopen \/ AppRestart \/ UNCHANGED vars
    BY <1>1, <1>4 DEF Weigh, RedispatchRead, RedispatchCancel, BackendRestart, Refresh, Reopen,
       AppRestart, vars, server, ghosts
  <1>5. ASSUME NEW t \in Threads,
               \/ \E step \in Steps : TapOffline(t, step) \/ TapOnline(t, step)
               \/ StartSync(t) \/ Probe(t) \/ TimeOut(t) \/ Receive(t)
               \/ \E i \in CallIds : PostStep(t, i)
        PROVE  GhostInv'
    BY <1>1, <1>5 DEF TapOffline, TapOnline, StartSync, Probe, TimeOut, Receive, PostStep, server, ghosts
  <1> QED
    BY <1>2, <1>3, <1>4, <1>5 DEF Next

LEMMA AtServerIs ==
  ASSUME call \in [CallIds -> Call \union {NoCall}]
  PROVE  /\ AtServer \in [CallIds -> Call \union {NoCall}]
         /\ \A i \in CallIds :
              /\ AtServer[i].key = call[i].key /\ AtServer[i].body = call[i].body
              /\ AtServer[i].code = call[i].code
              /\ call[i].at # "write" => AtServer[i] = call[i]
              /\ call[i].at = "write" => AtServer[i].at = "handler"
  <1>1. ASSUME NEW c \in Call \union {NoCall}
        PROVE  LET d == [c EXCEPT !.at = IF @ = "write" THEN "handler" ELSE @] IN
               /\ d \in Call \union {NoCall}
               /\ d.key = c.key /\ d.body = c.body /\ d.code = c.code
               /\ c.at # "write" => d = c
               /\ c.at = "write" => d.at = "handler"
    <2>1. CASE c = NoCall
      BY <2>1 DEF NoCall
    <2>2. CASE c \in Call
      BY <2>2 DEF Call, Points
    <2> QED
      BY <2>1, <2>2
  <1> QED
    BY <1>1 DEF AtServer

\* The call of one slot changes; for the server too.
LEMMA AtServerPut ==
  ASSUME call \in [CallIds -> Call \union {NoCall}], call' \in [CallIds -> Call \union {NoCall}],
         NEW i \in CallIds, \A j \in CallIds \ {i} : call'[j] = call[j]
  PROVE  AtServer' = [AtServer EXCEPT ![i] = AtServer'[i]]
  BY DEF AtServer

LEMMA ServerMoves ==
  ASSUME TypeOK, NEW i \in CallIds, call[i].at # "idle",
         NEW p \in Points \ {"idle"}, NEW c \in Codes, Moves(i, p, c), p # "write"
  PROVE  Server!Moves(i, p, c)
  <1>1. /\ call' \in [CallIds -> Call \union {NoCall}] /\ call \in [CallIds -> Call \union {NoCall}]
        /\ call'[i].at = p /\ call'[i].code = c
        /\ call'[i].key = call[i].key /\ call'[i].body = call[i].body
        /\ \A j \in CallIds \ {i} : call'[j] = call[j]
    BY MovesIs DEF TypeOK, IdemTypeOK
  <1>2. AtServer' = [AtServer EXCEPT ![i] = AtServer'[i]]
    BY <1>1, AtServerPut
  <1>3. call'[i] = [at |-> p, key |-> call[i].key, body |-> call[i].body, code |-> c]
    BY <1>1 DEF Moves
  <1>4. AtServer'[i] = call'[i]
    BY <1>1, <1>3 DEF AtServer
  <1>5. AtServer[i].key = call[i].key /\ AtServer[i].body = call[i].body
    BY <1>1, AtServerIs
  <1> QED
    BY <1>2, <1>3, <1>4, <1>5 DEF Server!Moves

LEMMA ServerLeaves ==
  ASSUME TypeOK, NEW i \in CallIds, Leaves(i)
  PROVE  Server!Leaves(i)
  <1>1. /\ call' \in [CallIds -> Call \union {NoCall}] /\ call \in [CallIds -> Call \union {NoCall}]
        /\ call'[i] = NoCall /\ \A j \in CallIds \ {i} : call'[j] = call[j]
    BY LeavesIs DEF TypeOK, IdemTypeOK
  <1>2. AtServer' = [AtServer EXCEPT ![i] = AtServer'[i]]
    BY <1>1, AtServerPut
  <1>3. AtServer'[i] = NoCall
    BY <1>1 DEF AtServer, NoCall
  <1> QED
    BY <1>2, <1>3 DEF Server!Leaves, Server!NoCall, NoCall

\* A call of the server that is not at its write is the same in both.
LEMMA SameCall ==
  ASSUME TypeOK, NEW i \in CallIds, call[i].at # "write"
  PROVE  AtServer[i] = call[i]
  BY AtServerIs DEF TypeOK, IdemTypeOK

LEMMA SameVerdict ==
  ASSUME TypeOK, NEW i \in CallIds, NEW r \in Row, r.state # "none"
  PROVE  /\ Server!Verdict(i, r) = Verdict(i, r)
         /\ Verdict(i, r) \in {"mismatch", "in_progress", "replay", "none"}
  <1>1. Server!Hash(AtServer[i].body) = Hash(call[i].body)
    BY AtServerIs DEF TypeOK, IdemTypeOK, Hash, Server!Hash
  <1>2. r.state \in {"running", "stale", "done"}
    BY DEF Row, RowStates
  <1> QED
    BY <1>1, <1>2 DEF Verdict, Server!Verdict

LEMMA FindSim ==
  ASSUME TypeOK, NEW i \in CallIds, Find(i)
  PROVE  Server!Find(i)
  <1>1. call[i].at = "find" /\ AtServer[i] = call[i] /\ UNCHANGED <<row, aged>>
    BY SameCall DEF Find
  <1>2. call[i].key \in Keys
    BY <1>1 DEF TypeOK, IdemTypeOK, NoCall, Call
  <1> DEFINE r == row[call[i].key]
  <1>3. r \in Row
    BY <1>2 DEF TypeOK, IdemTypeOK
  <1>4. CASE r.state = "none"
    <2>1. Moves(i, "acquire", "none")
      BY <1>4 DEF Find
    <2>2. Server!Moves(i, "acquire", "none")
      BY <1>1, <2>1, ServerMoves DEF Points, Codes
    <2> QED
      BY <1>1, <1>4, <2>2 DEF Server!Find
  <1>5. CASE r.state # "none" /\ Verdict(i, r) = "none"
    <2>1. Moves(i, "replace", "none")
      BY <1>5 DEF Find
    <2>2. Server!Moves(i, "replace", "none")
      BY <1>1, <2>1, ServerMoves DEF Points, Codes
    <2> QED
      BY <1>1, <1>3, <1>5, <2>2, SameVerdict DEF Server!Find
  <1>6. CASE r.state # "none" /\ Verdict(i, r) # "none"
    <2>1. Moves(i, "answer", Verdict(i, r)) /\ Verdict(i, r) \in Codes
      BY <1>3, <1>6, SameVerdict DEF Find, Codes, OwnCodes
    <2>2. Server!Moves(i, "answer", Verdict(i, r))
      BY <1>1, <2>1, ServerMoves DEF Points
    <2> QED
      BY <1>1, <1>3, <1>6, <2>2, SameVerdict DEF Server!Find
  <1> QED
    BY <1>4, <1>5, <1>6

LEMMA RefindSim ==
  ASSUME TypeOK, NEW i \in CallIds, Refind(i)
  PROVE  Server!Refind(i)
  <1>1. call[i].at = "refind" /\ AtServer[i] = call[i] /\ UNCHANGED <<row, aged>>
    BY SameCall DEF Refind
  <1>2. call[i].key \in Keys
    BY <1>1 DEF TypeOK, IdemTypeOK, NoCall, Call
  <1> DEFINE r == row[call[i].key]
  <1>3. r \in Row
    BY <1>2 DEF TypeOK, IdemTypeOK
  <1>4. CASE r.state = "none"
    <2>1. Moves(i, "answer", "in_progress")
      BY <1>4 DEF Refind
    <2>2. Server!Moves(i, "answer", "in_progress")
      BY <1>1, <2>1, ServerMoves DEF Points, Codes, OwnCodes
    <2> QED
      BY <1>1, <1>4, <2>2 DEF Server!Refind
  <1>5. CASE r.state # "none" /\ Verdict(i, r) = "none"
    <2>1. Moves(i, "drop", "none")
      BY <1>5 DEF Refind
    <2>2. Server!Moves(i, "drop", "none")
      BY <1>1, <2>1, ServerMoves DEF Points, Codes
    <2> QED
      BY <1>1, <1>3, <1>5, <2>2, SameVerdict DEF Server!Refind
  <1>6. CASE r.state # "none" /\ Verdict(i, r) # "none"
    <2>1. Moves(i, "answer", Verdict(i, r)) /\ Verdict(i, r) \in Codes
      BY <1>3, <1>6, SameVerdict DEF Refind, Codes, OwnCodes
    <2>2. Server!Moves(i, "answer", Verdict(i, r))
      BY <1>1, <2>1, ServerMoves DEF Points
    <2> QED
      BY <1>1, <1>3, <1>6, <2>2, SameVerdict DEF Server!Refind
  <1> QED
    BY <1>4, <1>5, <1>6

LEMMA AcquireSim ==
  ASSUME TypeOK, NEW i \in CallIds, Acquire(i)
  PROVE  Server!Acquire(i)
  <1>1. call[i].at = "acquire" /\ AtServer[i] = call[i]
    BY SameCall DEF Acquire
  <1>2. Moves(i, "handler", "none") => Server!Moves(i, "handler", "none")
    BY <1>1, ServerMoves DEF Points, Codes
  <1>3. Moves(i, "refind", "none") => Server!Moves(i, "refind", "none")
    BY <1>1, ServerMoves DEF Points, Codes
  <1> QED
    BY <1>1, <1>2, <1>3 DEF Acquire, Server!Acquire, Hash, Server!Hash

LEMMA PersistSim ==
  ASSUME TypeOK, NEW i \in CallIds, Persist(i) \/ PersistFails(i)
  PROVE  Server!Persist(i) \/ Server!PersistFails(i)
  <1>1. call[i].at = "persist" /\ AtServer[i] = call[i] /\ Server!Leaves(i)
    BY SameCall, ServerLeaves DEF Persist, PersistFails
  <1> QED
    BY <1>1 DEF Persist, PersistFails, Server!Persist, Server!PersistFails, NoRow, Server!NoRow

LEMMA TakeOverSim ==
  ASSUME TypeOK, NEW i \in CallIds, ServerTakeOver(i)
  PROVE  Server!TakeOver(i)
  <1>1. CASE Replace(i)
    <2>1. AtServer[i] = call[i] /\ call[i].at = "replace"
      BY <1>1, SameCall DEF Replace
    <2>2. Server!Moves(i, "acquire", "none")
      BY <1>1, <2>1, ServerMoves DEF Replace, Points, Codes
    <2>3. Server!Replace(i)
      BY <1>1, <2>1, <2>2 DEF Replace, Server!Replace, NoRow, Server!NoRow
    <2> QED
      BY <2>1, <2>3 DEF ServerTakeOver, Server!TakeOver
  <1>2. CASE DropStale(i)
    <2>1. AtServer[i] = call[i] /\ call[i].at = "drop"
      BY <1>2, SameCall DEF DropStale
    <2>2. Server!Moves(i, "answer", "in_progress")
      BY <1>2, <2>1, ServerMoves DEF DropStale, Points, Codes, OwnCodes
    <2>3. Server!DropStale(i)
      BY <1>2, <2>1, <2>2 DEF DropStale, Server!DropStale, NoRow, Server!NoRow
    <2> QED
      BY <2>1, <2>3 DEF ServerTakeOver, Server!TakeOver
  <1> QED
    BY <1>1, <1>2 DEF ServerTakeOver

LEMMA AnswerSim ==
  ASSUME TypeOK, NEW i \in CallIds, Answer(i) \/ Abandon(i)
  PROVE  Server!Answer(i) \/ Server!Abandon(i)
  <1>1. call[i].at = "answer" /\ AtServer[i] = call[i] /\ UNCHANGED <<row, aged>>
    BY SameCall DEF Answer, Abandon
  <1>2. call[i].code \in Codes
    BY <1>1 DEF TypeOK, IdemTypeOK, NoCall, Call
  <1>3. Owner(i) <=> Server!Owner(i)
    BY <1>1 DEF Owner, Server!Owner, Executing, Server!Executing, HandlerCodes, Server!HandlerCodes
  <1>4. Leaves(i) => Server!Leaves(i)
    BY ServerLeaves
  <1>5. Moves(i, "persist", call[i].code) => Server!Moves(i, "persist", AtServer[i].code)
    BY <1>1, <1>2, ServerMoves DEF Points
  <1> QED
    BY <1>1, <1>3, <1>4, <1>5 DEF Answer, Abandon, Server!Answer, Server!Abandon

LEMMA RestartSim ==
  ASSUME TypeOK, Restart
  PROVE  Server!Restart
  <1>1. PICK i \in CallIds : call[i].at # "idle"
    BY DEF Restart
  <1>2. AtServer[i].at # "idle"
    BY <1>1, AtServerIs DEF TypeOK, IdemTypeOK
  <1>3. AtServer' = [j \in CallIds |-> NoCall]
    BY DEF Restart, AtServer, NoCall
  <1> QED
    BY <1>2, <1>3 DEF Restart, Server!Restart, NoCall, Server!NoCall

\* A look at the mission refuses, or is nothing yet for the server.
LEMMA ReadSim ==
  ASSUME TypeOK, NEW f, CallsInv(f), NEW i \in CallIds, StepRead(i)
  PROVE  Server!Refuse(i) \/ UNCHANGED Server!vars
  <1>1. call[i].at = "handler" /\ AtServer[i] = call[i] /\ UNCHANGED <<row, aged, ghosts>>
    BY SameCall DEF StepRead, server
  <1>2. CASE Moves(i, "answer", "refused")
    <2>1. Server!Moves(i, "answer", "refused")
      BY <1>1, <1>2, ServerMoves DEF Points, Codes, HandlerCodes
    <2> QED
      BY <1>1, <2>1 DEF Server!Refuse, Server!ghosts, ghosts
  <1>3. CASE Moves(i, "write", "none")
    <2>1. /\ call' \in [CallIds -> Call \union {NoCall}] /\ call \in [CallIds -> Call \union {NoCall}]
          /\ \A j \in CallIds \ {i} : call'[j] = call[j]
      BY <1>1, <1>3, MovesIs DEF TypeOK, IdemTypeOK, Points, Codes
    <2>2. AtServer'[i] = AtServer[i]
      <3>1. call[i].code = "none" /\ call[i] \in Call
        <4>1. call[i] \in Call \union {NoCall} /\ Executing(i)
          BY <1>1 DEF Executing, TypeOK, IdemTypeOK
        <4>2. call[i] # NoCall
          BY <1>1 DEF NoCall
        <4> QED
          BY <4>1, <4>2 DEF CallsInv
      <3>2. call'[i] = [at |-> "write", key |-> call[i].key, body |-> call[i].body, code |-> "none"]
        BY <1>3 DEF Moves, TypeOK, IdemTypeOK
      <3>3. AtServer'[i] = [at |-> "handler", key |-> call[i].key, body |-> call[i].body, code |-> "none"]
        BY <3>2 DEF AtServer
      <3>4. call[i] = [at |-> "handler", key |-> call[i].key, body |-> call[i].body, code |-> "none"]
        BY <1>1, <3>1 DEF Call
      <3> QED
        BY <1>1, <3>3, <3>4
    <2>3. AtServer' = AtServer
      BY <2>1, <2>2, AtServerPut DEF AtServer
    <2> QED
      BY <1>1, <2>3 DEF Server!vars, Server!idemVars, Server!ghosts, ghosts
  <1> QED
    BY <1>2, <1>3 DEF StepRead

LEMMA WriteSim ==
  ASSUME TypeOK, NEW i \in CallIds, StepWrite(i)
  PROVE  Server!Succeed(i)
  <1>1. call[i].at = "write" /\ UNCHANGED <<row, aged, takeovers, unclean>>
    BY DEF StepWrite
  <1>2. AtServer[i].at = "handler" /\ AtServer[i].key = call[i].key /\ AtServer[i].body = call[i].body
    BY <1>1, AtServerIs DEF TypeOK, IdemTypeOK
  <1>3. Server!Moves(i, "answer", "ok")
    BY <1>1, ServerMoves DEF StepWrite, Points, Codes, HandlerCodes
  <1>4. Server!Effect(i)
    BY <1>2 DEF StepWrite, Write, Server!Effect
  <1> QED
    BY <1>1, <1>2, <1>3, <1>4 DEF Server!Succeed

\* A failure after the write is paid for by a trouble.
LEMMA FailsSim ==
  ASSUME TypeOK, GhostInv, NEW i \in CallIds, StepFails(i)
  PROVE  Server!Refuse(i) \/ Server!FailAfterEffect(i)
  <1>1. Executing(i) /\ UNCHANGED <<row, aged, takeovers>> /\ Trouble
    BY DEF StepFails
  <1>2. /\ AtServer[i].at = "handler" /\ AtServer[i].key = call[i].key /\ AtServer[i].body = call[i].body
        /\ call[i].key \in Keys
    BY <1>1, AtServerIs DEF Executing, TypeOK, IdemTypeOK, NoCall, Call
  <1>3. Server!Moves(i, "answer", "failed")
    BY <1>1, ServerMoves DEF StepFails, Executing, Points, Codes, HandlerCodes
  <1>4. CASE UNCHANGED <<effects, served, unclean>>
    BY <1>1, <1>2, <1>3, <1>4 DEF Server!Refuse, Server!ghosts
  <1>5. CASE Write(i) /\ unclean' = [unclean EXCEPT ![call[i].key] = @ + 1]
    <2>1. Server!Effect(i)
      BY <1>2, <1>5 DEF Write, Server!Effect
    <2>2. unclean[call[i].key] < MaxTroubles
      BY <1>1, <1>2, DriverSyncAssumption DEF GhostInv, Trouble
    <2> QED
      BY <1>1, <1>2, <1>3, <1>5, <2>1, <2>2 DEF Server!FailAfterEffect
  <1> QED
    BY <1>4, <1>5 DEF StepFails

LEMMA PostSim ==
  ASSUME TypeOK, NEW f, AppInv(f), NEW t \in Threads, NEW i \in CallIds, PostStep(t, i)
  PROVE  \E k \in Keys, b \in Bodies : Server!Post(i, k, b)
  <1> DEFINE new == [at |-> "find", key |-> Posting(t).key, body |-> StepBody(Posting(t).step), code |-> "none"]
  <1>1. Posting(t) \in Item
    BY PostingMeans DEF Means, PostStep
  <1>2. Posting(t).key \in Keys /\ StepBody(Posting(t).step) \in Bodies
    BY <1>1, StepsAreStatuses DEF Item
  <1>3. /\ call[i].at = "idle" /\ call' = [call EXCEPT ![i] = new]
        /\ UNCHANGED <<row, aged, effects, served, takeovers, unclean>>
    BY DEF PostStep, Arrives, server, ghosts
  <1>4. new \in Call /\ new.at = "find"
    BY <1>2 DEF Call, Points, Codes
  <1>5. /\ call' \in [CallIds -> Call \union {NoCall}] /\ call \in [CallIds -> Call \union {NoCall}]
        /\ call'[i] = new /\ \A j \in CallIds \ {i} : call'[j] = call[j]
    BY <1>3, <1>4 DEF TypeOK, IdemTypeOK
  <1>6. AtServer'[i] = new
    BY <1>4, <1>5, AtServerIs DEF AtServer
  <1>7. AtServer' = [AtServer EXCEPT ![i] = new]
    BY <1>5, <1>6, AtServerPut
  <1>8. AtServer[i].at = "idle"
    BY <1>3, <1>5, AtServerIs
  <1>9. Server!Post(i, Posting(t).key, StepBody(Posting(t).step))
    BY <1>3, <1>7, <1>8 DEF Server!Post, Server!Arrives, Server!ghosts
  <1> QED
    BY <1>2, <1>9

LEMMA StepSim ==
  ASSUME KeyedInv, GhostInv, [Next]_vars
  PROVE  [Server!Next]_(Server!vars)
  <1>1. PICK f \in [Keys -> Steps] : SyncInv(f)
    BY DEF KeyedInv
  <1>t. TypeOK /\ CallsInv(f) /\ AppInv(f)
    BY <1>1 DEF KeyedInv, SyncInv
  <1>2. ASSUME UNCHANGED <<row, call, aged, ghosts>>
        PROVE  UNCHANGED Server!vars
    BY <1>2 DEF Server!vars, Server!idemVars, Server!ghosts, ghosts, AtServer
  <1>3. ASSUME UNCHANGED server
        PROVE  UNCHANGED Server!ghosts
    BY <1>3 DEF server, ghosts, Server!ghosts
  <1>4. ASSUME NEW i \in CallIds, MiddlewareStep(i) /\ UNCHANGED <<server, app, troubles>>
        PROVE  Server!Next
    <2>1. Server!MiddlewareStep(i)
      BY <1>t, <1>4, FindSim, AcquireSim, RefindSim, PersistSim DEF MiddlewareStep, Server!MiddlewareStep
    <2> QED
      BY <1>3, <1>4, <2>1 DEF Server!Next
  <1>5. ASSUME NEW i \in CallIds, StepRead(i)
        PROVE  Server!Next \/ UNCHANGED Server!vars
    BY <1>t, <1>5, ReadSim DEF Server!Next
  <1>6. ASSUME NEW i \in CallIds, StepWrite(i) \/ StepFails(i) \/ ServerTakeOver(i)
        PROVE  Server!Next
    BY <1>t, <1>6, WriteSim, FailsSim, TakeOverSim DEF Server!Next
  <1>7. ASSUME NEW i \in CallIds, AnswerOrphan(i)
        PROVE  Server!Next
    <2>1. (Server!Answer(i) \/ Server!Abandon(i)) /\ UNCHANGED server
      BY <1>t, <1>7, AnswerSim DEF AnswerOrphan
    <2> QED
      BY <1>3, <2>1 DEF Server!Next
  <1>8. ASSUME NEW k \in Keys, Age(k), UNCHANGED <<server, app>>
        PROVE  Server!Next
    <2>1. Server!Age(k)
      BY <1>8 DEF Age, Server!Age, AtServer
    <2> QED
      BY <1>3, <1>8, <2>1 DEF Server!Next
  <1>9. CASE Weigh \/ RedispatchRead \/ RedispatchCancel \/ Refresh \/ Reopen \/ AppRestart \/ UNCHANGED vars
    <2>1. UNCHANGED <<row, call, aged, ghosts>>
      BY <1>9 DEF Weigh, RedispatchRead, RedispatchCancel, Refresh, Reopen, AppRestart,
         vars, idemVars, server
    <2> QED
      BY <1>2, <2>1
  <1>10. CASE BackendRestart
    <2>1. Server!Restart /\ UNCHANGED Server!ghosts
      BY <1>t, <1>10, RestartSim DEF BackendRestart, ghosts, Server!ghosts
    <2> QED
      BY <2>1 DEF Server!Next
  <1>11. ASSUME NEW t \in Threads,
                \/ \E step \in Steps : TapOffline(t, step) \/ TapOnline(t, step)
                \/ StartSync(t) \/ Probe(t) \/ TimeOut(t)
         PROVE  UNCHANGED Server!vars
    <2>1. UNCHANGED <<row, call, aged, ghosts>>
      BY <1>11 DEF TapOffline, TapOnline, StartSync, Probe, TimeOut, idemVars, server
    <2> QED
      BY <1>2, <2>1
  <1>12. ASSUME NEW t \in Threads, NEW i \in CallIds, PostStep(t, i)
         PROVE  Server!Next
    BY <1>t, <1>12, PostSim DEF Server!Next, Bodies, Server!Bodies
  <1>13. ASSUME NEW t \in Threads, Receive(t)
         PROVE  Server!Next
    <2>1. thread[t].call \in CallIds /\ Answer(thread[t].call) /\ UNCHANGED server
      BY <1>t, <1>13 DEF Receive, TypeOK, Activity
    <2>2. Server!Answer(thread[t].call) \/ Server!Abandon(thread[t].call)
      BY <1>t, <2>1, AnswerSim
    <2> QED
      BY <1>3, <2>1, <2>2 DEF Server!Next
  <1> QED
    BY <1>4, <1>5, <1>6, <1>7, <1>8, <1>9, <1>10, <1>11, <1>12, <1>13 DEF Next

\* The server of the steps keeps every promise of IdempotentPost.
THEOREM StepsAreIdempotent == Spec => ImplementsIdempotentPost
  <1>1. Init => KeyedInv /\ GhostInv /\ Server!Init
    <2> SUFFICES ASSUME Init PROVE GhostInv /\ Server!Init
      BY KeyedInit
    <2>1. GhostInv
      BY DriverSyncAssumption DEF Init, GhostInv
    <2>2. AtServer = [i \in CallIds |-> NoCall]
      BY DEF Init, IdemInit, AtServer, NoCall
    <2> QED
      BY <2>1, <2>2 DEF Init, IdemInit, Server!Init, Server!IdemInit, NoRow, Server!NoRow, NoCall, Server!NoCall
  <1>2. KeyedInv /\ GhostInv /\ [Next]_vars => KeyedInv' /\ GhostInv'
    BY KeyedStep, GhostStep DEF KeyedInv
  <1>3. KeyedInv /\ GhostInv /\ [Next]_vars => [Server!Next]_(Server!vars)
    BY StepSim
  <1> QED
    BY <1>1, <1>2, <1>3, PTL DEF Spec, ImplementsIdempotentPost, Server!Spec

================================================================================
