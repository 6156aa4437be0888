------------------------ MODULE IdempotentPostProofs ------------------------
(***************************************************************************)
(* Proofs of the properties of IdempotentPost, for any number of calls,    *)
(* keys and bodies and with no bound on rows that become stale, handlers   *)
(* that fail after their effect, and restarts.                             *)
(***************************************************************************)
EXTENDS IdempotentPost, FiniteSetTheorems, TLAPS

Constants == IdempotencyAssumption /\ PostAssumption

\* Only an owner, answered by its handler, reaches persist.
PersistCode ==
  \A i \in CallIds : call[i].at = "persist" => call[i].code \in HandlerCodes

Basic == TypeOK /\ PersistCode

\* What the server does next for a call it has received.
WorkStep(i) ==
  \/ MiddlewareStep(i) /\ UNCHANGED ghosts
  \/ Answer(i) /\ UNCHANGED ghosts
  \/ Abandon(i) /\ UNCHANGED ghosts
  \/ Succeed(i)
  \/ Refuse(i)
  \/ FailAfterEffect(i)
  \/ TakeOver(i)

\* Every step is an arrival, work on one call, the passing of time, or a
\* restart.
LEMMA StepShape ==
  ASSUME [Next]_vars
  PROVE \/ \E i \in CallIds, k \in Keys, b \in Bodies : Post(i, k, b)
        \/ \E i \in CallIds : WorkStep(i)
        \/ \E k \in Keys : Age(k) /\ UNCHANGED ghosts
        \/ Restart /\ UNCHANGED ghosts
        \/ UNCHANGED vars
  BY Zenon DEF Next, WorkStep

\* The type invariant and the codes of calls at persist hold initially.
LEMMA InitBasic == Init => Basic
  BY IdempotencyAssumption
  DEF Init, IdemInit, Basic, TypeOK, IdemTypeOK, PersistCode, Row, NoRow,
      RowStates, NoCall, IdempotencyAssumption

\* Work is done for a call that was received, not for a free slot.
LEMMA WorkActive ==
  ASSUME TypeOK, NEW i \in CallIds, WorkStep(i)
  PROVE call[i] \in Call /\ call[i].key \in Keys /\ call[i].body \in Bodies
<1>1. call[i].at # "idle"
  BY DEF WorkStep, MiddlewareStep, Find, Acquire, Refind, Persist, PersistFails,
         Answer, Abandon, Succeed, Refuse, FailAfterEffect, TakeOver, Replace,
         DropStale
<1>2. call[i] \in Call \union {NoCall}
  BY DEF TypeOK, IdemTypeOK
<1> QED
  BY <1>1, <1>2 DEF NoCall, Call

\* Moves keeps the type of calls.
LEMMA MovesType ==
  ASSUME call \in [CallIds -> Call \union {NoCall}], NEW i \in CallIds,
         call[i] \in Call, NEW p \in Points \ {"idle"}, NEW c \in Codes,
         Moves(i, p, c)
  PROVE call' \in [CallIds -> Call \union {NoCall}]
  BY DEF Moves, Call

\* So does Leaves, by which a slot becomes free.
LEMMA LeavesType ==
  ASSUME call \in [CallIds -> Call \union {NoCall}], NEW i \in CallIds,
         Leaves(i)
  PROVE /\ call' \in [CallIds -> Call \union {NoCall}]
        /\ call'[i] = NoCall
        /\ \A j \in CallIds : j # i => call'[j] = call[j]
  BY DEF Leaves

\* The verdict on a row that exists is a code, and never the handler's.
LEMMA VerdictCode ==
  ASSUME NEW i \in CallIds, NEW r \in Row, r.state # "none"
  PROVE Verdict(i, r) \in OwnCodes \union {"none"}
  BY DEF Verdict, OwnCodes, Row, RowStates

\* The type invariant and the codes of calls at persist are preserved.
LEMMA NextBasic == Basic /\ [Next]_vars => Basic'
<1> SUFFICES ASSUME Basic, [Next]_vars PROVE Basic'
  OBVIOUS
<1> USE DEF Basic, TypeOK
<1>t. /\ row \in [Keys -> Row]
      /\ call \in [CallIds -> Call \union {NoCall}]
      /\ aged \in 0..MaxAged
      /\ MaxAged \in Nat
  BY IdempotencyAssumption DEF IdemTypeOK, IdempotencyAssumption
<1>n. NoRow \in Row
  BY DEF NoRow, Row, RowStates
<1>p. /\ "none" \in Codes /\ "in_progress" \in Codes
      /\ HandlerCodes \subseteq Codes /\ OwnCodes \subseteq Codes
  BY DEF Codes, HandlerCodes, OwnCodes
<1>0. ASSUME NEW i \in CallIds, NEW k \in Keys, NEW b \in Bodies, Post(i, k, b)
      PROVE Basic'
  BY <1>0, <1>t, <1>p
  DEF Post, Arrives, ghosts, IdemTypeOK, Call, Points, PersistCode
<1>1. ASSUME NEW i \in CallIds, WorkStep(i) PROVE Basic'
  <2>k. call[i] \in Call /\ call[i].key \in Keys /\ call[i].body \in Bodies
    BY <1>1, WorkActive
  <2>g. CASE UNCHANGED ghosts
    <3>g. /\ effects' = effects /\ served' = served
          /\ takeovers' = takeovers /\ unclean' = unclean
      BY <2>g DEF ghosts
    <3>2. CASE Find(i)
      <4>1. row[call[i].key] \in Row
        BY <1>t, <2>k
      <4>2. CASE row[call[i].key].state = "none"
        BY <4>2, <3>2, <3>g, <2>k, <1>t, <1>p, MovesType
        DEF Find, IdemTypeOK, Moves, Points, PersistCode
      <4>3. CASE row[call[i].key].state # "none"
        <5> DEFINE v == Verdict(i, row[call[i].key])
        <5>1. v \in OwnCodes \union {"none"}
          BY <4>1, <4>3, VerdictCode
        <5>2. CASE v = "none"
          BY <5>2, <4>3, <3>2, <3>g, <2>k, <1>t, <1>p, MovesType
          DEF Find, IdemTypeOK, Moves, Points, PersistCode
        <5>3. CASE v # "none"
          <6>1. v \in Codes /\ Moves(i, "answer", v) /\ UNCHANGED <<row, aged>>
            BY <5>1, <5>3, <4>3, <3>2, <1>p DEF Find
          <6> HIDE DEF v
          <6>2. call' \in [CallIds -> Call \union {NoCall}]
            BY <6>1, <2>k, <1>t, MovesType DEF Points
          <6> QED
            BY <6>1, <6>2, <3>g, <1>t DEF IdemTypeOK, Moves, PersistCode
        <5> QED
          BY <5>2, <5>3
      <4> QED
        BY <4>2, <4>3
    <3>3. CASE Acquire(i)
      <4>h. Hash(call[i].body) \in Seen
        BY <2>k DEF Hash, Bodies
      <4>1. row' \in [Keys -> Row]
        BY <4>h, <3>3, <1>t, <2>k DEF Acquire, Row, RowStates
      <4>2. call' \in [CallIds -> Call \union {NoCall}]
        BY <3>3, <2>k, <1>t, <1>p, MovesType DEF Acquire, Points
      <4> QED
        BY <4>1, <4>2, <3>3, <3>g, <1>t
        DEF Acquire, Moves, IdemTypeOK, PersistCode
    <3>4. CASE Refind(i)
      <4>1. row[call[i].key] \in Row
        BY <1>t, <2>k
      <4>2. CASE row[call[i].key].state = "none"
        BY <4>2, <3>4, <3>g, <2>k, <1>t, <1>p, MovesType
        DEF Refind, IdemTypeOK, Moves, Points, PersistCode
      <4>3. CASE row[call[i].key].state # "none"
        <5> DEFINE v == Verdict(i, row[call[i].key])
        <5>1. v \in OwnCodes \union {"none"}
          BY <4>1, <4>3, VerdictCode
        <5>2. CASE v = "none"
          BY <5>2, <4>3, <3>4, <3>g, <2>k, <1>t, <1>p, MovesType
          DEF Refind, IdemTypeOK, Moves, Points, PersistCode
        <5>3. CASE v # "none"
          <6>1. v \in Codes /\ Moves(i, "answer", v) /\ UNCHANGED <<row, aged>>
            BY <5>1, <5>3, <4>3, <3>4, <1>p DEF Refind
          <6> HIDE DEF v
          <6>2. call' \in [CallIds -> Call \union {NoCall}]
            BY <6>1, <2>k, <1>t, MovesType DEF Points
          <6> QED
            BY <6>1, <6>2, <3>g, <1>t DEF IdemTypeOK, Moves, PersistCode
        <5> QED
          BY <5>2, <5>3
      <4> QED
        BY <4>2, <4>3
    <3>5. CASE Persist(i)
      <4>1. row' \in [Keys -> Row]
        BY <3>5, <1>t, <1>n, <2>k DEF Persist, Row, RowStates
      <4>2. Leaves(i) /\ UNCHANGED aged
        BY <3>5 DEF Persist
      <4> QED
        BY <4>1, <4>2, <3>g, <1>t, LeavesType
        DEF NoCall, IdemTypeOK, PersistCode
    <3>6. CASE PersistFails(i)
      BY <3>6, <3>g, <1>t, LeavesType
      DEF PersistFails, NoCall, IdemTypeOK, PersistCode
    <3>7. CASE Answer(i)
      <4>1. call[i].code \in Codes
        BY <2>k DEF Call
      <4>2. CASE Owner(i)
        <5>1. call' \in [CallIds -> Call \union {NoCall}]
          BY <4>1, <4>2, <3>7, <2>k, <1>t, MovesType DEF Answer, Points
        <5> QED
          BY <5>1, <4>2, <3>7, <3>g, <1>t
          DEF Answer, Owner, Executing, IdemTypeOK, Moves, PersistCode
      <4>3. CASE ~Owner(i)
        BY <4>3, <3>7, <3>g, <1>t, LeavesType
        DEF Answer, NoCall, IdemTypeOK, PersistCode
      <4> QED
        BY <4>2, <4>3
    <3>8. CASE Abandon(i)
      BY <3>8, <3>g, <1>t, LeavesType
      DEF Abandon, NoCall, IdemTypeOK, PersistCode
    <3>9. CASE Refuse(i)
      <4>1. PICK c \in HandlerCodes : Moves(i, "answer", c)
        BY <3>9 DEF Refuse, HandlerCodes
      <4>2. call' \in [CallIds -> Call \union {NoCall}]
        BY <4>1, <2>k, <1>t, <1>p, MovesType DEF Points
      <4> QED
        BY <4>1, <4>2, <3>9, <3>g, <1>t
        DEF Refuse, IdemTypeOK, Moves, PersistCode
    <3>10. CASE Succeed(i) \/ FailAfterEffect(i)
      BY <3>10, <3>g, <2>k, <1>t, SMT
      DEF Succeed, FailAfterEffect, Effect
    <3>11. CASE TakeOver(i)
      BY <3>11, <3>g, <2>k, <1>t, SMT DEF TakeOver
    <3> QED
      BY <1>1, <3>2, <3>3, <3>4, <3>5, <3>6, <3>7, <3>8, <3>9, <3>10,
         <3>11, Zenon
      DEF WorkStep, MiddlewareStep
  <2>1. CASE Succeed(i) \/ FailAfterEffect(i)
    <3>1. /\ effects' \in [Keys -> Nat]
          /\ served' \in SUBSET (Keys \X Bodies)
          /\ unclean' \in [Keys -> Nat]
          /\ UNCHANGED <<row, aged, takeovers>>
      BY <2>1, <2>k DEF Succeed, FailAfterEffect, Effect
    <3>2. \E c \in HandlerCodes : Moves(i, "answer", c)
      BY <2>1 DEF Succeed, FailAfterEffect, HandlerCodes
    <3>3. call' \in [CallIds -> Call \union {NoCall}]
      BY <3>2, <2>k, <1>t, <1>p, MovesType DEF Points
    <3> QED
      BY <3>1, <3>2, <3>3, <1>t DEF IdemTypeOK, Moves, PersistCode
  <2>2. CASE TakeOver(i)
    <3>a. /\ row' = [row EXCEPT ![call[i].key] = NoRow]
          /\ takeovers' = [takeovers EXCEPT ![call[i].key] = @ + 1]
          /\ UNCHANGED <<aged, effects, served, unclean>>
      BY <2>2 DEF TakeOver, Replace, DropStale
    <3>b. row' \in [Keys -> Row]
      BY <3>a, <1>t, <1>n
    <3>c. takeovers' \in [Keys -> Nat]
      BY <3>a, <2>k
    <3>1. /\ row' \in [Keys -> Row]
          /\ takeovers' \in [Keys -> Nat]
          /\ UNCHANGED <<aged, effects, served, unclean>>
      BY <3>a, <3>b, <3>c
    <3>2. call' \in [CallIds -> Call \union {NoCall}] /\ call'[i].at # "persist"
          /\ \A j \in CallIds : j # i => call'[j] = call[j]
      BY <2>2, <2>k, <1>t, <1>p, MovesType
      DEF TakeOver, Replace, DropStale, Points, Moves
    <3> QED
      BY <3>1, <3>2, <1>t DEF IdemTypeOK, PersistCode
  <2> QED
    BY <1>1, <2>g, <2>1, <2>2, Zenon DEF WorkStep, Refuse
<1>2. ASSUME NEW k \in Keys, Age(k), UNCHANGED ghosts PROVE Basic'
  BY <1>2, <1>t DEF Age, ghosts, IdemTypeOK, Row, RowStates, PersistCode
<1>3. ASSUME Restart, UNCHANGED ghosts PROVE Basic'
  BY <1>3, <1>t DEF Restart, ghosts, NoCall, IdemTypeOK, PersistCode
<1>4. ASSUME UNCHANGED vars PROVE Basic'
  BY <1>4, <1>t DEF vars, idemVars, ghosts, IdemTypeOK, PersistCode
<1> QED
  BY <1>0, <1>1, <1>2, <1>3, <1>4, StepShape

\* The rows of the table, the calls and the counters keep their types.
THEOREM TypeCorrect == Spec => []TypeOK
<1>1. Basic => TypeOK
  BY DEF Basic
<1> QED
  BY InitBasic, NextBasic, <1>1, PTL DEF Spec

-----------------------------------------------------------------------------
(* EffectsBounded.  A key can still make as many side effects as it has    *)
(* calls that will run the handler or remove the row after it, and one     *)
(* more while it has no row; only a takeover or a handler that fails after *)
(* its effect adds to that budget.                                         *)

IsPending(i) ==
  \/ call[i].at = "handler"
  \/ call[i].at \in {"answer", "persist"} /\ call[i].code \in {"refused", "failed"}
Pending(k) == {i \in CallIds : IsPending(i) /\ call[i].key = k}
OpenRow(k) == IF row[k].state = "none" THEN 1 ELSE 0

Budget(k) ==
  effects[k] + Cardinality(Pending(k)) + OpenRow(k)
    <= 1 + takeovers[k] + unclean[k]

\* A subset of the calls has a cardinality, which shrinks with the set.
LEMMA CardMono ==
  ASSUME NEW S \in SUBSET CallIds, NEW T \in SUBSET S
  PROVE Cardinality(S) \in Nat /\ Cardinality(T) \in Nat
        /\ Cardinality(T) <= Cardinality(S)
<1>1. IsFiniteSet(S) /\ IsFiniteSet(T)
  BY FS_Subset, IdempotencyAssumption DEF IdempotencyAssumption
<1> QED
  BY <1>1, FS_Subset, FS_CardinalityType

\* One more call adds at most one.
LEMMA CardAdd ==
  ASSUME NEW S \in SUBSET CallIds, NEW i \in CallIds, NEW T \in SUBSET (S \union {i})
  PROVE Cardinality(T) <= Cardinality(S) + 1
<1>1. IsFiniteSet(S)
  BY FS_Subset, IdempotencyAssumption DEF IdempotencyAssumption
<1>2. /\ Cardinality(S) \in Nat
      /\ Cardinality(S \union {i}) \in {Cardinality(S), Cardinality(S) + 1}
  BY <1>1, FS_AddElement, FS_CardinalityType
<1>3. Cardinality(T) \in Nat /\ Cardinality(T) <= Cardinality(S \union {i})
  BY CardMono
<1> QED
  BY <1>2, <1>3

\* One call less takes one away.
LEMMA CardDrop ==
  ASSUME NEW S \in SUBSET CallIds, NEW i \in S, NEW T \in SUBSET (S \ {i})
  PROVE Cardinality(T) + 1 <= Cardinality(S)
<1>1. IsFiniteSet(S)
  BY FS_Subset, IdempotencyAssumption DEF IdempotencyAssumption
<1>2. /\ Cardinality(S) \in Nat
      /\ Cardinality(S \ {i}) = Cardinality(S) - 1
  BY <1>1, FS_RemoveElement, FS_CardinalityType
<1>3. Cardinality(T) \in Nat /\ Cardinality(T) <= Cardinality(S \ {i})
  BY CardMono
<1> QED
  BY <1>2, <1>3

\* What the step of one call does to the pending calls of a key.
LEMMA PendingStep ==
  ASSUME NEW i \in CallIds, NEW k \in Keys,
         call'[i].key = call[i].key \/ ~IsPending(i)',
         \A j \in CallIds : j # i => call'[j] = call[j]
  PROVE /\ Pending(k)' \subseteq Pending(k) \union {i}
        /\ ~IsPending(i)' => Pending(k)' \subseteq Pending(k) \ {i}
        /\ (IsPending(i)' => IsPending(i)) => Pending(k)' \subseteq Pending(k)
        /\ k # call[i].key => Pending(k)' \subseteq Pending(k)
  BY DEF Pending, IsPending

\* Moves is the step of one call.
LEMMA MovesOne ==
  ASSUME TypeOK, NEW i \in CallIds, NEW p, NEW c, Moves(i, p, c)
  PROVE /\ call'[i].at = p /\ call'[i].code = c
        /\ call'[i].key = call[i].key /\ call'[i].body = call[i].body
        /\ \A j \in CallIds : j # i => call'[j] = call[j]
  BY DEF Moves, TypeOK, IdemTypeOK

\* So is Leaves.
LEMMA LeavesOne ==
  ASSUME TypeOK, NEW i \in CallIds, Leaves(i)
  PROVE /\ call'[i].at = "idle" /\ call'[i].code = "none"
        /\ call'[i].key = None
        /\ \A j \in CallIds : j # i => call'[j] = call[j]
  BY DEF Leaves, NoCall, TypeOK, IdemTypeOK

\* Every step keeps the budget of every key.
LEMMA NextBudget ==
  ASSUME Basic, Basic', [Next]_vars, NEW k \in Keys, Budget(k)
  PROVE Budget(k)'
<1> DEFINE P == Cardinality(Pending(k))
           Q == Cardinality(Pending(k)')
<1>t. TypeOK /\ TypeOK'
  BY DEF Basic
<1>n. /\ effects[k] \in Nat /\ effects'[k] \in Nat
      /\ takeovers[k] \in Nat /\ takeovers'[k] \in Nat
      /\ unclean[k] \in Nat /\ unclean'[k] \in Nat
      /\ P \in Nat /\ Q \in Nat
      /\ OpenRow(k) \in {0, 1} /\ OpenRow(k)' \in {0, 1}
  BY <1>t, CardMono DEF TypeOK, Pending, OpenRow
<1>b. effects[k] + P + OpenRow(k) <= 1 + takeovers[k] + unclean[k]
  BY DEF Budget
<1>q. (Budget(k)') <=> effects'[k] + Q + OpenRow(k)' <= 1 + takeovers'[k] + unclean'[k]
  BY DEF Budget
<1>s. Pending(k) \subseteq CallIds /\ Pending(k)' \subseteq CallIds
  BY DEF Pending
<1> HIDE DEF P, Q
<1>le. Pending(k)' \subseteq Pending(k) => Q <= P
  BY <1>s, CardMono DEF P, Q
<1>i. (UNCHANGED ghosts /\ Q <= P /\ OpenRow(k)' <= OpenRow(k)) => Budget(k)'
  <2> SUFFICES ASSUME UNCHANGED ghosts, Q <= P, OpenRow(k)' <= OpenRow(k)
               PROVE Budget(k)'
    OBVIOUS
  <2>1. effects' = effects /\ takeovers' = takeovers /\ unclean' = unclean
    BY DEF ghosts
  <2> QED
    BY <2>1, <1>n, <1>b, <1>q
<1>0. ASSUME NEW i \in CallIds, NEW kk \in Keys, NEW b \in Bodies, Post(i, kk, b)
      PROVE Budget(k)'
  <2>1. Pending(k)' \subseteq Pending(k)
    BY <1>0, <1>t DEF Post, Arrives, Pending, IsPending, TypeOK, IdemTypeOK
  <2>2. UNCHANGED ghosts /\ OpenRow(k)' <= OpenRow(k)
    BY <1>0, <1>n DEF Post, Arrives, OpenRow
  <2> QED
    BY <2>1, <2>2, <1>le, <1>i
<1>1. ASSUME NEW i \in CallIds, WorkStep(i) PROVE Budget(k)'
  <2> DEFINE h == call[i].key
  <2>k. h \in Keys
    BY <1>1, <1>t, WorkActive
  \* Steps that only move a call, which does not become pending.
  <2>2. ASSUME NEW p, NEW c, Moves(i, p, c), IsPending(i)' => IsPending(i),
               UNCHANGED ghosts, OpenRow(k)' <= OpenRow(k)
        PROVE Budget(k)'
    BY <2>2, <1>t, <1>le, <1>i, MovesOne, PendingStep
  \* Steps by which a call is over.
  <2>l. ASSUME Leaves(i), UNCHANGED ghosts, OpenRow(k)' <= OpenRow(k)
        PROVE Budget(k)'
    <3>1. ~IsPending(i)' /\ \A j \in CallIds : j # i => call'[j] = call[j]
      BY <2>l, <1>t, LeavesOne DEF IsPending
    <3> QED
      BY <3>1, <2>l, <1>le, <1>i, PendingStep
  <2>3. ASSUME Find(i) \/ Refind(i), UNCHANGED ghosts PROVE Budget(k)'
    <3>1. row[h] \in Row
      BY <2>k, <1>t DEF TypeOK, IdemTypeOK
    <3>2. \E p \in {"acquire", "replace", "drop", "answer"},
             c \in OwnCodes \union {"none"} : Moves(i, p, c)
      BY <2>3, <3>1, VerdictCode DEF Find, Refind, OwnCodes
    <3>3. ~IsPending(i)'
      BY <3>2, <1>t, MovesOne DEF IsPending, OwnCodes
    <3>4. OpenRow(k)' <= OpenRow(k)
      BY <2>3, <1>n DEF Find, Refind, OpenRow
    <3> QED
      BY <3>2, <3>3, <3>4, <2>2, <2>3
  <2>4. ASSUME Acquire(i), UNCHANGED ghosts PROVE Budget(k)'
    <3>1. CASE row[h].state = "none" /\ k = h
      <4>1. Moves(i, "handler", "none") /\ OpenRow(k) = 1 /\ OpenRow(k)' = 0
        BY <3>1, <2>4, <2>k, <1>t DEF Acquire, OpenRow, TypeOK, IdemTypeOK
      <4>2. Pending(k)' \subseteq Pending(k) \union {i}
        BY <4>1, <1>t, MovesOne, PendingStep
      <4>3. Q <= P + 1
        BY <4>2, <1>s, CardAdd DEF P, Q
      <4>4. effects' = effects /\ takeovers' = takeovers /\ unclean' = unclean
        BY <2>4 DEF ghosts
      <4> QED
        BY <4>1, <4>3, <4>4, <1>n, <1>b, <1>q
    <3>2. CASE row[h].state = "none" /\ k # h
      <4>1. Moves(i, "handler", "none") /\ OpenRow(k)' = OpenRow(k)
        BY <3>2, <2>4, <2>k, <1>t DEF Acquire, OpenRow, TypeOK, IdemTypeOK
      <4>2. Pending(k)' \subseteq Pending(k)
        BY <4>1, <3>2, <1>t, MovesOne, PendingStep
      <4> QED
        BY <4>1, <4>2, <1>le, <1>i, <1>n, <2>4
    <3>3. CASE row[h].state # "none"
      <4>1. Moves(i, "refind", "none") /\ OpenRow(k)' <= OpenRow(k)
        BY <3>3, <2>4, <1>n DEF Acquire, OpenRow
      <4>2. ~IsPending(i)'
        BY <4>1, <1>t, MovesOne DEF IsPending
      <4> QED
        BY <4>1, <4>2, <2>2, <2>4
    <3> QED
      BY <3>1, <3>2, <3>3
  <2>5. ASSUME Persist(i), UNCHANGED ghosts PROVE Budget(k)'
    <3>m. Leaves(i)
      BY <2>5 DEF Persist
    <3>p. ~IsPending(i)' /\ \A j \in CallIds : j # i => call'[j] = call[j]
      BY <3>m, <1>t, LeavesOne DEF IsPending
    <3>1. CASE call[i].code = "ok" \/ k # h
      <4>1. OpenRow(k)' <= OpenRow(k)
        BY <3>1, <2>5, <2>k, <1>n, <1>t DEF Persist, OpenRow, TypeOK, IdemTypeOK
      <4> QED
        BY <4>1, <3>m, <2>l, <2>5
    <3>2. CASE call[i].code # "ok" /\ k = h
      <4>1. IsPending(i)
        BY <3>2, <2>5 DEF Persist, IsPending, Basic, PersistCode, HandlerCodes
      <4>2. i \in Pending(k) /\ Pending(k)' \subseteq Pending(k) \ {i}
        BY <4>1, <3>2, <3>p, PendingStep DEF Pending
      <4>3. Q + 1 <= P
        BY <4>2, <1>s, CardDrop DEF P, Q
      <4>4. effects' = effects /\ takeovers' = takeovers /\ unclean' = unclean
        BY <2>5 DEF ghosts
      <4> QED
        BY <4>3, <4>4, <1>n, <1>b, <1>q
    <3> QED
      BY <3>1, <3>2
  <2>6. ASSUME PersistFails(i) \/ Abandon(i), UNCHANGED ghosts PROVE Budget(k)'
    <3>1. Leaves(i) /\ OpenRow(k)' <= OpenRow(k)
      BY <2>6, <1>n DEF PersistFails, Abandon, OpenRow
    <3> QED
      BY <3>1, <2>l, <2>6
  <2>7. ASSUME Answer(i), UNCHANGED ghosts PROVE Budget(k)'
    <3>1. OpenRow(k)' <= OpenRow(k)
      BY <2>7, <1>n DEF Answer, OpenRow
    <3>2. CASE Owner(i)
      <4>1. Moves(i, "persist", call[i].code)
        BY <3>2, <2>7 DEF Answer
      <4>2. IsPending(i)' => IsPending(i)
        BY <4>1, <2>7, <1>t, MovesOne DEF Answer, IsPending
      <4> QED
        BY <4>1, <4>2, <3>1, <2>2, <2>7
    <3>3. CASE ~Owner(i)
      <4>1. Leaves(i)
        BY <3>3, <2>7 DEF Answer
      <4> QED
        BY <4>1, <3>1, <2>l, <2>7
    <3> QED
      BY <3>2, <3>3
  <2>8. ASSUME Refuse(i) PROVE Budget(k)'
    <3>1. /\ \E c \in {"refused", "failed"} : Moves(i, "answer", c)
          /\ UNCHANGED ghosts
          /\ OpenRow(k)' <= OpenRow(k) /\ IsPending(i)
      BY <2>8, <1>n DEF Refuse, OpenRow, IsPending
    <3> QED
      BY <3>1, <2>2
  \* The side effect takes the call's place in the budget.
  <2>9. ASSUME Succeed(i) PROVE Budget(k)'
    <3>1. /\ Moves(i, "answer", "ok") /\ IsPending(i)
          /\ effects' = [effects EXCEPT ![h] = @ + 1]
          /\ OpenRow(k)' = OpenRow(k)
          /\ takeovers' = takeovers /\ unclean' = unclean
      BY <2>9 DEF Succeed, Effect, OpenRow, IsPending
    <3>2. ~IsPending(i)'
      BY <3>1, <1>t, MovesOne DEF IsPending
    <3>3. Pending(k)' \subseteq Pending(k) \ {i}
      BY <3>1, <3>2, <1>t, MovesOne, PendingStep
    <3>4. CASE k = h
      <4>1. i \in Pending(k)
        BY <3>1, <3>4 DEF Pending
      <4>2. Q + 1 <= P
        BY <4>1, <3>3, <1>s, CardDrop DEF P, Q
      <4>3. effects'[k] = effects[k] + 1
        BY <3>1, <3>4, <1>t DEF TypeOK
      <4> QED
        BY <4>2, <4>3, <3>1, <1>n, <1>b, <1>q
    <3>5. CASE k # h
      <4>1. Q <= P
        BY <3>3, <1>le
      <4>2. effects'[k] = effects[k]
        BY <3>1, <3>5, <1>t DEF TypeOK
      <4> QED
        BY <4>1, <4>2, <3>1, <1>n, <1>b, <1>q
    <3> QED
      BY <3>4, <3>5
  <2>10. ASSUME FailAfterEffect(i) PROVE Budget(k)'
    <3>1. /\ Moves(i, "answer", "failed") /\ IsPending(i)
          /\ effects' = [effects EXCEPT ![h] = @ + 1]
          /\ unclean' = [unclean EXCEPT ![h] = @ + 1]
          /\ OpenRow(k)' = OpenRow(k)
          /\ takeovers' = takeovers
      BY <2>10 DEF FailAfterEffect, Effect, OpenRow, IsPending
    <3>2. Q <= P
      BY <3>1, <1>t, <1>le, MovesOne, PendingStep
    <3>3. CASE k = h
      <4>1. effects'[k] = effects[k] + 1 /\ unclean'[k] = unclean[k] + 1
        BY <3>1, <3>3, <1>t DEF TypeOK
      <4> QED
        BY <4>1, <3>1, <3>2, <1>n, <1>b, <1>q
    <3>4. CASE k # h
      <4>1. effects'[k] = effects[k] /\ unclean'[k] = unclean[k]
        BY <3>1, <3>4, <1>t DEF TypeOK
      <4> QED
        BY <4>1, <3>1, <3>2, <1>n, <1>b, <1>q
    <3> QED
      BY <3>3, <3>4
  \* The takeover is counted, whatever row it deletes.
  <2>11. ASSUME TakeOver(i) PROVE Budget(k)'
    <3>1. /\ row' = [row EXCEPT ![h] = NoRow]
          /\ takeovers' = [takeovers EXCEPT ![h] = @ + 1]
          /\ effects' = effects /\ unclean' = unclean
      BY <2>11 DEF TakeOver, Replace, DropStale
    <3>2. \E p \in {"acquire", "answer"}, c \in {"none", "in_progress"} :
            Moves(i, p, c)
      BY <2>11 DEF TakeOver, Replace, DropStale
    <3>3. ~IsPending(i)'
      BY <3>2, <1>t, MovesOne DEF IsPending
    <3>4. Q <= P
      BY <3>2, <3>3, <1>t, <1>le, MovesOne, PendingStep
    <3>5. CASE k = h
      <4>1. takeovers'[k] = takeovers[k] + 1
        BY <3>1, <3>5, <1>t DEF TypeOK
      <4> QED
        BY <4>1, <3>1, <3>4, <1>n, <1>b, <1>q
    <3>6. CASE k # h
      <4>1. takeovers'[k] = takeovers[k] /\ OpenRow(k)' = OpenRow(k)
        BY <3>1, <3>6, <1>t DEF TypeOK, IdemTypeOK, OpenRow
      <4> QED
        BY <4>1, <3>1, <3>4, <1>n, <1>b, <1>q
    <3> QED
      BY <3>5, <3>6
  <2> QED
    BY <1>1, <2>3, <2>4, <2>5, <2>6, <2>7, <2>8, <2>9, <2>10, <2>11
    DEF WorkStep, MiddlewareStep
<1>2. ASSUME NEW kk \in Keys, Age(kk), UNCHANGED ghosts PROVE Budget(k)'
  <2>1. Pending(k)' \subseteq Pending(k)
    BY <1>2 DEF Age, Pending, IsPending
  <2>2. OpenRow(k)' <= OpenRow(k)
    BY <1>2, <1>n, <1>t DEF Age, OpenRow, TypeOK, IdemTypeOK
  <2> QED
    BY <2>1, <2>2, <1>2, <1>le, <1>i
<1>3. ASSUME Restart, UNCHANGED ghosts PROVE Budget(k)'
  <2>1. Pending(k)' \subseteq Pending(k)
    BY <1>3 DEF Restart, NoCall, Pending, IsPending
  <2>2. OpenRow(k)' <= OpenRow(k)
    BY <1>3, <1>n DEF Restart, OpenRow
  <2> QED
    BY <2>1, <2>2, <1>3, <1>le, <1>i
<1>4. ASSUME UNCHANGED vars PROVE Budget(k)'
  <2>1. UNCHANGED ghosts /\ call' = call /\ row' = row
    BY <1>4 DEF vars, idemVars
  <2>2. Pending(k)' \subseteq Pending(k) /\ OpenRow(k)' <= OpenRow(k)
    BY <2>1, <1>n DEF Pending, IsPending, OpenRow
  <2> QED
    BY <2>1, <2>2, <1>le, <1>i
<1> QED
  BY <1>0, <1>1, <1>2, <1>3, <1>4, StepShape

BudgetInv == Basic /\ \A k \in Keys : Budget(k)

\* Initially no call is pending and no key has a row.
LEMMA InitBudget == Init => BudgetInv
<1> SUFFICES ASSUME Init, NEW k \in Keys PROVE Budget(k)
  BY InitBasic DEF BudgetInv
<1>1. Pending(k) = {}
  BY DEF Init, IdemInit, NoCall, Pending, IsPending
<1>2. OpenRow(k) = 1 /\ effects[k] = 0 /\ takeovers[k] = 0 /\ unclean[k] = 0
  BY DEF Init, IdemInit, OpenRow, NoRow
<1> QED
  BY <1>1, <1>2, FS_EmptySet DEF Budget

\* Under every key, each side effect after the first is paid for by a
\* takeover of a stale row or by a handler that failed after its effect,
\* for any number of calls (idempotency.ts 99-178).
THEOREM EffectsAreBounded == Spec => []EffectsBounded
<1>1. BudgetInv /\ [Next]_vars => BudgetInv'
  BY NextBasic, NextBudget DEF BudgetInv
<1>2. BudgetInv => EffectsBounded
  <2> SUFFICES ASSUME BudgetInv, NEW k \in Keys
               PROVE effects[k] <= 1 + takeovers[k] + unclean[k]
    BY DEF EffectsBounded
  <2>1. /\ effects[k] \in Nat /\ takeovers[k] \in Nat /\ unclean[k] \in Nat
        /\ Cardinality(Pending(k)) \in Nat /\ OpenRow(k) \in {0, 1}
    BY CardMono DEF BudgetInv, Basic, TypeOK, Pending, OpenRow
  <2>2. Budget(k)
    BY DEF BudgetInv
  <2> QED
    BY <2>1, <2>2 DEF Budget
<1> QED
  BY InitBudget, <1>1, <1>2, PTL DEF Spec

-----------------------------------------------------------------------------
(* SingleFlight, ReplayIsStoredAnswer and StoredAnswerStays.  While no row *)
(* of a key was taken over, a call owns the key's row exactly as long as   *)
(* the row is unanswered, and it owns it alone; a stored or a replayed     *)
(* answer is that of a request that was served, with the same hash.        *)

\* A side effect was made under k for a body with hash h.
Made(k, h) == \E entry \in served : entry[1] = k /\ Hash(entry[2]) = h

OwnedRow(k) ==
  \A i \in CallIds :
    Owner(i) /\ call[i].key = k =>
      /\ row[k].state \in {"running", "stale"}
      /\ row[k].hash = Hash(call[i].body)
      /\ call[i].code = "ok" => <<k, call[i].body>> \in served
      /\ \A j \in CallIds : Owner(j) /\ call[j].key = k => j = i
StoredRow(k) == row[k].state = "done" => Made(k, row[k].hash)
Replays(k) ==
  \A i \in CallIds :
    call[i].key = k /\ call[i].code = "replay" => Made(k, Hash(call[i].body))

KeyInv(k) == takeovers[k] = 0 => OwnedRow(k) /\ StoredRow(k) /\ Replays(k)

\* A step of call i that leaves the row of key k alone, and by which i does
\* not become an owner under k nor gets a replay it is not entitled to.
LEMMA KeepsKey ==
  ASSUME NEW k \in Keys, NEW i \in CallIds,
         OwnedRow(k), StoredRow(k), Replays(k),
         row'[k] = row[k], served \subseteq served',
         \A j \in CallIds : j # i => call'[j] = call[j],
         call'[i].key = k /\ Owner(i)' =>
           /\ Owner(i) /\ call[i].key = k /\ call'[i].body = call[i].body
           /\ call'[i].code = "ok" => <<k, call'[i].body>> \in served',
         call'[i].key = k /\ call'[i].code = "replay" =>
           Made(k, Hash(call[i].body))'
  PROVE OwnedRow(k)' /\ StoredRow(k)' /\ Replays(k)'
<1>1. \A j \in CallIds : j # i => (Owner(j)' <=> Owner(j))
  BY DEF Owner, Executing
<1>2. \A j \in CallIds : Owner(j)' /\ call'[j].key = k => Owner(j) /\ call[j].key = k
  BY <1>1
<1>3. OwnedRow(k)'
  <2> SUFFICES ASSUME NEW j \in CallIds, Owner(j)', call'[j].key = k
               PROVE /\ row'[k].state \in {"running", "stale"}
                     /\ row'[k].hash = Hash(call'[j].body)
                     /\ call'[j].code = "ok" => <<k, call'[j].body>> \in served'
                     /\ \A l \in CallIds : Owner(l)' /\ call'[l].key = k => l = j
    BY DEF OwnedRow, Hash
  <2>1. Owner(j) /\ call[j].key = k
    BY <1>2
  <2>2. /\ row[k].state \in {"running", "stale"}
        /\ row[k].hash = Hash(call[j].body)
        /\ call[j].code = "ok" => <<k, call[j].body>> \in served
        /\ \A l \in CallIds : Owner(l) /\ call[l].key = k => l = j
    BY <2>1 DEF OwnedRow
  <2>3. \A l \in CallIds : Owner(l)' /\ call'[l].key = k => l = j
    BY <2>2, <1>2
  <2>4. CASE j = i
    BY <2>2, <2>3, <2>4
  <2>5. CASE j # i
    BY <2>2, <2>3, <2>5
  <2> QED
    BY <2>4, <2>5
<1>4. StoredRow(k)'
  BY DEF StoredRow, Made
<1>5. Replays(k)'
  BY DEF Replays, Made, Hash
<1> QED
  BY <1>3, <1>4, <1>5

\* Every step keeps the invariant of every key.
LEMMA NextKey ==
  ASSUME Basic, Basic', [Next]_vars, NEW k \in Keys, KeyInv(k)
  PROVE KeyInv(k)'
<1>t. TypeOK /\ TypeOK'
  BY DEF Basic
<1>y. /\ row \in [Keys -> Row] /\ row' \in [Keys -> Row]
      /\ call \in [CallIds -> Call \union {NoCall}] /\ call' \in [CallIds -> Call \union {NoCall}]
      /\ takeovers \in [Keys -> Nat] /\ takeovers' \in [Keys -> Nat]
  BY <1>t DEF TypeOK, IdemTypeOK
<1>m. takeovers'[k] = 0 => takeovers[k] = 0
  <2>1. takeovers' = takeovers
        \/ \E kk \in Keys : takeovers' = [takeovers EXCEPT ![kk] = @ + 1]
    <3>1. ASSUME NEW i \in CallIds, WorkStep(i)
          PROVE takeovers' = takeovers
                \/ \E kk \in Keys : takeovers' = [takeovers EXCEPT ![kk] = @ + 1]
      <4>1. call[i].key \in Keys
        BY <3>1, <1>t, WorkActive
      <4> QED
        BY <3>1, <4>1
        DEF WorkStep, ghosts, Succeed, Refuse, FailAfterEffect, TakeOver
    <3> QED
      BY <3>1, StepShape DEF vars, ghosts, Post
  <2> QED
    BY <2>1, <1>y
<1> SUFFICES ASSUME takeovers'[k] = 0
             PROVE OwnedRow(k)' /\ StoredRow(k)' /\ Replays(k)'
  BY DEF KeyInv
<1>h. takeovers[k] = 0 /\ OwnedRow(k) /\ StoredRow(k) /\ Replays(k)
  BY <1>m DEF KeyInv
<1>0. ASSUME NEW i \in CallIds, NEW kk \in Keys, NEW b \in Bodies, Post(i, kk, b)
      PROVE OwnedRow(k)' /\ StoredRow(k)' /\ Replays(k)'
  <2>1. /\ call'[i].at = "find" /\ call'[i].code = "none"
        /\ \A j \in CallIds : j # i => call'[j] = call[j]
        /\ row' = row /\ served' = served
    BY <1>0, <1>y DEF Post, Arrives, ghosts
  <2>2. ~Owner(i)'
    BY <2>1 DEF Owner, Executing
  <2> QED
    BY <2>1, <2>2, <1>h, KeepsKey
<1>1. ASSUME NEW i \in CallIds, WorkStep(i)
      PROVE OwnedRow(k)' /\ StoredRow(k)' /\ Replays(k)'
  <2> DEFINE h == call[i].key
  <2>k. h \in Keys
    BY <1>1, <1>t, WorkActive
  \* Steps that only move a call, to a point where it owns no row.
  <2>2. ASSUME NEW p, NEW c, Moves(i, p, c), p \notin {"handler", "write"},
               c \notin HandlerCodes \union {"replay"},
               row'[k] = row[k], served' = served
        PROVE OwnedRow(k)' /\ StoredRow(k)' /\ Replays(k)'
    <3>1. ~Owner(i)' /\ call'[i].code # "replay"
      BY <2>2, <1>t, MovesOne DEF Owner, Executing
    <3> QED
      BY <3>1, <2>2, <1>t, <1>h, MovesOne, KeepsKey
  \* Steps by which a call is over.
  <2>l. ASSUME Leaves(i), row'[k] = row[k], served' = served
        PROVE OwnedRow(k)' /\ StoredRow(k)' /\ Replays(k)'
    <3>1. /\ ~Owner(i)' /\ call'[i].code # "replay"
          /\ \A j \in CallIds : j # i => call'[j] = call[j]
      BY <2>l, <1>t, LeavesOne DEF Owner, Executing
    <3> QED
      BY <3>1, <2>l, <1>h, KeepsKey
  <2>3. ASSUME Find(i) \/ Refind(i), UNCHANGED ghosts
        PROVE OwnedRow(k)' /\ StoredRow(k)' /\ Replays(k)'
    <3> DEFINE r == row[h]
               v == Verdict(i, r)
    <3>0. r \in Row /\ row' = row /\ served' = served
      BY <2>3, <2>k, <1>y DEF Find, Refind, ghosts
    <3>1. CASE r.state = "none" \/ v # "replay"
      <4>1. \E p \in {"acquire", "replace", "drop", "answer"},
               c \in {"none", "in_progress", "mismatch"} : Moves(i, p, c)
        BY <3>1, <3>0, <2>3, VerdictCode DEF Find, Refind, OwnCodes
      <4> QED
        BY <4>1, <3>0, <2>2 DEF HandlerCodes
    <3>2. CASE r.state # "none" /\ v = "replay"
      <4>1. Moves(i, "answer", "replay")
        BY <3>2, <2>3 DEF Find, Refind
      <4>2. r.state = "done" /\ r.hash = Hash(call[i].body)
        BY <3>2, <3>0 DEF Verdict, Row, RowStates
      <4>3. h = k => Made(k, Hash(call[i].body))
        BY <4>2, <1>h DEF StoredRow
      <4>5. call'[i].key = h /\ Hash(call'[i].body) = Hash(call[i].body)
        BY <4>1, <1>t, MovesOne DEF Hash
      <4>6. call'[i].key = k => Made(k, Hash(call[i].body))'
        BY <4>3, <4>5, <3>0 DEF Made
      <4>4. ~Owner(i)'
        BY <4>1, <1>t, MovesOne DEF Owner, Executing, HandlerCodes
      <4> QED
        BY <4>1, <4>4, <4>6, <3>0, <1>t, <1>h, MovesOne, KeepsKey
    <3> QED
      BY <3>1, <3>2
  <2>4. ASSUME Acquire(i), UNCHANGED ghosts
        PROVE OwnedRow(k)' /\ StoredRow(k)' /\ Replays(k)'
    <3>s. served' = served
      BY <2>4 DEF ghosts
    <3>1. CASE row[h].state # "none"
      <4>1. Moves(i, "refind", "none") /\ row' = row
        BY <3>1, <2>4 DEF Acquire
      <4> QED
        BY <4>1, <3>s, <2>2 DEF HandlerCodes
    <3>2. CASE row[h].state = "none" /\ h # k
      <4>1. Moves(i, "handler", "none") /\ row'[k] = row[k]
        BY <3>2, <2>4, <2>k, <1>y DEF Acquire
      <4> QED
        BY <4>1, <3>2, <3>s, <1>t, <1>h, MovesOne, KeepsKey
    <3>3. CASE row[h].state = "none" /\ h = k
      <4>1. /\ Moves(i, "handler", "none")
            /\ row'[k] = [state |-> "running", hash |-> Hash(call[i].body)]
        BY <3>3, <2>4, <2>k, <1>y DEF Acquire
      <4>2. \A j \in CallIds : ~(Owner(j) /\ call[j].key = k)
        BY <3>3, <1>h DEF OwnedRow
      <4>3. \A j \in CallIds : Owner(j)' /\ call'[j].key = k => j = i
        BY <4>1, <4>2, <1>t, MovesOne DEF Owner, Executing
      <4>4. call'[i].code = "none" /\ call'[i].body = call[i].body
        BY <4>1, <1>t, MovesOne
      <4>5. OwnedRow(k)'
        BY <4>1, <4>3, <4>4 DEF OwnedRow, Hash
      <4>6. StoredRow(k)'
        BY <4>1 DEF StoredRow
      <4>7. Replays(k)'
        BY <4>1, <3>s, <1>h, <1>t, MovesOne DEF Replays, Made, Hash
      <4> QED
        BY <4>5, <4>6, <4>7
    <3> QED
      BY <3>1, <3>2, <3>3
  <2>5. ASSUME Persist(i), UNCHANGED ghosts
        PROVE OwnedRow(k)' /\ StoredRow(k)' /\ Replays(k)'
    <3>s. served' = served
      BY <2>5 DEF ghosts
    <3>m. Leaves(i)
      BY <2>5 DEF Persist
    <3>1. CASE h # k
      <4>1. row'[k] = row[k]
        BY <3>1, <2>5, <2>k, <1>y DEF Persist
      <4> QED
        BY <4>1, <3>m, <3>s, <2>l
    <3>2. CASE h = k
      <4>1. Owner(i)
        BY <2>5 DEF Persist, Owner, Basic, PersistCode
      <4>2. /\ row[k].state \in {"running", "stale"}
            /\ row[k].hash = Hash(call[i].body)
            /\ call[i].code = "ok" => <<k, call[i].body>> \in served
            /\ \A j \in CallIds : Owner(j) /\ call[j].key = k => j = i
        BY <4>1, <3>2, <1>h DEF OwnedRow
      <4>3. ~Owner(i)'
        BY <3>m, <1>t, LeavesOne DEF Owner, Executing
      <4>4. \A j \in CallIds : ~(Owner(j)' /\ call'[j].key = k)
        BY <4>2, <4>3, <3>m, <1>t, LeavesOne DEF Owner, Executing
      <4>5. row'[k] = IF call[i].code # "ok" THEN NoRow
                      ELSE [state |-> "done", hash |-> row[k].hash]
        BY <4>2, <3>2, <2>5, <1>y DEF Persist
      <4>6. OwnedRow(k)'
        BY <4>4 DEF OwnedRow
      <4>7. StoredRow(k)'
        BY <4>2, <4>5, <3>s DEF StoredRow, Made, NoRow
      <4>8. Replays(k)'
        BY <3>m, <3>s, <1>h, <1>t, LeavesOne DEF Replays, Made, Hash
      <4> QED
        BY <4>6, <4>7, <4>8
    <3> QED
      BY <3>1, <3>2
  <2>6. ASSUME PersistFails(i) \/ Abandon(i), UNCHANGED ghosts
        PROVE OwnedRow(k)' /\ StoredRow(k)' /\ Replays(k)'
    BY <2>6, <2>l DEF PersistFails, Abandon, ghosts
  <2>7. ASSUME Answer(i), UNCHANGED ghosts
        PROVE OwnedRow(k)' /\ StoredRow(k)' /\ Replays(k)'
    <3>1. row' = row /\ served' = served
      BY <2>7 DEF Answer, ghosts
    <3>2. CASE Owner(i)
      <4>1. Moves(i, "persist", call[i].code)
        BY <3>2, <2>7 DEF Answer
      <4>2. /\ h = k /\ call[i].code = "ok" => <<k, call[i].body>> \in served
            /\ h = k /\ call[i].code = "replay" => Made(k, Hash(call[i].body))
        BY <3>2, <1>h DEF OwnedRow, Replays
      <4>3. /\ call'[i].key = h /\ call'[i].code = call[i].code
            /\ Hash(call'[i].body) = Hash(call[i].body)
        BY <4>1, <1>t, MovesOne DEF Hash
      <4>4. call'[i].key = k /\ call'[i].code = "replay" =>
              Made(k, Hash(call[i].body))'
        BY <4>2, <4>3, <3>1 DEF Made
      <4> QED
        BY <4>1, <4>2, <4>4, <3>1, <3>2, <1>t, <1>h, MovesOne, KeepsKey
    <3>3. CASE ~Owner(i)
      BY <3>1, <3>3, <2>7, <2>l DEF Answer
    <3> QED
      BY <3>2, <3>3
  <2>8. ASSUME Refuse(i) \/ Succeed(i) \/ FailAfterEffect(i)
        PROVE OwnedRow(k)' /\ StoredRow(k)' /\ Replays(k)'
    <3>1. /\ \E c \in HandlerCodes :
               /\ Moves(i, "answer", c)
               /\ c = "ok" => <<h, call[i].body>> \in served'
          /\ row' = row /\ served \subseteq served' /\ Owner(i)
      BY <2>8
      DEF Refuse, Succeed, FailAfterEffect, Effect, ghosts, HandlerCodes,
          Owner, Executing
    <3>2. PICK c \in HandlerCodes :
            /\ Moves(i, "answer", c)
            /\ c = "ok" => <<h, call[i].body>> \in served'
      BY <3>1
    <3>3. c # "replay"
      BY DEF HandlerCodes
    <3>4. /\ call'[i].code = c
          /\ call'[i].key = h /\ call'[i].body = call[i].body
          /\ \A j \in CallIds : j # i => call'[j] = call[j]
      BY <3>2, <1>t, MovesOne
    <3>5. call'[i].key = k /\ Owner(i)' =>
            /\ Owner(i) /\ call[i].key = k /\ call'[i].body = call[i].body
            /\ call'[i].code = "ok" => <<k, call'[i].body>> \in served'
      BY <3>1, <3>2, <3>4
    <3> QED
      BY <3>1, <3>3, <3>4, <3>5, <1>h, KeepsKey
  <2>9. ASSUME TakeOver(i)
        PROVE OwnedRow(k)' /\ StoredRow(k)' /\ Replays(k)'
    <3>1. /\ row' = [row EXCEPT ![h] = NoRow]
          /\ takeovers' = [takeovers EXCEPT ![h] = @ + 1]
          /\ served' = served
      BY <2>9 DEF TakeOver, Replace, DropStale
    <3>2. h # k
      BY <3>1, <2>k, <1>y, <1>h
    <3>3. row'[k] = row[k]
      BY <3>1, <3>2, <1>y
    <3>4. \E p \in {"acquire", "answer"}, c \in {"none", "in_progress"} :
            Moves(i, p, c)
      BY <2>9 DEF TakeOver, Replace, DropStale
    <3> QED
      BY <3>1, <3>3, <3>4, <2>2 DEF HandlerCodes
  <2> QED
    BY <1>1, <2>3, <2>4, <2>5, <2>6, <2>7, <2>8, <2>9
    DEF WorkStep, MiddlewareStep
<1>2. ASSUME NEW kk \in Keys, Age(kk), UNCHANGED ghosts
      PROVE OwnedRow(k)' /\ StoredRow(k)' /\ Replays(k)'
  <2>1. /\ call' = call /\ served' = served /\ row'[k].hash = row[k].hash
        /\ \/ row'[k].state = row[k].state
           \/ row[k].state = "running" /\ row'[k].state = "stale"
    BY <1>2, <1>y DEF Age, ghosts
  <2> QED
    BY <2>1, <1>h DEF OwnedRow, StoredRow, Replays, Made, Hash, Owner, Executing
<1>3. ASSUME Restart, UNCHANGED ghosts
      PROVE OwnedRow(k)' /\ StoredRow(k)' /\ Replays(k)'
  <2>1. /\ row' = row /\ served' = served
        /\ \A j \in CallIds : call'[j].at = "idle" /\ call'[j].code = "none"
    BY <1>3 DEF Restart, NoCall, ghosts
  <2>2. \A j \in CallIds : ~Owner(j)'
    BY <2>1 DEF Owner, Executing, HandlerCodes
  <2> QED
    BY <2>1, <2>2, <1>h DEF OwnedRow, StoredRow, Replays, Made
<1>4. ASSUME UNCHANGED vars
      PROVE OwnedRow(k)' /\ StoredRow(k)' /\ Replays(k)'
  BY <1>4, <1>h
  DEF vars, idemVars, ghosts, OwnedRow, StoredRow, Replays, Made, Hash, Owner,
      Executing
<1> QED
  BY <1>0, <1>1, <1>2, <1>3, <1>4, StepShape

KeysInv == Basic /\ \A k \in Keys : KeyInv(k)

\* Initially nothing is owned, stored or replayed.
LEMMA InitKeys == Init => KeysInv
<1> SUFFICES ASSUME Init, NEW k \in Keys PROVE KeyInv(k)
  BY InitBasic DEF KeysInv
<1>1. \A i \in CallIds : call[i].at = "idle" /\ call[i].code = "none"
  BY DEF Init, IdemInit, NoCall
<1>2. row[k].state = "none"
  BY DEF Init, IdemInit, NoRow
<1> QED
  BY <1>1, <1>2 DEF KeyInv, OwnedRow, StoredRow, Replays, Owner, Executing

\* Every step keeps the invariant.
LEMMA NextKeys == KeysInv /\ [Next]_vars => KeysInv'
  BY NextBasic, NextKey DEF KeysInv

\* Until a row of the key is taken over, one call at a time executes the
\* handler under a key, for any number of calls (idempotency.ts 111-132).
THEOREM OneFlightAtATime == Spec => []SingleFlight
<1>1. KeysInv => SingleFlight
  <2> SUFFICES ASSUME KeysInv, NEW i \in CallIds, NEW j \in CallIds,
                      Executing(i), takeovers[call[i].key] = 0
               PROVE /\ row[call[i].key].state \in {"running", "stale"}
                     /\ Executing(j) /\ call[j].key = call[i].key => i = j
    BY DEF SingleFlight
  <2>1. call[i].key \in Keys
    BY DEF KeysInv, Basic, TypeOK, IdemTypeOK, Call, NoCall, Executing
  <2>2. OwnedRow(call[i].key)
    BY <2>1 DEF KeysInv, KeyInv
  <2> QED
    BY <2>2 DEF OwnedRow, Owner
<1> QED
  BY InitKeys, NextKeys, <1>1, PTL DEF Spec

\* What was made under a key: nothing yet, or one body, or more effects
\* than one.
ServedOnce(k) ==
  /\ effects[k] = 0 => \A e \in served : e[1] # k
  /\ effects[k] = 1 => \A e, f \in served : e[1] = k /\ f[1] = k => e = f

\* A side effect adds one body; nothing else changes what was made.
LEMMA NextServed ==
  ASSUME TypeOK, [Next]_vars, NEW k \in Keys, ServedOnce(k)
  PROVE ServedOnce(k)'
<1>n. effects \in [Keys -> Nat]
  BY DEF TypeOK
<1>1. ASSUME UNCHANGED <<effects, served>> PROVE ServedOnce(k)'
  BY <1>1 DEF ServedOnce
<1>2. ASSUME NEW i \in CallIds, WorkStep(i), Effect(i) PROVE ServedOnce(k)'
  <2> DEFINE new == <<call[i].key, call[i].body>>
  <2>1. call[i].key \in Keys
    BY <1>2, WorkActive
  <2>2. /\ effects'[k] = IF k = call[i].key THEN effects[k] + 1 ELSE effects[k]
        /\ served' = served \union {new} /\ new[1] = call[i].key
        /\ effects[k] \in Nat
    BY <1>2, <1>n, <2>1 DEF Effect
  <2> HIDE DEF new
  <2>3. CASE k = call[i].key
    <3>1. effects'[k] # 0 /\ (effects'[k] = 1 => effects[k] = 0)
      BY <2>2, <2>3
    <3> QED
      BY <3>1, <2>2, Zenon DEF ServedOnce
  <2>4. CASE k # call[i].key
    BY <2>2, <2>4 DEF ServedOnce
  <2> QED
    BY <2>3, <2>4
<1>3. ASSUME NEW i \in CallIds, WorkStep(i) PROVE ServedOnce(k)'
  BY <1>1, <1>2, <1>3
  DEF WorkStep, ghosts, Succeed, Refuse, FailAfterEffect, TakeOver
<1> QED
  BY <1>1, <1>3, StepShape DEF Post, ghosts, vars

ReplayInv == KeysInv /\ BudgetInv /\ \A k \in Keys : ServedOnce(k)

\* Until a row of the key is taken over, a replayed answer is that of a
\* request with the key and the hash whose side effect was made - the only
\* one, unless a handler failed after its effect (idempotency.ts 15-69).
THEOREM ReplaysAreStoredAnswers == Spec => []ReplayIsStoredAnswer
<1>1. Init => ReplayInv
  BY InitKeys, InitBudget DEF ReplayInv, ServedOnce, Init
<1>2. ReplayInv /\ [Next]_vars => ReplayInv'
  BY NextKeys, NextBasic, NextBudget, NextServed
  DEF ReplayInv, BudgetInv, KeysInv, Basic
<1>3. ReplayInv => ReplayIsStoredAnswer
  <2> SUFFICES ASSUME ReplayInv, NEW i \in CallIds, NEW k, k = call[i].key,
                      call[i].code = "replay", takeovers[k] = 0
               PROVE \E entry \in {e \in served : e[1] = k} :
                       /\ Hash(entry[2]) = Hash(call[i].body)
                       /\ unclean[k] = 0 =>
                            /\ effects[k] = 1
                            /\ {e \in served : e[1] = k} = {entry}
    BY DEF ReplayIsStoredAnswer
  <2>1. k \in Keys
    BY DEF ReplayInv, KeysInv, Basic, TypeOK, IdemTypeOK, Call, NoCall
  <2>2. PICK entry \in served : entry[1] = k /\ Hash(entry[2]) = Hash(call[i].body)
    BY <2>1 DEF ReplayInv, KeysInv, KeyInv, Replays, Made
  <2>3. unclean[k] = 0 => effects[k] = 1
    <3>1. /\ effects[k] \in Nat /\ takeovers[k] \in Nat /\ unclean[k] \in Nat
          /\ Cardinality(Pending(k)) \in Nat /\ OpenRow(k) \in {0, 1}
      BY <2>1, CardMono
      DEF ReplayInv, BudgetInv, Basic, TypeOK, Pending, OpenRow
    <3>2. Budget(k) /\ effects[k] # 0
      BY <2>1, <2>2 DEF ReplayInv, BudgetInv, ServedOnce
    <3> QED
      BY <3>1, <3>2 DEF Budget
  <2>4. effects[k] = 1 => {e \in served : e[1] = k} = {entry}
    BY <2>1, <2>2 DEF ReplayInv, ServedOnce
  <2> QED
    BY <2>2, <2>3, <2>4
<1> QED
  BY <1>1, <1>2, <1>3, PTL DEF Spec

\* Until a row of the key is taken over, a stored answer is never changed
\* or lost (idempotency.ts 137-151).
THEOREM StoredAnswersStay == Spec => StoredAnswerStays
<1>1. ASSUME KeysInv, KeysInv', [Next]_vars
      PROVE \A k \in Keys :
              row[k].state = "done" /\ takeovers'[k] = 0 => row'[k] = row[k]
  <2> SUFFICES ASSUME NEW k \in Keys, row[k].state = "done", takeovers'[k] = 0
               PROVE row'[k] = row[k]
    OBVIOUS
  <2>y. /\ row \in [Keys -> Row] /\ takeovers \in [Keys -> Nat]
    BY <1>1 DEF KeysInv, Basic, TypeOK, IdemTypeOK
  <2>1. ASSUME NEW i \in CallIds, WorkStep(i) PROVE row'[k] = row[k]
    <3>k. call[i].key \in Keys
      BY <2>1, <1>1, WorkActive DEF KeysInv, Basic
    <3>1. CASE Acquire(i)
      BY <3>1, <3>k, <2>y DEF Acquire
    \* An owner at persist would have an unanswered row of this key.
    <3>2. CASE Persist(i)
      <4>1. Owner(i)
        BY <3>2, <1>1 DEF Persist, Owner, KeysInv, Basic, PersistCode
      <4>2. takeovers[k] = 0 => call[i].key # k
        BY <4>1, <1>1 DEF KeysInv, KeyInv, OwnedRow
      <4>3. takeovers[k] = 0
        <5>1. CASE UNCHANGED ghosts
          BY <5>1 DEF ghosts
        <5>2. CASE ~UNCHANGED ghosts
          BY <5>2, <3>2, <2>1
          DEF WorkStep, Persist, Refuse, Succeed,
              FailAfterEffect, TakeOver, Replace, DropStale
        <5> QED
          BY <5>1, <5>2
      <4> QED
        BY <4>2, <4>3, <3>2, <3>k, <2>y DEF Persist
    <3>3. CASE TakeOver(i)
      <4>1. /\ row' = [row EXCEPT ![call[i].key] = NoRow]
            /\ takeovers' = [takeovers EXCEPT ![call[i].key] = @ + 1]
        BY <3>3 DEF TakeOver, Replace, DropStale
      <4>2. call[i].key # k
        BY <4>1, <3>k, <2>y
      <4> QED
        BY <4>1, <4>2, <2>y
    <3> QED
      BY <2>1, <3>1, <3>2, <3>3
      DEF WorkStep, MiddlewareStep, Find, Refind, PersistFails,
          Answer, Abandon, Succeed, Refuse, FailAfterEffect
  <2>2. ASSUME NEW kk \in Keys, Age(kk) PROVE row'[k] = row[k]
    BY <2>2, <2>y DEF Age
  <2> QED
    BY <1>1, <2>1, <2>2, StepShape
    DEF Restart, Post, Arrives, vars, idemVars
<1>2. KeysInv /\ KeysInv' /\ [Next]_vars =>
        [\A k \in Keys :
           row[k].state = "done" /\ takeovers'[k] = 0 => row'[k] = row[k]]_vars
  BY <1>1
<1> QED
  BY InitKeys, NextKeys, <1>2, PTL DEF Spec, StoredAnswerStays
=============================================================================
