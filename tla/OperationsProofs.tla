--------------------------- MODULE OperationsProofs ----------------------------
(***************************************************************************)
(* Proofs about the operations of the cooperative, each for any number of  *)
(* handlers in flight: dispatch, users and their KYC, the agent at the     *)
(* scale and the notices.  An invariant says of every request in flight    *)
(* what it carries, and of a fresh one what it has checked and is still so *)
(* (Seen).                                                                 *)
(***************************************************************************)
EXTENDS Dispatch, Provisioning, Agent, Kyc, Notices, CommonProofs

-----------------------------------------------------------------------------
(* Dispatch.                                                               *)

\* What a request carries, fresh or not: a dispatch, the plan whose rows it
\* has read; a step, the mission.
DispatchNamed(k) ==
  /\ k.op = "dispatch" => /\ {"need", "plan"} \subseteq DOMAIN k
                          /\ k.need \in Needs /\ k.plan \in Plans /\ IsInjective(k.plan)
                          /\ k.reads = DispatchRows(k.need, k.plan)
  /\ k.op \in {"cancelNeed", "reopen", "reopening", "again"} => "need" \in DOMAIN k /\ k.need \in Needs
  /\ k.op = "cancelNeed" => k.need \in k.reads
  /\ k.op = "redispatch" => "need" \in DOMAIN k /\ k.need \in Needs
  /\ k.op \in {"redispatch", "EN_ROUTE", "DELIVERED", "VERIFIED"} =>
       "mission" \in DOMAIN k /\ k.mission \in Missions /\ k.mission \in k.reads

\* The vehicle and the driver are free, of the missions `rows'.
FreeIn(v, d, rows) ==
  \A m \in Missions : rows[m].vehicle = v \/ rows[m].driver = d => rows[m].status \notin Active

\* What a fresh one has seen, and is still so.
DispatchSeen(k, needs, rows) ==
  k.fresh =>
    /\ k.op = "dispatch" => /\ needs[k.need] = "PENDING"
                            /\ \A v \in DOMAIN k.plan : FreeIn(v, k.plan[v], rows)
    /\ k.op = "cancelNeed" => needs[k.need] = "PENDING"
    /\ k.op = "redispatch" => rows[k.mission].status \in Redispatchable
    /\ k.op \in {"EN_ROUTE", "DELIVERED"} => rows[k.mission].status \in {"ASSIGNED", "EN_ROUTE"}
    /\ k.op = "VERIFIED" => rows[k.mission].status = "DELIVERED"

\* The rows have the values of their columns.
DispatchRowsOK ==
  /\ need \in [Needs -> NeedStatus]
  /\ mission \in [Missions -> Mission]
  /\ rounds \in [Needs -> Nat]

\* The invariant of dispatch.
DispatchInv ==
  /\ AllRequests
  /\ DispatchRowsOK
  /\ \A r \in Requests : DispatchNamed(request[r]) /\ DispatchSeen(request[r], need, mission)
  /\ LockHoldsUnlessOvertaken
  /\ DispatchedOnce

\* A write of the rows W.
NeedsOnly(W) == \A n \in Needs : need'[n] = need[n] \/ n \in W

\* A mission changes with its locks, or is created with them.
MissionsOnly(W) ==
  \A m \in Missions :
    \/ mission'[m] = mission[m]
    \/ /\ {m, mission[m].vehicle, mission[m].driver} \subseteq W
       /\ mission'[m].vehicle = mission[m].vehicle /\ mission'[m].driver = mission[m].driver
    \/ mission[m].status = "NONE" /\ {mission'[m].vehicle, mission'[m].driver} \subseteq W

\* A fresh handler has read nothing of W: what it has seen is still so.
LEMMA SeenStays ==
  ASSUME NEW k, DispatchNamed(k), DispatchSeen(k, need, mission), NEW W, NeedsOnly(W), MissionsOnly(W),
         k.reads \intersect W = {}
  PROVE  DispatchSeen(k, need', mission')
  <1> SUFFICES ASSUME k.fresh PROVE DispatchSeen(k, need', mission')
    BY DEF DispatchSeen
  <1>1. CASE k.op = "dispatch"
    <2>1. /\ k.need \in Needs /\ k.reads = {k.need} \union DOMAIN k.plan \union Range(k.plan)
          /\ need[k.need] = "PENDING" /\ \A v \in DOMAIN k.plan : FreeIn(v, k.plan[v], mission)
      BY <1>1 DEF DispatchNamed, DispatchSeen, DispatchRows
    <2>2. need'[k.need] = "PENDING"
      BY <2>1 DEF NeedsOnly
    <2>3. ASSUME NEW v \in DOMAIN k.plan, NEW m \in Missions,
                 mission'[m].vehicle = v \/ mission'[m].driver = k.plan[v]
          PROVE  mission'[m].status \notin Active
      <3>1. v \in k.reads /\ k.plan[v] \in k.reads
        BY <2>1 DEF Range
      <3>2. mission'[m] = mission[m]
        BY <2>3, <3>1 DEF MissionsOnly
      <3> QED
        BY <2>1, <2>3, <3>2 DEF FreeIn
    <2> QED
      BY <1>1, <2>2, <2>3 DEF DispatchSeen, FreeIn
  <1>2. CASE k.op = "cancelNeed"
    BY <1>2 DEF DispatchNamed, DispatchSeen, NeedsOnly
  <1>3. CASE k.op \in {"redispatch", "EN_ROUTE", "DELIVERED", "VERIFIED"}
    <2>1. k.mission \in Missions /\ k.mission \in k.reads /\ mission[k.mission].status # "NONE"
      BY <1>3 DEF DispatchNamed, DispatchSeen, Redispatchable
    <2>2. mission'[k.mission] = mission[k.mission]
      BY <2>1 DEF MissionsOnly
    <2> QED
      BY <1>3, <2>2 DEF DispatchSeen
  <1> QED
    BY <1>1, <1>2, <1>3 DEF DispatchSeen

LEMMA DispatchWrote ==
  ASSUME DispatchInv, NEW r \in Requests, NEW W, NEW k, IsRequest(k), Wrote(r, W, k), DispatchNamed(k),
         DispatchSeen(k, need', mission'), DispatchRowsOK', NeedsOnly(W), MissionsOnly(W),
         LockHoldsUnlessOvertaken', DispatchedOnce'
  PROVE  DispatchInv'
  <1>1. /\ AllRequests'
        /\ request'[r] = k
        /\ \A q \in Requests \ {r} :
              /\ request'[q].op = request[q].op
              /\ request'[q].reads = request[q].reads
              /\ DOMAIN request'[q] = DOMAIN request[q]
              /\ \A x \in DOMAIN request[q] \ {"fresh"} : request'[q][x] = request[q][x]
              /\ request'[q].fresh =>
                   request'[q] = request[q] /\ request[q].fresh /\ request[q].reads \intersect W = {}
    BY WroteOver DEF DispatchInv
  <1>2. ASSUME NEW q \in Requests \ {r}
        PROVE  DispatchNamed(request'[q])
    BY <1>1 DEF DispatchInv, DispatchNamed
  <1>3. ASSUME NEW q \in Requests \ {r}
        PROVE  DispatchSeen(request'[q], need', mission')
    <2>1. CASE request'[q].fresh
      <3>1. request'[q] = request[q] /\ request[q].reads \intersect W = {}
        BY <1>1, <2>1
      <3>2. DispatchNamed(request[q]) /\ DispatchSeen(request[q], need, mission)
        BY DEF DispatchInv
      <3> QED
        BY <3>1, <3>2, SeenStays
    <2>2. CASE ~request'[q].fresh
      BY <2>2 DEF DispatchSeen
    <2> QED
      BY <2>1, <2>2
  <1> QED
    BY <1>1, <1>2, <1>3 DEF DispatchInv

\* A handler that has looked.
LEMMA DispatchGoes ==
  ASSUME DispatchInv, NEW r \in Requests, NEW k, IsRequest(k), DispatchNamed(k),
         DispatchSeen(k, need, mission), Goes(r, k), UNCHANGED dispatchRows
  PROVE  DispatchInv'
  <1>1. /\ AllRequests' /\ request'[r] = k /\ overtaken' = overtaken
        /\ \A q \in Requests \ {r} : request'[q] = request[q]
    BY GoesOn DEF DispatchInv
  <1>2. need' = need /\ mission' = mission /\ rounds' = rounds /\ reopened' = reopened
    BY DEF dispatchRows
  <1> QED
    BY <1>1, <1>2 DEF DispatchInv, DispatchRowsOK, LockHoldsUnlessOvertaken, OneActiveMission, DispatchedOnce

\* An idle handler carries nothing.
LEMMA FreeNamed ==
  ASSUME NEW needs, NEW rows
  PROVE  IsRequest(Free) /\ DispatchNamed(Free) /\ DispatchSeen(Free, needs, rows)
  BY FreeIsRequest DEF Free, DispatchNamed, DispatchSeen

LEMMA DispatchEnds ==
  ASSUME DispatchInv, NEW r \in Requests, NEW halfway, Ends(r, halfway), UNCHANGED dispatchRows
  PROVE  DispatchInv'
  <1>1. /\ AllRequests' /\ request'[r] = Free /\ overtaken' = overtaken
        /\ \A q \in Requests \ {r} : request'[q] = request[q]
    BY EndsHere DEF DispatchInv
  <1>2. need' = need /\ mission' = mission /\ rounds' = rounds /\ reopened' = reopened
    BY DEF dispatchRows
  <1> QED
    BY <1>1, <1>2, FreeNamed
    DEF DispatchInv, DispatchRowsOK, LockHoldsUnlessOvertaken, OneActiveMission, DispatchedOnce

LEMMA DispatchInvInit == DispatchInit => DispatchInv
  <1> SUFFICES ASSUME DispatchInit PROVE DispatchInv
    OBVIOUS
  <1>1. AllRequests /\ \A r \in Requests : request[r] = Free
    BY FreeIsRequest DEF DispatchInit, HandlersInit, AllRequests
  <1>2. NoMission \in Mission
    BY DEF NoMission, Mission, MissionStatus, Active
  <1>3. DispatchRowsOK
    BY <1>2 DEF DispatchInit, DispatchRowsOK, NeedStatus
  <1>4. LockHoldsUnlessOvertaken
    BY DEF DispatchInit, LockHoldsUnlessOvertaken, OneActiveMission, NoMission, Active
  <1>5. DispatchedOnce
    BY DEF DispatchInit, DispatchedOnce
  <1> QED
    BY <1>1, <1>3, <1>4, <1>5, FreeNamed DEF DispatchInv

\* The looks.

LEMMA DispatchCheckInv ==
  ASSUME DispatchInv, NEW r \in Requests, DispatchCheck(r)
  PROVE  DispatchInv'
  <1>1. PICK n \in Dispatchable(r), p \in Plans :
          /\ need[n] = "PENDING"
          /\ IsInjective(p)
          /\ \A v \in DOMAIN p : Available(v, p[v])
          /\ Goes(r, DispatchOf(n, p))
    BY DEF DispatchCheck
  <1>2. n \in Needs
    <2>1. CASE request[r].op = "free"
      BY <2>1 DEF Dispatchable
    <2>2. CASE request[r].op = "again"
      BY <2>2 DEF Dispatchable, DispatchInv, DispatchNamed
    <2>3. CASE request[r].op \notin {"free", "again"}
      BY <1>1, <2>3 DEF Dispatchable
    <2> QED
      BY <2>1, <2>2, <2>3
  <1> DEFINE k == DispatchOf(n, p)
  <1>3. /\ k.op = "dispatch" /\ k.reads = DispatchRows(n, p) /\ k.fresh = TRUE /\ k.need = n /\ k.plan = p
        /\ DOMAIN k = {"op", "reads", "fresh", "need", "plan"} /\ IsRequest(k)
    BY DEF DispatchOf, IsRequest
  <1> HIDE DEF k
  <1>4. DispatchNamed(k)
    BY <1>1, <1>2, <1>3 DEF DispatchNamed
  <1>5. \A v \in DOMAIN p : FreeIn(v, p[v], mission)
    BY <1>1 DEF Available, Of, FreeIn
  <1>6. DispatchSeen(k, need, mission)
    BY <1>1, <1>3, <1>5 DEF DispatchSeen
  <1> QED
    BY <1>1, <1>3, <1>4, <1>6, DispatchGoes DEF k, DispatchCheck

LEMMA DispatchLooks ==
  ASSUME DispatchInv, NEW r \in Requests,
         CancelNeedRead(r) \/ RedispatchRead(r) \/ MoveRead(r) \/ VerifyRead(r)
  PROVE  DispatchInv'
  <1>1. CASE CancelNeedRead(r)
    <2>1. PICK n \in Needs :
            /\ need[n] = "PENDING"
            /\ ReadsNeed(r, [op |-> "cancelNeed", reads |-> {n}, fresh |-> TRUE, need |-> n])
      BY <1>1 DEF CancelNeedRead
    <2> DEFINE k == [op |-> "cancelNeed", reads |-> {n}, fresh |-> TRUE, need |-> n]
    <2>2. IsRequest(k) /\ DispatchNamed(k) /\ DispatchSeen(k, need, mission)
      BY <2>1 DEF IsRequest, DispatchNamed, DispatchSeen
    <2> QED
      BY <2>1, <2>2, DispatchGoes DEF ReadsNeed, Begins
  <1>2. CASE RedispatchRead(r)
    <2>1. PICK m \in Missions, n \in Needs :
            /\ mission[m].status \in Redispatchable
            /\ ReadsNeed(r, [op |-> "redispatch", reads |-> {m}, fresh |-> TRUE, mission |-> m, need |-> n])
      BY <1>2 DEF RedispatchRead
    <2> DEFINE k == [op |-> "redispatch", reads |-> {m}, fresh |-> TRUE, mission |-> m, need |-> n]
    <2>2. IsRequest(k) /\ DispatchNamed(k) /\ DispatchSeen(k, need, mission)
      BY <2>1 DEF IsRequest, DispatchNamed, DispatchSeen
    <2> QED
      BY <2>1, <2>2, DispatchGoes DEF ReadsNeed, Begins
  <1>3. CASE MoveRead(r)
    <2>1. PICK m \in Missions, t \in {"EN_ROUTE", "DELIVERED"} :
            /\ MayMove(mission[m].status, t)
            /\ ReadsNeed(r, [op |-> t, reads |-> {m}, fresh |-> TRUE, mission |-> m])
      BY <1>3 DEF MoveRead
    <2> DEFINE k == [op |-> t, reads |-> {m}, fresh |-> TRUE, mission |-> m]
    <2>2. IsRequest(k) /\ DispatchNamed(k) /\ DispatchSeen(k, need, mission)
      BY <2>1 DEF IsRequest, DispatchNamed, DispatchSeen, MayMove
    <2> QED
      BY <2>1, <2>2, DispatchGoes DEF ReadsNeed, Begins
  <1>4. CASE VerifyRead(r)
    <2>1. PICK m \in Missions :
            /\ mission[m].status = "DELIVERED"
            /\ ReadsNeed(r, [op |-> "VERIFIED", reads |-> {m}, fresh |-> TRUE, mission |-> m])
      BY <1>4 DEF VerifyRead
    <2> DEFINE k == [op |-> "VERIFIED", reads |-> {m}, fresh |-> TRUE, mission |-> m]
    <2>2. IsRequest(k) /\ DispatchNamed(k) /\ DispatchSeen(k, need, mission)
      BY <2>1 DEF IsRequest, DispatchNamed, DispatchSeen
    <2> QED
      BY <2>1, <2>2, DispatchGoes DEF ReadsNeed, Begins
  <1> QED
    BY <1>1, <1>2, <1>3, <1>4

\* The redispatch looks at the need before it reopens it.
LEMMA ReopenReadInv ==
  ASSUME DispatchInv, NEW r \in Requests, ReopenRead(r)
  PROVE  DispatchInv'
  <1> DEFINE o == request[r]
             k == [o EXCEPT !.op = "reopening", !.reads = {o.need}]
  <1>1. o.op = "reopen" /\ Goes(r, k) /\ UNCHANGED dispatchRows
    BY DEF ReopenRead
  <1>2. IsRequest(o) /\ "need" \in DOMAIN o /\ o.need \in Needs
    BY <1>1 DEF DispatchInv, AllRequests, DispatchNamed
  <1>3. IsRequest(k) /\ k.op = "reopening" /\ "need" \in DOMAIN k /\ k.need = o.need
    BY <1>2 DEF IsRequest
  <1> HIDE DEF k
  <1>4. DispatchNamed(k) /\ DispatchSeen(k, need, mission)
    BY <1>2, <1>3 DEF DispatchNamed, DispatchSeen
  <1> QED
    BY <1>1, <1>3, <1>4, DispatchGoes

\* The writes.

\* A handler that was fresh when it wrote was not overtaking.
LEMMA WroteFresh ==
  ASSUME NEW r \in Requests, NEW W, NEW k, Wrote(r, W, k), ~overtaken'
  PROVE  ~overtaken /\ request[r].fresh
  BY DEF Wrote

\* Mission m gets the status s, and keeps its locks.
LEMMA MissionBecomes ==
  ASSUME DispatchInv, NEW m \in Missions, NEW s \in MissionStatus,
         mission' = [mission EXCEPT ![m].status = s], UNCHANGED <<need, rounds>>
  PROVE  /\ DispatchRowsOK'
         /\ NeedsOnly(LocksOf(m)) /\ MissionsOnly(LocksOf(m))
         /\ mission'[m].status = s
         /\ mission'[m].vehicle = mission[m].vehicle /\ mission'[m].driver = mission[m].driver
         /\ \A x \in Missions \ {m} : mission'[x] = mission[x]
  <1>1. mission[m] \in Mission
    BY DEF DispatchInv, DispatchRowsOK
  <1> DEFINE new == [mission[m] EXCEPT !.status = s]
  <1>2. /\ new \in Mission /\ new.status = s
        /\ new.vehicle = mission[m].vehicle /\ new.driver = mission[m].driver
    BY <1>1 DEF Mission
  <1>3. mission' = [mission EXCEPT ![m] = new]
    OBVIOUS
  <1> HIDE DEF new
  <1>4. mission'[m] = new /\ \A x \in Missions \ {m} : mission'[x] = mission[x]
    BY <1>3 DEF DispatchInv, DispatchRowsOK
  <1>5. DispatchRowsOK'
    BY <1>2, <1>3 DEF DispatchInv, DispatchRowsOK
  <1>6. NeedsOnly(LocksOf(m)) /\ MissionsOnly(LocksOf(m))
    BY <1>2, <1>4 DEF NeedsOnly, MissionsOnly, LocksOf
  <1> QED
    BY <1>2, <1>4, <1>5, <1>6

\* The status of an active mission, or of one that is no longer, goes on to s.
LEMMA MissionWriteInv ==
  ASSUME DispatchInv, NEW r \in Requests, NEW m \in Missions, NEW s \in MissionStatus, NEW k, IsRequest(k),
         mission' = [mission EXCEPT ![m].status = s], Wrote(r, LocksOf(m), k),
         UNCHANGED <<need, rounds, reopened>>,
         DispatchNamed(k), DispatchSeen(k, need', mission'),
         request[r].fresh => mission[m].status \in Active
  PROVE  /\ DispatchInv'
         /\ ~overtaken' => \A x \in Missions : mission'[x] = mission[x] \/ mission[x].status \in Active
  <1>1. /\ DispatchRowsOK'
        /\ NeedsOnly(LocksOf(m)) /\ MissionsOnly(LocksOf(m))
        /\ mission'[m].vehicle = mission[m].vehicle /\ mission'[m].driver = mission[m].driver
        /\ \A x \in Missions \ {m} : mission'[x] = mission[x]
    BY MissionBecomes
  <1>2. ASSUME ~overtaken' PROVE ~overtaken /\ mission[m].status \in Active
    BY <1>2, WroteFresh
  <1>3. LockHoldsUnlessOvertaken'
    <2> SUFFICES ASSUME ~overtaken', NEW m1 \in Missions, NEW m2 \in Missions, m1 # m2,
                        mission'[m1].status \in Active, mission'[m2].status \in Active
                 PROVE  mission'[m1].vehicle # mission'[m2].vehicle /\ mission'[m1].driver # mission'[m2].driver
      BY DEF LockHoldsUnlessOvertaken, OneActiveMission
    <2>1. mission[m1].status \in Active /\ mission[m2].status \in Active
      BY <1>1, <1>2
    <2>2. mission[m1].vehicle # mission[m2].vehicle /\ mission[m1].driver # mission[m2].driver
      BY <1>2, <2>1 DEF DispatchInv, LockHoldsUnlessOvertaken, OneActiveMission
    <2> QED
      BY <1>1, <2>2
  <1>4. DispatchedOnce'
    BY <1>2 DEF DispatchInv, DispatchedOnce
  <1>5. DispatchInv'
    BY <1>1, <1>3, <1>4, DispatchWrote
  <1> QED
    BY <1>1, <1>2, <1>5

LEMMA StepsInv ==
  ASSUME DispatchInv, NEW r \in Requests, CancelMission(r) \/ MoveWrite(r) \/ VerifyWrite(r)
  PROVE  /\ DispatchInv'
         /\ ~overtaken' => \A x \in Missions : mission'[x] = mission[x] \/ mission[x].status \in Active
  <1> DEFINE m == request[r].mission
  <1>1. CASE CancelMission(r)
    <2> DEFINE k == [op |-> "reopen", reads |-> {}, fresh |-> TRUE, need |-> request[r].need]
    <2>1. /\ m \in Missions /\ request[r].need \in Needs
          /\ request[r].fresh => mission[m].status \in Active
      BY <1>1 DEF CancelMission, DispatchInv, DispatchNamed, DispatchSeen, Redispatchable, Active
    <2>2. IsRequest(k) /\ DispatchNamed(k) /\ DispatchSeen(k, need', mission')
      BY <2>1 DEF IsRequest, DispatchNamed, DispatchSeen
    <2>3. /\ mission' = [mission EXCEPT ![m].status = "CANCELLED"] /\ Wrote(r, LocksOf(m), k)
          /\ UNCHANGED <<need, rounds, reopened>>
      BY <1>1 DEF CancelMission
    <2> HIDE DEF k, m
    <2>4. "CANCELLED" \in MissionStatus
      BY DEF MissionStatus
    <2> QED
      BY <2>1, <2>2, <2>3, <2>4, MissionWriteInv
  <1>2. CASE MoveWrite(r)
    <2>1. /\ m \in Missions
          /\ request[r].fresh => mission[m].status \in Active
          /\ request[r].op \in MissionStatus
      BY <1>2 DEF MoveWrite, DispatchInv, DispatchNamed, DispatchSeen, Active, MissionStatus
    <2>2. /\ mission' = [mission EXCEPT ![m].status = request[r].op] /\ Wrote(r, LocksOf(m), Free)
          /\ UNCHANGED <<need, rounds, reopened>>
      BY <1>2 DEF MoveWrite
    <2>3. IsRequest(Free) /\ DispatchNamed(Free) /\ DispatchSeen(Free, need', mission')
      BY FreeNamed
    <2> HIDE DEF m
    <2> QED
      BY <2>1, <2>2, <2>3, MissionWriteInv
  <1>3. CASE VerifyWrite(r)
    <2>1. /\ m \in Missions
          /\ request[r].fresh => mission[m].status \in Active
          /\ "VERIFIED" \in MissionStatus
      BY <1>3 DEF VerifyWrite, DispatchInv, DispatchNamed, DispatchSeen, Active, MissionStatus
    <2>2. /\ mission' = [mission EXCEPT ![m].status = "VERIFIED"] /\ Wrote(r, LocksOf(m), Free)
          /\ UNCHANGED <<need, rounds, reopened>>
      BY <1>3 DEF VerifyWrite
    <2>3. IsRequest(Free) /\ DispatchNamed(Free) /\ DispatchSeen(Free, need', mission')
      BY FreeNamed
    <2> HIDE DEF m
    <2> QED
      BY <2>1, <2>2, <2>3, MissionWriteInv
  <1> QED
    BY <1>1, <1>2, <1>3

\* Need n gets the status s; the missions stay.
LEMMA NeedBecomes ==
  ASSUME DispatchInv, NEW n \in Needs, NEW s \in NeedStatus, need' = [need EXCEPT ![n] = s],
         UNCHANGED <<mission, rounds>>, ~overtaken' => ~overtaken
  PROVE  /\ DispatchRowsOK' /\ NeedsOnly({n}) /\ MissionsOnly({n}) /\ LockHoldsUnlessOvertaken'
         /\ need'[n] = s /\ \A x \in Needs \ {n} : need'[x] = need[x]
  BY DEF DispatchInv, DispatchRowsOK, NeedsOnly, MissionsOnly, LockHoldsUnlessOvertaken, OneActiveMission

LEMMA CancelNeedWriteInv ==
  ASSUME DispatchInv, NEW r \in Requests, CancelNeedWrite(r)
  PROVE  DispatchInv'
  <1> DEFINE n == request[r].need
  <1>1. /\ n \in Needs
        /\ request[r].fresh => need[n] = "PENDING"
    BY DEF CancelNeedWrite, DispatchInv, DispatchNamed, DispatchSeen
  <1>2. /\ need' = [need EXCEPT ![n] = "CANCELLED"] /\ Wrote(r, {n}, Free)
        /\ UNCHANGED <<mission, rounds, reopened>>
    BY DEF CancelNeedWrite
  <1> HIDE DEF n
  <1>3. ~overtaken' => ~overtaken /\ need[n] = "PENDING"
    BY <1>1, <1>2, WroteFresh
  <1>4. "CANCELLED" \in NeedStatus
    BY DEF NeedStatus
  <1>5. /\ DispatchRowsOK' /\ NeedsOnly({n}) /\ MissionsOnly({n}) /\ LockHoldsUnlessOvertaken'
        /\ need'[n] = "CANCELLED" /\ \A x \in Needs \ {n} : need'[x] = need[x]
    BY <1>1, <1>2, <1>3, <1>4, NeedBecomes
  <1>6. DispatchedOnce'
    BY <1>1, <1>2, <1>3, <1>5 DEF DispatchInv, DispatchedOnce
  <1> QED
    BY <1>2, <1>5, <1>6, FreeNamed, DispatchWrote

LEMMA ReopenWriteInv ==
  ASSUME DispatchInv, NEW r \in Requests, ReopenWrite(r)
  PROVE  DispatchInv'
  <1> DEFINE n == request[r].need
             k == [op |-> "again", reads |-> {}, fresh |-> TRUE, need |-> n]
  <1>1. n \in Needs
    BY DEF ReopenWrite, DispatchInv, DispatchNamed
  <1>2. /\ need' = [need EXCEPT ![n] = "PENDING"] /\ reopened' = reopened \union {n}
        /\ Wrote(r, {n}, k) /\ UNCHANGED <<mission, rounds>>
    BY DEF ReopenWrite
  <1>3. IsRequest(k) /\ DispatchNamed(k) /\ DispatchSeen(k, need', mission')
    BY <1>1 DEF IsRequest, DispatchNamed, DispatchSeen
  <1> HIDE DEF k, n
  <1>4. ~overtaken' => ~overtaken
    BY <1>2, WroteFresh
  <1>5. "PENDING" \in NeedStatus
    BY DEF NeedStatus
  <1>6. /\ DispatchRowsOK' /\ NeedsOnly({n}) /\ MissionsOnly({n}) /\ LockHoldsUnlessOvertaken'
        /\ need'[n] = "PENDING" /\ \A x \in Needs \ {n} : need'[x] = need[x]
    BY <1>1, <1>2, <1>4, <1>5, NeedBecomes
  <1>7. DispatchedOnce'
    BY <1>2, <1>4, <1>6 DEF DispatchInv, DispatchedOnce
  <1> QED
    BY <1>2, <1>3, <1>6, <1>7, DispatchWrote

\* The missions that a dispatch creates: one for each vehicle of its plan,
\* with the driver of that vehicle, in place of none.
LEMMA CreatedRows ==
  ASSUME DispatchInv, NEW r \in Requests, request[r].op = "dispatch",
         NEW id \in [DOMAIN request[r].plan -> Unused], IsInjective(id), mission' = Created(r, id)
  PROVE  LET k == request[r] IN
         /\ mission' \in [Missions -> Mission]
         /\ \A m \in Missions :
              \/ mission'[m] = mission[m] /\ \A v \in DOMAIN k.plan : id[v] # m
              \/ /\ mission[m].status = "NONE"
                 /\ \E v \in DOMAIN k.plan :
                      /\ id[v] = m
                      /\ mission'[m] = [status |-> "ASSIGNED", need |-> k.need, vehicle |-> v,
                                        driver |-> k.plan[v]]
  <1> DEFINE k == request[r]
  <1>1. k.need \in Needs /\ k.plan \in Plans
    BY DEF DispatchInv, DispatchNamed
  <1>2. \A v \in DOMAIN k.plan : v \in Vehicles /\ k.plan[v] \in Drivers
    <2>1. PICK V \in (SUBSET Vehicles) \ {{}} : k.plan \in [V -> Drivers]
      BY <1>1 DEF Plans
    <2> QED
      BY <2>1
  <1>3. ASSUME NEW m \in Missions, NEW v \in DOMAIN k.plan, id[v] = m
        PROVE  mission'[m] = [status |-> "ASSIGNED", need |-> k.need, vehicle |-> v, driver |-> k.plan[v]]
    <2>1. (CHOOSE w \in DOMAIN k.plan : id[w] = m) = v
      BY <1>3 DEF IsInjective
    <2> QED
      BY <1>3, <2>1 DEF Created
  <1>4. ASSUME NEW m \in Missions, \A v \in DOMAIN k.plan : id[v] # m
        PROVE  mission'[m] = mission[m]
    BY <1>4 DEF Created
  <1>5. \A v \in DOMAIN k.plan : id[v] \in Missions /\ mission[id[v]].status = "NONE"
    BY DEF Unused
  <1>6. ASSUME NEW v \in DOMAIN k.plan
        PROVE  [status |-> "ASSIGNED", need |-> k.need, vehicle |-> v, driver |-> k.plan[v]] \in Mission
    BY <1>1, <1>2 DEF Mission, MissionStatus, Active
  <1>7. \A m \in Missions : mission'[m] \in Mission
    BY <1>3, <1>4, <1>6 DEF DispatchInv, DispatchRowsOK
  <1>8. mission' = [m \in Missions |-> mission'[m]]
    BY DEF Created
  <1> QED
    BY <1>3, <1>4, <1>5, <1>7, <1>8

LEMMA DispatchCommitInv ==
  ASSUME DispatchInv, NEW r \in Requests, DispatchCommit(r)
  PROVE  /\ DispatchInv'
         /\ \A x \in Missions : mission'[x] = mission[x] \/ mission[x].status = "NONE"
  <1> DEFINE k == request[r]
             n == k.need
             W == k.reads
  <1>1. /\ k.op = "dispatch" /\ Wrote(r, W, Free) /\ reopened' = reopened
        /\ need' = [need EXCEPT ![n] = "DISPATCHED"]
        /\ rounds' = [rounds EXCEPT ![n] = @ + 1]
    BY DEF DispatchCommit
  <1>2. PICK id \in [DOMAIN k.plan -> Unused] : IsInjective(id) /\ mission' = Created(r, id)
    BY DEF DispatchCommit
  <1>3. /\ n \in Needs /\ k.plan \in Plans /\ IsInjective(k.plan) /\ W = {n} \union DOMAIN k.plan \union Range(k.plan)
        /\ k.fresh => need[n] = "PENDING" /\ \A v \in DOMAIN k.plan : FreeIn(v, k.plan[v], mission)
    BY <1>1 DEF DispatchInv, DispatchNamed, DispatchSeen, DispatchRows
  <1>4. /\ mission' \in [Missions -> Mission]
        /\ \A m \in Missions :
              \/ mission'[m] = mission[m] /\ \A v \in DOMAIN k.plan : id[v] # m
              \/ /\ mission[m].status = "NONE"
                 /\ \E v \in DOMAIN k.plan :
                      /\ id[v] = m
                      /\ mission'[m] = [status |-> "ASSIGNED", need |-> k.need, vehicle |-> v,
                                        driver |-> k.plan[v]]
    BY <1>1, <1>2, CreatedRows
  <1> HIDE DEF n, W
  <1>5. need'[n] = "DISPATCHED" /\ \A x \in Needs \ {n} : need'[x] = need[x]
    BY <1>1, <1>3 DEF DispatchInv, DispatchRowsOK
  <1>6. rounds'[n] = rounds[n] + 1 /\ \A x \in Needs \ {n} : rounds'[x] = rounds[x]
    BY <1>1, <1>3 DEF DispatchInv, DispatchRowsOK
  <1>7. DispatchRowsOK'
    BY <1>1, <1>3, <1>4 DEF DispatchInv, DispatchRowsOK, NeedStatus
  <1>8. NeedsOnly(W)
    BY <1>3, <1>5 DEF NeedsOnly
  <1>9. MissionsOnly(W)
    <2> SUFFICES ASSUME NEW m \in Missions, mission'[m] # mission[m]
                 PROVE  mission[m].status = "NONE" /\ {mission'[m].vehicle, mission'[m].driver} \subseteq W
      BY DEF MissionsOnly
    <2>1. mission[m].status = "NONE"
      BY <1>4
    <2>2. PICK v \in DOMAIN k.plan : mission'[m].vehicle = v /\ mission'[m].driver = k.plan[v]
      BY <1>4
    <2> QED
      BY <1>3, <2>1, <2>2 DEF Range
  <1>10. ~overtaken' => ~overtaken /\ k.fresh
    BY <1>1, WroteFresh
  <1>11. LockHoldsUnlessOvertaken'
    <2> SUFFICES ASSUME ~overtaken', NEW m1 \in Missions, NEW m2 \in Missions, m1 # m2,
                        mission'[m1].status \in Active, mission'[m2].status \in Active
                 PROVE  mission'[m1].vehicle # mission'[m2].vehicle /\ mission'[m1].driver # mission'[m2].driver
      BY DEF LockHoldsUnlessOvertaken, OneActiveMission
    <2> DEFINE New(m) == \E v \in DOMAIN k.plan :
                           /\ id[v] = m
                           /\ mission'[m].vehicle = v /\ mission'[m].driver = k.plan[v]
    <2>1. \A m \in Missions : mission'[m] = mission[m] \/ New(m)
      BY <1>4
    <2>2. ASSUME NEW x \in Missions, NEW y \in Missions, New(x), mission'[y] = mission[y],
                 mission'[y].status \in Active
          PROVE  mission'[x].vehicle # mission'[y].vehicle /\ mission'[x].driver # mission'[y].driver
      BY <1>3, <1>10, <2>2 DEF FreeIn
    <2>3. ASSUME New(m1), New(m2)
          PROVE  mission'[m1].vehicle # mission'[m2].vehicle /\ mission'[m1].driver # mission'[m2].driver
      <3>1. PICK v \in DOMAIN k.plan : id[v] = m1 /\ mission'[m1].vehicle = v /\ mission'[m1].driver = k.plan[v]
        BY <2>3
      <3>2. PICK w \in DOMAIN k.plan : id[w] = m2 /\ mission'[m2].vehicle = w /\ mission'[m2].driver = k.plan[w]
        BY <2>3
      <3>3. v # w
        BY <3>1, <3>2
      <3>4. k.plan[v] # k.plan[w]
        BY <1>3, <3>3 DEF IsInjective
      <3> QED
        BY <3>1, <3>2, <3>3, <3>4
    <2>4. CASE mission'[m1] = mission[m1] /\ mission'[m2] = mission[m2]
      BY <1>10, <2>4 DEF DispatchInv, LockHoldsUnlessOvertaken, OneActiveMission
    <2> HIDE DEF New
    <2> QED
      BY <2>1, <2>2, <2>3, <2>4
  <1>12. DispatchedOnce'
    <2> SUFFICES ASSUME ~overtaken', NEW x \in Needs \ reopened
                 PROVE  rounds'[x] = IF need'[x] = "DISPATCHED" THEN 1 ELSE 0
      BY <1>1 DEF DispatchedOnce
    <2>1. rounds[x] = IF need[x] = "DISPATCHED" THEN 1 ELSE 0
      BY <1>10 DEF DispatchInv, DispatchedOnce
    <2> QED
      BY <1>3, <1>5, <1>6, <1>10, <2>1
  <1>13. DispatchInv'
    BY <1>1, <1>7, <1>8, <1>9, <1>11, <1>12, FreeNamed, DispatchWrote
  <1> QED
    BY <1>4, <1>13

\* A step keeps the invariant, and what is final.
LEMMA DispatchStep ==
  ASSUME DispatchInv, [DispatchNext]_dispatchVars
  PROVE  /\ DispatchInv'
         /\ ~overtaken' => \A m \in Missions :
              mission'[m] = mission[m] \/ mission[m].status \in Active \union {"NONE"}
  <1>1. CASE UNCHANGED dispatchVars
    <2>1. /\ request' = request /\ overtaken' = overtaken /\ need' = need /\ mission' = mission
          /\ rounds' = rounds /\ reopened' = reopened
      BY <1>1 DEF dispatchVars, dispatchRows, handlerVars
    <2> QED
      BY <2>1 DEF DispatchInv, AllRequests, DispatchRowsOK, LockHoldsUnlessOvertaken, OneActiveMission,
                  DispatchedOnce
  <1>2. ASSUME NEW r \in Requests,
               DispatchCheck(r) \/ CancelNeedRead(r) \/ RedispatchRead(r) \/ ReopenRead(r) \/ MoveRead(r)
                 \/ VerifyRead(r) \/ CancelNeedWrite(r) \/ ReopenWrite(r)
        PROVE  DispatchInv' /\ mission' = mission
    <2>1. DispatchInv'
      BY <1>2, DispatchCheckInv, DispatchLooks, ReopenReadInv, CancelNeedWriteInv, ReopenWriteInv
    <2>2. mission' = mission
      BY <1>2 DEF DispatchCheck, CancelNeedRead, RedispatchRead, ReopenRead, MoveRead, VerifyRead,
                  CancelNeedWrite, ReopenWrite, ReadsNeed, dispatchRows
    <2> QED
      BY <2>1, <2>2
  <1>3. ASSUME NEW r \in Requests, DispatchCommit(r)
        PROVE  DispatchInv' /\ \A m \in Missions : mission'[m] = mission[m] \/ mission[m].status = "NONE"
    BY <1>3, DispatchCommitInv
  <1>4. ASSUME NEW r \in Requests, CancelMission(r) \/ MoveWrite(r) \/ VerifyWrite(r)
        PROVE  /\ DispatchInv'
               /\ ~overtaken' => \A m \in Missions : mission'[m] = mission[m] \/ mission[m].status \in Active
    BY <1>4, StepsInv
  <1>5. ASSUME NEW r \in Requests, NEW halfway, Ends(r, halfway), UNCHANGED dispatchRows
        PROVE  DispatchInv' /\ mission' = mission
    BY <1>5, DispatchEnds DEF dispatchRows
  <1> QED
    BY <1>1, <1>2, <1>3, <1>4, <1>5 DEF DispatchNext

LEMMA DispatchInvariant == DispatchSpec => []DispatchInv
  <1>1. DispatchInv /\ [DispatchNext]_dispatchVars => DispatchInv'
    BY DispatchStep
  <1> QED
    BY <1>1, DispatchInvInit, PTL DEF DispatchSpec

\* DISPATCH-LOCK-1 for any fleet: a vehicle and a driver have one active
\* mission at a time, however dispatches, redispatches and steps interleave,
\* as long as none writes over what it has not seen.
THEOREM LocksHold == DispatchSpec => []LockHoldsUnlessOvertaken
  <1>1. DispatchInv => LockHoldsUnlessOvertaken
    BY DEF DispatchInv
  <1> QED
    BY <1>1, DispatchInvariant, PTL

\* Under the same condition a need that was never reopened is dispatched
\* once, and not at all if it is cancelled.
THEOREM NeedsDispatchedOnce == DispatchSpec => []DispatchedOnce
  <1>1. DispatchInv => DispatchedOnce
    BY DEF DispatchInv
  <1> QED
    BY <1>1, DispatchInvariant, PTL

\* A mission that is CANCELLED or VERIFIED keeps its status, but for a write
\* over what was not seen.
THEOREM FinalMissionsStay == DispatchSpec => FinalUnlessOvertaken
  <1>1. DispatchInv /\ [DispatchNext]_dispatchVars =>
          [\A m \in Missions : mission[m].status \in {"CANCELLED", "VERIFIED"} =>
             mission'[m].status = mission[m].status \/ overtaken']_dispatchVars
    BY DispatchStep DEF Active
  <1> QED
    BY <1>1, DispatchInvariant, PTL DEF DispatchSpec, FinalUnlessOvertaken

-----------------------------------------------------------------------------
(* Provisioning.                                                           *)

\* The operations between the approval of an account and its end.
Provides == {"create", "restore", "join", "done"}

\* What a handler carries, fresh or not: one that provides an account for a
\* request, the place of the request; where it has come to.
ProvisioningNamed(k, asks, acc, mem) ==
  /\ k.op \in {"ask", "move"} \union Provides =>
       "place" \in DOMAIN k /\ k.place \in Places \union {NoPlace}
  /\ k.op \in {"ask", "move", "create", "restore", "done"} => k.place \in Places
  /\ k.op \in {"refuse"} \union Provides =>
       /\ "for" \in DOMAIN k /\ k.for \subseteq Asks
       /\ \A a \in k.for : asks[a].status # "NONE"
  /\ k.op \in Provides => \A a \in k.for : asks[a].place = k.place
  /\ k.op \in {"join", "done", "move", "delete"} => acc # NoAccount
  /\ k.op = "done" => k.place \in mem
  /\ k.op = "ask" => k.reads = Asks \union {"account"}

\* A fresh one that asks has seen that nobody else does.
AskSeen(k, asks, acc) ==
  k.fresh /\ k.op = "ask" /\ acc = NoAccount => \A a \in Asks : asks[a].status # "PENDING"

\* The rows have the values of their columns.
ProvisioningShape ==
  /\ ask \in [Asks -> Ask]
  /\ \A a \in Asks : ask[a].status # "NONE" => ask[a].place \in Places
  /\ account = NoAccount \/ account \in [status : {"ACTIVE", "DELETED"}, place : Places \union {NoPlace}]

\* Approved is who has an account and is a member.
ApprovedAreMembers ==
  \A a \in Asks : ask[a].status = "APPROVED" => account # NoAccount /\ ask[a].place \in member

\* Who is not a member of the place of the account is about to be.
JoinsSoon ==
  account # NoAccount =>
    \/ account.place \in member
    \/ \E r \in Requests : request[r].op = "join" /\ request[r].place = account.place

\* A person without an account has at most one request that is open.
OnePending ==
  account = NoAccount => \A a, b \in Asks : ask[a].status = "PENDING" /\ ask[b].status = "PENDING" => a = b

\* The invariant of provisioning.
ProvisioningInv ==
  /\ AllRequests
  /\ ProvisioningShape
  /\ \A r \in Requests : /\ ProvisioningNamed(request[r], ask, account, member)
                         /\ AskSeen(request[r], ask, account)
  /\ ApprovedAreMembers
  /\ ~cut => JoinsSoon
  /\ ~overtaken => OnePending

\* Requests keep their place, accounts and memberships remain; a write is of
\* the rows W.
ProvisioningStays(W) ==
  /\ \A a \in Asks : ask[a].status # "NONE" => ask'[a].status # "NONE" /\ ask'[a].place = ask[a].place
  /\ account # NoAccount => account' # NoAccount
  /\ member \subseteq member'
  /\ \A a \in Asks : ask'[a] = ask[a] \/ a \in W
  /\ account' = account \/ "account" \in W

LEMMA FreeProvisioning ==
  ASSUME NEW asks, NEW acc, NEW mem
  PROVE  ProvisioningNamed(Free, asks, acc, mem) /\ AskSeen(Free, asks, acc)
  BY DEF Free, ProvisioningNamed, AskSeen, Provides

LEMMA ProvisioningWrote ==
  ASSUME ProvisioningInv, NEW r \in Requests, NEW W, NEW k, Wrote(r, W, k), IsRequest(k),
         ProvisioningNamed(k, ask', account', member'), AskSeen(k, ask', account'),
         ProvisioningShape', ProvisioningStays(W), ApprovedAreMembers', ~cut' => JoinsSoon',
         ~overtaken /\ request[r].fresh => OnePending'
  PROVE  ProvisioningInv'
  <1>1. /\ AllRequests'
        /\ request'[r] = k
        /\ \A q \in Requests \ {r} :
              /\ request'[q].op = request[q].op
              /\ request'[q].reads = request[q].reads
              /\ DOMAIN request'[q] = DOMAIN request[q]
              /\ \A x \in DOMAIN request[q] \ {"fresh"} : request'[q][x] = request[q][x]
              /\ request'[q].fresh =>
                   request'[q] = request[q] /\ request[q].fresh /\ request[q].reads \intersect W = {}
        /\ ~overtaken' => ~overtaken /\ request[r].fresh
    BY WroteOver DEF ProvisioningInv
  <1>2. ASSUME NEW q \in Requests \ {r}
        PROVE  ProvisioningNamed(request'[q], ask', account', member')
    <2>1. ProvisioningNamed(request[q], ask, account, member)
      BY DEF ProvisioningInv
    <2>2. ProvisioningNamed(request[q], ask', account', member')
      BY <2>1 DEF ProvisioningNamed, ProvisioningStays, Provides
    <2> QED
      BY <1>1, <2>2 DEF ProvisioningNamed, Provides
  <1>3. ASSUME NEW q \in Requests \ {r}
        PROVE  AskSeen(request'[q], ask', account')
    <2> SUFFICES ASSUME request'[q].fresh, request'[q].op = "ask", account' = NoAccount
                 PROVE  \A a \in Asks : ask'[a].status # "PENDING"
      BY DEF AskSeen
    <2>1. request[q].reads = Asks \union {"account"} /\ request[q].fresh /\ request[q].op = "ask"
      BY <1>1 DEF ProvisioningInv, ProvisioningNamed
    <2>2. account = account' /\ \A a \in Asks : ask'[a] = ask[a]
      BY <1>1, <2>1 DEF ProvisioningStays
    <2> QED
      BY <2>1, <2>2 DEF ProvisioningInv, AskSeen
  <1> QED
    BY <1>1, <1>2, <1>3 DEF ProvisioningInv

LEMMA ProvisioningGoes ==
  ASSUME ProvisioningInv, NEW r \in Requests, NEW k, IsRequest(k), request[r].op = "free",
         ProvisioningNamed(k, ask, account, member), AskSeen(k, ask, account),
         Goes(r, k), UNCHANGED provisioningRows
  PROVE  ProvisioningInv'
  <1>1. /\ AllRequests' /\ request'[r] = k
        /\ \A q \in Requests \ {r} : request'[q] = request[q]
        /\ overtaken' = overtaken
    BY GoesOn DEF ProvisioningInv
  <1>2. cut' = cut /\ UNCHANGED <<ask, account, member>>
    BY DEF Goes, provisioningRows
  <1>3. ~cut => JoinsSoon'
    BY <1>1, <1>2 DEF ProvisioningInv, JoinsSoon
  <1> QED
    BY <1>1, <1>2, <1>3 DEF ProvisioningInv, ProvisioningShape, ApprovedAreMembers, OnePending

LEMMA ProvisioningEnds ==
  ASSUME ProvisioningInv, NEW r \in Requests, Ends(r, ProvisioningHalfway(r)), UNCHANGED provisioningRows
  PROVE  ProvisioningInv'
  <1>1. /\ AllRequests' /\ request'[r] = Free
        /\ \A q \in Requests \ {r} : request'[q] = request[q]
        /\ overtaken' = overtaken
    BY EndsHere DEF ProvisioningInv
  <1>2. UNCHANGED <<ask, account, member>>
    BY DEF provisioningRows
  <1>3. ~cut' => ~cut /\ request[r].op # "join"
    BY DEF Ends, ProvisioningHalfway
  <1>4. ~cut' => JoinsSoon'
    BY <1>1, <1>2, <1>3 DEF ProvisioningInv, JoinsSoon
  <1> QED
    BY <1>1, <1>2, <1>4, FreeProvisioning
    DEF ProvisioningInv, ProvisioningShape, ApprovedAreMembers, OnePending

LEMMA ProvisioningInvInit == ProvisioningInit => ProvisioningInv
  <1> SUFFICES ASSUME ProvisioningInit PROVE ProvisioningInv
    OBVIOUS
  <1>1. AllRequests /\ \A r \in Requests : request[r] = Free
    BY FreeIsRequest DEF ProvisioningInit, HandlersInit, AllRequests
  <1>2. ProvisioningShape /\ ApprovedAreMembers /\ JoinsSoon /\ OnePending
    BY DEF ProvisioningInit, ProvisioningShape, NoAsk, Ask, ApprovedAreMembers, JoinsSoon, OnePending
  <1> QED
    BY <1>1, <1>2, FreeProvisioning DEF ProvisioningInv

\* The looks.
LEMMA CreateUserInv ==
  ASSUME ProvisioningInv, NEW r \in Requests, NEW p \in Places, NEW for, for \subseteq Asks,
         \A a \in for : ask[a].status # "NONE" /\ ask[a].place = p, CreateUser(r, p, for)
  PROVE  ProvisioningInv'
  <1> DEFINE k == [op |-> IF account.status = "DELETED" THEN "restore" ELSE "create",
                   reads |-> {"account"} \union for, fresh |-> TRUE, place |-> p, for |-> for]
  <1>1. k.op \in {"restore", "create"}
    OBVIOUS
  <1>2. IsRequest(k) /\ ProvisioningNamed(k, ask, account, member) /\ AskSeen(k, ask, account)
    BY <1>1 DEF IsRequest, ProvisioningNamed, AskSeen, Provides
  <1>3. request[r].op = "free" /\ Goes(r, k) /\ UNCHANGED provisioningRows
    BY DEF CreateUser, ReadsProvisioning, Begins
  <1> HIDE DEF k
  <1> QED
    BY <1>2, <1>3, ProvisioningGoes

LEMMA ProvisioningLooks ==
  ASSUME ProvisioningInv, NEW r \in Requests,
         \/ AskRead(r) \/ CreateUserRead(r) \/ ApproveAskRead(r) \/ RejectAskRead(r)
         \/ MoveUserRead(r) \/ DeleteUserRead(r)
  PROVE  ProvisioningInv'
  <1>1. CASE AskRead(r)
    <2>1. PICK p \in Places :
            ReadsProvisioning(r, [op |-> "ask", reads |-> Asks \union {"account"}, fresh |-> TRUE, place |-> p])
      BY <1>1 DEF AskRead
    <2> DEFINE k == [op |-> "ask", reads |-> Asks \union {"account"}, fresh |-> TRUE, place |-> p]
    <2>2. account = NoAccount => \A a \in Asks : ask[a].status # "PENDING"
      BY <1>1 DEF AskRead, MobileFree, NoAccount, Pending
    <2>3. IsRequest(k) /\ ProvisioningNamed(k, ask, account, member) /\ AskSeen(k, ask, account)
      BY <2>2 DEF IsRequest, ProvisioningNamed, AskSeen, Provides
    <2> QED
      BY <2>1, <2>3, ProvisioningGoes DEF ReadsProvisioning, Begins
  <1>2. CASE CreateUserRead(r)
    BY <1>2, CreateUserInv DEF CreateUserRead
  <1>3. CASE ApproveAskRead(r)
    <2>1. PICK a \in Pending : CreateUser(r, ask[a].place, {a})
      BY <1>3 DEF ApproveAskRead
    <2>2. a \in Asks /\ ask[a].status # "NONE" /\ ask[a].place \in Places
      BY DEF Pending, ProvisioningInv, ProvisioningShape
    <2> QED
      BY <2>1, <2>2, CreateUserInv
  <1>4. CASE RejectAskRead(r)
    <2>1. PICK a \in Pending :
            ReadsProvisioning(r, [op |-> "refuse", reads |-> {a}, fresh |-> TRUE, for |-> {a}])
      BY <1>4 DEF RejectAskRead
    <2> DEFINE k == [op |-> "refuse", reads |-> {a}, fresh |-> TRUE, for |-> {a}]
    <2>2. IsRequest(k) /\ ProvisioningNamed(k, ask, account, member) /\ AskSeen(k, ask, account)
      BY DEF IsRequest, ProvisioningNamed, AskSeen, Provides, Pending
    <2> QED
      BY <2>1, <2>2, ProvisioningGoes DEF ReadsProvisioning, Begins
  <1>5. CASE MoveUserRead(r)
    <2>1. PICK p \in Places :
            ReadsProvisioning(r, [op |-> "move", reads |-> {"account"}, fresh |-> TRUE, place |-> p])
      BY <1>5 DEF MoveUserRead
    <2> DEFINE k == [op |-> "move", reads |-> {"account"}, fresh |-> TRUE, place |-> p]
    <2>2. account # NoAccount
      BY <1>5 DEF MoveUserRead, NoAccount
    <2>3. IsRequest(k) /\ ProvisioningNamed(k, ask, account, member) /\ AskSeen(k, ask, account)
      BY <2>2 DEF IsRequest, ProvisioningNamed, AskSeen, Provides
    <2> QED
      BY <2>1, <2>3, ProvisioningGoes DEF ReadsProvisioning, Begins
  <1>6. CASE DeleteUserRead(r)
    <2> DEFINE k == [op |-> "delete", reads |-> {"account"}, fresh |-> TRUE]
    <2>1. account # NoAccount
      BY <1>6 DEF DeleteUserRead, NoAccount
    <2>2. IsRequest(k) /\ ProvisioningNamed(k, ask, account, member) /\ AskSeen(k, ask, account)
      BY <2>1 DEF IsRequest, ProvisioningNamed, AskSeen, Provides
    <2> QED
      BY <1>6, <2>2, ProvisioningGoes DEF DeleteUserRead, ReadsProvisioning, Begins
  <1> QED
    BY <1>1, <1>2, <1>3, <1>4, <1>5, <1>6

\* A person asks for an account; of two, the later has read too early.
LEMMA AskWriteInv ==
  ASSUME ProvisioningInv, NEW r \in Requests, AskWrite(r)
  PROVE  ProvisioningInv'
  <1> DEFINE p == request[r].place
             row == [status |-> "PENDING", place |-> p]
  <1>1. PICK a \in Asks : ask[a] = NoAsk /\ ask' = [ask EXCEPT ![a] = row] /\ Wrote(r, {a}, Free)
    BY DEF AskWrite
  <1>2. p \in Places /\ UNCHANGED <<account, member>> /\ ask \in [Asks -> Ask] /\ ask[a].status = "NONE"
    BY <1>1 DEF AskWrite, ProvisioningInv, ProvisioningNamed, ProvisioningShape, NoAsk
  <1>3. /\ ask'[a] = row /\ \A x \in Asks \ {a} : ask'[x] = ask[x]
        /\ ProvisioningShape' /\ ProvisioningStays({a}) /\ ApprovedAreMembers'
    BY <1>1, <1>2 DEF ProvisioningInv, ProvisioningShape, Ask, ProvisioningStays, ApprovedAreMembers
  <1>4. ~cut' => JoinsSoon'
    <2>1. \A q \in Requests : request[q].op = "join" =>
            request'[q].op = "join" /\ request'[q].place = request[q].place
      BY <1>1, WroteOver, FreeIsRequest DEF AskWrite, ProvisioningInv, ProvisioningNamed, Provides
    <2>2. cut' = cut
      BY <1>1 DEF Wrote
    <2> QED
      BY <2>1, <2>2, <1>2 DEF ProvisioningInv, JoinsSoon
  <1>5. request[r].fresh => OnePending'
    BY <1>1, <1>2, <1>3 DEF AskWrite, ProvisioningInv, AskSeen, OnePending
  <1> QED
    BY <1>1, <1>3, <1>4, <1>5, FreeProvisioning, FreeIsRequest, ProvisioningWrote

\* The others that are about to join still are.
LEMMA OthersJoin ==
  ASSUME ProvisioningInv, NEW r \in Requests, NEW W, NEW k, IsRequest(k), Wrote(r, W, k)
  PROVE  /\ cut' = cut
         /\ request'[r] = k
         /\ \A q \in Requests \ {r} : request[q].op = "join" =>
              request'[q].op = "join" /\ request'[q].place = request[q].place
  <1>1. cut' = cut
    BY DEF Wrote
  <1> QED
    BY <1>1, WroteOver DEF ProvisioningInv, ProvisioningNamed, Provides

LEMMA AccountCreateInv ==
  ASSUME ProvisioningInv, NEW r \in Requests, AccountCreate(r)
  PROVE  ProvisioningInv'
  <1> DEFINE k == [request[r] EXCEPT !.op = "join"]
  <1>1. /\ IsRequest(request[r]) /\ request[r].op \in {"create", "restore"}
        /\ ProvisioningNamed(request[r], ask, account, member)
    BY DEF AccountCreate, ProvisioningInv, AllRequests
  <1>2. /\ account' = [status |-> "ACTIVE", place |-> request[r].place]
        /\ Wrote(r, {"account"}, k) /\ UNCHANGED <<ask, member>>
        /\ request[r].place \in Places
    BY <1>1 DEF AccountCreate, ProvisioningNamed, Provides
  <1>3. account' # NoAccount
    BY <1>2 DEF NoAccount
  <1>4. /\ IsRequest(k) /\ k.op = "join" /\ DOMAIN k = DOMAIN request[r]
        /\ \A x \in DOMAIN request[r] \ {"op"} : k[x] = request[r][x]
    BY <1>1, OtherOp
  <1> HIDE DEF k
  <1>5. ProvisioningNamed(k, ask', account', member') /\ AskSeen(k, ask', account')
    BY <1>1, <1>2, <1>3, <1>4 DEF ProvisioningNamed, AskSeen, Provides
  <1>6. ProvisioningShape' /\ ProvisioningStays({"account"}) /\ ApprovedAreMembers' /\ OnePending'
    BY <1>2, <1>3 DEF ProvisioningInv, ProvisioningShape, ProvisioningStays, ApprovedAreMembers, OnePending
  <1>7. JoinsSoon'
    <2>1. request'[r] = k
      BY <1>2, <1>4, OthersJoin
    <2>2. k.place = request[r].place
      BY <1>1, <1>4 DEF ProvisioningNamed, Provides
    <2> QED
      BY <2>1, <2>2, <1>2, <1>4 DEF JoinsSoon
  <1> QED
    BY <1>2, <1>4, <1>5, <1>6, <1>7, ProvisioningWrote

LEMMA JoinWorkspaceInv ==
  ASSUME ProvisioningInv, NEW r \in Requests, JoinWorkspace(r)
  PROVE  ProvisioningInv'
  <1> DEFINE p == request[r].place
             j == [request[r] EXCEPT !.op = "done"]
             k == IF request[r].for = {} THEN Free ELSE j
  <1>1. /\ IsRequest(request[r]) /\ request[r].op = "join"
        /\ ProvisioningNamed(request[r], ask, account, member)
    BY DEF JoinWorkspace, ProvisioningInv, AllRequests
  <1>2. member' = member \union {p} /\ Wrote(r, {}, k) /\ UNCHANGED <<ask, account>>
    BY DEF JoinWorkspace
  <1>3. /\ IsRequest(j) /\ j.op = "done" /\ DOMAIN j = DOMAIN request[r]
        /\ \A x \in DOMAIN request[r] \ {"op"} : j[x] = request[r][x]
    BY <1>1, OtherOp
  <1> HIDE DEF j
  <1>4. ProvisioningNamed(j, ask', account', member') /\ AskSeen(j, ask', account')
    <2>1. p \in Places
      BY <1>1 DEF JoinWorkspace, ProvisioningNamed, Provides
    <2> QED
      BY <1>1, <1>2, <1>3, <2>1 DEF ProvisioningNamed, AskSeen, Provides
  <1>5. IsRequest(k) /\ ProvisioningNamed(k, ask', account', member') /\ AskSeen(k, ask', account')
    BY <1>3, <1>4, FreeProvisioning, FreeIsRequest
  <1> HIDE DEF k
  <1>6. /\ ProvisioningShape' /\ ProvisioningStays({}) /\ ApprovedAreMembers'
        /\ ~overtaken => OnePending'
    BY <1>2 DEF ProvisioningInv, ProvisioningShape, ProvisioningStays, ApprovedAreMembers, OnePending
  <1>7. ~cut' => JoinsSoon'
    <2> SUFFICES ASSUME ~cut', account' # NoAccount, account.place \notin member'
                 PROVE  \E q \in Requests : request'[q].op = "join" /\ request'[q].place = account'.place
      BY <1>2 DEF JoinsSoon
    <2>1. cut' = cut /\ \A q \in Requests \ {r} : request[q].op = "join" =>
                          request'[q].op = "join" /\ request'[q].place = request[q].place
      BY <1>2, <1>5, OthersJoin
    <2>2. PICK q \in Requests : request[q].op = "join" /\ request[q].place = account.place
      BY <1>2, <2>1 DEF ProvisioningInv, JoinsSoon
    <2>3. q # r
      BY <1>2, <2>2
    <2> QED
      BY <1>2, <2>1, <2>2, <2>3
  <1> QED
    BY <1>2, <1>5, <1>6, <1>7, ProvisioningWrote

\* The request is decided, as `status', whatever it has become.
LEMMA DecidedInv ==
  ASSUME ProvisioningInv, NEW r \in Requests, request[r].op \in {"done", "refuse"},
         NEW status \in {"APPROVED", "REJECTED"}, status = "APPROVED" => request[r].op = "done",
         ask' = [a \in Asks |-> IF a \in request[r].for THEN [ask[a] EXCEPT !.status = status] ELSE ask[a]],
         Wrote(r, request[r].for, Free), UNCHANGED <<account, member>>
  PROVE  ProvisioningInv'
  <1>1. ask \in [Asks -> Ask] /\ ProvisioningNamed(request[r], ask, account, member)
    BY DEF ProvisioningInv, ProvisioningShape
  <1>2. ASSUME NEW a \in Asks
        PROVE  /\ ask'[a] \in Ask /\ ask'[a].place = ask[a].place
               /\ IF a \in request[r].for THEN ask'[a].status = status /\ ask[a].status # "NONE"
                                          ELSE ask'[a] = ask[a]
    <2>1. ask[a] \in Ask /\ status \in {"NONE", "PENDING", "APPROVED", "REJECTED"}
      BY <1>1
    <2>2. a \in request[r].for => ask[a].status # "NONE"
      BY <1>1 DEF ProvisioningNamed, Provides
    <2>3. ask'[a] = IF a \in request[r].for THEN [ask[a] EXCEPT !.status = status] ELSE ask[a]
      OBVIOUS
    <2> QED
      BY <2>1, <2>2, <2>3 DEF Ask
  <1>3. ProvisioningShape' /\ ProvisioningStays(request[r].for)
    BY <1>1, <1>2 DEF ProvisioningInv, ProvisioningShape, ProvisioningStays
  <1>4. ApprovedAreMembers'
    <2> SUFFICES ASSUME NEW a \in Asks, ask'[a].status = "APPROVED"
                 PROVE  account # NoAccount /\ ask[a].place \in member
      BY <1>2 DEF ApprovedAreMembers
    <2>1. CASE a \in request[r].for
      BY <1>1, <1>2, <2>1 DEF ProvisioningNamed, Provides
    <2>2. CASE a \notin request[r].for
      BY <1>2, <2>2 DEF ProvisioningInv, ApprovedAreMembers
    <2> QED
      BY <2>1, <2>2
  <1>5. ~cut' => JoinsSoon'
    BY OthersJoin, FreeIsRequest DEF ProvisioningInv, JoinsSoon
  <1>6. ~overtaken => OnePending'
    BY <1>2 DEF ProvisioningInv, OnePending
  <1> QED
    BY <1>3, <1>4, <1>5, <1>6, FreeProvisioning, FreeIsRequest, ProvisioningWrote

LEMMA MoveUserWriteInv ==
  ASSUME ProvisioningInv, NEW r \in Requests, MoveUserWrite(r)
  PROVE  ProvisioningInv'
  <1>1. PICK p \in {request[r].place, NoPlace} :
          /\ account' = [account EXCEPT !.place = p]
          /\ Wrote(r, {"account"}, [op |-> "join", reads |-> {}, fresh |-> TRUE, place |-> p, for |-> {}])
          /\ UNCHANGED <<ask, member>>
    BY DEF MoveUserWrite
  <1> DEFINE k == [op |-> "join", reads |-> {}, fresh |-> TRUE, place |-> p, for |-> {}]
  <1>2. /\ p \in Places \union {NoPlace} /\ account # NoAccount
        /\ account \in [status : {"ACTIVE", "DELETED"}, place : Places \union {NoPlace}]
    BY DEF MoveUserWrite, ProvisioningInv, ProvisioningNamed, ProvisioningShape
  <1>3. account' \in [status : {"ACTIVE", "DELETED"}, place : Places \union {NoPlace}] /\ account'.place = p
    BY <1>2, <1>1
  <1>4. account' # NoAccount
    BY <1>3 DEF NoAccount
  <1>5. IsRequest(k) /\ ProvisioningNamed(k, ask', account', member') /\ AskSeen(k, ask', account')
    BY <1>2, <1>4 DEF IsRequest, ProvisioningNamed, AskSeen, Provides
  <1>6. ProvisioningShape' /\ ProvisioningStays({"account"}) /\ ApprovedAreMembers' /\ OnePending'
    BY <1>1, <1>3, <1>4 DEF ProvisioningInv, ProvisioningShape, ProvisioningStays, ApprovedAreMembers, OnePending
  <1>7. JoinsSoon'
    BY <1>1, <1>3, <1>5, OthersJoin DEF JoinsSoon
  <1> QED
    BY <1>1, <1>5, <1>6, <1>7, ProvisioningWrote

LEMMA DeleteUserWriteInv ==
  ASSUME ProvisioningInv, NEW r \in Requests, DeleteUserWrite(r)
  PROVE  ProvisioningInv'
  <1>1. account # NoAccount /\ account \in [status : {"ACTIVE", "DELETED"}, place : Places \union {NoPlace}]
    BY DEF DeleteUserWrite, ProvisioningInv, ProvisioningNamed, ProvisioningShape
  <1>2. account' = [account EXCEPT !.status = "DELETED"] /\ Wrote(r, {"account"}, Free) /\ UNCHANGED <<ask, member>>
    BY DEF DeleteUserWrite
  <1>3. /\ account' \in [status : {"ACTIVE", "DELETED"}, place : Places \union {NoPlace}]
        /\ account'.place = account.place
    BY <1>1, <1>2
  <1>4. account' # NoAccount
    BY <1>3 DEF NoAccount
  <1>5. ProvisioningShape' /\ ProvisioningStays({"account"}) /\ ApprovedAreMembers' /\ OnePending'
    BY <1>2, <1>3, <1>4 DEF ProvisioningInv, ProvisioningShape, ProvisioningStays, ApprovedAreMembers, OnePending
  <1>6. ~cut' => JoinsSoon'
    <2>1. request[r].op # "join"
      BY DEF DeleteUserWrite
    <2> QED
      BY <2>1, <1>1, <1>2, <1>3, OthersJoin, FreeIsRequest DEF ProvisioningInv, JoinsSoon
  <1> QED
    BY <1>2, <1>5, <1>6, FreeProvisioning, FreeIsRequest, ProvisioningWrote

LEMMA ProvisioningStep ==
  ASSUME ProvisioningInv, [ProvisioningNext]_provisioningVars
  PROVE  ProvisioningInv'
  <1>1. CASE UNCHANGED provisioningVars
    BY <1>1 DEF provisioningVars, provisioningRows, handlerVars, ProvisioningInv, AllRequests,
       ProvisioningShape, ApprovedAreMembers, JoinsSoon, OnePending
  <1>2. ASSUME NEW r \in Requests, ApproveAskWrite(r) PROVE ProvisioningInv'
    BY <1>2, DecidedInv DEF ApproveAskWrite
  <1>3. ASSUME NEW r \in Requests, RejectAskWrite(r) PROVE ProvisioningInv'
    BY <1>3, DecidedInv DEF RejectAskWrite
  <1> QED
    BY <1>1, <1>2, <1>3, ProvisioningLooks, AskWriteInv, AccountCreateInv, JoinWorkspaceInv,
       MoveUserWriteInv, DeleteUserWriteInv, ProvisioningEnds DEF ProvisioningNext

\* A request is approved only for a person who has an account and the
\* membership that was asked for, whichever handlers end halfway or are
\* overtaken; undisturbed, an account is a member of its place and an asker
\* asks once.
THEOREM ApprovedHaveAccounts == ProvisioningSpec => []AccountsAreMembers
  <1>1. ProvisioningInv /\ [ProvisioningNext]_provisioningVars => ProvisioningInv'
    BY ProvisioningStep
  <1>2. ProvisioningInv => AccountsAreMembers
    <2> SUFFICES ASSUME ProvisioningInv PROVE AccountsAreMembers
      OBVIOUS
    <2>1. ASSUME OnePending, account = NoAccount PROVE Cardinality(Pending) <= 1
      <3>1. Pending = {} \/ \E a \in Asks : Pending = {a}
        BY <2>1 DEF OnePending, Pending
      <3>2. Cardinality(Pending) = 0 \/ Cardinality(Pending) = 1
        <4>1. CASE Pending = {}
          BY <4>1, FS_EmptySet
        <4>2. CASE \E a \in Asks : Pending = {a}
          BY <4>2, FS_Singleton
        <4> QED
          BY <3>1, <4>1, <4>2
      <3> QED
        BY <3>2
    <2>2. JoinsSoon /\ (\A r \in Requests : ~ProvisioningHalfway(r)) /\ account # NoAccount =>
            account.place \in member
      BY DEF JoinsSoon, ProvisioningHalfway
    <2> QED
      BY <2>1, <2>2 DEF ProvisioningInv, ApprovedAreMembers, AccountsAreMembers, Undisturbed
  <1> QED
    BY <1>1, <1>2, ProvisioningInvInit, PTL DEF ProvisioningSpec

-----------------------------------------------------------------------------
(* KYC: the handlers keep their type.                                      *)

\* The idle handler is a request.
LEMMA FreeIsKycRequest == Free \in KycRequest
  BY DEF KycRequest

\* Free is the one record of its fields.
LEMMA OnlyFree ==
  ASSUME NEW k \in [op : {"free"}, reads : {{}}, fresh : {TRUE}]
  PROVE  k = Free
  BY DEF Free

\* Losing freshness does not change what a request is about to do.
LEMMA StaleRequest ==
  ASSUME NEW k \in KycRequest, NEW f \in BOOLEAN, k # Free \/ f
  PROVE  /\ [k EXCEPT !.fresh = f] \in KycRequest
         /\ [k EXCEPT !.fresh = f].op = k.op
         /\ k.op # "free" => [k EXCEPT !.fresh = f].row = k.row
  <1>1. CASE k = Free
    <2>1. f = TRUE
      BY <1>1
    <2>2. [Free EXCEPT !.fresh = TRUE] \in [op : {"free"}, reads : {{}}, fresh : {TRUE}]
      BY DEF Free
    <2>3. [Free EXCEPT !.fresh = TRUE] = Free
      BY <2>2, OnlyFree
    <2> QED
      BY <1>1, <2>1, <2>3, FreeIsKycRequest DEF Free
  <1>2. CASE k \in [op : {"status", "resubmit", "apply", "account", "ownAccount", "copy", "wallet"},
                    reads : SUBSET {"applicant"}, fresh : BOOLEAN, row : Applicant]
    BY <1>2 DEF KycRequest
  <1>3. CASE k \in [op : {"sign", "count"}, reads : SUBSET {"applicant"}, fresh : BOOLEAN,
                    row : Applicant, by : Approvers]
    BY <1>3 DEF KycRequest
  <1> QED
    BY <1>1, <1>2, <1>3 DEF KycRequest

\* And the idle handler has nothing to lose.
LEMMA RequestFreshness ==
  ASSUME NEW k \in KycRequest
  PROVE  k.fresh \in BOOLEAN /\ (k = Free => k.fresh /\ k.reads = {})
  <1>1. CASE k = Free
    BY <1>1 DEF Free
  <1>2. CASE k # Free
    BY <1>2 DEF KycRequest
  <1> QED
    BY <1>1, <1>2

\* A handler that goes on as a well-typed request.
LEMMA GoesType ==
  ASSUME NEW r \in Requests, NEW k \in KycRequest, request \in [Requests -> KycRequest], Goes(r, k)
  PROVE  /\ request' \in [Requests -> KycRequest]
         /\ request'[r] = k
         /\ \A q \in Requests \ {r} : request'[q] = request[q]
  BY DEF Goes

\* A handler that writes and goes on as a well-typed request.
LEMMA WroteType ==
  ASSUME NEW r \in Requests, NEW W, NEW k \in KycRequest, request \in [Requests -> KycRequest],
         Wrote(r, W, k)
  PROVE  /\ request' \in [Requests -> KycRequest]
         /\ request'[r] = k
         /\ \A q \in Requests \ {r} :
              /\ request'[q].op = request[q].op
              /\ request[q].op # "free" => request'[q].row = request[q].row
  <1>1. \A q \in Requests \ {r} :
          request'[q] = [request[q] EXCEPT !.fresh = @ /\ request[q].reads \intersect W = {}]
    BY DEF Wrote
  <1>2. request'[r] = k /\ request' = [q \in Requests |-> request'[q]]
    BY DEF Wrote
  <1>3. \A q \in Requests \ {r} :
          /\ request'[q] \in KycRequest
          /\ request'[q].op = request[q].op
          /\ request[q].op # "free" => request'[q].row = request[q].row
    <2> TAKE q \in Requests \ {r}
    <2> DEFINE f == request[q].fresh /\ request[q].reads \intersect W = {}
    <2>1. request[q] \in KycRequest
      OBVIOUS
    <2>2. f \in BOOLEAN /\ (request[q] # Free \/ f)
      BY <2>1, RequestFreshness
    <2>3. request'[q] = [request[q] EXCEPT !.fresh = f]
      BY <1>1
    <2> HIDE DEF f
    <2> QED
      BY <2>1, <2>2, <2>3, StaleRequest
  <1> QED
    BY <1>2, <1>3

-----------------------------------------------------------------------------
(* The inductive invariant.                                                *)

\* Only Count lets a household be approved, and approvals are never taken
\* back: an approval about to be written has its quorum.  An application is
\* about to be PENDING.
Counted ==
  \A r \in Requests :
    /\ kind = "household" /\ request[r].op = "status" /\ request[r].row.status = "APPROVED" =>
         Cardinality(signed) >= Quorum
    /\ request[r].op = "apply" => request[r].row.status = "PENDING"

\* What a household needs to be approved rests on.
KycInv == KycTypeOK /\ Counted

\* More approvals are at least as many.
LEMMA MoreApprovals ==
  ASSUME signed \subseteq Approvers, signed' \subseteq Approvers, signed \subseteq signed'
  PROVE  /\ Cardinality(signed) \in Nat
         /\ Cardinality(signed') \in Nat
         /\ Cardinality(signed) <= Cardinality(signed')
  BY KycAssumption, FS_Subset, FS_CardinalityType

\* A handler that writes nothing keeps the invariant, if what it goes on with
\* has its quorum.
LEMMA GoesInv ==
  ASSUME KycInv, NEW r \in Requests, NEW k \in KycRequest, Goes(r, k), UNCHANGED kycRows,
         kind = "household" /\ k.op = "status" /\ k.row.status = "APPROVED" =>
           Cardinality(signed) >= Quorum,
         k.op = "apply" => k.row.status = "PENDING"
  PROVE  KycInv'
  <1>1. KycTypeOK'
    BY GoesType DEF KycInv, KycTypeOK, kycRows
  <1>2. Counted'
    BY GoesType DEF KycInv, KycTypeOK, Counted, kycRows
  <1> QED
    BY <1>1, <1>2 DEF KycInv

\* So does one that writes, if it goes on with no status to write.
LEMMA WroteInv ==
  ASSUME KycInv, NEW r \in Requests, NEW W, NEW k \in KycRequest, Wrote(r, W, k), k.op \notin {"status", "apply"},
         kind' = kind, applicant' \in Applicant, copy' \in Applicant, wallet' \in BOOLEAN,
         signed' \subseteq Approvers, signed \subseteq signed'
  PROVE  KycInv'
  <1>1. /\ request' \in [Requests -> KycRequest]
        /\ request'[r] = k
        /\ \A q \in Requests \ {r} :
             /\ request'[q].op = request[q].op
             /\ request[q].op # "free" => request'[q].row = request[q].row
    BY WroteType DEF KycInv, KycTypeOK
  <1>2. KycTypeOK'
    BY <1>1 DEF KycInv, KycTypeOK
  <1>3. Cardinality(signed) \in Nat /\ Cardinality(signed') \in Nat
        /\ Cardinality(signed) <= Cardinality(signed')
    BY MoreApprovals DEF KycInv, KycTypeOK
  <1>4. Counted'
    <2>1. ASSUME NEW q \in Requests, kind = "household", request'[q].op = "status",
                 request'[q].row.status = "APPROVED"
          PROVE  Cardinality(signed') >= Quorum
      <3>1. q # r
        BY <1>1, <2>1
      <3>2. request[q].op = "status" /\ request[q].row.status = "APPROVED"
        BY <1>1, <2>1, <3>1
      <3>3. Cardinality(signed) >= Quorum
        BY <2>1, <3>2 DEF KycInv, Counted
      <3> QED
        BY <1>3, <3>3, KycAssumption
    <2>2. ASSUME NEW q \in Requests, request'[q].op = "apply"
          PROVE  request'[q].row.status = "PENDING"
      BY <1>1, <2>2 DEF KycInv, Counted
    <2> QED
      BY <2>1, <2>2 DEF Counted
  <1> QED
    BY <1>2, <1>4 DEF KycInv

\* A request that writes nothing yet: about to write the copy with another
\* status or account.
LEMMA LooksType ==
  ASSUME KycTypeOK, NEW op \in {"status", "resubmit", "account", "ownAccount"}, NEW row \in Applicant
  PROVE  Looks(op, row) \in KycRequest /\ Looks(op, row).op = op /\ Looks(op, row).row = row
  BY DEF Looks, KycRequest, KycTypeOK

\* One reviewer does not approve a household.
LEMMA DecisionInv ==
  ASSUME KycInv, NEW r \in Requests, NEW t \in ApprovalStatus, Decides(r, t),
         kind = "household" => t # "APPROVED"
  PROVE  KycInv'
  <1> DEFINE k == Looks("status", [copy EXCEPT !.status = t])
  <1>1. [copy EXCEPT !.status = t] \in Applicant /\ [copy EXCEPT !.status = t].status = t
    BY DEF KycInv, KycTypeOK, Applicant
  <1>2. k \in KycRequest /\ k.row.status = t /\ k.op = "status"
    BY <1>1, LooksType DEF KycInv
  <1>3. Goes(r, k) /\ UNCHANGED kycRows
    BY DEF Decides, KycReads, Begins
  <1> HIDE DEF k
  <1> QED
    BY <1>2, <1>3, GoesInv

\* Approval of a household: each step keeps the invariant.
LEMMA ApprovalInv ==
  ASSUME KycInv, NEW r \in Requests, SignRead(r) \/ Sign(r) \/ Count(r) \/ OpenWallet(r)
  PROVE  KycInv'
  <1>1. CASE SignRead(r)
    <2>1. PICK u \in Approvers :
            KycReads(r, [op |-> "sign", reads |-> {"applicant"}, fresh |-> copy = applicant,
                         row |-> copy, by |-> u])
      BY <1>1 DEF SignRead
    <2> DEFINE k == [op |-> "sign", reads |-> {"applicant"}, fresh |-> copy = applicant,
                     row |-> copy, by |-> u]
    <2>2. k \in KycRequest /\ k.op = "sign"
      BY DEF KycInv, KycTypeOK, KycRequest
    <2>3. Goes(r, k) /\ UNCHANGED kycRows
      BY <2>1 DEF KycReads, Begins
    <2> HIDE DEF k
    <2> QED
      BY <2>2, <2>3, GoesInv
  <1>2. CASE Sign(r)
    <2> DEFINE k == [request[r] EXCEPT !.op = "count"]
    <2>1. request[r] \in [op : {"sign", "count"}, reads : SUBSET {"applicant"}, fresh : BOOLEAN,
                          row : Applicant, by : Approvers]
      BY <1>2 DEF Sign, KycInv, KycTypeOK, KycRequest, Free
    <2>2. k \in KycRequest /\ k.op = "count" /\ request[r].by \in Approvers
      BY <2>1 DEF KycRequest
    <2>3. Wrote(r, {}, k) /\ signed' = signed \union {request[r].by}
          /\ UNCHANGED <<kind, applicant, copy, wallet>>
      BY <1>2 DEF Sign
    <2> HIDE DEF k
    <2> QED
      BY <2>2, <2>3, WroteInv DEF KycInv, KycTypeOK
  <1>3. CASE Count(r)
    <2>1. request[r] \in [op : {"sign", "count"}, reads : SUBSET {"applicant"}, fresh : BOOLEAN,
                          row : Applicant, by : Approvers]
      BY <1>3 DEF Count, KycInv, KycTypeOK, KycRequest, Free
    <2>2. UNCHANGED kycRows
      BY <1>3 DEF Count
    <2>3. CASE Cardinality(signed) < Quorum
      BY <1>3, <2>2, <2>3, FreeIsKycRequest, GoesInv DEF Count, Free
    <2>4. CASE ~(Cardinality(signed) < Quorum)
      <3> DEFINE k == [op |-> "status", reads |-> request[r].reads, fresh |-> request[r].fresh,
                       row |-> [request[r].row EXCEPT !.status = "APPROVED"]]
      <3>1. k \in KycRequest /\ k.op = "status"
        BY <2>1 DEF KycRequest, Applicant, ApprovalStatus
      <3>2. Goes(r, k)
        BY <1>3, <2>4 DEF Count
      <3>3. Cardinality(signed) >= Quorum
        BY <2>4, KycAssumption, FS_Subset, FS_CardinalityType DEF KycInv, KycTypeOK
      <3> HIDE DEF k
      <3> QED
        BY <2>2, <3>1, <3>2, <3>3, GoesInv
    <2> QED
      BY <2>3, <2>4
  <1>4. CASE OpenWallet(r)
    <2> DEFINE k == [request[r] EXCEPT !.op = "copy"]
    <2>1. k \in KycRequest /\ k.op = "copy"
      BY <1>4 DEF OpenWallet, KycInv, KycTypeOK, KycRequest, Free
    <2>2. Wrote(r, {}, k) /\ wallet' = TRUE /\ UNCHANGED <<kind, applicant, copy, signed>>
      BY <1>4 DEF OpenWallet
    <2> HIDE DEF k
    <2> QED
      BY <2>1, <2>2, WroteInv DEF KycInv, KycTypeOK
  <1> QED
    BY <1>1, <1>2, <1>3, <1>4

\* The decisions of one reviewer, and the request for a correction.
LEMMA ReviewInv ==
  ASSUME KycInv, NEW r \in Requests,
         \/ householdAction(r) \/ driverAction(r) \/ fleetOwnerAction(r) \/ vehicleAction(r)
         \/ CorrectionRead(r)
  PROVE  KycInv'
  <1>1. CASE householdAction(r)
    BY <1>1, DecisionInv DEF householdAction, RejectsOrSuspends, ApprovalStatus
  <1>2. CASE driverAction(r) \/ fleetOwnerAction(r) \/ vehicleAction(r)
    <2>1. kind # "household" /\ Reviews(r)
      BY <1>2 DEF driverAction, fleetOwnerAction, vehicleAction
    <2> QED
      BY <2>1, DecisionInv DEF Reviews, RejectsOrSuspends, ApprovalStatus
  <1>3. CASE CorrectionRead(r)
    BY <1>3, DecisionInv DEF CorrectionRead, Decides, ApprovalStatus
  <1> QED
    BY <1>1, <1>2, <1>3

\* What the applicant and the cooperative are about to change.
LEMMA ApplicantReadInv ==
  ASSUME KycInv, NEW r \in Requests,
         \/ ResubmitRead(r) \/ AccountRead(r) \/ OwnAccountRead(r)
         \/ HouseholdApplies(r) \/ DriverApplies(r) \/ FleetOwnerApplies(r) \/ VehicleApplies(r)
  PROVE  KycInv'
  <1>1. CASE ResubmitRead(r)
    <2> DEFINE k == Looks("resubmit", copy)
    <2>1. k \in KycRequest /\ k.op = "resubmit"
      BY LooksType DEF KycInv, KycTypeOK
    <2>2. Goes(r, k) /\ UNCHANGED kycRows
      BY <1>1 DEF ResubmitRead, KycReads, Begins
    <2> HIDE DEF k
    <2> QED
      BY <2>1, <2>2, GoesInv
  <1>2. CASE AccountRead(r) \/ OwnAccountRead(r)
    <2>1. PICK i \in Ibans \union {NoIban}, op \in {"account", "ownAccount"} :
            KycReads(r, Looks(op, [copy EXCEPT !.iban = i]))
      BY <1>2 DEF AccountRead, OwnAccountRead, Accounts
    <2> DEFINE k == Looks(op, [copy EXCEPT !.iban = i])
    <2>2. [copy EXCEPT !.iban = i] \in Applicant
      BY DEF KycInv, KycTypeOK, Applicant
    <2>3. k \in KycRequest /\ k.op \notin {"status", "apply"}
      BY <2>2, LooksType DEF KycInv
    <2>4. Goes(r, k) /\ UNCHANGED kycRows
      BY <2>1 DEF KycReads, Begins
    <2> HIDE DEF k
    <2> QED
      BY <2>3, <2>4, GoesInv
  <1>3. CASE HouseholdApplies(r) \/ DriverApplies(r) \/ FleetOwnerApplies(r) \/ VehicleApplies(r)
    <2>1. PICK i \in Accounts :
            KycReads(r, [op |-> "apply", reads |-> {}, fresh |-> TRUE,
                         row |-> [status |-> "PENDING", iban |-> i]])
      BY <1>3 DEF HouseholdApplies, DriverApplies, FleetOwnerApplies, VehicleApplies, Applies
    <2> DEFINE k == [op |-> "apply", reads |-> {}, fresh |-> TRUE,
                     row |-> [status |-> "PENDING", iban |-> i]]
    <2>2. k \in KycRequest /\ k.op = "apply" /\ k.row.status = "PENDING"
      BY DEF KycRequest, Accounts, Applicant, ApprovalStatus
    <2>3. Goes(r, k) /\ UNCHANGED kycRows
      BY <2>1 DEF KycReads, Begins
    <2> HIDE DEF k
    <2> QED
      BY <2>2, <2>3, GoesInv
  <1> QED
    BY <1>1, <1>2, <1>3

\* A request that has read an applicant.
LEMMA RowType ==
  ASSUME KycTypeOK, NEW r \in Requests, request[r].op # "free"
  PROVE  /\ request[r].row \in Applicant
         /\ request[r].row.status \in ApprovalStatus
         /\ request[r].row.iban \in Ibans \union {NoIban}
  <1>1. request[r].row \in Applicant
    BY DEF KycTypeOK, KycRequest, Free
  <1> QED
    BY <1>1 DEF Applicant

\* A write of the row goes on with a request that will write the copy.
LEMMA WritesInv ==
  ASSUME KycInv, NEW r \in Requests, NEW new \in Applicant, NEW row \in Applicant,
         NEW op \in {"copy", "wallet"},
         request[r].op \in {"status", "resubmit", "apply", "account", "ownAccount", "copy"},
         WritesApplicant(r, new, op, row), UNCHANGED <<kind, copy, signed, wallet>>
  PROVE  KycInv'
  <1> DEFINE k == [request[r] EXCEPT !.op = op, !.row = row]
  <1>1. request[r] \in [op : {"status", "resubmit", "apply", "account", "ownAccount", "copy", "wallet"},
                        reads : SUBSET {"applicant"}, fresh : BOOLEAN, row : Applicant]
    BY DEF KycInv, KycTypeOK, KycRequest, Free
  <1>2. k \in KycRequest /\ k.op \notin {"status", "apply"}
    BY <1>1 DEF KycRequest
  <1>3. Wrote(r, {"applicant"}, k) /\ applicant' = new
    BY DEF WritesApplicant
  <1> HIDE DEF k
  <1> QED
    BY <1>2, <1>3, WroteInv DEF KycInv, KycTypeOK

\* The writes.
LEMMA WriteInv ==
  ASSUME KycInv, NEW r \in Requests,
         \/ StatusWrite(r) \/ ResubmitWrite(r) \/ AccountWrite(r) \/ OwnAccountWrite(r)
         \/ ApplyWrite(r) \/ CopyWrite(r)
  PROVE  KycInv'
  <1> DEFINE k == request[r]
  <1>1. k.row \in Applicant /\ k.row.status \in ApprovalStatus /\ k.row.iban \in Ibans \union {NoIban}
    BY RowType DEF KycInv, StatusWrite, ResubmitWrite, AccountWrite, OwnAccountWrite, ApplyWrite, CopyWrite
  <1>2. /\ [applicant EXCEPT !.status = k.row.status] \in Applicant
        /\ [applicant EXCEPT !.status = "PENDING"] \in Applicant
        /\ [applicant EXCEPT !.iban = k.row.iban] \in Applicant
        /\ [k.row EXCEPT !.iban = applicant.iban] \in Applicant
    BY <1>1 DEF KycInv, KycTypeOK, Applicant, ApprovalStatus
  <1>3. CASE StatusWrite(r)
    <2> DEFINE op == IF kind = "household" /\ k.row.status = "APPROVED" THEN "wallet" ELSE "copy"
    <2>1. WritesApplicant(r, [applicant EXCEPT !.status = k.row.status], op, k.row)
          /\ UNCHANGED <<kind, copy, signed, wallet>> /\ k.op = "status"
      BY <1>3 DEF StatusWrite
    <2>2. op \in {"copy", "wallet"}
      OBVIOUS
    <2> HIDE DEF op
    <2> QED
      BY <1>1, <1>2, <2>1, <2>2, WritesInv
  <1>4. CASE ResubmitWrite(r)
    BY <1>2, <1>4, WritesInv DEF ResubmitWrite
  <1>5. CASE AccountWrite(r)
    BY <1>2, <1>5, WritesInv DEF AccountWrite
  <1>6. CASE OwnAccountWrite(r)
    BY <1>1, <1>2, <1>6, WritesInv DEF OwnAccountWrite
  <1>7. CASE ApplyWrite(r)
    <2> DEFINE row == IF k.row.iban = NoIban THEN [k.row EXCEPT !.iban = applicant.iban] ELSE k.row
               next == [k EXCEPT !.op = "copy", !.reads = {"applicant"}, !.row = row]
    <2>1. row \in Applicant
      BY <1>1, <1>2
    <2>2. k \in [op : {"status", "resubmit", "apply", "account", "ownAccount", "copy", "wallet"},
                 reads : SUBSET {"applicant"}, fresh : BOOLEAN, row : Applicant]
      BY <1>7 DEF ApplyWrite, KycInv, KycTypeOK, KycRequest, Free
    <2>3. Wrote(r, {"applicant"}, next) /\ applicant' = row /\ UNCHANGED <<kind, copy, signed, wallet>>
      BY <1>7 DEF ApplyWrite
    <2> HIDE DEF row
    <2>4. next \in KycRequest /\ next.op = "copy"
      BY <2>1, <2>2 DEF KycRequest
    <2> HIDE DEF next
    <2> QED
      BY <2>1, <2>3, <2>4, WroteInv DEF KycInv, KycTypeOK
  <1>8. CASE CopyWrite(r)
    <2>1. Wrote(r, {"applicant"}, Free) /\ copy' = k.row /\ UNCHANGED <<kind, applicant, signed, wallet>>
      BY <1>8 DEF CopyWrite
    <2>2. Free \in KycRequest /\ Free.op = "free"
      BY FreeIsKycRequest DEF Free
    <2> QED
      BY <1>1, <2>1, <2>2, WroteInv DEF KycInv, KycTypeOK
  <1> QED
    BY <1>3, <1>4, <1>5, <1>6, <1>7, <1>8

\* Handlers that end, and the restart.
LEMMA EndsInv ==
  ASSUME KycInv,
         \/ \E r \in Requests : Ends(r, KycHalfway(r)) /\ UNCHANGED kycRows
         \/ KycRestart
  PROVE  KycInv'
  <1>1. CASE \E r \in Requests : Ends(r, KycHalfway(r)) /\ UNCHANGED kycRows
    BY <1>1, FreeIsKycRequest DEF Ends, KycInv, KycTypeOK, Counted, kycRows, Free
  <1>2. CASE KycRestart
    BY <1>2, FreeIsKycRequest DEF KycRestart, KycInv, KycTypeOK, Counted, Free
  <1> QED
    BY <1>1, <1>2

LEMMA KycInvInit == KycInit => KycInv
  <1> SUFFICES ASSUME KycInit
               PROVE  KycInv
    OBVIOUS
  <1>1. request = [r \in Requests |-> Free] /\ kind \in Kinds /\ copy = applicant /\ signed = {}
    BY DEF KycInit, HandlersInit
  <1>2. applicant \in Applicant /\ wallet \in BOOLEAN
    <2>1. CASE Requested
      <3>1. PICK i \in Accounts : applicant = [status |-> "PENDING", iban |-> i]
        BY <2>1 DEF Requested
      <3>2. i \in Ibans \union {NoIban} /\ wallet = FALSE
        BY <2>1 DEF Requested, Accounts
      <3> QED
        BY <3>1, <3>2 DEF Applicant, ApprovalStatus
    <2>2. CASE Registered
      <3>1. PICK i \in Ibans : applicant = [status |-> "PENDING", iban |-> i]
        BY <2>2 DEF Registered
      <3> QED
        BY <2>2, <3>1 DEF Registered, Applicant, ApprovalStatus
    <2>3. CASE Imported
      <3>1. PICK s \in {"PENDING", "APPROVED"} : applicant = [status |-> s, iban |-> NoIban]
        BY <2>3 DEF Imported, defaultImportStatus
      <3>2. wallet = TRUE
        BY <2>3 DEF Imported
      <3> QED
        BY <3>1, <3>2 DEF Applicant, ApprovalStatus
    <2> QED
      BY <2>1, <2>2, <2>3 DEF KycInit
  <1>3. KycTypeOK
    BY <1>1, <1>2, FreeIsKycRequest DEF KycTypeOK
  <1>4. Counted
    BY <1>1 DEF Counted, Free
  <1> QED
    BY <1>3, <1>4 DEF KycInv

LEMMA KycInvStep == KycInv /\ [KycNext]_kycVars => KycInv'
  <1> SUFFICES ASSUME KycInv, [KycNext]_kycVars
               PROVE  KycInv'
    OBVIOUS
  <1>1. CASE UNCHANGED kycVars
    BY <1>1 DEF kycVars, kycRows, handlerVars, KycInv, KycTypeOK, Counted
  <1>2. CASE KycNext
    BY <1>2, ApprovalInv, ReviewInv, ApplicantReadInv, WriteInv, EndsInv DEF KycNext
  <1> QED
    BY <1>1, <1>2

-----------------------------------------------------------------------------
\* Every request is about to do something a handler of coopKyc.ts does, with
\* an applicant it has read.
THEOREM KycTypes == KycSpec => []KycTypeOK
  <1>1. KycInv => KycTypeOK
    BY DEF KycInv
  <1> QED
    BY KycInvInit, KycInvStep, <1>1, PTL DEF KycSpec

\* HH-KYC-COMMITTEE-1, for every quorum and any number of reviewers and
\* overlapping handlers: the check of the count and the write of the status
\* are two steps, and no step between them takes an approval away.
THEOREM HouseholdsNeedQuorum == KycSpec => QuorumReached
  <1>1. KycInv /\ [KycNext]_kycVars =>
          [kind = "household" /\ applicant.status # "APPROVED" /\ applicant'.status = "APPROVED" =>
             Cardinality(signed) >= Quorum]_kycVars
    <2> SUFFICES ASSUME KycInv, KycNext, kind = "household", applicant.status # "APPROVED",
                        applicant'.status = "APPROVED"
                 PROVE  Cardinality(signed) >= Quorum
      BY DEF kycVars, kycRows
    <2>1. PICK r \in Requests :
            \/ StatusWrite(r) \/ ResubmitWrite(r) \/ AccountWrite(r) \/ OwnAccountWrite(r) \/ ApplyWrite(r)
      BY DEF KycNext, SignRead, Sign, Count, OpenWallet, householdAction, driverAction, fleetOwnerAction,
             vehicleAction, Reviews, RejectsOrSuspends, Decides, CorrectionRead, ResubmitRead, AccountRead,
             OwnAccountRead, HouseholdApplies, DriverApplies, FleetOwnerApplies, VehicleApplies, Applies,
             KycReads, kycRows, CopyWrite, KycRestart
    <2>2. applicant.status \in ApprovalStatus /\ applicant \in Applicant
      BY DEF KycInv, KycTypeOK, Applicant
    <2>3. request[r].op # "free" => request[r].row \in Applicant
      BY RowType DEF KycInv
    <2>4. CASE StatusWrite(r)
      <3>1. request[r].op = "status" /\ applicant' = [applicant EXCEPT !.status = request[r].row.status]
        BY <2>4 DEF StatusWrite, WritesApplicant
      <3>2. request[r].row.status = "APPROVED"
        BY <2>2, <3>1 DEF Applicant
      <3> QED
        BY <3>1, <3>2 DEF KycInv, Counted
    <2>5. CASE ResubmitWrite(r)
      <3>1. applicant' = [applicant EXCEPT !.status = "PENDING"]
        BY <2>5 DEF ResubmitWrite, WritesApplicant
      <3> QED
        BY <2>2, <3>1 DEF Applicant
    <2>6. CASE AccountWrite(r) \/ OwnAccountWrite(r)
      <3>1. applicant' = [applicant EXCEPT !.iban = request[r].row.iban]
        BY <2>6 DEF AccountWrite, OwnAccountWrite, WritesApplicant
      <3> QED
        BY <2>2, <3>1 DEF Applicant
    <2>7. CASE ApplyWrite(r)
      <3>1. request[r].op = "apply" /\ applicant' \in {request[r].row, [request[r].row EXCEPT !.iban = applicant.iban]}
        BY <2>7 DEF ApplyWrite
      <3>2. request[r].row.status = "PENDING" /\ request[r].row \in Applicant
        BY <2>3, <3>1 DEF KycInv, Counted
      <3> QED
        BY <3>1, <3>2 DEF Applicant
    <2> QED
      BY <2>1, <2>4, <2>5, <2>6, <2>7
  <1> QED
    BY KycInvInit, KycInvStep, <1>1, PTL DEF KycSpec, QuorumReached

-----------------------------------------------------------------------------
(* The copy.                                                               *)

\* An approved household has its wallet.
HasWallet(a, has) == kind = "household" /\ a.status = "APPROVED" => has

\* A handler that has looked at the applicant says so, and a fresh one knows
\* the row `a'.
KycSeen(k, a) ==
  /\ k.op \notin {"free", "apply"} => "applicant" \in k.reads
  /\ k.fresh =>
       /\ k.op \in {"sign", "count", "copy", "wallet"} => k.row = a
       /\ k.op = "status" => k.row = [a EXCEPT !.status = k.row.status]
       /\ k.op \in {"account", "ownAccount"} => k.row = [a EXCEPT !.iban = k.row.iban]
       /\ k.op \in {"sign", "count", "status", "resubmit"} => a.status \notin {"REJECTED", "SUSPENDED"}

\* So it is for every request in flight.
AllSeen == \A r \in Requests : KycSeen(request[r], applicant)

\* Unless a handler was overtaken or cut, an approved row gets into the copy
\* when its wallet is there, and who has not put his row there yet is at it.
CopyOwed ==
  ~overtaken /\ ~cut =>
    /\ HasWallet(copy, wallet)
    /\ \A r \in Requests :
         request[r].op \in {"account", "ownAccount", "copy"} => HasWallet(request[r].row, wallet)
    /\ (\A r \in Requests : request[r].op \notin {"copy", "wallet"}) => copy = applicant

\* What the copy rests on.
CopyInv == KycInv /\ AllSeen /\ CopyOwed

LEMMA KycRequests == ASSUME KycTypeOK PROVE AllRequests
  <1>1. ASSUME NEW k \in KycRequest PROVE IsRequest(k)
    <2>1. CASE k = Free
      BY <2>1, FreeIsRequest
    <2>2. CASE k # Free
      BY <2>2 DEF KycRequest, IsRequest
    <2> QED
      BY <2>1, <2>2
  <1> QED
    BY <1>1 DEF KycTypeOK, AllRequests

\* What goes on as k, and writes nothing, leaves the others as they were.
LEMMA CopyGoes ==
  ASSUME CopyInv, KycInv', NEW r \in Requests, NEW k \in KycRequest, Goes(r, k), UNCHANGED kycRows,
         KycSeen(k, applicant), request[r].op \notin {"copy", "wallet"},
         k.op \in {"account", "ownAccount", "copy"} /\ ~overtaken /\ ~cut => HasWallet(k.row, wallet)
  PROVE  CopyInv'
  <1>1. /\ request'[r] = k
        /\ \A q \in Requests \ {r} : request'[q] = request[q]
        /\ overtaken' = overtaken /\ cut' = cut
    BY GoesType DEF Goes, CopyInv, KycInv, KycTypeOK
  <1>2. AllSeen'
    BY <1>1 DEF CopyInv, AllSeen, KycSeen, kycRows
  <1>3. CopyOwed'
    BY <1>1 DEF CopyInv, CopyOwed, HasWallet, kycRows
  <1> QED
    BY <1>2, <1>3 DEF CopyInv

\* A write of the row makes those stale that have looked at it.
LEMMA SeenAfter ==
  ASSUME CopyInv, NEW r \in Requests, NEW W, NEW k \in KycRequest, Wrote(r, W, k),
         "applicant" \in W \/ UNCHANGED applicant, KycSeen(k, applicant')
  PROVE  /\ request'[r] = k
         /\ \A q \in Requests \ {r} :
              /\ request'[q].op = request[q].op
              /\ request[q].op # "free" => request'[q].row = request[q].row
         /\ AllSeen'
         /\ cut' = cut
         /\ ~overtaken' => ~overtaken /\ request[r].fresh
  <1>1. AllRequests /\ request \in [Requests -> KycRequest]
    BY KycRequests DEF CopyInv, KycInv, KycTypeOK
  <1>2. k \in KycRequest => IsRequest(k)
    <2>1. CASE k = Free
      BY <2>1, FreeIsRequest
    <2>2. CASE k # Free
      BY <2>2 DEF KycRequest, IsRequest
    <2> QED
      BY <2>1, <2>2
  <1>3. /\ \A q \in Requests \ {r} :
              /\ request'[q].op = request[q].op
              /\ request'[q].reads = request[q].reads
              /\ request'[q].fresh =>
                   request'[q] = request[q] /\ request[q].fresh /\ request[q].reads \intersect W = {}
        /\ ~overtaken' => ~overtaken /\ request[r].fresh
    BY <1>1, <1>2, WroteOver
  <1>4. /\ request'[r] = k
        /\ \A q \in Requests \ {r} : request[q].op # "free" => request'[q].row = request[q].row
    BY <1>1, WroteType
  <1>5. ASSUME NEW q \in Requests \ {r}
        PROVE  KycSeen(request'[q], applicant')
    <2>1. KycSeen(request[q], applicant)
      BY DEF CopyInv, AllSeen
    <2>2. request[q].op \notin {"free", "apply"} => "applicant" \in request'[q].reads
      BY <1>3, <2>1 DEF KycSeen
    <2>3. ASSUME request'[q].fresh, request[q].op \notin {"free", "apply"}
          PROVE  request'[q] = request[q] /\ request[q].fresh /\ applicant' = applicant
      BY <1>3, <2>1, <2>3 DEF KycSeen
    <2> QED
      BY <1>3, <2>1, <2>2, <2>3 DEF KycSeen
  <1>6. cut' = cut
    BY DEF Wrote
  <1> QED
    BY <1>3, <1>4, <1>5, <1>6 DEF AllSeen

\* A handler that has written the row, and is about to put it into the copy.
LEMMA RowWritten ==
  ASSUME CopyInv, KycInv', NEW r \in Requests, NEW k \in KycRequest, Wrote(r, {"applicant"}, k),
         UNCHANGED <<kind, copy, signed, wallet>>, k.op \in {"copy", "wallet"}, "applicant" \in k.reads,
         k.fresh => k.row = applicant',
         k.op = "copy" /\ ~overtaken' /\ ~cut => HasWallet(k.row, wallet)
  PROVE  CopyInv'
  <1>1. KycSeen(k, applicant')
    BY DEF KycSeen
  <1>2. /\ request'[r] = k
        /\ \A q \in Requests \ {r} :
              /\ request'[q].op = request[q].op
              /\ request[q].op # "free" => request'[q].row = request[q].row
        /\ AllSeen' /\ cut' = cut /\ (~overtaken' => ~overtaken /\ request[r].fresh)
    BY <1>1, SeenAfter
  <1>3. CopyOwed'
    BY <1>2 DEF CopyInv, CopyOwed, HasWallet
  <1> QED
    BY <1>2, <1>3 DEF CopyInv

\* A handler that has looked at the copy with a status it may decide from.
LEMMA DecisionSeen ==
  ASSUME CopyInv, KycInv', NEW r \in Requests, NEW t \in ApprovalStatus, Decides(r, t),
         copy.status \notin {"REJECTED", "SUSPENDED"}
  PROVE  CopyInv'
  <1> DEFINE row == [copy EXCEPT !.status = t]
             k == Looks("status", row)
  <1>1. row \in Applicant /\ row = [copy EXCEPT !.status = row.status]
    BY DEF CopyInv, KycInv, KycTypeOK, Applicant
  <1>2. k \in KycRequest /\ k.op = "status" /\ k.row = row /\ "applicant" \in k.reads
        /\ (k.fresh => copy = applicant)
    BY <1>1, LooksType DEF CopyInv, KycInv, Looks
  <1>3. Goes(r, k) /\ UNCHANGED kycRows /\ request[r].op = "free"
    BY DEF Decides, KycReads, Begins
  <1> HIDE DEF k, row
  <1>4. KycSeen(k, applicant)
    BY <1>1, <1>2 DEF KycSeen
  <1> QED
    BY <1>2, <1>3, <1>4, CopyGoes

\* Approval of a household.
LEMMA ApprovalSeen ==
  ASSUME CopyInv, KycInv', NEW r \in Requests, SignRead(r) \/ Sign(r) \/ Count(r) \/ OpenWallet(r)
  PROVE  CopyInv'
  <1>1. CASE SignRead(r)
    <2>1. PICK u \in Approvers :
            KycReads(r, [op |-> "sign", reads |-> {"applicant"}, fresh |-> copy = applicant,
                         row |-> copy, by |-> u])
      BY <1>1 DEF SignRead
    <2> DEFINE k == [op |-> "sign", reads |-> {"applicant"}, fresh |-> copy = applicant,
                     row |-> copy, by |-> u]
    <2>2. k \in KycRequest /\ k.op = "sign"
      BY DEF CopyInv, KycInv, KycTypeOK, KycRequest
    <2>3. Goes(r, k) /\ UNCHANGED kycRows /\ request[r].op = "free"
      BY <2>1 DEF KycReads, Begins
    <2>4. KycSeen(k, applicant)
      BY <1>1 DEF SignRead, canApproveFrom, KycSeen
    <2> HIDE DEF k
    <2> QED
      BY <2>2, <2>3, <2>4, CopyGoes
  <1>2. CASE Sign(r) \/ OpenWallet(r)
    <2> DEFINE op == IF request[r].op = "sign" THEN "count" ELSE "copy"
               k == [request[r] EXCEPT !.op = op]
    <2>1. request[r].op \in {"sign", "wallet"} /\ Wrote(r, {}, k) /\ UNCHANGED <<kind, applicant, copy>>
          /\ (request[r].op = "sign" => wallet' = wallet) /\ (request[r].op = "wallet" => wallet' = TRUE)
      BY <1>2 DEF Sign, OpenWallet
    <2>2. request[r] \in KycRequest /\ IsRequest(request[r])
      BY KycRequests DEF CopyInv, KycInv, KycTypeOK, AllRequests
    <2>3. k.op = op /\ k.row = request[r].row /\ k.reads = request[r].reads /\ k.fresh = request[r].fresh
          /\ k \in KycRequest
      BY <2>1, <2>2 DEF KycRequest, Free
    <2> HIDE DEF k
    <2>4. KycSeen(k, applicant')
      <3>1. KycSeen(request[r], applicant) /\ applicant' = applicant
        BY <2>1 DEF CopyInv, AllSeen
      <3> QED
        BY <2>1, <2>3, <3>1 DEF KycSeen
    <2>5. /\ request'[r] = k
          /\ \A q \in Requests \ {r} :
                /\ request'[q].op = request[q].op
                /\ request[q].op # "free" => request'[q].row = request[q].row
          /\ AllSeen' /\ cut' = cut /\ (~overtaken' => ~overtaken /\ request[r].fresh)
      BY <2>1, <2>3, <2>4, SeenAfter
    <2>6. CopyOwed'
      BY <2>1, <2>3, <2>5 DEF CopyInv, CopyOwed, HasWallet
    <2> QED
      BY <2>5, <2>6 DEF CopyInv
  <1>3. CASE Count(r)
    <2>1. request[r].op = "count" /\ request[r].row \in Applicant /\ UNCHANGED kycRows
          /\ KycSeen(request[r], applicant)
      BY <1>3, RowType DEF Count, CopyInv, KycInv, AllSeen
    <2>2. CASE Goes(r, Free)
      BY <2>1, <2>2, FreeIsKycRequest, CopyGoes DEF Free, KycSeen
    <2>3. CASE Goes(r, [op |-> "status", reads |-> request[r].reads, fresh |-> request[r].fresh,
                        row |-> [request[r].row EXCEPT !.status = "APPROVED"]])
      <3> DEFINE row == [request[r].row EXCEPT !.status = "APPROVED"]
                 k == [op |-> "status", reads |-> request[r].reads, fresh |-> request[r].fresh, row |-> row]
      <3>1. request[r] \in [op : {"sign", "count"}, reads : SUBSET {"applicant"}, fresh : BOOLEAN,
                            row : Applicant, by : Approvers]
        BY <2>1 DEF CopyInv, KycInv, KycTypeOK, KycRequest, Free
      <3>2. row \in Applicant /\ row = [request[r].row EXCEPT !.status = row.status]
        BY <3>1 DEF Applicant, ApprovalStatus
      <3>3. k \in KycRequest
        BY <3>1, <3>2 DEF KycRequest
      <3>4. KycSeen(k, applicant)
        BY <2>1, <3>2 DEF KycSeen
      <3>5. k.op = "status" /\ Goes(r, k)
        BY <2>3
      <3> HIDE DEF k
      <3> QED
        BY <2>1, <3>3, <3>4, <3>5, CopyGoes
    <2> QED
      BY <1>3, <2>2, <2>3 DEF Count
  <1> QED
    BY <1>1, <1>2, <1>3

\* The decisions of one reviewer.
LEMMA ReviewSeen ==
  ASSUME CopyInv, KycInv', NEW r \in Requests,
         \/ householdAction(r) \/ driverAction(r) \/ fleetOwnerAction(r) \/ vehicleAction(r)
         \/ CorrectionRead(r)
  PROVE  CopyInv'
  <1>1. RejectsOrSuspends(r) \/ Reviews(r) \/ CorrectionRead(r)
    BY DEF householdAction, driverAction, fleetOwnerAction, vehicleAction
  <1>2. \E t \in ApprovalStatus : Decides(r, t) /\ copy.status \notin {"REJECTED", "SUSPENDED"}
    BY <1>1 DEF RejectsOrSuspends, Reviews, CorrectionRead, Decides, canRejectFrom, canSuspendFrom, canApproveFrom,
       ApprovalStatus
  <1> QED
    BY <1>2, DecisionSeen

\* What the applicant is about to change.
LEMMA ApplicantReadSeen ==
  ASSUME CopyInv, KycInv', NEW r \in Requests,
         \/ ResubmitRead(r) \/ AccountRead(r) \/ OwnAccountRead(r)
         \/ HouseholdApplies(r) \/ DriverApplies(r) \/ FleetOwnerApplies(r) \/ VehicleApplies(r)
  PROVE  CopyInv'
  <1>1. CASE ResubmitRead(r)
    <2> DEFINE k == Looks("resubmit", copy)
    <2>1. k \in KycRequest /\ k.op = "resubmit"
      BY LooksType DEF CopyInv, KycInv, KycTypeOK
    <2>2. Goes(r, k) /\ UNCHANGED kycRows /\ request[r].op = "free"
      BY <1>1 DEF ResubmitRead, KycReads, Begins
    <2>3. KycSeen(k, applicant)
      BY <1>1 DEF ResubmitRead, KycSeen, Looks
    <2> HIDE DEF k
    <2> QED
      BY <2>1, <2>2, <2>3, CopyGoes
  <1>2. CASE AccountRead(r) \/ OwnAccountRead(r)
    <2>1. PICK i \in Ibans \union {NoIban}, op \in {"account", "ownAccount"} :
            KycReads(r, Looks(op, [copy EXCEPT !.iban = i]))
      BY <1>2 DEF AccountRead, OwnAccountRead, Accounts
    <2> DEFINE row == [copy EXCEPT !.iban = i]
               k == Looks(op, row)
    <2>2. row \in Applicant /\ row = [copy EXCEPT !.iban = row.iban] /\ row.status = copy.status
      BY DEF CopyInv, KycInv, KycTypeOK, Applicant
    <2>3. k \in KycRequest /\ k.op = op /\ k.row = row /\ "applicant" \in k.reads
          /\ (k.fresh => copy = applicant)
      BY <2>2, LooksType DEF CopyInv, KycInv, Looks
    <2>4. Goes(r, k) /\ UNCHANGED kycRows /\ request[r].op = "free"
      BY <2>1 DEF KycReads, Begins
    <2> HIDE DEF k, row
    <2>5. KycSeen(k, applicant)
      BY <2>2, <2>3 DEF KycSeen
    <2>6. ~overtaken /\ ~cut => HasWallet(k.row, wallet)
      BY <2>2, <2>3 DEF CopyInv, CopyOwed, HasWallet
    <2> QED
      BY <2>3, <2>4, <2>5, <2>6, CopyGoes
  <1>3. CASE HouseholdApplies(r) \/ DriverApplies(r) \/ FleetOwnerApplies(r) \/ VehicleApplies(r)
    <2>1. PICK i \in Accounts :
            KycReads(r, [op |-> "apply", reads |-> {}, fresh |-> TRUE,
                         row |-> [status |-> "PENDING", iban |-> i]])
      BY <1>3 DEF HouseholdApplies, DriverApplies, FleetOwnerApplies, VehicleApplies, Applies
    <2> DEFINE k == [op |-> "apply", reads |-> {}, fresh |-> TRUE,
                     row |-> [status |-> "PENDING", iban |-> i]]
    <2>2. k \in KycRequest /\ k.op = "apply"
      BY DEF KycRequest, Accounts, Applicant, ApprovalStatus
    <2>3. Goes(r, k) /\ UNCHANGED kycRows /\ request[r].op = "free"
      BY <2>1 DEF KycReads, Begins
    <2> HIDE DEF k
    <2> QED
      BY <2>2, <2>3, CopyGoes DEF KycSeen
  <1> QED
    BY <1>1, <1>2, <1>3

\* The writes of the row.
LEMMA RowWriteSeen ==
  ASSUME CopyInv, KycInv', NEW r \in Requests,
         StatusWrite(r) \/ ResubmitWrite(r) \/ AccountWrite(r) \/ OwnAccountWrite(r)
  PROVE  /\ CopyInv'
         /\ applicant.status \in {"REJECTED", "SUSPENDED"} =>
              applicant'.status = applicant.status \/ overtaken'
  <1> DEFINE k == request[r]
  <1>1. PICK op \in {"copy", "wallet"}, row \in Applicant :
          /\ WritesApplicant(r, applicant', op, row) /\ UNCHANGED <<kind, copy, signed, wallet>>
          /\ row = k.row \/ (row = applicant' /\ k.op \in {"resubmit", "account"})
          /\ k.op = "status" => op = IF kind = "household" /\ row.status = "APPROVED" THEN "wallet" ELSE "copy"
          /\ k.op = "resubmit" => row = applicant' /\ row.status = "PENDING"
          /\ k.op = "status" => applicant' = [applicant EXCEPT !.status = k.row.status]
          /\ k.op \in {"account", "ownAccount"} => applicant' = [applicant EXCEPT !.iban = k.row.iban]
          /\ k.op \in {"status", "resubmit", "account", "ownAccount"}
    <2>1. k.row \in Applicant /\ applicant \in Applicant /\ applicant' \in Applicant
      BY RowType DEF CopyInv, KycInv, KycTypeOK, StatusWrite, ResubmitWrite, AccountWrite, OwnAccountWrite
    <2>2. CASE StatusWrite(r)
      BY <2>1, <2>2 DEF StatusWrite, WritesApplicant
    <2>3. CASE ResubmitWrite(r)
      <3>1. [applicant EXCEPT !.status = "PENDING"].status = "PENDING"
        BY <2>1 DEF Applicant
      <3> QED
        BY <2>1, <2>3, <3>1 DEF ResubmitWrite, WritesApplicant
    <2>4. CASE AccountWrite(r)
      BY <2>1, <2>4 DEF AccountWrite, WritesApplicant
    <2>5. CASE OwnAccountWrite(r)
      BY <2>1, <2>5 DEF OwnAccountWrite, WritesApplicant
    <2> QED
      BY <2>2, <2>3, <2>4, <2>5
  <1> DEFINE j == [k EXCEPT !.op = op, !.row = row]
  <1>2. k \in [op : {"status", "resubmit", "apply", "account", "ownAccount", "copy", "wallet"},
               reads : SUBSET {"applicant"}, fresh : BOOLEAN, row : Applicant]
        /\ applicant \in Applicant /\ applicant' \in Applicant
    BY <1>1 DEF CopyInv, KycInv, KycTypeOK, KycRequest, Free
  <1>3. j \in KycRequest /\ j.op = op /\ j.row = row /\ j.reads = k.reads /\ j.fresh = k.fresh
    BY <1>2 DEF KycRequest
  <1>4. KycSeen(k, applicant) /\ Wrote(r, {"applicant"}, j)
    BY <1>1 DEF CopyInv, AllSeen, WritesApplicant
  <1>5. k.fresh => row = applicant'
    <2>1. CASE k.op = "status"
      BY <1>1, <1>4, <2>1 DEF KycSeen
    <2>2. CASE k.op \in {"account", "ownAccount"}
      BY <1>1, <1>4, <2>2 DEF KycSeen
    <2> QED
      BY <1>1, <2>1, <2>2
  <1>6. ~overtaken' => ~overtaken /\ k.fresh
    BY <1>4 DEF Wrote
  <1>7. op = "copy" /\ ~overtaken' /\ ~cut => HasWallet(row, wallet)
    <2>1. CASE k.op \in {"status", "resubmit"}
      BY <1>1, <2>1 DEF HasWallet
    <2>2. ASSUME k.op \in {"account", "ownAccount"}, ~overtaken', ~cut
          PROVE  HasWallet(row, wallet)
      <3>1. HasWallet(k.row, wallet)
        BY <1>6, <2>2 DEF CopyInv, CopyOwed
      <3>2. row = applicant' /\ k.row = applicant'
        BY <1>1, <1>2, <1>4, <1>5, <1>6, <2>2 DEF KycSeen
      <3> QED
        BY <3>1, <3>2
    <2> QED
      BY <1>1, <2>1, <2>2
  <1>8. CopyInv'
    <2> HIDE DEF j
    <2> QED
      BY <1>1, <1>3, <1>4, <1>5, <1>7, RowWritten DEF KycSeen
  <1>9. applicant.status \in {"REJECTED", "SUSPENDED"} => applicant'.status = applicant.status \/ overtaken'
    BY <1>1, <1>2, <1>4, <1>6 DEF KycSeen, Applicant
  <1> QED
    BY <1>8, <1>9

LEMMA ApplySeen ==
  ASSUME CopyInv, KycInv', NEW r \in Requests, ApplyWrite(r)
  PROVE  CopyInv'
  <1> DEFINE k == request[r]
             row == IF k.row.iban = NoIban THEN [k.row EXCEPT !.iban = applicant.iban] ELSE k.row
             j == [k EXCEPT !.op = "copy", !.reads = {"applicant"}, !.row = row]
  <1>1. k.op = "apply" /\ applicant' = row /\ Wrote(r, {"applicant"}, j)
        /\ UNCHANGED <<kind, copy, signed, wallet>>
    BY DEF ApplyWrite
  <1>2. k \in [op : {"status", "resubmit", "apply", "account", "ownAccount", "copy", "wallet"},
               reads : SUBSET {"applicant"}, fresh : BOOLEAN, row : Applicant]
        /\ k.row.status = "PENDING" /\ applicant \in Applicant
    BY <1>1 DEF CopyInv, KycInv, KycTypeOK, KycRequest, Counted, Free
  <1>3. row \in Applicant /\ row.status = "PENDING"
    BY <1>2 DEF Applicant
  <1> HIDE DEF row
  <1>4. j \in KycRequest /\ j.op = "copy" /\ j.row = row /\ j.reads = {"applicant"}
    BY <1>2, <1>3 DEF KycRequest
  <1> HIDE DEF j
  <1>5. HasWallet(j.row, wallet)
    BY <1>3, <1>4 DEF HasWallet
  <1> QED
    BY <1>1, <1>4, <1>5, RowWritten

LEMMA CopySeen ==
  ASSUME CopyInv, KycInv', NEW r \in Requests, CopyWrite(r)
  PROVE  CopyInv'
  <1>1. request[r].op = "copy" /\ copy' = request[r].row /\ Wrote(r, {"applicant"}, Free)
        /\ UNCHANGED <<kind, applicant, signed, wallet>>
    BY DEF CopyWrite
  <1>2. KycSeen(Free, applicant') /\ Free.op = "free"
    BY DEF KycSeen, Free
  <1>3. /\ request'[r] = Free
        /\ \A q \in Requests \ {r} :
              /\ request'[q].op = request[q].op
              /\ request[q].op # "free" => request'[q].row = request[q].row
        /\ AllSeen' /\ cut' = cut /\ (~overtaken' => ~overtaken /\ request[r].fresh)
    BY <1>1, <1>2, FreeIsKycRequest, SeenAfter
  <1>4. CopyOwed'
    <2> SUFFICES ASSUME ~overtaken', ~cut'
                 PROVE  /\ HasWallet(copy, wallet)'
                        /\ \A q \in Requests :
                             request'[q].op \in {"account", "ownAccount", "copy"} => HasWallet(request[q].row, wallet)'
                        /\ copy' = applicant'
      BY DEF CopyOwed
    <2>1. /\ \A q \in Requests :
               request[q].op \in {"account", "ownAccount", "copy"} => HasWallet(request[q].row, wallet)
          /\ copy' = applicant'
      BY <1>1, <1>3 DEF CopyInv, CopyOwed, AllSeen, KycSeen
    <2> QED
      BY <1>1, <1>2, <1>3, <2>1 DEF HasWallet
  <1> QED
    BY <1>3, <1>4 DEF CopyInv

\* Who ends before the row is in the copy is cut; a restart reads the row.
LEMMA EndsSeen ==
  ASSUME CopyInv, KycInv',
         \/ \E r \in Requests : Ends(r, KycHalfway(r)) /\ UNCHANGED kycRows
         \/ KycRestart
  PROVE  CopyInv'
  <1>1. KycSeen(Free, applicant) /\ Free.op = "free"
    BY DEF KycSeen, Free
  <1>2. ASSUME NEW r \in Requests, Ends(r, KycHalfway(r)), UNCHANGED kycRows
        PROVE  CopyInv'
    <2>1. /\ request'[r] = Free
          /\ \A q \in Requests \ {r} : request'[q] = request[q]
          /\ overtaken' = overtaken
          /\ cut' = (cut \/ request[r].op \in {"count", "wallet", "copy"})
      BY <1>2, KycRequests, EndsHere DEF CopyInv, KycInv, Ends, KycHalfway
    <2>2. AllSeen'
      BY <1>1, <1>2, <2>1 DEF CopyInv, AllSeen, KycSeen, kycRows
    <2>3. CopyOwed'
      BY <1>1, <1>2, <2>1 DEF CopyInv, CopyOwed, HasWallet, kycRows
    <2> QED
      BY <2>2, <2>3 DEF CopyInv
  <1>3. CASE KycRestart
    <2>1. /\ \A q \in Requests : request'[q] = Free
          /\ copy' = applicant /\ UNCHANGED <<kind, applicant, wallet, overtaken>>
          /\ ~cut' => ~cut /\ \A q \in Requests : request[q].op \notin {"count", "wallet", "copy"}
      BY <1>3 DEF KycRestart, KycHalfway
    <2>2. AllSeen'
      BY <1>1, <2>1 DEF AllSeen, KycSeen
    <2>3. CopyOwed'
      BY <1>1, <2>1 DEF CopyInv, CopyOwed, HasWallet
    <2> QED
      BY <2>2, <2>3 DEF CopyInv
  <1> QED
    BY <1>2, <1>3

LEMMA CopyInvInit == KycInit => CopyInv
  <1> SUFFICES ASSUME KycInit
               PROVE  CopyInv
    OBVIOUS
  <1>1. \A r \in Requests : request[r] = Free
    BY DEF KycInit, HandlersInit
  <1>2. AllSeen
    BY <1>1 DEF AllSeen, KycSeen, Free
  <1>3. copy = applicant /\ HasWallet(applicant, wallet)
    BY DEF KycInit, Requested, Registered, Imported, HasWallet
  <1> QED
    BY <1>1, <1>2, <1>3, KycInvInit DEF CopyInv, CopyOwed, Free

LEMMA CopyInvStep ==
  ASSUME CopyInv, [KycNext]_kycVars
  PROVE  /\ CopyInv'
         /\ applicant.status \in {"REJECTED", "SUSPENDED"} =>
              applicant'.status = applicant.status \/ overtaken' \/ \E r \in Requests : ApplyWrite(r)
  <1>1. KycInv'
    BY KycInvStep DEF CopyInv
  <1>2. CASE UNCHANGED kycVars
    BY <1>1, <1>2 DEF kycVars, kycRows, handlerVars, CopyInv, AllSeen, KycSeen, CopyOwed, HasWallet
  <1>3. ASSUME NEW r \in Requests,
               \/ SignRead(r) \/ Sign(r) \/ Count(r) \/ OpenWallet(r)
               \/ householdAction(r) \/ driverAction(r) \/ fleetOwnerAction(r) \/ vehicleAction(r)
               \/ CorrectionRead(r)
               \/ ResubmitRead(r) \/ AccountRead(r) \/ OwnAccountRead(r)
               \/ HouseholdApplies(r) \/ DriverApplies(r) \/ FleetOwnerApplies(r) \/ VehicleApplies(r)
        PROVE  CopyInv' /\ applicant' = applicant
    <2>1. CopyInv'
      BY <1>1, <1>3, ApprovalSeen, ReviewSeen, ApplicantReadSeen
    <2>2. applicant' = applicant
      BY <1>3 DEF SignRead, Sign, Count, OpenWallet, householdAction, driverAction, fleetOwnerAction,
         vehicleAction, Reviews, RejectsOrSuspends, Decides, CorrectionRead, ResubmitRead, AccountRead,
         OwnAccountRead, HouseholdApplies, DriverApplies, FleetOwnerApplies, VehicleApplies, Applies,
         KycReads, kycRows
    <2> QED
      BY <2>1, <2>2
  <1>4. ASSUME NEW r \in Requests, CopyWrite(r)
        PROVE  CopyInv' /\ applicant' = applicant
    BY <1>1, <1>4, CopySeen DEF CopyWrite
  <1>5. ASSUME NEW r \in Requests, Ends(r, KycHalfway(r)), UNCHANGED kycRows
        PROVE  CopyInv' /\ applicant' = applicant
    BY <1>1, <1>5, EndsSeen DEF kycRows
  <1>6. CASE KycRestart
    BY <1>1, <1>6, EndsSeen DEF KycRestart
  <1> QED
    BY <1>1, <1>2, <1>3, <1>4, <1>5, <1>6, RowWriteSeen, ApplySeen DEF KycNext

\* A rejected or suspended applicant comes back by a new application only:
\* however reviewers, corrections and accounts overlap, no decision taken on
\* an earlier status brings him back, but one over a row it has not seen.
THEOREM ApplicantsReturnByApplication == KycSpec => ReturnsByApplication
  <1>1. CopyInv /\ [KycNext]_kycVars => CopyInv'
    BY CopyInvStep
  <1>2. CopyInv /\ [KycNext]_kycVars =>
          [applicant.status \in {"REJECTED", "SUSPENDED"} =>
             \/ applicant'.status = applicant.status
             \/ overtaken'
             \/ \E r \in Requests : ApplyWrite(r)]_kycVars
    BY CopyInvStep
  <1> QED
    BY <1>1, <1>2, CopyInvInit, PTL DEF KycSpec, ReturnsByApplication

\* Undisturbed, and when no handler is halfway, the copy is the row and an
\* approved household has its wallet: every guard that looks at the copy
\* then decides on what the database says.
THEOREM GuardsLookAtTheRow == KycSpec => []CopyIsRow
  <1>1. CopyInv /\ [KycNext]_kycVars => CopyInv'
    BY CopyInvStep
  <1>2. CopyInv => CopyIsRow
    BY DEF CopyInv, CopyOwed, CopyIsRow, Undisturbed, KycHalfway, HasWallet
  <1> QED
    BY <1>1, <1>2, CopyInvInit, PTL DEF KycSpec

-----------------------------------------------------------------------------
(* The agent at the scale.                                                 *)

LEMMA AppendedElements ==
  ASSUME NEW s \in Seq(Events), NEW e \in Events
  PROVE  Append(s, e) \in Seq(Events) /\ ToSet(Append(s, e)) = ToSet(s) \union {e}
  <1>1. /\ Append(s, e) \in Seq(Events) /\ Len(Append(s, e)) = Len(s) + 1 /\ Len(s) \in Nat
        /\ \A i \in 1..Len(s) : Append(s, e)[i] = s[i]
        /\ Append(s, e)[Len(s) + 1] = e
    OBVIOUS
  <1>2. ToSet(Append(s, e)) \subseteq ToSet(s) \union {e}
    BY <1>1 DEF ToSet
  <1>3. ToSet(s) \subseteq ToSet(Append(s, e))
    BY <1>1 DEF ToSet
  <1>4. e \in ToSet(Append(s, e))
    BY <1>1 DEF ToSet
  <1> QED
    BY <1>1, <1>2, <1>3, <1>4

LEMMA HeadAndTail ==
  ASSUME NEW s \in Seq(Events), s # <<>>
  PROVE  /\ Head(s) \in Events /\ Tail(s) \in Seq(Events)
         /\ ToSet(s) \subseteq {Head(s)} \union ToSet(Tail(s))
  <1>1. /\ Head(s) \in Events /\ Tail(s) \in Seq(Events) /\ Head(s) = s[1]
        /\ Len(s) \in Nat \ {0} /\ Len(Tail(s)) = Len(s) - 1
        /\ \A i \in 1..Len(Tail(s)) : Tail(s)[i] = s[i + 1]
    OBVIOUS
  <1>2. ASSUME NEW i \in 2..Len(s) PROVE s[i] \in ToSet(Tail(s))
    <2>1. PICK j \in 1..Len(Tail(s)) : i = j + 1
      <3>1. i - 1 \in 1..Len(Tail(s)) /\ i = (i - 1) + 1
        BY <1>1
      <3> QED
        BY <3>1
    <2>2. Tail(s)[j] = s[i]
      BY <1>1, <2>1
    <2>3. DOMAIN Tail(s) = 1..Len(Tail(s))
      BY <1>1
    <2> QED
      BY <2>2, <2>3 DEF ToSet
  <1>3. \A i \in 1..Len(s) : s[i] \in {Head(s)} \union ToSet(Tail(s))
    BY <1>1, <1>2
  <1>4. ToSet(s) = {s[i] : i \in 1..Len(s)}
    BY <1>1 DEF ToSet
  <1> QED
    BY <1>1, <1>3, <1>4

\* What a handler carries, fresh or not.
AgentNamed(k) ==
  /\ k.op = "send" => "event" \in DOMAIN k /\ k.event \in Events
  /\ k.op = "flush" => /\ {"queue", "kept"} \subseteq DOMAIN k /\ k.reads = {"file"}
                       /\ k.queue \in Seq(Events) /\ k.kept \in Seq(Events)

\* What a fresh flush will leave out of the file is stored.
FlushSeen(k, queue, stored) ==
  k.fresh /\ k.op = "flush" => ToSet(queue) \subseteq stored \union ToSet(k.queue) \union ToSet(k.kept)

\* The invariant of the agent.
AgentInv ==
  /\ AllRequests
  /\ file \in Seq(Events)
  /\ \A r \in Requests : AgentNamed(request[r]) /\ FlushSeen(request[r], file, received)
  /\ ReadingsKept

LEMMA FreeAgent == ASSUME NEW queue, NEW stored PROVE AgentNamed(Free) /\ FlushSeen(Free, queue, stored)
  BY DEF Free, AgentNamed, FlushSeen

LEMMA AgentInvInit == AgentInit => AgentInv
  <1> SUFFICES ASSUME AgentInit PROVE AgentInv
    OBVIOUS
  <1>1. AllRequests /\ \A r \in Requests : request[r] = Free
    BY FreeIsRequest DEF AgentInit, HandlersInit, AllRequests
  <1>2. file \in Seq(Events) /\ ReadingsKept
    BY DEF AgentInit, ReadingsKept
  <1> QED
    BY <1>1, <1>2, FreeAgent DEF AgentInv

\* A handler goes on as k, which leaves its first post only when it is
\* through; more may be stored.
LEMMA AgentGoes ==
  ASSUME AgentInv, NEW r \in Requests, NEW k, IsRequest(k), AgentNamed(k), FlushSeen(k, file, received'),
         Goes(r, k), UNCHANGED file, received \subseteq received',
         request[r].op = "send" => request[r].event \in received',
         captured' \subseteq captured \union (IF k.op = "send" THEN {k.event} ELSE {})
  PROVE  AgentInv'
  <1>1. /\ AllRequests' /\ request'[r] = k
        /\ \A q \in Requests \ {r} : request'[q] = request[q]
        /\ overtaken' = overtaken /\ cut' = cut
    BY GoesOn DEF AgentInv, Goes
  <1>2. \A q \in Requests : AgentNamed(request'[q]) /\ FlushSeen(request'[q], file, received')
    BY <1>1 DEF AgentInv, FlushSeen
  <1>3. ReadingsKept'
    <2>1. Posting \subseteq Posting' \union received'
      BY <1>1 DEF Posting
    <2>2. k.op = "send" => k.event \in Posting'
      BY <1>1 DEF Posting, AgentNamed
    <2> QED
      BY <1>1, <2>1, <2>2 DEF AgentInv, ReadingsKept
  <1> QED
    BY <1>1, <1>2, <1>3 DEF AgentInv

\* The file is saved.
LEMMA FileWritten ==
  ASSUME AgentInv, NEW r \in Requests, Wrote(r, {"file"}, Free), file' \in Seq(Events),
         received \subseteq received', UNCHANGED captured,
         request[r].op = "send" => request[r].event \in received' \union ToSet(file'),
         request[r].fresh => ToSet(file) \subseteq received' \union ToSet(file')
  PROVE  AgentInv'
  <1>1. /\ AllRequests'
        /\ request'[r] = Free
        /\ \A q \in Requests \ {r} :
              /\ request'[q].op = request[q].op
              /\ request'[q].reads = request[q].reads
              /\ DOMAIN request'[q] = DOMAIN request[q]
              /\ \A x \in DOMAIN request[q] \ {"fresh"} : request'[q][x] = request[q][x]
              /\ request'[q].fresh =>
                   request'[q] = request[q] /\ request[q].fresh /\ request[q].reads \intersect {"file"} = {}
        /\ ~overtaken' => ~overtaken /\ request[r].fresh
    BY FreeIsRequest, WroteOver DEF AgentInv
  <1>2. ASSUME NEW q \in Requests \ {r}
        PROVE  AgentNamed(request'[q]) /\ FlushSeen(request'[q], file', received')
    BY <1>1 DEF AgentInv, AgentNamed, FlushSeen
  <1>3. ReadingsKept'
    <2>1. Posting \subseteq Posting' \union received' \union ToSet(file')
      BY <1>1 DEF Posting, AgentInv, AgentNamed
    <2>2. cut' = cut
      BY DEF Wrote
    <2> QED
      BY <1>1, <2>1, <2>2 DEF AgentInv, ReadingsKept
  <1> QED
    BY <1>1, <1>2, <1>3, FreeAgent DEF AgentInv

LEMMA CaptureInv ==
  ASSUME AgentInv, NEW r \in Requests, Capture(r)
  PROVE  AgentInv'
  <1>1. PICK e \in Events : /\ captured' = captured \union {e}
                            /\ Begins(r, [op |-> "send", reads |-> {}, fresh |-> TRUE, event |-> e])
    BY DEF Capture
  <1> DEFINE k == [op |-> "send", reads |-> {}, fresh |-> TRUE, event |-> e]
  <1>2. IsRequest(k) /\ AgentNamed(k) /\ FlushSeen(k, file, received')
    BY DEF IsRequest, AgentNamed, FlushSeen
  <1> QED
    BY <1>1, <1>2, AgentGoes DEF Capture, Begins

LEMMA SendInv ==
  ASSUME AgentInv, NEW r \in Requests, Sent(r) \/ SendFails(r)
  PROVE  AgentInv'
  <1>1. request[r].op = "send" /\ request[r].event \in Events /\ file \in Seq(Events)
    BY DEF Sent, SendFails, AgentInv, AgentNamed
  <1>2. CASE Sent(r)
    BY <1>1, <1>2, FreeAgent, FreeIsRequest, AgentGoes DEF Sent, Posts
  <1>3. CASE SendFails(r)
    BY <1>1, <1>3, AppendedElements, FileWritten DEF SendFails, Posts
  <1> QED
    BY <1>2, <1>3

LEMMA FlushReadInv ==
  ASSUME AgentInv, NEW r \in Requests, FlushRead(r)
  PROVE  AgentInv'
  <1> DEFINE k == [op |-> "flush", reads |-> {"file"}, fresh |-> TRUE, queue |-> file, kept |-> <<>>]
  <1>1. Begins(r, k) /\ UNCHANGED <<file, captured, received>>
    BY DEF FlushRead, agentRows
  <1>2. IsRequest(k) /\ AgentNamed(k) /\ FlushSeen(k, file, received')
    <2>1. file \in Seq(Events) /\ <<>> \in Seq(Events)
      BY DEF AgentInv
    <2>2. IsRequest(k)
      BY DEF IsRequest
    <2>3. AgentNamed(k)
      BY <2>1 DEF AgentNamed
    <2>4. FlushSeen(k, file, received')
      BY DEF FlushSeen
    <2> QED
      BY <2>2, <2>3, <2>4
  <1> HIDE DEF k
  <1> QED
    BY <1>1, <1>2, AgentGoes DEF Begins

\* An item of the flush is stored or kept.
LEMMA FlushPostInv ==
  ASSUME AgentInv, NEW r \in Requests, FlushPost(r)
  PROVE  AgentInv'
  <1> DEFINE k == request[r]
             e == Head(k.queue)
  <1>1. /\ k.op = "flush" /\ k.queue \in Seq(Events) /\ k.kept \in Seq(Events) /\ k.queue # <<>>
        /\ IsRequest(k) /\ {"queue", "kept"} \subseteq DOMAIN k /\ k.reads = {"file"}
    BY DEF FlushPost, AgentInv, AgentNamed, AllRequests
  <1>2. PICK answered \in BOOLEAN :
          /\ Posts(e, answered)
          /\ Goes(r, [k EXCEPT !.queue = Tail(@), !.kept = IF answered THEN @ ELSE Append(@, e)])
    BY DEF FlushPost
  <1> DEFINE kept == IF answered THEN k.kept ELSE Append(k.kept, e)
             j == [k EXCEPT !.queue = Tail(k.queue), !.kept = kept]
  <1>3. Goes(r, j)
    BY <1>1, <1>2 DEF IsRequest
  <1>4. /\ kept \in Seq(Events) /\ ToSet(k.kept) \subseteq ToSet(kept)
        /\ received \subseteq received' /\ e \in received' \union ToSet(kept)
    BY <1>1, <1>2, HeadAndTail, AppendedElements DEF Posts
  <1> HIDE DEF kept
  <1>5. j = [x \in DOMAIN k |-> IF x = "kept" THEN kept ELSE IF x = "queue" THEN Tail(k.queue) ELSE k[x]]
    BY <1>1 DEF IsRequest
  <1>6. /\ IsRequest(j) /\ j.op = "flush" /\ j.reads = {"file"} /\ {"queue", "kept"} \subseteq DOMAIN j
        /\ j.queue = Tail(k.queue) /\ j.kept = kept /\ j.fresh = k.fresh
    BY <1>1, <1>5 DEF IsRequest
  <1> HIDE DEF j
  <1>7. AgentNamed(j)
    BY <1>1, <1>4, <1>6, HeadAndTail DEF AgentNamed
  <1>8. FlushSeen(j, file, received')
    BY <1>1, <1>4, <1>6, HeadAndTail DEF FlushSeen, AgentInv
  <1> QED
    BY <1>1, <1>3, <1>4, <1>6, <1>7, <1>8, AgentGoes DEF FlushPost

LEMMA FlushSaveInv ==
  ASSUME AgentInv, NEW r \in Requests, FlushSave(r)
  PROVE  AgentInv'
  <1>1. request[r].op = "flush" /\ file' = request[r].kept /\ file' \in Seq(Events)
    BY DEF FlushSave, AgentInv, AgentNamed
  <1>2. ToSet(<<>>) = {}
    BY DEF ToSet
  <1>3. request[r].fresh => ToSet(file) \subseteq received' \union ToSet(file')
    BY <1>1, <1>2 DEF FlushSave, AgentInv, FlushSeen
  <1> QED
    BY <1>1, <1>3, FileWritten DEF FlushSave

LEMMA AgentRestartInv ==
  ASSUME AgentInv, AgentRestart
  PROVE  AgentInv'
  <1>1. AllRequests' /\ \A r \in Requests : request'[r] = Free
    BY FreeIsRequest DEF AgentRestart, AllRequests
  <1>2. UNCHANGED <<file, captured, received, overtaken>>
    BY DEF AgentRestart, agentRows
  <1>3. ~cut' => ~cut /\ Posting = {}
    BY DEF AgentRestart, Posting
  <1>4. ReadingsKept'
    BY <1>2, <1>3 DEF AgentInv, ReadingsKept
  <1> QED
    BY <1>1, <1>2, <1>4, FreeAgent DEF AgentInv

\* A captured reading is stored, in the file or about to be posted, through
\* lost posts, lost answers, overlapping flushes and restarts, unless a flush
\* saves over a file it has not seen or a restart cuts a first post.
THEOREM ReadingsAreKept == AgentSpec => []ReadingsKept
  <1>1. AgentInv /\ [AgentNext]_agentVars => AgentInv'
    <2> SUFFICES ASSUME AgentInv, [AgentNext]_agentVars PROVE AgentInv'
      OBVIOUS
    <2>1. CASE UNCHANGED agentVars
      BY <2>1 DEF agentVars, agentRows, handlerVars, AgentInv, AllRequests, ReadingsKept, Posting
    <2> QED
      BY <2>1, CaptureInv, SendInv, FlushReadInv, FlushPostInv, FlushSaveInv, AgentRestartInv DEF AgentNext
  <1>2. AgentInv => ReadingsKept
    BY DEF AgentInv
  <1> QED
    BY <1>1, <1>2, AgentInvInit, PTL DEF AgentSpec

-----------------------------------------------------------------------------
(* Notices: what is published, queued, sent and logged.                    *)

\* The job is of this kind and for this event.
IsAbout(j, what, e) == j.kind = what /\ j.event = e

\* The jobs that are in the process.
Waiting == ToSet(todo) \union Held

\* Jobs of s are of different kinds or events.
Apart(s) == \A i, j \in 1..Len(s) : i # j => ~IsAbout(s[i], s[j].kind, s[j].event)

\* The values of the rows, the queue and the worker.
NoticesValues ==
  /\ eventLog \subseteq LogRow /\ IsFiniteSet(eventLog)
  /\ now \in Nat
  /\ \A x \in eventLog : x.occurred_at < now
  /\ todo \in Seq(Job)
  /\ doing \in {Rest} \union [at : Stages, job : Job]
  /\ failedJobs \subseteq Job
  /\ notices \subseteq Notice
  /\ texted \in [DomainEvents -> Nat]
  /\ published \subseteq DomainEvents
  /\ asked \subseteq published
  /\ recipient \in {"reachable", "no_mobile", "sms_off"}

\* A publication in flight is of an event whose message was not asked for.
NoticesNamed(k) ==
  k.op # "free" =>
    /\ k.op \in {"persist", "emit", "lookup"} /\ k.fresh = TRUE
    /\ {"event", "occurred_at"} \subseteq DOMAIN k
    /\ k.event \in published \ asked /\ k.occurred_at \in Nat /\ k.occurred_at < now

\* How far a publication is.
Publishing(k) ==
  k.op # "free" =>
    /\ k.op = "persist" => \A x \in eventLog : x.event # k.event
    /\ k.op # "lookup" => \A j \in Waiting : ~IsAbout(j, "log", k.event)
    /\ k.op # "persist" => \E x \in eventLog : x.event = k.event

\* An event is published by one handler.
PublishedApart ==
  \A r, q \in Requests : r # q /\ request[r].op # "free" /\ request[q].op # "free" =>
    request[r].event # request[q].event

\* What was not published, or not asked for, has left no trace; what was
\* asked for is on the log.
Untold ==
  /\ \A e \in DomainEvents \ published : \A x \in eventLog : x.event # e
  /\ \A e \in DomainEvents \ published : \A j \in Waiting : j.event # e
  /\ \A e \in DomainEvents \ asked :
       /\ \A j \in Waiting \union failedJobs : ~IsAbout(j, "sms", e)
       /\ \A x \in notices : x.event # e
       /\ texted[e] = 0
  /\ \A e \in asked : \E x \in eventLog : x.event = e

\* A job waits or is at the worker, once for its kind and event.
QueuedOnce ==
  /\ Apart(todo)
  /\ doing # Rest => \A j \in ToSet(todo) : ~IsAbout(j, doing.job.kind, doing.job.event)

\* Where the worker is, says of what kind its job is and how often it was
\* tried.
Stage ==
  /\ \A j \in ToSet(todo) : j.attempts < MaxTries
  /\ doing # Rest =>
       /\ doing.job.attempts > 0
       /\ doing.at \in {"sms", "send", "sent", "failed", "failed_no_mobile"} => doing.job.kind = "sms"
       /\ doing.at \in {"log", "insert"} => doing.job.kind = "log"
       /\ doing.at = "backoff" => doing.job.attempts < MaxTries

\* A try sends one message.
Tries ==
  /\ \A e \in DomainEvents : texted[e] <= MaxTries
  /\ \A j \in ToSet(todo) : j.kind = "sms" => texted[j.event] <= j.attempts
  /\ doing # Rest /\ doing.job.kind = "sms" =>
       /\ texted[doing.job.event] <= doing.job.attempts
       /\ doing.at \in {"sms", "send"} => texted[doing.job.event] < doing.job.attempts

\* A message is settled once.
SettledOnce ==
  /\ \A x \in notices : \A j \in Waiting \union failedJobs : ~IsAbout(j, "sms", x.event)
  /\ \A x, y \in notices : x.event = y.event => x = y
  /\ \A j \in failedJobs : j.kind = "sms" => \A i \in Waiting : ~IsAbout(i, "sms", j.event)
  /\ \A i, j \in failedJobs : i.kind = "sms" /\ IsAbout(j, "sms", i.event) => i = j

\* Unless a restart lost it, a message that was asked for has its job or row.
Kept ==
  ~cut /\ recipient # "sms_off" =>
    \A e \in asked : \/ \E j \in Waiting \union failedJobs : IsAbout(j, "sms", e)
                     \/ \E x \in notices : x.event = e

\* The rows that hide x from the job that looks at the latest ones.
Later(x) == {z \in eventLog : z.occurred_at > x.occurred_at}

\* A job that is about to insert its event has not seen it on the log.
HiddenBehind ==
  doing # Rest /\ doing.at = "insert" =>
    \A x \in eventLog : x.event = doing.job.event => Cardinality(Later(x)) >= LogWindow


\* The invariant, by what it is about.
PublicationInv ==
  /\ \A r \in Requests : NoticesNamed(request[r]) /\ Publishing(request[r])
  /\ PublishedApart
  /\ Untold

WorkerInv ==
  /\ QueuedOnce
  /\ Stage
  /\ Tries
  /\ SettledOnce
  /\ Kept

LogInv == HiddenBehind /\ LoggedAgainOnlyBehind

\* The invariant of the notices.
NoticesInv ==
  /\ AllRequests
  /\ NoticesValues
  /\ PublicationInv
  /\ WorkerInv
  /\ LogInv

LEMMA JobIs ==
  ASSUME NEW j \in Job
  PROVE  /\ j = [kind |-> j.kind, event |-> j.event, attempts |-> j.attempts]
         /\ j.kind \in {"log", "sms"} /\ j.event \in DomainEvents
         /\ j.attempts \in Nat /\ j.attempts <= MaxTries
  BY NoticesAssumption DEF Job

LEMMA JobAppended ==
  ASSUME NEW s \in Seq(Job), NEW j \in Job
  PROVE  /\ Append(s, j) \in Seq(Job)
         /\ ToSet(Append(s, j)) = ToSet(s) \union {j}
         /\ Apart(s) /\ (\A i \in ToSet(s) : ~IsAbout(i, j.kind, j.event)) => Apart(Append(s, j))
  <1>1. /\ Append(s, j) \in Seq(Job) /\ Len(Append(s, j)) = Len(s) + 1 /\ Len(s) \in Nat
        /\ Append(s, j)[Len(s) + 1] = j
        /\ \A i \in 1..Len(s) : Append(s, j)[i] = s[i]
    OBVIOUS
  <1>2. DOMAIN s = 1..Len(s) /\ DOMAIN Append(s, j) = 1..(Len(s) + 1)
    BY <1>1
  <1>3. ToSet(Append(s, j)) = ToSet(s) \union {j}
    <2>1. \A i \in 1..(Len(s) + 1) : i \in 1..Len(s) \/ i = Len(s) + 1
      BY <1>1
    <2> QED
      BY <1>1, <1>2, <2>1 DEF ToSet
  <1>4. ASSUME Apart(s), \A i \in ToSet(s) : ~IsAbout(i, j.kind, j.event) PROVE Apart(Append(s, j))
    <2>1. \A i \in 1..Len(s) : s[i] \in ToSet(s) /\ ~IsAbout(s[i], j.kind, j.event) /\ ~IsAbout(j, s[i].kind, s[i].event)
      BY <1>2, <1>4 DEF ToSet, IsAbout
    <2> QED
      BY <1>1, <1>4, <2>1 DEF Apart
  <1> QED
    BY <1>1, <1>3, <1>4

LEMMA JobTaken ==
  ASSUME NEW s \in Seq(Job), s # <<>>
  PROVE  /\ Tail(s) \in Seq(Job) /\ Head(s) \in Job
         /\ ToSet(s) = ToSet(Tail(s)) \union {Head(s)}
         /\ Apart(s) => Apart(Tail(s)) /\ \A j \in ToSet(Tail(s)) : ~IsAbout(j, Head(s).kind, Head(s).event)
  <1>1. /\ Tail(s) \in Seq(Job) /\ Len(Tail(s)) = Len(s) - 1 /\ Len(s) \in Nat \ {0}
        /\ Head(s) = s[1] /\ Head(s) \in Job
        /\ \A i \in 1..(Len(s) - 1) : Tail(s)[i] = s[i + 1]
    OBVIOUS
  <1>2. DOMAIN s = 1..Len(s) /\ DOMAIN Tail(s) = 1..(Len(s) - 1)
    BY <1>1
  <1>3. ToSet(s) = ToSet(Tail(s)) \union {Head(s)}
    <2>1. \A i \in 1..Len(s) : i = 1 \/ (i - 1 \in 1..(Len(s) - 1) /\ (i - 1) + 1 = i)
      BY <1>1
    <2>2. \A i \in 1..(Len(s) - 1) : i + 1 \in 1..Len(s)
      BY <1>1
    <2>3. 1 \in 1..Len(s)
      BY <1>1
    <2>4. ASSUME NEW j \in ToSet(s) PROVE j \in ToSet(Tail(s)) \union {Head(s)}
      <3>1. PICK i \in 1..Len(s) : j = s[i]
        BY <1>2 DEF ToSet
      <3>2. CASE i = 1
        BY <1>1, <3>1, <3>2
      <3>3. CASE i # 1
        <4>1. i - 1 \in DOMAIN Tail(s) /\ Tail(s)[i - 1] = j
          BY <1>1, <1>2, <2>1, <3>1, <3>3
        <4> QED
          BY <4>1 DEF ToSet
      <3> QED
        BY <3>2, <3>3
    <2>5. ASSUME NEW j \in ToSet(Tail(s)) \union {Head(s)} PROVE j \in ToSet(s)
      BY <1>1, <1>2, <2>2, <2>3 DEF ToSet
    <2> QED
      BY <2>4, <2>5
  <1>4. ASSUME Apart(s)
        PROVE  Apart(Tail(s)) /\ \A j \in ToSet(Tail(s)) : ~IsAbout(j, Head(s).kind, Head(s).event)
    <2>1. Apart(Tail(s))
      <3> SUFFICES ASSUME NEW i \in 1..(Len(s) - 1), NEW j \in 1..(Len(s) - 1), i # j
                   PROVE  ~IsAbout(Tail(s)[i], Tail(s)[j].kind, Tail(s)[j].event)
        BY <1>1 DEF Apart
      <3>1. i + 1 \in 1..Len(s) /\ j + 1 \in 1..Len(s) /\ i + 1 # j + 1
        BY <1>1
      <3> QED
        BY <1>1, <1>4, <3>1 DEF Apart
    <2>2. ASSUME NEW j \in ToSet(Tail(s)) PROVE ~IsAbout(j, Head(s).kind, Head(s).event)
      <3>1. PICK i \in 1..(Len(s) - 1) : j = Tail(s)[i]
        BY <1>2 DEF ToSet
      <3>2. j = s[i + 1] /\ i + 1 \in 1..Len(s) /\ 1 \in 1..Len(s) /\ i + 1 # 1
        BY <1>1, <3>1
      <3> QED
        BY <1>1, <1>4, <3>2 DEF Apart
    <2> QED
      BY <2>1, <2>2
  <1> QED
    BY <1>1, <1>3, <1>4

LEMMA DoingIs ==
  ASSUME doing \in {Rest} \union [at : Stages, job : Job]
  PROVE  /\ Rest.at = "rest"
         /\ doing = Rest <=> doing.at = "rest"
         /\ doing # Rest =>
              /\ doing = [at |-> doing.at, job |-> doing.job] /\ doing.at \in Stages /\ doing.job \in Job
              /\ Held = {doing.job}
              /\ \A stage \in Stages : [doing EXCEPT !.at = stage] = [at |-> stage, job |-> doing.job]
         /\ doing = Rest => Held = {}
  BY DEF Rest, Stages, Held

LEMMA NoticesInvInit == NoticesInit => NoticesInv
  <1> SUFFICES ASSUME NoticesInit PROVE NoticesInv
    OBVIOUS
  <1>1. AllRequests /\ \A r \in Requests : request[r] = Free
    BY FreeIsRequest DEF NoticesInit, HandlersInit, AllRequests
  <1>2. Waiting = {} /\ todo = <<>> /\ ToSet(todo) = {} /\ doing = Rest
    BY DEF NoticesInit, Waiting, Held, ToSet
  <1>3. NoticesValues
    BY <1>2, FS_EmptySet DEF NoticesInit, NoticesValues
  <1>4. PublicationInv
    BY <1>1, <1>2 DEF NoticesInit, PublicationInv, NoticesNamed, Publishing, PublishedApart, Untold, Free
  <1>5. WorkerInv
    BY <1>2, NoticesAssumption
    DEF NoticesInit, WorkerInv, QueuedOnce, Apart, Stage, Tries, SettledOnce, Kept, Rest
  <1>6. LogInv
    BY <1>2 DEF NoticesInit, LogInv, HiddenBehind, LoggedAgainOnlyBehind, Rest
  <1> QED
    BY <1>1, <1>3, <1>4, <1>5, <1>6 DEF NoticesInv

-----------------------------------------------------------------------------
\* The worker does not disturb those who publish.
LEMMA StillPublished ==
  ASSUME NoticesInv, request' = request, published' = published, asked' = asked,
         eventLog \subseteq eventLog', now' \in Nat, now <= now',
         \A x \in eventLog' : x \in eventLog \/ \E i \in Waiting : IsAbout(i, "log", x.event),
         \A j \in Waiting' : \E i \in Waiting : IsAbout(i, j.kind, j.event),
         \A j \in failedJobs' : j \in failedJobs \/ \E i \in Waiting : IsAbout(i, j.kind, j.event),
         \A x \in notices' : x \in notices \/ \E i \in Waiting : IsAbout(i, "sms", x.event),
         \A e \in DomainEvents : texted'[e] = texted[e] \/ \E i \in Waiting : IsAbout(i, "sms", e)
  PROVE  PublicationInv'
  <1>1. ASSUME NEW r \in Requests PROVE NoticesNamed(request[r])' /\ Publishing(request[r])'
    <2>1. NoticesNamed(request[r]) /\ Publishing(request[r]) /\ now \in Nat
      BY DEF NoticesInv, PublicationInv, NoticesValues
    <2>2. NoticesNamed(request[r])'
      BY <2>1 DEF NoticesNamed
    <2>3. ASSUME request[r].op # "free" PROVE Publishing(request[r])'
      <3>1. request[r].op = "persist" => \A x \in eventLog' : x.event # request[r].event
        BY <2>1, <2>3 DEF Publishing
      <3>2. request[r].op # "lookup" => \A j \in Waiting' : ~IsAbout(j, "log", request[r].event)
        BY <2>1, <2>3 DEF Publishing, IsAbout
      <3> QED
        BY <2>1, <2>3, <3>1, <3>2 DEF Publishing
    <2> QED
      BY <2>2, <2>3 DEF Publishing
  <1>2. PublishedApart'
    BY DEF NoticesInv, PublicationInv, PublishedApart
  <1>3. Untold'
    <2>1. /\ \A e \in DomainEvents \ published : \A x \in eventLog : x.event # e
          /\ \A e \in DomainEvents \ published : \A j \in Waiting : j.event # e
          /\ \A e \in DomainEvents \ asked :
               /\ \A j \in Waiting \union failedJobs : ~IsAbout(j, "sms", e)
               /\ \A x \in notices : x.event # e
               /\ texted[e] = 0
          /\ \A e \in asked : \E x \in eventLog : x.event = e
      BY DEF NoticesInv, PublicationInv, Untold
    <2>2. ASSUME NEW e \in DomainEvents \ published
          PROVE  (\A x \in eventLog' : x.event # e) /\ (\A j \in Waiting' : j.event # e)
      BY <2>1 DEF IsAbout
    <2>3. ASSUME NEW e \in DomainEvents \ asked
          PROVE  /\ \A j \in Waiting' \union failedJobs' : ~IsAbout(j, "sms", e)
                 /\ \A x \in notices' : x.event # e
                 /\ texted'[e] = 0
      <3>1. \A i \in Waiting \union failedJobs : ~IsAbout(i, "sms", e)
        BY <2>1
      <3>2. ASSUME NEW j \in Waiting' \union failedJobs' PROVE ~IsAbout(j, "sms", e)
        <4>1. j \in failedJobs \/ \E i \in Waiting : IsAbout(i, j.kind, j.event)
          OBVIOUS
        <4> QED
          BY <3>1, <4>1 DEF IsAbout
      <3>3. \A x \in notices' : x.event # e
        BY <2>1, <3>1
      <3>4. texted'[e] = 0
        BY <2>1, <3>1
      <3> QED
        BY <3>2, <3>3, <3>4
    <2> QED
      BY <2>1, <2>2, <2>3 DEF Untold
  <1> QED
    BY <1>1, <1>2, <1>3 DEF PublicationInv

\* Nor those whose job is elsewhere.
LEMMA StillSettled ==
  ASSUME NoticesInv, UNCHANGED <<failedJobs, notices, asked, cut, recipient>>,
         \A j \in Waiting' : \E i \in Waiting : IsAbout(i, j.kind, j.event),
         recipient # "sms_off" => \A i \in Waiting : i.kind = "sms" => \E j \in Waiting' : IsAbout(j, i.kind, i.event)
  PROVE  SettledOnce' /\ Kept'
  <1>1. SettledOnce'
    <2>1. \A x \in notices : \A j \in Waiting' \union failedJobs : ~IsAbout(j, "sms", x.event)
      BY DEF NoticesInv, WorkerInv, SettledOnce, IsAbout
    <2>2. \A j \in failedJobs : j.kind = "sms" => \A i \in Waiting' : ~IsAbout(i, "sms", j.event)
      BY DEF NoticesInv, WorkerInv, SettledOnce, IsAbout
    <2> QED
      BY <2>1, <2>2 DEF NoticesInv, WorkerInv, SettledOnce
  <1>2. Kept'
    <2> SUFFICES ASSUME ~cut, recipient # "sms_off", NEW e \in asked
                 PROVE  \/ \E j \in Waiting' \union failedJobs : IsAbout(j, "sms", e)
                        \/ \E x \in notices : x.event = e
      BY DEF Kept
    <2>1. CASE \E x \in notices : x.event = e
      BY <2>1
    <2>2. CASE \E j \in failedJobs : IsAbout(j, "sms", e)
      BY <2>2
    <2>3. CASE \E j \in Waiting : IsAbout(j, "sms", e)
      BY <2>3 DEF IsAbout
    <2> QED
      BY <2>1, <2>2, <2>3 DEF NoticesInv, WorkerInv, Kept
  <1> QED
    BY <1>1, <1>2

LEMMA StillLogged ==
  ASSUME NoticesInv, eventLog' = eventLog,
         doing' # Rest /\ doing'.at = "insert" =>
           \A x \in eventLog : x.event = doing'.job.event => Cardinality(Later(x)) >= LogWindow
  PROVE  LogInv'
  BY DEF NoticesInv, LogInv, HiddenBehind, LoggedAgainOnlyBehind, Later

LEMMA StillRequested == ASSUME NoticesInv, UNCHANGED handlerVars PROVE AllRequests'
  BY DEF NoticesInv, AllRequests, handlerVars

\* The worker goes on with its job.
LEMMA StageMoves ==
  ASSUME NoticesInv, doing # Rest, NEW stage \in Stages, doing' = [doing EXCEPT !.at = stage],
         UNCHANGED <<eventLog, now, todo, failedJobs, recipient, notices, published, asked, handlerVars>>,
         texted' \in [DomainEvents -> Nat],
         \A e \in DomainEvents : texted'[e] # texted[e] => IsAbout(doing.job, "sms", e),
         doing.job.kind = "sms" =>
           /\ texted'[doing.job.event] <= doing.job.attempts
           /\ stage \in {"sms", "send"} => texted'[doing.job.event] < doing.job.attempts,
         stage \in {"sms", "send", "sent", "failed", "failed_no_mobile"} => doing.job.kind = "sms",
         stage \in {"log", "insert"} => doing.job.kind = "log",
         stage = "backoff" => doing.job.attempts < MaxTries,
         stage = "insert" =>
           \A x \in eventLog : x.event = doing.job.event => Cardinality(Later(x)) >= LogWindow
  PROVE  NoticesInv'
  <1> DEFINE d == doing.job
  <1>1. /\ doing' = [at |-> stage, job |-> d] /\ d \in Job /\ doing'.at = stage /\ doing'.job = d
        /\ doing' # Rest /\ Held' = {d} /\ Held = {d} /\ Rest.at = "rest" /\ stage # "rest"
    <2>1. doing \in {Rest} \union [at : Stages, job : Job]
      BY DEF NoticesInv, NoticesValues
    <2>2. /\ Rest.at = "rest" /\ d \in Job /\ Held = {d}
          /\ [doing EXCEPT !.at = stage] = [at |-> stage, job |-> d]
      BY <2>1, DoingIs
    <2>3. doing' = [at |-> stage, job |-> d] /\ stage # "rest"
      BY <2>2 DEF Stages
    <2> QED
      BY <2>2, <2>3 DEF Held
  <1>2. Waiting' = Waiting /\ d \in Waiting
    BY <1>1 DEF Waiting
  <1>3. NoticesValues'
    BY <1>1 DEF NoticesInv, NoticesValues
  <1>4. PublicationInv'
    <2>1. now \in Nat /\ now <= now'
      BY DEF NoticesInv, NoticesValues
    <2>2. request' = request
      BY DEF handlerVars
    <2>3. \A e \in DomainEvents : texted'[e] = texted[e] \/ \E i \in Waiting : IsAbout(i, "sms", e)
      BY <1>2
    <2>4. \A j \in Waiting' : \E i \in Waiting : IsAbout(i, j.kind, j.event)
      BY <1>2 DEF IsAbout
    <2> QED
      BY <1>2, <2>1, <2>2, <2>3, <2>4, StillPublished
  <1>5. QueuedOnce'
    BY <1>1 DEF NoticesInv, WorkerInv, QueuedOnce
  <1>6. Stage'
    BY <1>1 DEF NoticesInv, WorkerInv, Stage
  <1>7. Tries'
    <2>1. ASSUME NEW j \in ToSet(todo), j.kind = "sms" PROVE texted'[j.event] <= j.attempts
      <3>1. j \in Job
        BY DEF NoticesInv, NoticesValues, ToSet
      <3>2. ~IsAbout(j, d.kind, d.event)
        BY DEF NoticesInv, WorkerInv, QueuedOnce
      <3>3. texted'[j.event] = texted[j.event]
        BY <2>1, <3>1, <3>2, JobIs DEF IsAbout
      <3> QED
        BY <2>1, <3>3 DEF NoticesInv, WorkerInv, Tries
    <2>2. ASSUME NEW e \in DomainEvents PROVE texted'[e] <= MaxTries
      <3>1. CASE texted'[e] = texted[e]
        BY <3>1 DEF NoticesInv, WorkerInv, Tries
      <3>2. CASE texted'[e] # texted[e]
        <4>1. texted'[e] <= d.attempts /\ d.attempts <= MaxTries /\ d.attempts \in Nat
          BY <1>1, <3>2, JobIs DEF IsAbout
        <4>2. texted'[e] \in Nat
          OBVIOUS
        <4> QED
          BY <4>1, <4>2, NoticesAssumption
      <3> QED
        BY <3>1, <3>2
    <2> QED
      BY <1>1, <2>1, <2>2 DEF Tries
  <1>8. SettledOnce' /\ Kept'
    <2>1. cut' = cut
      BY DEF handlerVars
    <2>2. \A j \in Waiting : IsAbout(j, j.kind, j.event)
      BY DEF IsAbout
    <2> QED
      BY <1>2, <2>1, <2>2, StillSettled
  <1>9. LogInv'
    BY <1>1, StillLogged
  <1> QED
    BY <1>3, <1>4, <1>5, <1>6, <1>7, <1>8, <1>9, StillRequested DEF NoticesInv, WorkerInv

\* What the worker knows of a job it is at.
LEMMA AtWork ==
  ASSUME NoticesInv, doing # Rest
  PROVE  /\ doing.job \in Job /\ Held = {doing.job} /\ doing.job \in Waiting
         /\ Waiting = ToSet(todo) \union {doing.job}
         /\ doing.at \in Stages /\ doing.at # "rest"
         /\ doing.at \in {"sms", "send", "sent", "failed", "failed_no_mobile"} => doing.job.kind = "sms"
         /\ doing.at \in {"log", "insert"} => doing.job.kind = "log"
         /\ \A j \in ToSet(todo) : ~IsAbout(j, doing.job.kind, doing.job.event)
         /\ doing.job.kind = "sms" =>
              /\ texted[doing.job.event] <= doing.job.attempts
              /\ doing.at \in {"sms", "send"} => texted[doing.job.event] < doing.job.attempts
         /\ doing.job.attempts > 0 /\ (doing.at = "backoff" => doing.job.attempts < MaxTries)
  <1>1. doing \in {Rest} \union [at : Stages, job : Job] /\ QueuedOnce /\ Stage /\ Tries
    BY DEF NoticesInv, NoticesValues, WorkerInv
  <1>2. doing.job \in Job /\ Held = {doing.job} /\ doing.at \in Stages /\ doing.at # "rest"
    BY <1>1, DoingIs
  <1> QED
    BY <1>1, <1>2 DEF Waiting, QueuedOnce, Stage, Tries

LEMMA Working == ASSUME NoticesInv, doing.at # "rest" PROVE doing # Rest
  BY DEF Rest

LEMMA NoticesTakes == ASSUME NoticesInv, Take PROVE NoticesInv'
  <1> DEFINE h == Head(todo)
             j == [h EXCEPT !.attempts = @ + 1]
  <1>1. /\ doing = Rest /\ todo # <<>> /\ doing' = [at |-> h.kind, job |-> j] /\ todo' = Tail(todo)
        /\ UNCHANGED <<eventLog, now, failedJobs, recipient, notices, texted, published, asked, handlerVars>>
    BY DEF Take
  <1>2. /\ todo \in Seq(Job) /\ Tail(todo) \in Seq(Job) /\ h \in Job
        /\ ToSet(todo) = ToSet(Tail(todo)) \union {h}
        /\ Apart(Tail(todo)) /\ \A i \in ToSet(Tail(todo)) : ~IsAbout(i, h.kind, h.event)
    <2>1. todo \in Seq(Job) /\ Apart(todo)
      BY DEF NoticesInv, NoticesValues, WorkerInv, QueuedOnce
    <2> QED
      BY <1>1, <2>1, JobTaken
  <1>3. h.attempts < MaxTries /\ h.attempts \in Nat /\ h.kind \in {"log", "sms"} /\ h.event \in DomainEvents
    BY <1>2, JobIs DEF NoticesInv, WorkerInv, Stage
  <1>4. j = [kind |-> h.kind, event |-> h.event, attempts |-> h.attempts + 1] /\ j \in Job
    <2>1. h = [kind |-> h.kind, event |-> h.event, attempts |-> h.attempts]
      BY <1>2, JobIs
    <2>2. j = [kind |-> h.kind, event |-> h.event, attempts |-> h.attempts + 1]
      BY <2>1
    <2> QED
      BY <1>3, <2>2, NoticesAssumption DEF Job
  <1> HIDE DEF h, j
  <1>5. /\ doing' # Rest /\ doing'.at = h.kind /\ doing'.job = j /\ Held' = {j} /\ Held = {}
        /\ doing' \in [at : Stages, job : Job]
    BY <1>1, <1>3, <1>4 DEF Rest, Held, Stages
  <1>6. /\ Waiting' = ToSet(Tail(todo)) \union {j} /\ Waiting = ToSet(Tail(todo)) \union {h}
        /\ IsAbout(j, h.kind, h.event) /\ IsAbout(h, j.kind, j.event)
    BY <1>1, <1>2, <1>4, <1>5 DEF Waiting, IsAbout
  <1>7. NoticesValues'
    BY <1>1, <1>2, <1>5 DEF NoticesInv, NoticesValues
  <1>8. \A i \in Waiting' : \E k \in Waiting : IsAbout(k, i.kind, i.event)
    BY <1>6 DEF IsAbout
  <1>9. \A i \in Waiting : \E k \in Waiting' : IsAbout(k, i.kind, i.event)
    BY <1>6 DEF IsAbout
  <1>10. PublicationInv'
    <2>1. now \in Nat /\ now <= now' /\ now' \in Nat /\ request' = request
      BY <1>1 DEF NoticesInv, NoticesValues, handlerVars
    <2> QED
      BY <1>1, <1>8, <2>1, StillPublished
  <1>11. SettledOnce' /\ Kept'
    BY <1>1, <1>8, <1>9, StillSettled DEF handlerVars
  <1>12. QueuedOnce'
    BY <1>1, <1>2, <1>4, <1>5 DEF QueuedOnce
  <1>13. Stage'
    BY <1>1, <1>2, <1>3, <1>4, <1>5 DEF Stage, NoticesInv, WorkerInv
  <1>14. Tries'
    <2>1. h.kind = "sms" => texted[h.event] <= h.attempts
      BY <1>2 DEF NoticesInv, WorkerInv, Tries
    <2>2. texted[h.event] \in Nat
      BY <1>3 DEF NoticesInv, NoticesValues
    <2>3. h.kind = "sms" => texted[h.event] < j.attempts /\ texted[h.event] <= j.attempts
      BY <1>3, <1>4, <2>1, <2>2
    <2> QED
      BY <1>1, <1>2, <1>4, <1>5, <2>3 DEF Tries, NoticesInv, WorkerInv
  <1>15. LogInv'
    BY <1>1, <1>3, <1>5, StillLogged
  <1> QED
    BY <1>1, <1>7, <1>10, <1>11, <1>12, <1>13, <1>14, <1>15, StillRequested DEF NoticesInv, WorkerInv

LEMMA NoticesThrows == ASSUME NoticesInv, JobThrows PROVE NoticesInv'
  <1> DEFINE stage == IF doing.job.attempts < MaxTries THEN "backoff" ELSE "giveup"
  <1>1. /\ doing # Rest /\ doing' = [doing EXCEPT !.at = stage]
        /\ UNCHANGED <<eventLog, now, todo, failedJobs, recipient, notices, texted, published, asked, handlerVars>>
    BY Working DEF JobThrows
  <1>2. stage \in Stages /\ (stage = "backoff" => doing.job.attempts < MaxTries)
        /\ stage \notin {"log", "insert", "sms", "send", "sent", "failed", "failed_no_mobile"}
    BY DEF Stages
  <1>3. texted' \in [DomainEvents -> Nat] /\ \A e \in DomainEvents : texted'[e] = texted[e]
    BY <1>1 DEF NoticesInv, NoticesValues
  <1>4. doing.job.kind = "sms" => texted'[doing.job.event] <= doing.job.attempts
    BY <1>1, AtWork
  <1> HIDE DEF stage
  <1> QED
    BY <1>1, <1>2, <1>3, <1>4, StageMoves

LEMMA NoticesSends == ASSUME NoticesInv, SmsSend PROVE NoticesInv'
  <1>1. doing # Rest /\ doing.at = "send" /\ doing.job \in Job /\ doing.job.kind = "sms"
        /\ texted[doing.job.event] < doing.job.attempts /\ doing.job.event \in DomainEvents
        /\ texted \in [DomainEvents -> Nat] /\ doing.job.attempts \in Nat
        /\ UNCHANGED <<eventLog, now, todo, failedJobs, recipient, notices, published, asked, handlerVars>>
    <2>1. doing # Rest /\ doing.at = "send"
      BY Working DEF SmsSend, At
    <2>2. doing.job \in Job
      BY <2>1, AtWork
    <2> QED
      BY <2>1, <2>2, AtWork, JobIs DEF SmsSend, NoticesInv, NoticesValues
  <1>2. CASE doing' = [doing EXCEPT !.at = "sent"] /\ texted' = [texted EXCEPT ![doing.job.event] = @ + 1]
    <2>1. /\ texted' \in [DomainEvents -> Nat] /\ texted'[doing.job.event] <= doing.job.attempts
          /\ \A e \in DomainEvents : texted'[e] # texted[e] => IsAbout(doing.job, "sms", e)
      BY <1>1, <1>2 DEF IsAbout
    <2> QED
      BY <1>1, <1>2, <2>1, StageMoves DEF Stages
  <1>3. CASE doing' = [doing EXCEPT !.at = "failed"] /\ UNCHANGED texted
    <2>1. /\ texted' \in [DomainEvents -> Nat] /\ texted'[doing.job.event] <= doing.job.attempts
          /\ \A e \in DomainEvents : texted'[e] = texted[e]
      BY <1>1, <1>3
    <2> QED
      BY <1>1, <1>3, <2>1, StageMoves DEF Stages
  <1> QED
    BY <1>2, <1>3 DEF SmsSend

\* The worker has ended its job, whatever came of it.
LEMMA WorkerRests ==
  ASSUME NoticesInv, doing # Rest, doing' = Rest, UNCHANGED <<todo, texted>>
  PROVE  /\ Waiting' = ToSet(todo) /\ Waiting = ToSet(todo) \union {doing.job} /\ doing.job \in Waiting
         /\ QueuedOnce' /\ Stage' /\ Tries'
         /\ \A j \in Waiting' : j \in Waiting /\ ~IsAbout(j, doing.job.kind, doing.job.event)
         /\ \A j \in Waiting' : \E i \in Waiting : IsAbout(i, j.kind, j.event)
  <1>1. /\ Waiting = ToSet(todo) \union {doing.job} /\ doing.job \in Waiting
        /\ \A j \in ToSet(todo) : ~IsAbout(j, doing.job.kind, doing.job.event)
    BY AtWork
  <1>2. Waiting' = ToSet(todo)
    BY DEF Waiting, Held
  <1>3. QueuedOnce' /\ Stage' /\ Tries'
    BY DEF NoticesInv, WorkerInv, QueuedOnce, Stage, Tries
  <1> QED
    BY <1>1, <1>2, <1>3 DEF IsAbout

LEMMA NoticesReadsSms == ASSUME NoticesInv, SmsRead PROVE NoticesInv'
  <1>1. /\ doing # Rest /\ doing.at = "sms" /\ doing.job.kind = "sms"
        /\ texted[doing.job.event] < doing.job.attempts /\ texted[doing.job.event] <= doing.job.attempts
        /\ UNCHANGED <<eventLog, now, todo, failedJobs, recipient, notices, texted, published, asked, handlerVars>>
    <2>1. doing # Rest /\ doing.at = "sms"
      BY Working DEF SmsRead, At
    <2> QED
      BY <2>1, AtWork DEF SmsRead
  <1>2. texted' \in [DomainEvents -> Nat] /\ \A e \in DomainEvents : texted'[e] = texted[e]
    BY <1>1 DEF NoticesInv, NoticesValues
  <1>3. CASE recipient = "no_mobile" /\ doing' = [doing EXCEPT !.at = "failed_no_mobile"]
    BY <1>1, <1>2, <1>3, StageMoves DEF Stages
  <1>4. CASE recipient = "reachable" /\ doing' = [doing EXCEPT !.at = "send"]
    BY <1>1, <1>2, <1>4, StageMoves DEF Stages
  <1>5. CASE recipient = "sms_off" /\ doing' = Rest
    <2>1. /\ QueuedOnce' /\ Stage' /\ Tries'
          /\ \A j \in Waiting' : \E i \in Waiting : IsAbout(i, j.kind, j.event)
      BY <1>1, <1>5, WorkerRests
    <2>2. SettledOnce' /\ Kept'
      BY <1>1, <1>5, <2>1, StillSettled DEF handlerVars
    <2>3. PublicationInv'
      <3>1. now \in Nat /\ now <= now' /\ now' \in Nat /\ request' = request
        BY <1>1 DEF NoticesInv, NoticesValues, handlerVars
      <3> QED
        BY <1>1, <2>1, <3>1, StillPublished
    <2>4. NoticesValues' /\ LogInv'
      BY <1>1, <1>5, StillLogged DEF NoticesInv, NoticesValues
    <2> QED
      BY <1>1, <2>1, <2>2, <2>3, <2>4, StillRequested DEF NoticesInv, WorkerInv
  <1>6. recipient \in {"reachable", "no_mobile", "sms_off"}
    BY DEF NoticesInv, NoticesValues
  <1> QED
    BY <1>3, <1>4, <1>5, <1>6 DEF SmsRead

LEMMA NoticesRecords == ASSUME NoticesInv, SmsRecord PROVE NoticesInv'
  <1> DEFINE d == doing.job
             n == [event |-> d.event, try |-> d.attempts, status |-> doing.at]
  <1>1. /\ doing # Rest /\ doing' = Rest /\ notices' = notices \union {n}
        /\ doing.at \in {"sent", "failed", "failed_no_mobile"}
        /\ UNCHANGED <<eventLog, now, todo, failedJobs, recipient, texted, published, asked, handlerVars>>
    BY Working DEF SmsRecord
  <1>2. /\ d \in Job /\ d.kind = "sms" /\ d.attempts > 0
        /\ Waiting' = ToSet(todo) /\ Waiting = ToSet(todo) \union {d} /\ d \in Waiting
        /\ QueuedOnce' /\ Stage' /\ Tries'
        /\ \A j \in Waiting' : j \in Waiting /\ ~IsAbout(j, "sms", d.event)
        /\ \A j \in Waiting' : \E i \in Waiting : IsAbout(i, j.kind, j.event)
    BY <1>1, AtWork, WorkerRests
  <1>3. d.attempts \in 1..MaxTries /\ d.event \in DomainEvents
    BY <1>2, JobIs, NoticesAssumption
  <1>4. n \in Notice /\ n.event = d.event
    BY <1>1, <1>3 DEF Notice
  <1> HIDE DEF n
  <1>5. IsAbout(d, "sms", d.event)
    BY <1>2 DEF IsAbout
  <1>6. NoticesValues'
    BY <1>1, <1>4 DEF NoticesInv, NoticesValues
  <1>7. PublicationInv'
    <2>1. now \in Nat /\ now <= now' /\ now' \in Nat /\ request' = request
      BY <1>1 DEF NoticesInv, NoticesValues, handlerVars
    <2>2. \A x \in notices' : x \in notices \/ \E i \in Waiting : IsAbout(i, "sms", x.event)
      BY <1>1, <1>2, <1>4, <1>5
    <2> QED
      BY <1>1, <1>2, <2>1, <2>2, StillPublished
  <1>8. SettledOnce'
    <2>1. SettledOnce
      BY DEF NoticesInv, WorkerInv
    <2>2. \A j \in failedJobs : ~IsAbout(j, "sms", d.event)
      BY <1>2, <1>5, <2>1 DEF SettledOnce, IsAbout
    <2>3. \A x \in notices : x.event # d.event
      BY <1>2, <1>5, <2>1 DEF SettledOnce
    <2>4. \A x \in notices' : \A j \in Waiting' \union failedJobs' : ~IsAbout(j, "sms", x.event)
      BY <1>1, <1>2, <1>4, <2>1, <2>2 DEF SettledOnce
    <2>5. \A x, y \in notices' : x.event = y.event => x = y
      BY <1>1, <1>4, <2>1, <2>3 DEF SettledOnce
    <2>6. \A j \in failedJobs : j.kind = "sms" => \A i \in Waiting' : ~IsAbout(i, "sms", j.event)
      BY <1>2, <2>1 DEF SettledOnce
    <2> QED
      BY <1>1, <2>1, <2>4, <2>5, <2>6 DEF SettledOnce
  <1>9. Kept'
    <2> SUFFICES ASSUME ~cut, recipient # "sms_off", NEW e \in asked
                 PROVE  \/ \E j \in Waiting' \union failedJobs : IsAbout(j, "sms", e)
                        \/ \E x \in notices' : x.event = e
      BY <1>1 DEF Kept, handlerVars
    <2>1. \/ \E j \in Waiting \union failedJobs : IsAbout(j, "sms", e)
          \/ \E x \in notices : x.event = e
      BY DEF NoticesInv, WorkerInv, Kept
    <2>2. CASE e = d.event
      BY <1>1, <1>4, <2>2
    <2>3. CASE e # d.event
      BY <1>1, <1>2, <2>1, <2>3 DEF IsAbout
    <2> QED
      BY <2>2, <2>3
  <1>10. LogInv'
    BY <1>1, StillLogged
  <1> QED
    BY <1>1, <1>2, <1>6, <1>7, <1>8, <1>9, <1>10, StillRequested DEF NoticesInv, WorkerInv

LEMMA NoticesGivesUp == ASSUME NoticesInv, GiveUp PROVE NoticesInv'
  <1> DEFINE d == doing.job
  <1>1. /\ doing # Rest /\ doing' = Rest /\ failedJobs' = failedJobs \union {d}
        /\ UNCHANGED <<eventLog, now, todo, recipient, notices, texted, published, asked, handlerVars>>
    BY Working DEF GiveUp, At
  <1>2. /\ d \in Job
        /\ Waiting' = ToSet(todo) /\ Waiting = ToSet(todo) \union {d} /\ d \in Waiting
        /\ QueuedOnce' /\ Stage' /\ Tries'
        /\ \A j \in Waiting' : j \in Waiting /\ ~IsAbout(j, d.kind, d.event)
        /\ \A j \in Waiting' : \E i \in Waiting : IsAbout(i, j.kind, j.event)
    BY <1>1, AtWork, WorkerRests
  <1>3. NoticesValues'
    BY <1>1, <1>2 DEF NoticesInv, NoticesValues
  <1>4. PublicationInv'
    <2>1. now \in Nat /\ now <= now' /\ now' \in Nat /\ request' = request
      BY <1>1 DEF NoticesInv, NoticesValues, handlerVars
    <2>2. \A j \in failedJobs' : j \in failedJobs \/ \E i \in Waiting : IsAbout(i, j.kind, j.event)
      BY <1>1, <1>2 DEF IsAbout
    <2> QED
      BY <1>1, <1>2, <2>1, <2>2, StillPublished
  <1>5. SettledOnce'
    <2>1. SettledOnce
      BY DEF NoticesInv, WorkerInv
    <2>2. \A x \in notices : \A j \in Waiting' \union failedJobs' : ~IsAbout(j, "sms", x.event)
      BY <1>1, <1>2, <2>1 DEF SettledOnce
    <2>3. \A j \in failedJobs' : j.kind = "sms" => \A i \in Waiting' : ~IsAbout(i, "sms", j.event)
      BY <1>1, <1>2, <2>1 DEF SettledOnce
    <2>4. \A i, j \in failedJobs' : i.kind = "sms" /\ IsAbout(j, "sms", i.event) => i = j
      BY <1>1, <1>2, <2>1 DEF SettledOnce, IsAbout
    <2> QED
      BY <1>1, <2>1, <2>2, <2>3, <2>4 DEF SettledOnce
  <1>6. Kept'
    <2>1. Waiting \union failedJobs \subseteq Waiting' \union failedJobs'
      BY <1>1, <1>2
    <2> QED
      BY <1>1, <2>1 DEF Kept, NoticesInv, WorkerInv, handlerVars
  <1>7. LogInv'
    BY <1>1, StillLogged
  <1> QED
    BY <1>1, <1>2, <1>3, <1>4, <1>5, <1>6, <1>7, StillRequested DEF NoticesInv, WorkerInv

LEMMA NoticesBackOff == ASSUME NoticesInv, BackoffEnds PROVE NoticesInv'
  <1> DEFINE d == doing.job
  <1>1. /\ doing # Rest /\ doing.at = "backoff" /\ doing' = Rest /\ todo' = Append(todo, d)
        /\ UNCHANGED <<eventLog, now, failedJobs, recipient, notices, texted, published, asked, handlerVars>>
    BY Working DEF BackoffEnds, At
  <1>2. /\ d \in Job /\ d.attempts < MaxTries
        /\ Waiting = ToSet(todo) \union {d}
        /\ \A j \in ToSet(todo) : ~IsAbout(j, d.kind, d.event)
        /\ d.kind = "sms" => texted[d.event] <= d.attempts
    BY <1>1, AtWork
  <1>3. todo' \in Seq(Job) /\ ToSet(todo') = ToSet(todo) \union {d} /\ Apart(todo')
    <2>1. todo \in Seq(Job) /\ Apart(todo)
      BY DEF NoticesInv, NoticesValues, WorkerInv, QueuedOnce
    <2> QED
      BY <1>1, <1>2, <2>1, JobAppended
  <1>4. Waiting' = Waiting /\ \A j \in Waiting : IsAbout(j, j.kind, j.event)
    BY <1>1, <1>2, <1>3 DEF Waiting, Held, IsAbout
  <1>5. NoticesValues'
    BY <1>1, <1>3 DEF NoticesInv, NoticesValues
  <1>6. PublicationInv'
    <2>1. now \in Nat /\ now <= now' /\ now' \in Nat /\ request' = request
      BY <1>1 DEF NoticesInv, NoticesValues, handlerVars
    <2> QED
      BY <1>1, <1>4, <2>1, StillPublished
  <1>7. SettledOnce' /\ Kept'
    BY <1>1, <1>4, StillSettled DEF handlerVars
  <1>8. QueuedOnce' /\ Stage' /\ Tries'
    BY <1>1, <1>2, <1>3 DEF QueuedOnce, Stage, Tries, NoticesInv, WorkerInv
  <1>9. LogInv'
    BY <1>1, StillLogged
  <1> QED
    BY <1>1, <1>5, <1>6, <1>7, <1>8, <1>9, StillRequested DEF NoticesInv, WorkerInv

LEMMA NoticesReadsLog == ASSUME NoticesInv, PersistJobRead PROVE NoticesInv'
  <1>1. /\ doing # Rest /\ doing.at = "log" /\ doing.job.kind = "log"
        /\ UNCHANGED <<eventLog, now, todo, failedJobs, recipient, notices, texted, published, asked, handlerVars>>
    <2>1. doing # Rest /\ doing.at = "log"
      BY Working DEF PersistJobRead, At
    <2> QED
      BY <2>1, AtWork DEF PersistJobRead
  <1>2. CASE ~ \E x \in listDomainEvents : x.event = doing.job.event
    <2>1. \A x \in eventLog : x.event = doing.job.event => Cardinality(Later(x)) >= LogWindow
      <3> SUFFICES ASSUME NEW x \in eventLog, x.event = doing.job.event
                   PROVE  Cardinality(Later(x)) >= LogWindow
        OBVIOUS
      <3>1. ~(Cardinality(Later(x)) < LogWindow)
        BY <1>2 DEF listDomainEvents, Later
      <3>2. IsFiniteSet(Later(x))
        BY FS_Subset DEF Later, NoticesInv, NoticesValues
      <3>3. Cardinality(Later(x)) \in Nat
        BY <3>2, FS_CardinalityType
      <3> QED
        BY <3>1, <3>3, NoticesAssumption
    <2>2. doing' = [doing EXCEPT !.at = "insert"]
      BY <1>2 DEF PersistJobRead
    <2>3. texted' \in [DomainEvents -> Nat] /\ \A e \in DomainEvents : texted'[e] = texted[e]
      BY <1>1 DEF NoticesInv, NoticesValues
    <2> QED
      BY <1>1, <2>1, <2>2, <2>3, StageMoves DEF Stages
  <1>3. CASE \E x \in listDomainEvents : x.event = doing.job.event
    <2>1. doing' = Rest
      BY <1>3 DEF PersistJobRead
    <2>2. /\ QueuedOnce' /\ Stage' /\ Tries'
          /\ Waiting = Waiting' \union {doing.job}
          /\ \A j \in Waiting' : \E i \in Waiting : IsAbout(i, j.kind, j.event)
      BY <1>1, <2>1, WorkerRests
    <2>3. \A i \in Waiting : i.kind = "sms" => \E j \in Waiting' : IsAbout(j, i.kind, i.event)
      BY <1>1, <2>2 DEF IsAbout
    <2>4. SettledOnce' /\ Kept'
      BY <1>1, <2>2, <2>3, StillSettled DEF handlerVars
    <2>5. PublicationInv'
      <3>1. now \in Nat /\ now <= now' /\ now' \in Nat /\ request' = request
        BY <1>1 DEF NoticesInv, NoticesValues, handlerVars
      <3> QED
        BY <1>1, <2>2, <3>1, StillPublished
    <2>6. NoticesValues' /\ LogInv'
      BY <1>1, <2>1, StillLogged DEF NoticesInv, NoticesValues
    <2> QED
      BY <1>1, <2>2, <2>4, <2>5, <2>6, StillRequested DEF NoticesInv, WorkerInv
  <1> QED
    BY <1>2, <1>3

\* What hides x from a job that inserts y.
Beyond(x, y) == {z \in eventLog : x.occurred_at < z.occurred_at /\ z # y}

\* The rows that hide another only become more.
LEMMA LogGrows ==
  ASSUME NoticesInv, NEW y, eventLog' = eventLog \union {y}
  PROVE  /\ IsFiniteSet(eventLog')
         /\ \A x, z \in eventLog :
              /\ Cardinality(Beyond(x, z)) \in Nat /\ Cardinality(Beyond(x, z))' \in Nat
              /\ Cardinality(Beyond(x, z)) <= Cardinality(Beyond(x, z))'
  <1>1. IsFiniteSet(eventLog')
    BY FS_AddElement DEF NoticesInv, NoticesValues
  <1>2. ASSUME NEW x \in eventLog, NEW z \in eventLog
        PROVE  /\ Cardinality(Beyond(x, z)) \in Nat /\ Cardinality(Beyond(x, z))' \in Nat
               /\ Cardinality(Beyond(x, z)) <= Cardinality(Beyond(x, z))'
    <2>1. Beyond(x, z)' \in SUBSET eventLog' /\ Beyond(x, z) \in SUBSET Beyond(x, z)'
      BY DEF Beyond
    <2>2. IsFiniteSet(Beyond(x, z)')
      BY <1>1, <2>1, FS_Subset
    <2>3. IsFiniteSet(Beyond(x, z)) /\ Cardinality(Beyond(x, z)) <= Cardinality(Beyond(x, z)')
      BY <2>1, <2>2, FS_Subset
    <2> QED
      BY <2>2, <2>3, FS_CardinalityType
  <1> QED
    BY <1>1, <1>2

LEMMA NoticesInserts == ASSUME NoticesInv, PersistJobInsert PROVE NoticesInv'
  <1> DEFINE d == doing.job
             y == [event |-> d.event, occurred_at |-> now]
  <1>1. /\ doing # Rest /\ doing.at = "insert" /\ doing' = Rest
        /\ eventLog' = eventLog \union {y} /\ now' = now + 1
        /\ UNCHANGED <<todo, failedJobs, recipient, notices, texted, published, asked, handlerVars>>
    BY Working DEF PersistJobInsert, At
  <1>2. /\ d \in Job /\ d.kind = "log" /\ d.event \in DomainEvents
        /\ QueuedOnce' /\ Stage' /\ Tries'
        /\ Waiting = Waiting' \union {d} /\ d \in Waiting
        /\ \A j \in Waiting' : \E i \in Waiting : IsAbout(i, j.kind, j.event)
    BY <1>1, AtWork, WorkerRests, JobIs
  <1>3. now \in Nat /\ now' \in Nat /\ now <= now' /\ y \in LogRow /\ y.occurred_at = now /\ y.event = d.event
    BY <1>1, <1>2 DEF NoticesInv, NoticesValues, LogRow
  <1> HIDE DEF y
  <1>4. \A x \in eventLog : x.occurred_at \in Nat /\ x.occurred_at < now
    BY DEF NoticesInv, NoticesValues, LogRow
  <1>5. NoticesValues'
    <2>1. \A x \in eventLog' : x.occurred_at < now'
      BY <1>1, <1>3, <1>4
    <2> QED
      BY <1>1, <1>3, <2>1, LogGrows DEF NoticesInv, NoticesValues
  <1>6. PublicationInv'
    <2>1. \A x \in eventLog' : x \in eventLog \/ \E i \in Waiting : IsAbout(i, "log", x.event)
      BY <1>1, <1>2, <1>3 DEF IsAbout
    <2>2. request' = request
      BY <1>1 DEF handlerVars
    <2> QED
      BY <1>1, <1>2, <1>3, <2>1, <2>2, StillPublished
  <1>7. SettledOnce' /\ Kept'
    <2>1. \A i \in Waiting : i.kind = "sms" => \E j \in Waiting' : IsAbout(j, i.kind, i.event)
      BY <1>2 DEF IsAbout
    <2> QED
      BY <1>1, <1>2, <2>1, StillSettled DEF handlerVars
  <1>8. LogInv'
    <2>1. HiddenBehind'
      BY <1>1 DEF HiddenBehind
    <2>2. ASSUME NEW x \in eventLog', NEW z \in eventLog', x.event = z.event, x.occurred_at < z.occurred_at
          PROVE  Cardinality(Beyond(x, z)') >= LogWindow
      <3>1. x \in eventLog
        BY <1>1, <1>3, <1>4, <2>2
      <3>2. CASE z \in eventLog
        <4>1. Cardinality(Beyond(x, z)) >= LogWindow
          BY <2>2, <3>1, <3>2 DEF NoticesInv, LogInv, LoggedAgainOnlyBehind, Beyond
        <4>2. /\ Cardinality(Beyond(x, z)) \in Nat /\ Cardinality(Beyond(x, z)') \in Nat
              /\ Cardinality(Beyond(x, z)) <= Cardinality(Beyond(x, z)')
          BY <1>1, <3>1, <3>2, LogGrows
        <4> QED
          BY <4>1, <4>2, NoticesAssumption
      <3>3. CASE z \notin eventLog
        <4>1. z = y
          BY <1>1, <3>3
        <4>2. Beyond(x, z)' = Later(x)
          BY <1>1, <3>1, <3>3, <4>1, <1>4, <1>3 DEF Later, Beyond
        <4>3. Cardinality(Later(x)) >= LogWindow
          BY <1>1, <1>3, <2>2, <3>1, <4>1 DEF NoticesInv, LogInv, HiddenBehind
        <4> QED
          BY <4>2, <4>3
      <3> QED
        BY <3>2, <3>3
    <2> QED
      BY <2>1, <2>2 DEF LogInv, LoggedAgainOnlyBehind, Beyond
  <1> QED
    BY <1>1, <1>2, <1>5, <1>6, <1>7, <1>8, StillRequested DEF NoticesInv, WorkerInv

-----------------------------------------------------------------------------
\* Those who publish.
LEMMA WorkerSame ==
  ASSUME NoticesInv, UNCHANGED <<todo, doing, failedJobs, recipient, notices, texted, asked>>, ~cut' => ~cut
  PROVE  WorkerInv' /\ Waiting' = Waiting
  BY DEF NoticesInv, WorkerInv, QueuedOnce, Apart, Stage, Tries, SettledOnce, Kept, Waiting, Held

LEMMA LogSame ==
  ASSUME NoticesInv, UNCHANGED <<eventLog, doing>>
  PROVE  LogInv'
  BY DEF NoticesInv, LogInv, HiddenBehind, LoggedAgainOnlyBehind, Later

LEMMA PublishingIs ==
  ASSUME NoticesInv, NEW r \in Requests, request[r].op # "free"
  PROVE  /\ IsRequest(request[r]) /\ request[r].fresh = TRUE
         /\ request[r].op \in {"persist", "emit", "lookup"}
         /\ {"event", "occurred_at"} \subseteq DOMAIN request[r]
         /\ request[r].event \in DomainEvents /\ request[r].event \in published /\ request[r].event \notin asked
         /\ request[r].occurred_at \in Nat /\ request[r].occurred_at < now
         /\ Publishing(request[r])
         /\ \A q \in Requests \ {r} : request[q].op # "free" => request[q].event # request[r].event
  BY DEF NoticesInv, AllRequests, PublicationInv, NoticesNamed, NoticesValues, PublishedApart

LEMMA NoticesEnds == ASSUME NoticesInv, NEW r \in Requests, PublishEnds(r) PROVE NoticesInv'
  <1>1. Ends(r, FALSE) /\ UNCHANGED noticesRows
    BY DEF PublishEnds
  <1>2. AllRequests' /\ request'[r] = Free /\ \A q \in Requests \ {r} : request'[q] = request[q]
    BY <1>1, EndsHere DEF NoticesInv
  <1>3. WorkerInv' /\ Waiting' = Waiting
    BY <1>1, WorkerSame DEF noticesRows, Ends
  <1>4. NoticesValues' /\ LogInv'
    BY <1>1, LogSame DEF noticesRows, NoticesInv, NoticesValues
  <1>5. PublicationInv'
    <2>1. \A q \in Requests : NoticesNamed(request[q])' /\ Publishing(request[q])'
      BY <1>1, <1>2, <1>3 DEF noticesRows, NoticesInv, PublicationInv, NoticesNamed, Publishing, Free
    <2>2. PublishedApart'
      BY <1>2 DEF NoticesInv, PublicationInv, PublishedApart, Free
    <2>3. Untold'
      BY <1>1, <1>3 DEF noticesRows, NoticesInv, PublicationInv, Untold
    <2> QED
      BY <2>1, <2>2, <2>3 DEF PublicationInv
  <1> QED
    BY <1>2, <1>3, <1>4, <1>5 DEF NoticesInv

LEMMA NoticesPublishes == ASSUME NoticesInv, NEW r \in Requests, Publish(r) PROVE NoticesInv'
  <1>1. PICK e \in DomainEvents \ published :
          /\ published' = published \union {e}
          /\ Begins(r, [op |-> "persist", reads |-> {}, fresh |-> TRUE, event |-> e, occurred_at |-> now])
    BY DEF Publish
  <1>2. PICK k :
        /\ k = [op |-> "persist", reads |-> {}, fresh |-> TRUE, event |-> e, occurred_at |-> now]
        /\ Goes(r, k) /\ now' = now + 1
        /\ UNCHANGED <<eventLog, todo, doing, failedJobs, recipient, notices, texted, asked>>
    BY <1>1 DEF Publish, Begins
  <1>3. IsRequest(k) /\ k.op = "persist" /\ k.event = e /\ k.occurred_at = now /\ k.fresh = TRUE
        /\ {"event", "occurred_at"} \subseteq DOMAIN k
    BY <1>2 DEF IsRequest
  <1>4. AllRequests' /\ request'[r] = k /\ \A q \in Requests \ {r} : request'[q] = request[q]
    BY <1>2, <1>3, GoesOn DEF NoticesInv
  <1>5. WorkerInv' /\ Waiting' = Waiting
    BY <1>2, WorkerSame DEF Goes
  <1>6. now \in Nat /\ \A x \in eventLog : x.occurred_at \in Nat
    BY DEF NoticesInv, NoticesValues, LogRow
  <1>7. NoticesValues' /\ LogInv'
    <2>1. \A x \in eventLog : x.occurred_at < now'
      BY <1>2, <1>6 DEF NoticesInv, NoticesValues
    <2> QED
      BY <1>1, <1>2, <2>1, LogSame DEF NoticesInv, NoticesValues
  <1>8. PublicationInv'
    <2>1. (\A x \in eventLog : x.event # e) /\ (\A j \in Waiting : j.event # e)
      BY <1>1 DEF NoticesInv, PublicationInv, Untold
    <2>2. e \notin asked
      BY <1>1 DEF NoticesInv, NoticesValues
    <2>3. NoticesNamed(k)'
      BY <1>1, <1>2, <1>3, <1>6, <2>2 DEF NoticesNamed
    <2>4. Publishing(k)'
      BY <1>2, <1>3, <1>5, <2>1 DEF Publishing, IsAbout
    <2>5. ASSUME NEW q \in Requests \ {r}, request[q].op # "free"
          PROVE  NoticesNamed(request[q])' /\ Publishing(request[q])' /\ request[q].event # e
      <3>1. NoticesNamed(request[q]) /\ Publishing(request[q])
        BY DEF NoticesInv, PublicationInv
      <3>2. request'[q] = request[q]
        BY <1>4
      <3>3. NoticesNamed(request[q])'
        BY <1>1, <1>2, <1>6, <2>5, <3>1, <3>2 DEF NoticesNamed
      <3>4. Publishing(request[q])'
        BY <1>2, <1>5, <3>1, <3>2 DEF Publishing
      <3>5. request[q].event # e
        BY <1>1, <2>5, <3>1 DEF NoticesNamed
      <3> QED
        BY <3>3, <3>4, <3>5
    <2>6. \A q \in Requests : NoticesNamed(request[q])' /\ Publishing(request[q])'
      <3> TAKE q \in Requests
      <3>1. CASE q = r
        BY <1>4, <2>3, <2>4, <3>1
      <3>2. CASE q # r
        BY <1>4, <2>5, <3>2 DEF NoticesNamed, Publishing
      <3> QED
        BY <3>1, <3>2
    <2>7. PublishedApart'
      BY <1>3, <1>4, <2>5 DEF NoticesInv, PublicationInv, PublishedApart
    <2>8. Untold'
      BY <1>1, <1>2, <1>5 DEF NoticesInv, PublicationInv, Untold
    <2> QED
      BY <2>6, <2>7, <2>8 DEF PublicationInv
  <1> QED
    BY <1>4, <1>5, <1>7, <1>8 DEF NoticesInv

\* A publication that goes on with another operation.
LEMMA PublishingGoes ==
  ASSUME NoticesInv, NEW r \in Requests, request[r].op # "free", NEW op \in {"emit", "lookup"},
         Goes(r, [request[r] EXCEPT !.op = op])
  PROVE  /\ AllRequests'
         /\ request'[r].op = op /\ request'[r].event = request[r].event /\ request'[r].fresh = TRUE
         /\ {"event", "occurred_at"} \subseteq DOMAIN request'[r]
         /\ request'[r].occurred_at = request[r].occurred_at
         /\ \A q \in Requests \ {r} : request'[q] = request[q]
         /\ PublishedApart' /\ cut' = cut
  <1> DEFINE k == [request[r] EXCEPT !.op = op]
  <1>1. IsRequest(request[r]) /\ {"event", "occurred_at"} \subseteq DOMAIN request[r] /\ request[r].fresh = TRUE
    BY PublishingIs
  <1>2. IsRequest(k) /\ k.op = op /\ k.event = request[r].event /\ k.occurred_at = request[r].occurred_at
        /\ k.fresh = TRUE /\ {"event", "occurred_at"} \subseteq DOMAIN k
    BY <1>1, OtherOp
  <1> HIDE DEF k
  <1>3. AllRequests' /\ request'[r] = k /\ \A q \in Requests \ {r} : request'[q] = request[q]
    BY <1>2, GoesOn DEF NoticesInv, k
  <1>4. PublishedApart'
    BY <1>2, <1>3 DEF NoticesInv, PublicationInv, PublishedApart
  <1> QED
    BY <1>2, <1>3, <1>4 DEF Goes

LEMMA NoticesPersists == ASSUME NoticesInv, NEW r \in Requests, Persist(r) PROVE NoticesInv'
  <1> DEFINE e == request[r].event
             y == [event |-> request[r].event, occurred_at |-> request[r].occurred_at]
  <1>1. /\ request[r].op = "persist" /\ eventLog' = eventLog \union {y}
        /\ Goes(r, [request[r] EXCEPT !.op = "emit"])
        /\ UNCHANGED <<now, todo, doing, failedJobs, recipient, notices, texted, published, asked>>
    BY DEF Persist
  <1>2. /\ e \in DomainEvents /\ e \in published /\ e \notin asked
        /\ \A x \in eventLog : x.event # e
        /\ \A j \in Waiting : ~IsAbout(j, "log", e)
        /\ \A q \in Requests \ {r} : request[q].op # "free" => request[q].event # e
        /\ request[r].occurred_at \in Nat /\ request[r].occurred_at < now
    BY <1>1, PublishingIs DEF Publishing
  <1>3. y \in LogRow /\ y.event = e /\ y.occurred_at < now /\ y.occurred_at \in Nat
    BY <1>2 DEF LogRow
  <1> HIDE DEF y
  <1>4. /\ AllRequests' /\ request'[r].op = "emit" /\ request'[r].event = e /\ request'[r].fresh = TRUE
        /\ {"event", "occurred_at"} \subseteq DOMAIN request'[r]
        /\ request'[r].occurred_at = request[r].occurred_at
        /\ \A q \in Requests \ {r} : request'[q] = request[q]
        /\ PublishedApart' /\ cut' = cut
    BY <1>1, PublishingGoes
  <1>5. WorkerInv' /\ Waiting' = Waiting
    BY <1>1, <1>4, WorkerSame
  <1>6. NoticesValues'
    BY <1>1, <1>3, LogGrows DEF NoticesInv, NoticesValues
  <1>7. PublicationInv'
    <2>1. NoticesNamed(request[r])' /\ Publishing(request[r])'
      BY <1>1, <1>2, <1>3, <1>4, <1>5 DEF NoticesNamed, Publishing
    <2>2. ASSUME NEW q \in Requests \ {r} PROVE NoticesNamed(request[q])' /\ Publishing(request[q])'
      BY <1>1, <1>2, <1>3, <1>4, <1>5 DEF NoticesInv, PublicationInv, NoticesNamed, Publishing
    <2>3. Untold'
      BY <1>1, <1>2, <1>3, <1>5 DEF NoticesInv, PublicationInv, Untold
    <2> QED
      BY <1>4, <2>1, <2>2, <2>3 DEF PublicationInv
  <1>8. LogInv'
    <2>1. \A x \in eventLog : x.occurred_at \in Nat
      BY DEF NoticesInv, NoticesValues, LogRow
    <2>2. \A x \in eventLog : Later(x) = Beyond(x, x) /\ Later(x)' = Beyond(x, x)'
      BY <1>1, <1>3, <2>1 DEF Later, Beyond
    <2>3. HiddenBehind'
      <3> SUFFICES ASSUME doing # Rest, doing.at = "insert", NEW x \in eventLog', x.event = doing.job.event
                   PROVE  Cardinality(Later(x)') >= LogWindow
        BY <1>1 DEF HiddenBehind
      <3>1. doing.job.event # e
        BY <1>2, AtWork DEF IsAbout
      <3>2. x \in eventLog
        BY <1>1, <1>3, <3>1
      <3>3. Cardinality(Later(x)) >= LogWindow
        BY <3>2 DEF NoticesInv, LogInv, HiddenBehind
      <3>4. /\ Cardinality(Beyond(x, x)) \in Nat /\ Cardinality(Beyond(x, x)') \in Nat
            /\ Cardinality(Beyond(x, x)) <= Cardinality(Beyond(x, x)')
        BY <1>1, <3>2, LogGrows
      <3> QED
        BY <2>2, <3>2, <3>3, <3>4, NoticesAssumption
    <2>4. ASSUME NEW x \in eventLog', NEW z \in eventLog', x.event = z.event, x.occurred_at < z.occurred_at
          PROVE  Cardinality(Beyond(x, z)') >= LogWindow
      <3>1. x \in eventLog /\ z \in eventLog
        BY <1>1, <1>2, <1>3, <2>4
      <3>2. Cardinality(Beyond(x, z)) >= LogWindow
        BY <2>4, <3>1 DEF NoticesInv, LogInv, LoggedAgainOnlyBehind, Beyond
      <3>3. /\ Cardinality(Beyond(x, z)) \in Nat /\ Cardinality(Beyond(x, z)') \in Nat
            /\ Cardinality(Beyond(x, z)) <= Cardinality(Beyond(x, z)')
        BY <1>1, <3>1, LogGrows
      <3> QED
        BY <3>2, <3>3, NoticesAssumption
    <2> QED
      BY <2>3, <2>4 DEF LogInv, LoggedAgainOnlyBehind, Beyond
  <1> QED
    BY <1>4, <1>5, <1>6, <1>7, <1>8 DEF NoticesInv

\* A new job in the queue.
LEMMA QueueGrows ==
  ASSUME NoticesInv, NEW j \in Job, j.attempts = 0, todo' = Append(todo, j),
         UNCHANGED <<doing, failedJobs, notices, texted>>,
         \A i \in Waiting : ~IsAbout(i, j.kind, j.event),
         j.kind = "sms" => /\ texted[j.event] = 0
                           /\ \A i \in failedJobs : ~IsAbout(i, "sms", j.event)
                           /\ \A x \in notices : x.event # j.event
  PROVE  /\ Waiting' = Waiting \union {j} /\ todo' \in Seq(Job)
         /\ QueuedOnce' /\ Stage' /\ Tries' /\ SettledOnce'
  <1>1. todo \in Seq(Job) /\ QueuedOnce /\ Stage /\ Tries /\ SettledOnce
    BY DEF NoticesInv, NoticesValues, WorkerInv
  <1>2. /\ \A i \in ToSet(todo) : ~IsAbout(i, j.kind, j.event)
        /\ doing # Rest => ~IsAbout(doing.job, j.kind, j.event)
    BY DEF Waiting, Held
  <1>3. todo' \in Seq(Job) /\ ToSet(todo') = ToSet(todo) \union {j} /\ Apart(todo')
    BY <1>1, <1>2, JobAppended DEF QueuedOnce
  <1>4. Waiting' = Waiting \union {j}
    BY <1>3 DEF Waiting, Held
  <1>5. QueuedOnce' /\ Stage' /\ Tries'
    BY <1>1, <1>2, <1>3, NoticesAssumption DEF QueuedOnce, Stage, Tries, IsAbout
  <1>6. SettledOnce'
    <2>1. \A x \in notices : \A i \in Waiting' \union failedJobs : ~IsAbout(i, "sms", x.event)
      BY <1>1, <1>4 DEF SettledOnce, IsAbout
    <2>2. \A f \in failedJobs : f.kind = "sms" => \A i \in Waiting' : ~IsAbout(i, "sms", f.event)
      BY <1>1, <1>4 DEF SettledOnce, IsAbout
    <2> QED
      BY <1>1, <2>1, <2>2 DEF SettledOnce
  <1> QED
    BY <1>3, <1>4, <1>5, <1>6

LEMMA NewJobIs ==
  ASSUME NEW what \in {"log", "sms"}, NEW e \in DomainEvents
  PROVE  /\ NewJob(what, e) \in Job /\ NewJob(what, e).kind = what /\ NewJob(what, e).event = e
         /\ NewJob(what, e).attempts = 0
  BY NoticesAssumption DEF NewJob, Job

LEMMA NoticesEmits == ASSUME NoticesInv, NEW r \in Requests, Emit(r) PROVE NoticesInv'
  <1> DEFINE e == request[r].event
             j == NewJob("log", e)
  <1>1. /\ request[r].op = "emit" /\ todo' = Append(todo, j)
        /\ Goes(r, [request[r] EXCEPT !.op = "lookup"])
        /\ UNCHANGED <<eventLog, now, doing, failedJobs, recipient, notices, texted, published, asked>>
    BY DEF Emit
  <1>2. /\ e \in DomainEvents /\ e \in published /\ e \notin asked
        /\ \E x \in eventLog : x.event = e
        /\ \A i \in Waiting : ~IsAbout(i, "log", e)
        /\ \A q \in Requests \ {r} : request[q].op # "free" => request[q].event # e
        /\ request[r].occurred_at \in Nat /\ request[r].occurred_at < now
    BY <1>1, PublishingIs DEF Publishing
  <1>3. j \in Job /\ j.kind = "log" /\ j.event = e /\ j.attempts = 0
    BY <1>2, NewJobIs
  <1> HIDE DEF j
  <1>4. /\ Waiting' = Waiting \union {j} /\ todo' \in Seq(Job)
        /\ QueuedOnce' /\ Stage' /\ Tries' /\ SettledOnce'
    BY <1>1, <1>2, <1>3, QueueGrows
  <1>5. /\ AllRequests' /\ request'[r].op = "lookup" /\ request'[r].event = e /\ request'[r].fresh = TRUE
        /\ {"event", "occurred_at"} \subseteq DOMAIN request'[r]
        /\ request'[r].occurred_at = request[r].occurred_at
        /\ \A q \in Requests \ {r} : request'[q] = request[q]
        /\ PublishedApart' /\ cut' = cut
    BY <1>1, PublishingGoes
  <1>6. Kept'
    BY <1>1, <1>4, <1>5 DEF NoticesInv, WorkerInv, Kept
  <1>7. NoticesValues' /\ LogInv'
    BY <1>1, <1>4, LogSame DEF NoticesInv, NoticesValues
  <1>8. PublicationInv'
    <2>1. NoticesNamed(request[r])' /\ Publishing(request[r])'
      BY <1>1, <1>2, <1>5 DEF NoticesNamed, Publishing
    <2>2. ASSUME NEW q \in Requests \ {r} PROVE NoticesNamed(request[q])' /\ Publishing(request[q])'
      BY <1>1, <1>2, <1>3, <1>4, <1>5 DEF NoticesInv, PublicationInv, NoticesNamed, Publishing, IsAbout
    <2>3. Untold'
      BY <1>1, <1>2, <1>3, <1>4 DEF NoticesInv, PublicationInv, Untold, IsAbout
    <2> QED
      BY <1>5, <2>1, <2>2, <2>3 DEF PublicationInv
  <1> QED
    BY <1>4, <1>5, <1>6, <1>7, <1>8 DEF NoticesInv, WorkerInv

LEMMA NoticesAsks == ASSUME NoticesInv, NEW r \in Requests, EnqueueNotification(r) PROVE NoticesInv'
  <1> DEFINE e == request[r].event
             j == NewJob("sms", e)
  <1>1. /\ request[r].op = "lookup" /\ todo' = Append(todo, j) /\ asked' = asked \union {e}
        /\ Goes(r, Free)
        /\ UNCHANGED <<eventLog, now, doing, failedJobs, recipient, notices, texted, published>>
    BY DEF EnqueueNotification
  <1>2. /\ e \in DomainEvents /\ e \in published /\ e \notin asked
        /\ \E x \in eventLog : x.event = e
        /\ \A q \in Requests \ {r} : request[q].op # "free" => request[q].event # e
    BY <1>1, PublishingIs DEF Publishing
  <1>3. j \in Job /\ j.kind = "sms" /\ j.event = e /\ j.attempts = 0
    BY <1>2, NewJobIs
  <1> HIDE DEF j
  <1>4. /\ \A i \in Waiting \union failedJobs : ~IsAbout(i, "sms", e)
        /\ \A x \in notices : x.event # e
        /\ texted[e] = 0
    BY <1>2 DEF NoticesInv, PublicationInv, Untold
  <1>5. /\ Waiting' = Waiting \union {j} /\ todo' \in Seq(Job)
        /\ QueuedOnce' /\ Stage' /\ Tries' /\ SettledOnce'
    BY <1>1, <1>3, <1>4, QueueGrows
  <1>6. AllRequests' /\ request'[r] = Free /\ \A q \in Requests \ {r} : request'[q] = request[q]
    BY <1>1, FreeIsRequest, GoesOn DEF NoticesInv
  <1>7. Kept'
    <2>1. cut' = cut
      BY <1>1 DEF Goes
    <2>2. IsAbout(j, "sms", e)
      BY <1>3 DEF IsAbout
    <2> QED
      BY <1>1, <1>5, <2>1, <2>2 DEF NoticesInv, WorkerInv, Kept
  <1>8. NoticesValues' /\ LogInv'
    BY <1>1, <1>2, <1>5, LogSame DEF NoticesInv, NoticesValues
  <1>9. PublicationInv'
    <2>1. NoticesNamed(request[r])' /\ Publishing(request[r])'
      BY <1>6 DEF NoticesNamed, Publishing, Free
    <2>2. ASSUME NEW q \in Requests \ {r} PROVE NoticesNamed(request[q])' /\ Publishing(request[q])'
      BY <1>1, <1>2, <1>3, <1>5, <1>6 DEF NoticesInv, PublicationInv, NoticesNamed, Publishing, IsAbout
    <2>3. PublishedApart'
      BY <1>6 DEF NoticesInv, PublicationInv, PublishedApart, Free
    <2>4. Untold'
      BY <1>1, <1>2, <1>3, <1>5 DEF NoticesInv, PublicationInv, Untold, IsAbout
    <2> QED
      BY <2>1, <2>2, <2>3, <2>4 DEF PublicationInv
  <1> QED
    BY <1>5, <1>6, <1>7, <1>8, <1>9 DEF NoticesInv, WorkerInv

LEMMA NoticesRestarts == ASSUME NoticesInv, NoticesRestart PROVE NoticesInv'
  <1>1. /\ todo' = <<>> /\ doing' = Rest
        /\ request' = [r \in Requests |-> Free]
        /\ cut' = (cut \/ doing # Rest \/ todo # <<>>)
        /\ UNCHANGED <<eventLog, now, failedJobs, recipient, notices, texted, published, asked, overtaken>>
    BY DEF NoticesRestart
  <1>2. AllRequests' /\ \A r \in Requests : request'[r] = Free
    BY <1>1, FreeIsRequest DEF AllRequests
  <1>3. Waiting' = {} /\ ToSet(todo') = {}
    BY <1>1 DEF Waiting, Held, ToSet
  <1>4. NoticesValues' /\ LogInv'
    BY <1>1, StillLogged DEF NoticesInv, NoticesValues
  <1>5. PublicationInv'
    <2>1. \A r \in Requests : request'[r].op = "free"
      BY <1>2 DEF Free
    <2>2. (\A r \in Requests : NoticesNamed(request[r])' /\ Publishing(request[r])') /\ PublishedApart'
      BY <2>1 DEF NoticesNamed, Publishing, PublishedApart
    <2>3. Untold'
      BY <1>1, <1>3 DEF NoticesInv, PublicationInv, Untold
    <2> QED
      BY <2>2, <2>3 DEF PublicationInv
  <1>6. QueuedOnce' /\ Stage' /\ Tries' /\ SettledOnce'
    <2>1. Apart(<<>>)
      BY DEF Apart
    <2>2. QueuedOnce' /\ Stage' /\ Tries'
      BY <1>1, <1>3, <2>1 DEF NoticesInv, WorkerInv, QueuedOnce, Stage, Tries
    <2>3. SettledOnce'
      BY <1>1, <1>3 DEF NoticesInv, WorkerInv, SettledOnce
    <2> QED
      BY <2>2, <2>3
  <1>7. Kept'
    <2>1. ~cut' => ~cut /\ doing = Rest /\ todo = <<>>
      BY <1>1, Zenon
    <2>2. doing = Rest /\ todo = <<>> => Waiting = {}
      BY DEF Waiting, Held, ToSet
    <2> QED
      BY <1>1, <1>3, <2>1, <2>2 DEF NoticesInv, WorkerInv, Kept
  <1> QED
    BY <1>2, <1>4, <1>5, <1>6, <1>7 DEF NoticesInv, WorkerInv

LEMMA NoticesInvStep == NoticesInv /\ [NoticesNext]_noticesVars => NoticesInv'
  <1> SUFFICES ASSUME NoticesInv, [NoticesNext]_noticesVars PROVE NoticesInv'
    OBVIOUS
  <1>1. CASE UNCHANGED noticesVars
    <2>1. UNCHANGED noticesRows /\ UNCHANGED handlerVars
      BY <1>1 DEF noticesVars
    <2>2. WorkerInv' /\ Waiting' = Waiting
      BY <2>1, WorkerSame DEF noticesRows, handlerVars
    <2>3. NoticesValues' /\ LogInv'
      BY <2>1, LogSame DEF noticesRows, NoticesInv, NoticesValues
    <2>4. PublicationInv'
      BY <2>1, <2>2 DEF noticesRows, handlerVars, NoticesInv, PublicationInv, NoticesNamed, Publishing,
                        PublishedApart, Untold
    <2> QED
      BY <2>1, <2>2, <2>3, <2>4, StillRequested DEF NoticesInv
  <1>2. ASSUME NEW r \in Requests,
               Publish(r) \/ Persist(r) \/ Emit(r) \/ EnqueueNotification(r) \/ PublishEnds(r)
        PROVE  NoticesInv'
    BY <1>2, NoticesPublishes, NoticesPersists, NoticesEmits, NoticesAsks, NoticesEnds
  <1>3. CASE Take \/ PersistJobRead \/ PersistJobInsert
    BY <1>3, NoticesTakes, NoticesReadsLog, NoticesInserts
  <1>4. CASE SmsRead \/ SmsSend \/ SmsRecord
    BY <1>4, NoticesReadsSms, NoticesSends, NoticesRecords
  <1>5. CASE JobThrows \/ BackoffEnds \/ GiveUp \/ NoticesRestart
    BY <1>5, NoticesThrows, NoticesBackOff, NoticesGivesUp, NoticesRestarts
  <1> QED
    BY <1>1, <1>2, <1>3, <1>4, <1>5 DEF NoticesNext

LEMMA NoticesInvariant == NoticesSpec => []NoticesInv
  BY NoticesInvInit, NoticesInvStep, PTL DEF NoticesSpec

\* The job that verifies the log stores an event a second time only when
\* LogWindow later rows hide the first from it.
THEOREM LoggedTwiceOnlyBehind == NoticesSpec => []LoggedAgainOnlyBehind
  <1>1. NoticesInv => LoggedAgainOnlyBehind
    BY DEF NoticesInv, LogInv
  <1> QED
    BY <1>1, NoticesInvariant, PTL

LEMMA OneInAll ==
  ASSUME NEW S, NEW T, (\A x, y \in S : x = y), (\A x, y \in T : x = y), S = {} <=> T # {}
  PROVE  Cardinality(S) + Cardinality(T) = 1
  <1>1. CASE S = {}
    <2>1. PICK t \in T : T = {t}
      BY <1>1
    <2> QED
      BY <1>1, <2>1, FS_EmptySet, FS_Singleton
  <1>2. CASE S # {}
    <2>1. PICK t \in S : S = {t} /\ T = {}
      BY <1>2
    <2>2. Cardinality({t}) = 1 /\ Cardinality({}) = 0
      BY FS_EmptySet, FS_Singleton
    <2> QED
      BY <2>1, <2>2
  <1> QED
    BY <1>1, <1>2

\* While the process lives, a message that was asked for is on record, once,
\* or its one job waits or was given up; it is sent at most MaxTries times,
\* and never for an event that is not in the log.
THEOREM MessagesAreAccountedFor == NoticesSpec => []MessagesAccountedFor
  <1>1. ASSUME NoticesInv, NEW e \in DomainEvents
        PROVE  LET rows == {x \in notices : x.event = e}
                   jobs == {j \in ToSet(todo) \union Held \union failedJobs : j.kind = "sms" /\ j.event = e} IN
               /\ ~cut /\ e \in asked /\ recipient # "sms_off" => Cardinality(rows) + Cardinality(jobs) = 1
               /\ texted[e] <= MaxTries
               /\ texted[e] > 0 => \E x \in eventLog : x.event = e
    <2> DEFINE rows == {x \in notices : x.event = e}
               jobs == {j \in ToSet(todo) \union Held \union failedJobs : j.kind = "sms" /\ j.event = e}
    <2>1. SettledOnce /\ QueuedOnce /\ Kept /\ Tries /\ Untold
      BY <1>1 DEF NoticesInv, WorkerInv, PublicationInv
    <2>2. ASSUME ~cut, e \in asked, recipient # "sms_off" PROVE Cardinality(rows) + Cardinality(jobs) = 1
      <3>1. \A x, y \in rows : x = y
        BY <2>1 DEF SettledOnce
      <3>2. \A i, j \in ToSet(todo) : IsAbout(i, "sms", e) /\ IsAbout(j, "sms", e) => i = j
        <4> SUFFICES ASSUME NEW i \in ToSet(todo), NEW j \in ToSet(todo), IsAbout(i, "sms", e), IsAbout(j, "sms", e)
                     PROVE  i = j
          OBVIOUS
        <4>1. DOMAIN todo = 1..Len(todo)
          BY <1>1 DEF NoticesInv, NoticesValues
        <4>2. PICK m, n \in 1..Len(todo) : i = todo[m] /\ j = todo[n]
          BY <4>1 DEF ToSet
        <4> QED
          BY <2>1, <4>2 DEF QueuedOnce, Apart, IsAbout
      <3>3. \A i, j \in Waiting : IsAbout(i, "sms", e) /\ IsAbout(j, "sms", e) => i = j
        <4>1. CASE doing = Rest
          BY <3>2, <4>1 DEF Waiting, Held
        <4>2. CASE doing # Rest
          <5>1. /\ Waiting = ToSet(todo) \union {doing.job}
                /\ \A j \in ToSet(todo) : ~IsAbout(j, doing.job.kind, doing.job.event)
            BY <1>1, <4>2, AtWork
          <5> QED
            BY <3>2, <5>1 DEF IsAbout
        <4> QED
          BY <4>1, <4>2
      <3>4. \A i, j \in jobs : i = j
        <4>1. \A i \in failedJobs : i.kind = "sms" /\ i.event = e => \A j \in Waiting : ~IsAbout(j, "sms", e)
          BY <2>1 DEF SettledOnce
        <4>2. \A i, j \in failedJobs : IsAbout(i, "sms", e) /\ IsAbout(j, "sms", e) => i = j
          BY <2>1 DEF SettledOnce, IsAbout
        <4>3. \A i \in jobs : IsAbout(i, "sms", e) /\ (i \in Waiting \/ i \in failedJobs)
          BY DEF IsAbout, Waiting
        <4> QED
          BY <3>3, <4>1, <4>2, <4>3 DEF IsAbout
      <3>5. rows # {} => jobs = {}
        BY <2>1 DEF SettledOnce, IsAbout, Waiting
      <3>6. rows # {} \/ jobs # {}
        BY <2>1, <2>2 DEF Kept, IsAbout, Waiting
      <3> HIDE DEF rows, jobs
      <3> QED
        BY <3>1, <3>4, <3>5, <3>6, OneInAll
    <2>3. texted[e] <= MaxTries
      BY <2>1 DEF Tries
    <2>4. texted[e] > 0 => \E x \in eventLog : x.event = e
      BY <2>1 DEF Untold
    <2> QED
      BY <2>2, <2>3, <2>4
  <1>2. NoticesInv => MessagesAccountedFor
    BY <1>1 DEF MessagesAccountedFor
  <1> QED
    BY <1>2, NoticesInvariant, PTL

================================================================================
