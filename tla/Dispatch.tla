------------------------------ MODULE Dispatch ------------------------------
(***************************************************************************)
(* Dispatch of operation needs to fleet vehicles and their drivers, and    *)
(* emergency redispatch of a mission (DISPATCH-1, DISPATCH-LOCK-1,         *)
(* REDISPATCH-1), beside the drivers' steps and the weighbridge approval   *)
(* that move the missions meanwhile.                                       *)
(*                                                                         *)
(* The transaction of a dispatch runs at READ COMMITTED and locks nothing: *)
(* its checks and its commit are two actions.  Redispatch is a cancel, a   *)
(* reopening of the need and a dispatch, each by itself.                   *)
(***************************************************************************)
EXTENDS Naturals, Functions, Handlers

CONSTANTS
  Needs,      \* operation_needs of one mine
  Vehicles,   \* approved vehicles of its cooperatives
  Drivers,    \* approved drivers
  Missions,   \* ids of the missions rows that may be created
  MaxReopens, \* bound: redispatches begun after this many reopenings are left out
  None

ASSUME DispatchAssumption ==
  /\ None \notin Needs \union Vehicles \union Drivers
  /\ MaxReopens \in Nat

VARIABLES
  need,      \* [Needs -> operation_needs.status]
  mission,   \* [Missions -> row]
  \* Ghosts.
  rounds,    \* [Needs -> Nat]: dispatches of the need that committed
  reopens,   \* Nat: reopenings of needs
  reopened   \* needs that were reopened

dispatchRows == <<need, mission, rounds, reopens, reopened>>
dispatchVars == <<dispatchRows, handlerVars>>

NeedStatus == {"PENDING", "DISPATCHED", "CANCELLED"}
\* EN_ROUTE stands for ACCEPTED, ARRIVED, LOADED and IN_TRANSIT.
Active == {"ASSIGNED", "EN_ROUTE", "DELIVERED"}
Redispatchable == {"ASSIGNED", "EN_ROUTE"}
MissionStatus == Active \union {"NONE", "VERIFIED", "CANCELLED"}

Mission == [status : MissionStatus, need : Needs \union {None},
            vehicle : Vehicles \union {None}, driver : Drivers \union {None}]
NoMission == [status |-> "NONE", need |-> None, vehicle |-> None, driver |-> None]

\* planMissionAssignments: vehicles, each with the driver the rotation gave
\* it; two vehicles may have been given one driver.
Plans == UNION {[V -> Drivers] : V \in (SUBSET Vehicles) \ {{}}}

\* Requests in flight.  A row is read under its id, and that a vehicle or a
\* driver has no active mission under the vehicle's or the driver's.
Tokens == Needs \union Vehicles \union Drivers \union Missions \union {None}
DispatchRequest ==
  {Free}
    \union [op : {"dispatch"}, reads : SUBSET Tokens, fresh : BOOLEAN, need : Needs, plan : Plans]
    \union [op : {"cancelNeed", "reopen", "reopening", "again"}, reads : SUBSET Tokens,
            fresh : BOOLEAN, need : Needs]
    \union [op : {"redispatch"}, reads : SUBSET Tokens, fresh : BOOLEAN, mission : Missions,
            need : Needs]
    \union [op : {"EN_ROUTE", "DELIVERED", "VERIFIED"}, reads : SUBSET Tokens, fresh : BOOLEAN,
            mission : Missions]

DispatchInit ==
  /\ need = [n \in Needs |-> "PENDING"]
  /\ mission = [m \in Missions |-> NoMission]
  /\ rounds = [n \in Needs |-> 0]
  /\ reopens = 0
  /\ reopened = {}
  /\ HandlersInit

Of(v, d) == {m \in Missions : mission[m].vehicle = v \/ mission[m].driver = d}

\* hasActiveMissionForDriver, hasActiveMissionForVehicle
Available(v, d) == \A m \in Of(v, d) : mission[m].status \notin Active

\* What is read by a dispatch of need n by plan p, and written by it.
DispatchRows(n, p) == {n} \union DOMAIN p \union Range(p)

\* Mission m and the locks it holds on a vehicle and a driver.
LocksOf(m) == {m, mission[m].vehicle, mission[m].driver}

ReadsNeed(r, k) == Begins(r, k) /\ UNCHANGED dispatchRows

-----------------------------------------------------------------------------
(* Dispatch (HaulDispatchStrategy).                                        *)

\* The needs r may dispatch: any, or after its redispatch the one it reopened.
Dispatchable(r) == CASE request[r].op = "free" -> Needs
                     [] request[r].op = "again" -> {request[r].need}
                     [] OTHER -> {}

DispatchOf(n, p) == [op |-> "dispatch", reads |-> DispatchRows(n, p), fresh |-> TRUE,
                     need |-> n, plan |-> p]

\* (mutation: the transaction does not ask whether the need is still PENDING)
DispatchCheckNoStatus(r) ==
  /\ \E n \in Dispatchable(r), p \in Plans :
       /\ IsInjective(p)
       /\ \A v \in DOMAIN p : Available(v, p[v])
       /\ Goes(r, DispatchOf(n, p))
  /\ UNCHANGED dispatchRows

\* (mutation: drivers are looked up, vehicles are not)
DispatchCheckDrivers(r) ==
  /\ \E n \in Dispatchable(r), p \in Plans :
       /\ need[n] = "PENDING"
       /\ IsInjective(p)
       /\ \A v \in DOMAIN p : Available(None, p[v])
       /\ Goes(r, DispatchOf(n, p))
  /\ UNCHANGED dispatchRows

\* The checks of the transaction: the need is PENDING, no vehicle or driver
\* of the plan has an active mission, one created for the same plan included.
DispatchCheck(r) ==
  /\ \E n \in Dispatchable(r), p \in Plans :
       /\ need[n] = "PENDING"
       /\ IsInjective(p)
       /\ \A v \in DOMAIN p : Available(v, p[v])
       /\ Goes(r, DispatchOf(n, p))
  /\ UNCHANGED dispatchRows

\* Its writes: a mission for every vehicle of the plan, and the need.
Created(r, id) ==
  LET k == request[r] IN
  [m \in Missions |->
     IF \E v \in DOMAIN k.plan : id[v] = m
     THEN LET v == CHOOSE w \in DOMAIN k.plan : id[w] = m IN
          [status |-> "ASSIGNED", need |-> k.need, vehicle |-> v, driver |-> k.plan[v]]
     ELSE mission[m]]

Unused == {m \in Missions : mission[m].status = "NONE"}

\* The commit: the need is marked whatever its status is by now.
DispatchCommit(r) ==
  /\ request[r].op = "dispatch"
  /\ \E id \in [DOMAIN request[r].plan -> Unused] :
       /\ IsInjective(id)
       /\ mission' = Created(r, id)
  /\ LET n == request[r].need IN
       /\ need' = [need EXCEPT ![n] = "DISPATCHED"]
       /\ rounds' = [rounds EXCEPT ![n] = @ + 1]
  /\ Wrote(r, request[r].reads, Free)
  /\ UNCHANGED <<reopens, reopened>>

-----------------------------------------------------------------------------
(* Cancelling a need (employer), redispatching a mission (administration). *)

CancelNeedRead(r) ==
  /\ \E n \in Needs :
       /\ need[n] = "PENDING"
       /\ ReadsNeed(r, [op |-> "cancelNeed", reads |-> {n}, fresh |-> TRUE, need |-> n])

CancelNeedWrite(r) ==
  /\ request[r].op = "cancelNeed"
  /\ need' = [need EXCEPT ![request[r].need] = "CANCELLED"]
  /\ Wrote(r, {request[r].need}, Free)
  /\ UNCHANGED <<mission, rounds, reopens, reopened>>

\* (mutation: a mission that is being weighed or was paid may be redispatched)
RedispatchReadAny(r) ==
  /\ reopens < MaxReopens
  /\ \E m \in Missions, n \in Needs :
       /\ mission[m].status \notin {"NONE", "CANCELLED"}
       /\ ReadsNeed(r, [op |-> "redispatch", reads |-> {m}, fresh |-> TRUE, mission |-> m, need |-> n])

\* redispatchMission: the need is the mission's, or the one the operator names.
RedispatchRead(r) ==
  /\ reopens < MaxReopens
  /\ \E m \in Missions, n \in Needs :
       /\ mission[m].status \in Redispatchable
       /\ ReadsNeed(r, [op |-> "redispatch", reads |-> {m}, fresh |-> TRUE, mission |-> m, need |-> n])

CancelMission(r) ==
  /\ request[r].op = "redispatch"
  /\ LET m == request[r].mission IN
       /\ mission' = [mission EXCEPT ![m].status = "CANCELLED"]
       /\ Wrote(r, LocksOf(m), [op |-> "reopen", reads |-> {}, fresh |-> TRUE,
                                need |-> request[r].need])
  /\ UNCHANGED <<need, rounds, reopens, reopened>>

\* reopenOperationNeedForRedispatch: a need cancelled meanwhile stays so.
ReopenRead(r) ==
  /\ request[r].op = "reopen"
  /\ need[request[r].need] # "CANCELLED"
  /\ Goes(r, [request[r] EXCEPT !.op = "reopening", !.reads = {request[r].need}])
  /\ UNCHANGED dispatchRows

ReopenWrite(r) ==
  /\ request[r].op = "reopening"
  /\ LET n == request[r].need IN
       /\ need' = [need EXCEPT ![n] = "PENDING"]
       /\ reopens' = reopens + 1
       /\ reopened' = reopened \union {n}
       /\ Wrote(r, {n}, [op |-> "again", reads |-> {}, fresh |-> TRUE, need |-> n])
  /\ UNCHANGED <<mission, rounds>>

-----------------------------------------------------------------------------
(* What moves a mission: its driver's steps, the weighbridge approval.     *)

\* validateTransition for the driver: ASSIGNED, then en route, then DELIVERED.
MayMove(s, t) == \/ s = "ASSIGNED" /\ t = "EN_ROUTE"
                 \/ s = "EN_ROUTE" /\ t \in {"EN_ROUTE", "DELIVERED"}

MoveRead(r) ==
  /\ \E m \in Missions, t \in {"EN_ROUTE", "DELIVERED"} :
       /\ MayMove(mission[m].status, t)
       /\ ReadsNeed(r, [op |-> t, reads |-> {m}, fresh |-> TRUE, mission |-> m])

MoveWrite(r) ==
  /\ request[r].op \in {"EN_ROUTE", "DELIVERED"}
  /\ LET m == request[r].mission IN
       /\ mission' = [mission EXCEPT ![m].status = request[r].op]
       /\ Wrote(r, LocksOf(m), Free)
  /\ UNCHANGED <<need, rounds, reopens, reopened>>

VerifyRead(r) ==
  /\ \E m \in Missions :
       /\ mission[m].status = "DELIVERED"
       /\ ReadsNeed(r, [op |-> "VERIFIED", reads |-> {m}, fresh |-> TRUE, mission |-> m])

VerifyWrite(r) ==
  /\ request[r].op = "VERIFIED"
  /\ LET m == request[r].mission IN
       /\ mission' = [mission EXCEPT ![m].status = "VERIFIED"]
       /\ Wrote(r, LocksOf(m), Free)
  /\ UNCHANGED <<need, rounds, reopens, reopened>>

-----------------------------------------------------------------------------
DispatchNext == \E r \in Requests :
  \/ DispatchCheck(r) \/ DispatchCommit(r)
  \/ CancelNeedRead(r) \/ CancelNeedWrite(r)
  \/ RedispatchRead(r) \/ CancelMission(r) \/ ReopenRead(r) \/ ReopenWrite(r)
  \/ MoveRead(r) \/ MoveWrite(r) \/ VerifyRead(r) \/ VerifyWrite(r)
  \/ Ends(r, request[r].op \in {"reopen", "reopening", "again"}) /\ UNCHANGED dispatchRows

DispatchSpec == DispatchInit /\ [][DispatchNext]_dispatchVars

-----------------------------------------------------------------------------
(* Properties.                                                             *)

DispatchTypeOK ==
  /\ need \in [Needs -> NeedStatus]
  /\ mission \in [Missions -> Mission]
  /\ request \in [Requests -> DispatchRequest]
  /\ rounds \in [Needs -> Nat]
  /\ reopens \in Nat
  /\ reopened \subseteq Needs

\* DISPATCH-LOCK-1: a vehicle and a driver have one active mission at a time.
OneActiveMission ==
  \A m1, m2 \in Missions :
    m1 # m2 /\ mission[m1].status \in Active /\ mission[m2].status \in Active =>
      mission[m1].vehicle # mission[m2].vehicle /\ mission[m1].driver # mission[m2].driver

\* The lock holds through any number of dispatches, redispatches and steps
\* while no request writes over a row that has changed since it read it.
LockHoldsUnlessOvertaken == ~overtaken => OneActiveMission

\* Under the same condition a need that no redispatch has reopened is
\* dispatched once; while it waits, or once it is cancelled, not at all.
DispatchedOnce ==
  ~overtaken => \A n \in Needs \ reopened :
                  rounds[n] = (IF need[n] = "DISPATCHED" THEN 1 ELSE 0)

\* A CANCELLED mission, and a VERIFIED one, keeps its status: only a late
\* write, one over a changed row, takes it away.
FinalUnlessOvertaken ==
  [][\A m \in Missions : mission[m].status \in {"CANCELLED", "VERIFIED"} =>
       mission'[m].status = mission[m].status \/ overtaken']_dispatchVars

=============================================================================
