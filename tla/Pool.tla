-------------------------------- MODULE Pool --------------------------------
(***************************************************************************)
(* The community pool of a mine and a period: approvals of weighings add   *)
(* their community share, adjustments change it, an administrator fixes    *)
(* the households it is for, and jobs and the closing of the period        *)
(* distribute it.  Each reads the row without locking it, and writes some  *)
(* of its columns later.                                                   *)
(***************************************************************************)
EXTENDS Integers, FiniteSets, Functions, Handlers

CONSTANTS
  Families,   \* households
  Shares,     \* what an approval or an adjustment may add
  MaxAdds     \* bound: additions to the pool

ASSUME PoolAssumption == IsFiniteSet(Families) /\ Shares \subseteq Int /\ MaxAdds \in Nat

VARIABLES
  poolRow,    \* the row of community_pools, or NoPool
  poolPaid,   \* [Families -> Nat]: POOL_DISTRIBUTION transactions, which credit
  remainder,  \* POOL_REMAINDER transactions
  \* Ghost.
  given,      \* what approvals and adjustments added
  held,       \* what had been given when the last distribution read the pool
  adds        \* how many of them

poolRows == <<poolRow, poolPaid, remainder, given, held, adds>>
poolVars == <<poolRows, handlerVars>>

NoPool == [status |-> "NONE", total |-> 0, snapshot |-> {}]

\* The columns of the row that are read in one place and written in another;
\* "status" stands for the snapshot of the households as well.
Columns == {"total", "status"}

PoolRequest ==
  {Free}
    \union [op : {"add"}, reads : {{"total"}}, fresh : BOOLEAN, total : Int, share : Shares,
            creates : BOOLEAN]
    \union [op : {"lockSnapshot"}, reads : {{"status"}}, fresh : BOOLEAN,
            snapshot : (SUBSET Families) \ {{}}]
    \union [op : {"distribute"}, reads : {{"status"}}, fresh : BOOLEAN, total : Int, given : Int,
            snapshot : (SUBSET Families) \ {{}}, resolves : BOOLEAN]

PoolInit ==
  /\ poolRow = NoPool
  /\ poolPaid = [f \in Families |-> 0]
  /\ remainder = 0
  /\ given = 0
  /\ held = 0
  /\ adds = 0
  /\ HandlersInit

-----------------------------------------------------------------------------
\* getOrCreateOpenPool; addToPoolTotal reads the total ...
AddRead(r) ==
  /\ adds < MaxAdds
  /\ \E s \in Shares :
       Begins(r, [op |-> "add", reads |-> {"total"}, fresh |-> TRUE, total |-> poolRow.total,
                  share |-> s, creates |-> poolRow = NoPool])
  /\ UNCHANGED poolRows

\* (mutation: a distributed pool is opened again)
AddWriteOpen(r) ==
  /\ request[r].op = "add"
  /\ adds < MaxAdds
  /\ LET k == request[r] IN
     /\ k.creates => poolRow = NoPool
     /\ poolRow' = [poolRow EXCEPT !.status = "OPEN", !.total = k.total + k.share]
     /\ given' = given + k.share
     /\ Wrote(r, Columns, Free)
  /\ adds' = adds + 1
  /\ UNCHANGED <<poolPaid, remainder, held>>

\* ... and writes the sum, whatever the status: also to a pool that has been
\* distributed.  Of two that create the pool, the unique index refuses one.
AddWrite(r) ==
  /\ request[r].op = "add"
  /\ adds < MaxAdds
  /\ LET k == request[r] IN
     /\ k.creates => poolRow = NoPool
     /\ poolRow' = [poolRow EXCEPT !.status = IF k.creates THEN "OPEN" ELSE @,
                                   !.total = k.total + k.share]
     /\ given' = given + k.share
     /\ Wrote(r, IF k.creates THEN Columns ELSE {"total"}, Free)
  /\ adds' = adds + 1
  /\ UNCHANGED <<poolPaid, remainder, held>>

LockRequest(h) == [op |-> "lockSnapshot", reads |-> {"status"}, fresh |-> TRUE, snapshot |-> h]

\* lockPoolSnapshot: a pool that is missing is created, and committed ...
LockSnapshotRead(r) ==
  /\ poolRow.status # "DISTRIBUTED"
  /\ \E h \in (SUBSET Families) \ {{}} :
       \/ /\ poolRow = NoPool
          /\ request[r].op = "free"
          /\ poolRow' = [NoPool EXCEPT !.status = "OPEN"]
          /\ Wrote(r, Columns, LockRequest(h))
       \/ /\ poolRow # NoPool
          /\ Begins(r, LockRequest(h))
          /\ UNCHANGED poolRow
  /\ UNCHANGED <<poolPaid, remainder, given, held, adds>>

\* ... and then locked, whatever its status has become.
LockSnapshotWrite(r) ==
  /\ request[r].op = "lockSnapshot"
  /\ poolRow' = [poolRow EXCEPT !.status = "SNAPSHOT_LOCKED", !.snapshot = request[r].snapshot]
  /\ Wrote(r, {"status"}, Free)
  /\ UNCHANGED <<poolPaid, remainder, given, held, adds>>

\* distributePool, resolveSnapshot: the households it was locked for, or all
\* those of the mine that are approved.
DistributeRead(r) ==
  /\ \E h \in (SUBSET Families) \ {{}} :
       /\ \/ poolRow.status = "OPEN"
          \/ poolRow.status = "SNAPSHOT_LOCKED" /\ h = poolRow.snapshot
       /\ Begins(r, [op |-> "distribute", reads |-> {"status"}, fresh |-> TRUE,
                     total |-> poolRow.total, given |-> given, snapshot |-> h,
                     resolves |-> poolRow.status = "OPEN"])
  /\ UNCHANGED poolRows

Abs(x) == IF x < 0 THEN -x ELSE x

\* Math.floor rounds down, also below zero, but createTransaction stores the
\* absolute value: a share below zero is credited to the households like any
\* other.  creditPoolRemainder keeps the rest.
DistributeWrite(r) ==
  /\ request[r].op = "distribute"
  /\ LET k == request[r]
         n == Cardinality(k.snapshot)
         per == k.total \div n
     IN
     /\ poolPaid' = [f \in Families |-> poolPaid[f] + IF f \in k.snapshot THEN Abs(per) ELSE 0]
     /\ remainder' = remainder + (k.total - per * n)
     /\ poolRow' = [poolRow EXCEPT !.status = "DISTRIBUTED",
                                   !.snapshot = IF k.resolves THEN k.snapshot ELSE @]
     /\ held' = k.given
  /\ Wrote(r, {"status"}, Free)
  /\ UNCHANGED <<given, adds>>

PoolNext == \E r \in Requests :
  \/ AddRead(r) \/ AddWrite(r)
  \/ LockSnapshotRead(r) \/ LockSnapshotWrite(r)
  \/ DistributeRead(r) \/ DistributeWrite(r)
  \/ Ends(r, FALSE) /\ UNCHANGED poolRows

PoolSpec == PoolInit /\ [][PoolNext]_poolVars

-----------------------------------------------------------------------------
(* Properties.                                                             *)

PoolTypeOK ==
  /\ poolRow \in [status : {"NONE", "OPEN", "SNAPSHOT_LOCKED", "DISTRIBUTED"}, total : Int,
                  snapshot : SUBSET Families]
  /\ poolPaid \in [Families -> Nat]
  /\ remainder \in Nat
  /\ {given, held} \subseteq Int
  /\ adds \in 0..MaxAdds
  /\ request \in [Requests -> PoolRequest]

\* Additions, locks and a distribution in any order, unless one writes a
\* column that it has read before another wrote it: the pool holds what was
\* given to it, and it is distributed once.  The households of its snapshot,
\* and no others, get equal shares, which with a rest too small to be shared
\* are, to the rial, what had been given when the distribution read the
\* pool, if that is not below zero; what is added while it is distributed,
\* or later, stays in the pool (communityPoolsRepository.ts 182-393).
PoolAddsUp ==
  ~overtaken =>
    /\ poolRow.total = given
    /\ LET sharing == IF poolRow.status = "DISTRIBUTED" THEN poolRow.snapshot ELSE {} IN
       /\ \A f \in Families \ sharing : poolPaid[f] = 0
       /\ \A f, g \in sharing : poolPaid[f] = poolPaid[g]
       /\ IF sharing = {} THEN remainder = 0 ELSE remainder \in 0..(Cardinality(sharing) - 1)
       /\ sharing # {} /\ held >= 0 => FoldFunction(+, 0, poolPaid) + remainder = held

=============================================================================
