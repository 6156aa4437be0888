SPECIFICATION Spec
CONSTANTS
  Requests = {r1, r2}
  \* dispatch
  Needs = {n1, n2}
  Vehicles = {v1, v2}
  Drivers = {d1, d2}
  Missions = {m1, m2}
  MaxReopens = 1
  None = None
  \* statement
  Users = {u1, u2}
  Amounts = {1, 2}
  NoUser = NoUser
  \* kyc
  Approvers = {a1, a2}
  Quorum = 2
  Ibans = {i1}
  NoIban = NoIban
  \* hourly
  Logs = {l1, l2}
  MaxHours = 2
  MaxRate = 2
  \* rates
  Cards = {c1, c2, c3}
  Cooperatives = {p1}
  MaxDay = 2
  NoCoop = NoCoop
  \* contracts
  ContractIds = {s1, s2}
  Terms = {t1, t2}
  \* pool
  Families = {f1, f2}
  Shares <- MCShares
  MaxAdds = 3
  \* provisioning
  Asks = {q1, q2}
  Places = {w1, w2}
  NoPlace = NoPlace
  \* agent
  Events = {e1, e2, e3}
  \* notices
  DomainEvents = {x1, x2}
  LogWindow = 1
  MaxTries = 2
  \* ledger
  Hauls = {h1}
  Shifts = {g1}
  Nets = {1, 3}
  Whole = 4
  Ton = 4
  Fees = {1, 2}
  Tariffs = {1, 3}
  PerTons = {2, 3}
  Percents = {0, 2}
  NoRule = NoRule
  MaxChanges = 1
  MaxEntries = 2
SYMMETRY Symmetry
CHECK_DEADLOCK FALSE
INVARIANTS
  LockHoldsUnlessOvertaken
  DispatchedOnce
  LockedAsApproved
  NobodyForgotten
  CopyIsRow
  HoursPaidOnce
  EveryDayHasRate
  PoolAddsUp
  AccountsAreMembers
  ReadingsKept
  LoggedAgainOnlyBehind
  MessagesAccountedFor
  SharesOfFare
PROPERTIES
  FinalUnlessOvertaken
  QuorumReached
  ReturnsByApplication
  RatesChangeForward
  TermsStand
