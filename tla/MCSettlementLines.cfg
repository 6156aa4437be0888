SPECIFICATION Spec
CONSTANTS
  Batches = {b1}
  Missions = {m1, m2}
  Households = {h1}
  Payable = {m1, h1}
  CoopAdmins = {coop}
  OpAdmins = {op1, op2}
  MaxAttempts = 2
  MaxInFlight = 1
  MaxFaults = 1
  MaxCrashes = 0
  BankAuto = TRUE
  None = None
SYMMETRY Symmetry
CHECK_DEADLOCK FALSE
INVARIANTS
  SettledBatchFullyPaid
  CompletedWasTransferred
