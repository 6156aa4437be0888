SPECIFICATION Spec
CONSTANTS
  Batches = {b1}
  Missions = {m1}
  Households = {}
  Payable = {m1}
  CoopAdmins = {coop}
  OpAdmins = {op1, op2}
  MaxAttempts = 2
  MaxInFlight = 1
  MaxFaults = 0
  MaxCrashes = 0
  BankAuto = TRUE
  None = None
SYMMETRY Symmetry
CHECK_DEADLOCK FALSE
PROPERTIES
  HeldMissionNotSettled
