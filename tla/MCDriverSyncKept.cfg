SPECIFICATION Spec
CONSTANTS
  Keys = {1, 2, 3}
  Seen = {"ACCEPTED", "ARRIVED", "LOADED", "IN_TRANSIT", "DELIVERED"}
  Dropped = {None}
  CallIds = {c1, c2}
  Threads = {t1}
  Start = "ARRIVED"
  Bases = 1
  MaxAged = 0
  MaxTroubles = 1
  None = None
SYMMETRY Symmetry
CHECK_DEADLOCK FALSE
PROPERTIES
  QueuedStepKept
