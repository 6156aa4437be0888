SPECIFICATION Spec
CONSTANTS
  Keys = {1, 2}
  Seen = {"ACCEPTED", "ARRIVED", "LOADED", "IN_TRANSIT", "DELIVERED"}
  Dropped = {None}
  CallIds = {c1, c2}
  Threads = {t1, t2}
  Start = "ARRIVED"
  Bases = 2
  MaxAged = 1
  MaxTroubles = 1
  None = None
SYMMETRY Symmetry
CHECK_DEADLOCK FALSE
INVARIANTS
  AckedIsWritten
  NoStepSkipped
PROPERTIES
  ImplementsIdempotentPost
