SPECIFICATION Spec
CONSTANTS
  Keys = {k1}
  Seen = {h1, h2}
  Dropped = {d1, d2}
  CallIds = {c1, c2, c3}
  MaxAged = 1
  MaxUnclean = 1
  None = None
SYMMETRY Symmetry
INVARIANTS
  EffectsBounded
  ReplayIsStoredAnswer
  SingleFlight
