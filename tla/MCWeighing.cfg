SPECIFICATION Spec
CONSTANTS
  Requests = {r1, r2}
  Adjs = {a1, a2}
  Empties = {1, 2}
  Loadeds = {2}
  Nets = {2}
  MaxCredits = 1
SYMMETRY Symmetry
INVARIANTS
  ReadingAppliedOnce
  NetIsOneWeighing
  CreditedOnce
  LedgerFollowsNet
  ManualIsSupervised
