SPECIFICATION MCSpec
CONSTANTS
  None = None
  w1 = w1
  o1 = o1
  o2 = o2
  a1 = a1
  a2 = a2
  b1 = b1
  b2 = b2
  c1 = c1
  c2 = c2
  Logins = {l1}
  Issues = {a1, a2}
  Resets = {b1, b2}
  StepUps = {c1, c2}
  OldPassword = p0
  Delay = 1
  IdleTtl = 2
  AbsoluteTtl = 2
  TokenTtl = 1
  MaxTime = 2
CONSTRAINT Bound
SYMMETRY Symmetry
INVARIANTS
  TypesOK
  RecoveryIsFinal
  ChecksTellTheTruth
PROPERTIES
  StepUpsOnlyRaise
CHECK_DEADLOCK FALSE
