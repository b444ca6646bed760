SPECIFICATION MCSpec
CONSTANTS
  None = None
  t1 = t1
  t3 = t3
  t4 = t4
  finance = finance
  support = support
  d1 = d1
  w1 = w1
  p1 = p1
  p2 = p2
  Accounts = {finance, support}
  Roles <- MCRoles
  Ops = {w1}
  Kind <- MCKind
  Players = {p1, p2}
  Tasks = {t1}
  o1 = o1
  h1 = h1
  h2 = h2
  Parts = {"pages"}
  Presses = {1, 2, 3, 4, 5}
  Overlap = FALSE
  Payments = {o1}
  KindOf <- MCKindOf
  Script <- ApprovedCompleted
  Workers = {h1, h2}
  Tolerance = 1
  Skew = 1
  MaxTime = 2
  StaffActions = {"approve", "reject", "fail"}
  Reassigns = TRUE
CONSTRAINT
  PressedInOrder
INVARIANT
  ExpiredTokenSurfaces
CHECK_DEADLOCK FALSE
