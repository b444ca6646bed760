SPECIFICATION MCSpec
CONSTANTS
  None = None
  u1 = u1
  u2 = u2
  Guests = {a1}
  Registers = {u1, u2}
  Logins = {m1}
  Logouts = {x1}
  Opens = {n1}
  Rotations = {r1}
  Deletes = {d1}
  Spins = {p1}
  Emails = {e1}
  PRs = {1, 2, 3, 4}
  Wave = {1, 2}
  Depends <- FirstWaitsForThird
  Touches <- MovingFiles
  BlockedPaths <- Core
  Broken <- Breaks
  Conflicts <- Clashes
  MinBatch = 2
  MaxBatch = 3
  MaxVersions = 2
  MaxEvents = 2
  MaxByHand = 1
  Failing = TRUE
CONSTRAINTS
  OneOrWave
  UpgradeOrLeave
SYMMETRY Symmetry
INVARIANTS
  MainHolds
  LandedWasScreened
  UpgradesHold
PROPERTIES
  StandingIsRespected
  AnonymousStaysOut
CHECK_DEADLOCK FALSE
