SPECIFICATION MCSpec
CONSTANTS
  q1 = q1
  q2 = q2
  q3 = q3
  k1 = k1
  k2 = k2
  c1 = c1
  c2 = c2
  c3 = c3
  s1 = s1
  s2 = s2
  r1 = r1
  r2 = r2
  r3 = r3
  e1 = e1
  e2 = e2
  i1 = i1
  i2 = i2
  i3 = i3
  g1 = g1
  g2 = g2
  g3 = g3
  Requests = {q1, q2, q3}
  Keys = {k1, k2}
  Bets = {1, 2}
  Payouts = {0, 3}
  StartingBalance = 2
  IdleTtl = 1
  AbsoluteTtl = 1
  MaxSessions = 2
  MaxTime = 2
  MaxRestarts = 1
  MaxFailures = 1
  Callers = {c1, c2, c3}
  Sources = {s1, s2}
  KeyOf <- TwoBehindOne
  Limit = 2
  Window = 3
  MaxClock = 7
  None = None
  Calls = {r1, r2, r3}
  Effects = {e1, e2}
  EffectOf <- RequestAndRetry
  MaxStarts = 2
  Starts = {i1, i2, i3}
  Release <- OldAndNew
  Nobody = Nobody
CONSTRAINT SpinOrRestart
SYMMETRY Symmetry
INVARIANTS
  JsonStoreHolds
  LimitHolds
  AnsweredIsKept
  TrailIsTrue
  SchemaHolds
  GamesKeepTheRules
  AmountsAreExact
PROPERTIES
  RefusalsAreJust
CHECK_DEADLOCK FALSE
