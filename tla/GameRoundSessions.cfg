\* A guest session that rotates, expires, ends and is upgraded under its spins.
SPECIFICATION Spec
CONSTANTS
  s1 = s1
  s2 = s2
  s3 = s3
  a1 = a1
  a2 = a2
  NoAccount = NoAccount
  Accounts = {a1}
  SessionIds = {s1, s2, s3}
  Requests = {r1, r2}
  Keys = {k1, k2}
  Bets = {2}
  AllowedBets = {2}
  Payouts = {0, 3}
  StartingBalance = 2
  PoolSize = 3
  InitialSession <- GuestSession
  InitialAuth = {}
SYMMETRY Symmetry
INVARIANTS
  PlaysOnOwnSession
  RefusalSettlesNothing
PROPERTY
  ImplementsPromise
