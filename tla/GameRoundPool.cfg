\* As many requests as the pool has clients.
SPECIFICATION Spec
CONSTANTS
  s1 = s1
  s2 = s2
  s3 = s3
  a1 = a1
  a2 = a2
  NoAccount = NoAccount
  Accounts = {a1, a2}
  SessionIds = {s1, s2}
  Requests = {r1, r2}
  Keys = {k1}
  Bets = {1, 2}
  AllowedBets = {2}
  Payouts = {0, 3}
  StartingBalance = 2
  PoolSize = 2
  InitialSession <- TwoAccounts
  InitialAuth = {s2}
PROPERTY
  Answered
