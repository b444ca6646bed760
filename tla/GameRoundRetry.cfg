\* Retries of one key with bets that differ, and spends of one balance, through two sessions.
SPECIFICATION Spec
CONSTANTS
  s1 = s1
  s2 = s2
  s3 = s3
  a1 = a1
  a2 = a2
  NoAccount = NoAccount
  Accounts = {a1}
  SessionIds = {s1, s2}
  Requests = {r1, r2, r3}
  Keys = {k1, k2}
  Bets = {1, 2}
  AllowedBets = {1, 2}
  Payouts = {0, 3}
  StartingBalance = 2
  PoolSize = 4
  InitialSession <- OneAccountTwoSessions
  InitialAuth = {s1, s2}
CONSTRAINT RetryOrSpend
SYMMETRY Symmetry
INVARIANTS
  OneLiveDraw
  OneRoundPerKey
  AnswersAreSettled
  TypeOK
  MoneyMatchesRounds
