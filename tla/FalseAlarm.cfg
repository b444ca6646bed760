\* The reconcilers run while two payments commit; nothing is ever wrong.
SPECIFICATION Spec
CONSTANTS
  Accounts = {a1}
  Operations = {o1, o2}
  Amounts = {1}
  Starting = 2
  Skews = {0}
  Faults = {}
  MaxCommits = 2
  MaxSessions = 0
  Checks = {"summary"}
INVARIANTS
  PaymentsTellTheTruth
CHECK_DEADLOCK FALSE
