\* Two operations of one account, two transitions, and a round that loses.
SPECIFICATION Spec
CONSTANTS
  o1 = o1
  o2 = o2
  t1 = t1
  t2 = t2
  k1 = k1
  k2 = k2
  e1 = e1
  e2 = e2
  Accounts = {a1}
  Operations = {o1, o2}
  Transitions = {t1, t2}
  Keys = {k1, k2}
  Events = {e1, e2}
  Amounts = {1, 2}
  StartingBalance = 2
  Nets <- LosesOne
  MaxRounds = 1
CONSTRAINTS
  AmountsDifferOrDecided
  PlayedOrBothDecide
SYMMETRY Symmetry
INVARIANTS
  TypeOK
  OneOperationPerKey
  EventsExplainStatus
  MoneyFollowsStatus
  AnswersMatchRecord
PROPERTIES
  ImplementsPromise
