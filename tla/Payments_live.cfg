SPECIFICATION FairSpec
CONSTANTS
  MaxPayments = 1
  Total = 2
  r1 = r1
  r2 = r2
  Requests = {r1, r2}
  NoRequest = NoRequest
CHECK_DEADLOCK FALSE
INVARIANTS
  RefundsBalanced
PROPERTIES
  EveryRequestAnswered
