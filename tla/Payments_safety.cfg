SPECIFICATION Spec
CONSTANTS
  MaxPayments = 2
  Total = 1
  r1 = r1
  r2 = r2
  Requests = {r1, r2}
  NoRequest = NoRequest
SYMMETRY Symmetry
CHECK_DEADLOCK FALSE
INVARIANTS
  MoneyBehindOrder
  PaidStatusIsReal
  CashTakenOnce
PROPERTIES
  NeverBack
