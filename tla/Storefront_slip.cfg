SPECIFICATION Spec
CONSTANTS
  MaxOrders = 2
  MaxAttempts = 2
  MaxBaskets = 2
  MaxPresses = 1
  MaxFaults <- NoFaults
CHECK_DEADLOCK FALSE
INVARIANTS
  PaidSlipIsPaid
