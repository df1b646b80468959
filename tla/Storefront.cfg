SPECIFICATION Spec
CONSTANTS
  MaxOrders = 2
  MaxAttempts = 2
  MaxBaskets = 2
  MaxPresses = 2
  MaxFaults <- MCMaxFaults
CHECK_DEADLOCK FALSE
INVARIANTS
  
  PlacedHasPayment
  ShownIsWhatWasSent
  PaidScreenIsPaid
  NumberingGoesOn
PROPERTIES
  DecisionReachesScreen
  PlacingEnds
