SPECIFICATION Spec
CONSTANTS
  o1 = o1
  o2 = o2
  MINUTE = 2
  Orders = {o1, o2}
  Menu <- MCMenu
  Cart <- MCCart
  PickupTimes = {5, 10}
  Thresholds <- MCShortBoard
  ScanMinutes = 2
  Tickers = {}
  Day <- MCDay
  Rules <- MCRules
  Quoted = {"bread"}
  MaxTime = 4
  MaxAborts = 0
CHECK_DEADLOCK FALSE
INVARIANTS
  PromiseKept
  AsapSlipsByDelayOnly
  UpcomingIsCalm
  BoardOrderIsConsistent
  SlotsAreRight
