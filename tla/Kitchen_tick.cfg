SPECIFICATION Spec
CONSTANTS
  o1 = o1
  o2 = o2
  MINUTE = 2
  Orders = {o2}
  Menu <- MCMenu
  Cart <- MCCart
  PickupTimes = {6}
  Thresholds <- MCThresholds
  ScanMinutes = 2
  Tickers = {k1, k2}
  Day <- MCDay
  Rules <- MCRules
  Quoted = {"bread"}
  MaxTime = 3
  MaxAborts = 1
CHECK_DEADLOCK FALSE
INVARIANTS
  AnnouncedOnce
  IInv
  AnnouncedLooksSoon
PROPERTIES
  DueIsMarked
