SPECIFICATION FairSpec
CONSTANTS
  t1 = t1
  t2 = t2
  t3 = t3
  g1 = g1
  r1 = r1
  r2 = r2
  r3 = r3
  Items = {t1, t2, t3, g1}
  Produced = {t1, t2, t3}
  Requests = {r1, r2, r3}
  NoRequest = NoRequest
CHECK_DEADLOCK FALSE
INVARIANTS
  OrderNeverAhead
  NoWorkAfterCancel
  ItemMirrorsTask
  IInv
PROPERTIES
  EveryRequestAnswered
  StatusOnlyForward
  TaskNeverReopened
  RefinesLifecycle
