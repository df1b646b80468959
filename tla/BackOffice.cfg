SPECIFICATION Spec
CONSTANTS
  cashier = cashier
  manager = manager
  Items = {cake}
  Prices = {1, 2}
  Default <- MCDefault
  MaxImports = 2
  MaxChanges = 3
  MaxSavesAlone = 4
  Roles = {cashier, manager}
  Perms = {refund}
  Seed <- MCSeed
  MaxSaves = 3
  Values = {1, 2}
  DefaultValue = 0
  Ttl = 2
  MaxRead = 1
  MaxSettingSaves = 2
  MaxBanners = 2
  Days = 2
  MaxEdits = 2
CHECK_DEADLOCK FALSE
INVARIANTS
  EffectsWereAllowed
  RoleSavesTakeEffect
  SettingIsSound
  
  ImportKeepsItsWord
  OrderIsCurrent
PROPERTIES
  ChangesReachReaders
