SPECIFICATION Spec
CONSTANTS
  UsedProfiles <- MCProfiles
  Limit = 2
  MaxLedger = 4
  Retention = 3
  FirstSize = 5
  MaxSize = 7
  EventWindow = 6
  HorizonCap = 5
  EventCap = 5
  EventDefault = 2
INVARIANTS
  RowsNameTheirSource
  LedgerPagesDescend
  ListsLoseNothing
CHECK_DEADLOCK FALSE
