SPECIFICATION Spec
CONSTANTS
  t1 = t1
  t2 = t2
  a1 = a1
  o1 = o1
  o2 = o2
  ledgers = ledgers
  none = none
  Transactions <- MCTransactions
  Accounts <- MCAccounts
  Details <- MCDetails
  Parent <- MCParent
  Lists <- MCLists
  NoEntity = none
  RouteLimit = 2
  MaxVersion = 1
  CacheLimit = 1
  MaxMoves = 4
INVARIANTS
  RouteSound
  ForwardUndoesBack
  CacheSound
PROPERTIES
  RefreshKeepsPlace
  RefreshDegradesHonestly
  BackEnds
  BackLeadsToOpener
