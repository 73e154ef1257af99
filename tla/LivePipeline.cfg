SPECIFICATION FairSpec
CONSTANTS
  live = live
  Live = live
  Procs <- MCProcs
  Publishers <- MCProcs
  MaxLedger = 4
  BatchSize = 2
  GapWindow = 3
  Retention = 2
  MaxFailures = 2
INVARIANTS
  TypeOK
  TailContiguous
  DuplicatesNeedFailure
PROPERTIES
  ImplementsLog
  CaughtUpOrExpired
  GapsFilledOrBlocked
