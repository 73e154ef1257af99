SPECIFICATION ApiSpec
CONSTANTS
  live = live
  Live = live
  Procs <- MCProcs
  Publishers <- MCProcs
  MaxLedger = 3
  BatchSize = 1
  GapWindow = 3
  Retention = 2
  MaxFailures = 0
  RecentLimit = 2
INVARIANTS
  SummaryCoversCursor
  PromisedIsWhole
CHECK_DEADLOCK FALSE
