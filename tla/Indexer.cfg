SPECIFICATION IndexerFairSpec
CONSTANTS
  Live <- MCLive
  Procs <- MCProcs
  Publishers <- MCPublishers
  MaxLedger = 3
  BatchSize = 2
  FetchSize = 2
  GapWindow = 2
  Retention = 2
  MaxFailures = 0
  MaxWorkers = 1
  MaxRuns = 1
INVARIANTS
  CursorLedgerComplete
  HalfWrittenHasWriter
  DuplicatesOnlyInBackfill
PROPERTIES
  GapsFilledOrBlocked
