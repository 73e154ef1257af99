SPECIFICATION BackfillSpec
CONSTANTS
  Procs <- MCProcs
  Publishers <- MCPublishers
  MaxLedger = 4
  FetchSize = 2
  MaxWorkers = 2
  MaxRuns = 2
INVARIANTS
  ResumeFillsRange
CHECK_DEADLOCK FALSE
