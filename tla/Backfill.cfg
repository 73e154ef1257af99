SPECIFICATION BackfillSpec
CONSTANTS
  Procs <- MCProcs
  Publishers <- MCPublishers
  MaxLedger = 5
  FetchSize = 2
  MaxWorkers = 2
  MaxRuns = 2
INVARIANTS
  SuccessMeansComplete
  SerialResumeFillsRange
CHECK_DEADLOCK FALSE
