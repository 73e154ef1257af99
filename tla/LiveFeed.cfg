SPECIFICATION Spec
CONSTANTS
  MaxTx = 2
  Scrollback = 2
  Soroban <- MCSoroban
  WireSize = 1
  UpdatesSize = 1
  Recent = 1
  PageStep = 2
  Presets <- MCPresets
  MaxOpens = 1
INVARIANTS
  ViewIsWindowOrBlank
PROPERTIES
  SelectionFollowsTransaction
  PausedFeedIsStill
  ReturnFindsTransaction
