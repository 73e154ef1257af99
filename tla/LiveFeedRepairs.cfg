SPECIFICATION FairSpec
CONSTANTS
  MaxTx = 3
  Scrollback = 1
  Soroban <- MCSoroban
  WireSize = 1
  UpdatesSize = 1
  Recent = 1
  PageStep = 2
  Presets <- MCPresets
  MaxOpens = 0
INVARIANTS
  NothingLostSilently
PROPERTIES
  ListNeverGoesBack
  PollRepairs
