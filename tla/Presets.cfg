SPECIFICATION Spec
CONSTANTS
  Words <- MCWords
  Cut <- MCCut
  Blank = {"a b"}
  Fold <- MCFold
  NoWord = "none"
  Names = {"w", "W"}
  DefaultWatch = "w"
  NoName = "none"
  Entities = {"t1"}
  NoEntity = "none"
  MaxEdits = 3
PROPERTIES
  WatchRestoresFeed
  UserHasTheLastWord
