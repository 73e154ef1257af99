SPECIFICATION FairSpec
CONSTANTS
  Entities = {"USD:G", "usd:G", "tx:1"}
  Details = {"tx:1"}
  NoEntity = "none"
  EntityFold <- MCEntityFold
  Names = {"w", "W"}
  NameFold <- MCNameFold
  Colors = {""}
  NoColor = ""
  Texts = {""}
  Files <- MCFiles
  MaxMade = 2
INVARIANTS
  LabelsSound
PROPERTIES
  SuccessIsComplete
  PageCatchesUp
