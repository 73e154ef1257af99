SPECIFICATION FairSpec
CONSTANTS
  Contracts = {"c1", "c2"}
  Wasms = {"w"}
  CodeOf <- MCCodeOf
  CreatedIn <- MCCreatedIn
  Specced = {"w"}
  Items <- MCItems
  Best <- MCBest
  LastLedger = 2
  Readers = {"r1", "r2"}
  MaxFaults = 1
INVARIANTS
  PayloadsStayInTransaction
  ShownSpecDecodes
PROPERTIES
  StoredDecodesNeverWorse
  AnswersCatchUp
