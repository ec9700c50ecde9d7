CONSTANTS
  Name = {"a", "b"}
  GgufName = {"a", "b"}
  NoName = "none"
  Directories <- TwoModels
  MaxChanges = 2
  Nul = Nul
  Unsupported = Unsupported
  Failure = Failure
  MaxEngines = 2
  Room = 3
  MaxText = 5
  Reader = {r1, r2}
SPECIFICATION FairSpec
INVARIANTS
  ListIsOfTheScan
  NativesFollowOwners
  TextsAreWhole
PROPERTY
  RetiredIsFreed
