CONSTANTS
  CandidateLists <- MCCandidateLists
  Weights <- MCWeights
  Split <- MCSplit
  NaN = NaN
SPECIFICATION FairSpec
INVARIANTS
  CandidatesFollowPath
  MassConserved
PROPERTIES
  EliminatedIsFinal
  EventuallyResolved
CHECK_DEADLOCK FALSE
