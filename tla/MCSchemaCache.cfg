CONSTANTS
  Key = {k1, k2, k3}
  NoEntry = NoEntry
  none = none
  small = small
  large = large
  oversize = oversize
  Entry <- MCEntry
  CheckpointBytes <- MCCheckpointBytes
  MaxEntries = 2
  MaxBytes = 3
  FailureBound = 2
SPECIFICATION HSpec
INVARIANTS
  TypeOK
  RecencyListsIndex
  BytesAccounted
  WithinLimits
  DisabledNotCached
PROPERTIES
  PutEvictsOldestOnlyToFit
  ImplementsLossyMap
