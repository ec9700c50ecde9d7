CONSTANTS
  a = a
  b = b
  c = c
  short = short
  long = long
  Key = {a, b, c}
  Context = {short, long}
  NoEntry = NoEntry
  Schema <- MCSchema
  DynamicLength <- MCDynamicLength
  BatchSize = 2
  ContextSize = 10
  MaxSequences = 3
  MaxTreeLevels = 2
  MaxEntries = 2
  MaxBytes = 2
SPECIFICATION FairSpec
INVARIANTS
  PrefixIsExact
  PositionsContinue
  FitsContext
  ForwardPassesExact
PROPERTIES
  ScoredOnOwnPath
  ImplementsConstrainedDecode
  EveryRequestEnds
