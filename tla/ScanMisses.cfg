CONSTANTS
  Name = {"a", "b", "notes"}
  GgufName = {"a", "b"}
  NoName = "none"
  Directories <- WithNotes
  MaxChanges = 1
  Nul = Nul
  Unsupported = Unsupported
  Failure = Failure
  MaxEngines = 1
  Room = 3
  MaxText = 5
  Reader = {}
SPECIFICATION Spec
INVARIANT
  PresentModelsAreListed
