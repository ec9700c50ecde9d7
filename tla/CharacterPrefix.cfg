CONSTANTS
  Byte <- MCByte
  Body <- MCBody
  MaxFields = 2
  MinChoices = 2
  MaxChoices = 3
  MaxNameBytes = 5
  MaxDescriptionBytes = 3
  MaxChoiceBytes = 2
  MaxContextBytes = 2
  MaxCandidateTokens = 7
SPECIFICATION Spec
INVARIANT
  CommonPrefixIsText
CHECK_DEADLOCK FALSE
