SPECIFICATION Spec
CONSTANTS
  Words <- MCWords
  Numerals <- MCNumerals
  Upper <- MCUpper
  Texts <- SignedTexts
  Again <- SignedTexts
  MaxTokens = 20
  MaxReads = 1
INVARIANTS ReadsWellFormed
CHECK_DEADLOCK FALSE
