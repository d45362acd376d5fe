SPECIFICATION Spec
CONSTANTS
  Words <- MCWords
  Numerals <- MCNumerals
  Upper <- MCUpper
  Texts <- MCTexts
  Again <- AgainTexts
  MaxTokens = 11
  MaxReads = 2
INVARIANTS
  TypeOK
  StatementsRead
  DefinitionsFollow
  EveryStatementAnswered
PROPERTIES
  ReadingEnds
CHECK_DEADLOCK FALSE
