SPECIFICATION Spec
CONSTANTS
  MaxText = 4
  MaxData = 4
  MaxInRegion = 1
  MaxInFigure = 1
  MaxControls = 4
  Unreadable = Unreadable
  IsName <- MCIsName
  WordsIn <- MCWordsIn
  FirstWord <- MCFirstWord
  Files <- MCFiles
  Others <- MCOthers
  Requests <- MCRequests
  Kept <- MCKept
INVARIANTS
  StructuresChecked
  TextsChecked
  SymbolsChecked
  LimitsChecked
  ProfilesAgree
  KeptIsFresh
  EditionHonoured
CHECK_DEADLOCK FALSE
