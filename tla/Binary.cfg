SPECIFICATION Spec
CONSTANTS
  MaxPartition = 40
  MaxLoads = 2
  CrashPoints = {5, 20}
  Files <- BinaryFiles
INVARIANTS
  TypeOK
  SavedFileReadsBack
  BadCommandsLeaveNoTrace
  PicturesWhole
  AsciiTextSurvives
PROPERTIES
  ElementsDelivered
  DefaultsInPlace
  LoadsAndSavesEnd
CHECK_DEADLOCK FALSE
