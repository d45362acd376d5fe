SPECIFICATION Spec
CONSTANTS
  Alphabet <- ContentCommands
  Follows <- ContentFollows
  MaxRuns = 1
  Rects = {"r1", "r2", "r3"}
  Degenerate = {"r3"}
  Regions = {1, 2}
  Patterns = {1, 2}
  Symbols = {"s1", "s2"}
  Names = {"hot"}
  Compat = TRUE
  Strict = FALSE
INVARIANTS TextInPlace  InItsGroups ValidXml SymbolsResolve DrawnOnce
PROPERTIES NothingLost
CHECK_DEADLOCK FALSE
