SPECIFICATION Spec
CONSTANTS
  Alphabet <- NestingCommands
  Follows <- NestingFollows
  MaxRuns = 1
  Rects = {"r1", "r2", "r3"}
  Degenerate = {"r3"}
  Regions = {1, 2}
  Patterns = {1, 2}
  Symbols = {"s1", "s2"}
  Names = {"hot"}
  Compat = FALSE
  Strict = TRUE
INVARIANTS WellFormed
CHECK_DEADLOCK FALSE
