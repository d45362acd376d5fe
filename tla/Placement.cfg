SPECIFICATION Spec
CONSTANTS
  Alphabet <- PlacementCommands
  Follows <- PlacementFollows
  MaxRuns = 1
  Rects = {"r1", "r2", "r3"}
  Degenerate = {"r3"}
  Regions = {1, 2}
  Patterns = {1, 2}
  Symbols = {"s1", "s2"}
  Names = {"hot"}
  Compat = FALSE
  Strict = TRUE
INVARIANTS AllRendered
CHECK_DEADLOCK FALSE
