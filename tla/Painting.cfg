SPECIFICATION Spec
CONSTANTS
  Alphabet <- PaintingCommands
  Follows <- PaintingFollows
  MaxRuns = 2
  Rects = {"r1", "r2", "r3"}
  Degenerate = {"r3"}
  Regions = {1, 2}
  Patterns = {1, 2}
  Symbols = {"s1", "s2"}
  Names = {"hot"}
  Compat = FALSE
  Strict = TRUE
INVARIANTS TypeOK ClipAndFillResolve PatternsCurrent IdsUnique
  ShapesRendered
PROPERTIES ImplementsRendering
CHECK_DEADLOCK FALSE
