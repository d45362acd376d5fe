SPECIFICATION Spec
CONSTANTS
  Thread = {t1}
  Context = {c1}
  Metafiles <- MCMetafiles
  FontContents <- MCFontContents
  XcfFiles <- MCXcfFiles
  SvgFiles <- MCSvgFiles
  Outputs <- MCOutputs
  Writable <- MCWritable
  XcfOf <- MCXcfOf
  Settings <- MCSettings
  Supported = {"webcgm21"}
  Budgets <- MCBudgets
  Object = {o1, o2}
  Handle = {h1, h2}
  Converter = {k1, k2}
  Wishes <- MCWishes
SYMMETRY Symmetry
INVARIANTS HandlesOwn
PROPERTIES AnswersAgree OverridesWin
CHECK_DEADLOCK FALSE
