SPECIFICATION Spec
CONSTANTS
  Records <- MCRecords
  Exts <- MCExts
  Names <- MCNames
  Funs <- MCFuns
  Programs <- NestedPrograms
INVARIANTS
  SkipsOnlySecondPart
CHECK_DEADLOCK FALSE
