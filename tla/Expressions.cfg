SPECIFICATION Spec
CONSTANTS
  Records <- MCRecords
  Exts <- MCExts
  Names <- MCNames
  Funs <- MCFuns
  Programs <- AllPrograms
INVARIANTS
  GroupsByPriority
  StopsExplained
  TypesAgree
  RunsAsMeant
CHECK_DEADLOCK FALSE
