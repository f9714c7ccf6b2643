SPECIFICATION Spec
CONSTANTS
  a1 = a1
  a2 = a2
  a3 = a3
  a4 = a4
  a5 = a5
  a6 = a6
  Types <- SomeTypes
  Bases <- SomeBases
  Capacity = 40
  Addresses <- SomeAddresses
  MaxLen = 2
  MaxOperations = 4
INVARIANTS
  TypeOK
  PiecesApart
  MisalignedExplained
  FreedOnce
SYMMETRY Symmetry
CHECK_DEADLOCK FALSE
