CONSTANTS
  Scopes <- FourScopes
  Functions <- TheFunctions
  Parameterless <- LastScope
  Types <- TwoTypes
  Programs <- AnyPrograms
SPECIFICATION Spec
INVARIANTS TypeOK StopsExplained RightInstance EmittedOnce
CHECK_DEADLOCK FALSE
