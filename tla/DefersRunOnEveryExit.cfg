SPECIFICATION PathsSpec
CONSTANTS
  outer = outer
  NoLabel = NoLabel
  Labels = {outer}
  NodeKinds <- AllKinds
  MaxNodes = 4
  MaxIterations = 2
INVARIANT DefersRunOnEveryExit
