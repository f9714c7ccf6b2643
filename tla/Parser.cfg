SPECIFICATION FairSpec
CONSTANT Inputs <- AnyInputs
INVARIANTS
  TypeOK
  AbortExplained
  DropsReported
  KeptWellFormed
  SliceOwn
PROPERTY Ends
CHECK_DEADLOCK FALSE
