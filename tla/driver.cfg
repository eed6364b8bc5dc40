CONSTANTS
  Inputs <- Files
  Plans <- AllPlans
  PipeSize = 1
  N = 5
  Parallelism = 3
SPECIFICATION MCSpec
CHECK_DEADLOCK FALSE
INVARIANTS
  ReadsStayInside
  StartsDecodedOnce
  DecodesWhatWasEncoded
  GraphIsSteps
  OutputIsComplete
  NoToolLeftBehind
  ErrorAfterDrain
  BoundedRequests
PROPERTIES
  Returns
  ImplementsBatch
  Printed
