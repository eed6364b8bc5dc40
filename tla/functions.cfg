CONSTANT Programs <- FunctionPrograms
SPECIFICATION CallSpec
CHECK_DEADLOCK FALSE
INVARIANTS
  NearestEntryWins
  OnlyUnreachedDropped
  HiddenIsSealed
PROPERTY
  Terminates
