CONSTANTS
  Cfgs <- Leaving
  JoinDepth = 4
  ShellSize = 1
  MaxTextRounds = 4
SPECIFICATION TSpec
CHECK_DEADLOCK FALSE
INVARIANT
  EveryTargetPrinted
