CONSTANTS
  Cfgs <- Programs
  JoinDepth = 4
  ShellSize = 1
  MaxTextRounds = 4
SPECIFICATION TSpec
CHECK_DEADLOCK FALSE
INVARIANTS
  NeverDeferred
  NoReentry
  TargetsArePrinted
  PassesKeepFlow
PROPERTIES
  PrintingEnds
