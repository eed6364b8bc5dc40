CONSTANTS
  Regs = {1, 2}
  Cfgs <- Cfgs3
  ItersPerBlock = 3
SPECIFICATION Spec
CHECK_DEADLOCK FALSE
INVARIANTS
  UnsettledIsQueued
  NoSpuriousLive
  FixpointSolves
  LiveMeansReadOnAPath
PROPERTIES
  LiveSetsGrow
  Terminates
