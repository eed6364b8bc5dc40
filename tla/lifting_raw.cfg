CONSTANTS
  Regs = {1, 2, 3}
  Cfgs <- TextUses
  MaxBlocksToVisit = 200
  RoundsPerBlock = 20
  W = 2
  SP = 1
  R8 = 3
  CaptureSlot = 3
  HaltAddress = 3
SPECIFICATION LSpec
CHECK_DEADLOCK FALSE
INVARIANT
  EveryNameIsDefined
