CONSTANTS
  Regs = {1}
  Cfgs <- SsaCfgs
  MaxBlocksToVisit = 3
  RoundsPerBlock = 20
SPECIFICATION SSpec
CHECK_DEADLOCK FALSE
INVARIANTS
  ChainsReach
  ValuesReach
  SingleUseIsOnlyUse
PROPERTIES
  SweepsSettle
