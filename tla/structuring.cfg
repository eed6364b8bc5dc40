CONSTANTS
  Cfgs <- Cfgs4
  JoinDepth = 2
SPECIFICATION SSpec
CHECK_DEADLOCK FALSE
INVARIANTS
  TreeIsDominance
  LoopIsNatural
  LoopsNest
  NoReducibleRegionMissed
  JoinIsCommon
PROPERTIES
  AnalysisEnds
