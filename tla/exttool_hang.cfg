CONSTANTS
  Plans <- SurvivingHelper
  PipeSize = 1
SPECIFICATION Spec
CHECK_DEADLOCK FALSE
PROPERTY
  TimeoutEndsCall
