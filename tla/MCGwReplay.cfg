SPECIFICATION RSpec
CONSTANTS
  CountMax     = 3
  MaxRules     = 2
  Ids         <- MCIds
  Configs     <- MCConfigs
  Cameras      = {"cam"}
  Time         = {0}
  Frames       = {1}
  Answers      = {"no", "yes"}
  Caps         = {2}
  Scenes      <- MCScenes
  AvailRule    = 1
  DetectionCap = 1
INVARIANTS OnlyARuleCanFail EveryIntervalAccounted LongOutageNoticed DetectionsAreWatched DetectedOnTime
PROPERTIES OutageIsUnknown LatchReported ReplayReturns
CHECK_DEADLOCK FALSE
