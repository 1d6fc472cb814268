SPECIFICATION HSpec
CONSTANTS
  CountMax   = 3
  MaxRules   = 1
  HistoryMax = 4
  Ids     <- MCIds
  Configs <- MCConfigs
  Cameras = {"cam"}
  Time    <- MCTime
  Frames  = {0, 1}
  Answers = {"unknown", "no", "yes"}
  Caps    = {1}
INVARIANTS SummaryIsFaithful
PROPERTIES KeepsPromise
VIEW MCView
