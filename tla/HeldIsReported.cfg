SPECIFICATION HSpec
CONSTANTS
  CountMax   = 3
  MaxRules   = 1
  HistoryMax = 5
  Ids     <- MCIds
  Configs <- MCDoor
  Cameras = {"cam"}
  Time    <- MCTime
  Frames  = {0, 1}
  Answers = {"unknown", "no", "yes"}
  Caps    = {1}
VIEW MCView
CHECK_DEADLOCK FALSE
PROPERTY HeldIsReported
