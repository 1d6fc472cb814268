SPECIFICATION SSpec
CONSTANTS
  Truths      <- MCTruths
  Detections  <- MCDetections
  ScoredRules  = {0}
INVARIANT GreedyAnyWindow
CHECK_DEADLOCK FALSE
