SPECIFICATION ISpec
CONSTANTS
  CountMax = 3
  MaxRules = 1
  Ids     <- MCIds
  Configs <- MCConfigs
  Cameras <- MCCameras
  Time    <- MCTime
  Frames  = {0, 1}
  Answers = {"unknown", "no", "yes", "7"}
  Caps    = {0, 1}
  Pids       = {p1, p2}
  N          = 2
  Contents  <- MCContents
  Manifests <- MCManifests
  Found     <- MCFound
  Absent     = Absent
INVARIANTS TypeOK RuleInv QueryMatchesTick DestComplete
PROPERTIES NoReportBeforeDuration NoSilentLoss NothingLost TrueWhenAlone
SYMMETRY Symmetric
VIEW IView
