SPECIFICATION TSpec
CONSTANTS
  CountMax      = 3
  Ids          <- MCIdsOfTools
  Lines        <- MCLines
  MaxRules      = 2
  MaxTruth      = 2
  MaxSamples    = 2
  MaxRestarts   = 2
  DefaultTick   = 2
  CriteriaLines <- MCCriteriaLines
  ReportLines   <- MCReportLines
  MaxLines      = 5
  Field        <- MCField
  MaxCriteria   = 2
  MaxMetrics    = 2
  Truths       <- MCTruths
  Detections   <- MCDetections
  ScoredRules   = {0, 1}
  CommandLines <- MCCommandLines
  Ppm           = 100
  Requests     <- MCRequests
  Sizes         = {0, 1, 3, 7}
  OddIds       <- MCOddIds
  SentenceCap   = 32
  Spelling     <- MCSpelling
  WordsIn      <- MCWordsIn
  Begins       <- MCBegins
  Leading      <- MCLeading
  TimeUnits    <- MCTimeUnits
  Occurrences  <- MCOccurrences
  Batches      <- MCBatches
  BufferSizes   = {0, 100}
  Sixty         = 2
  HoursPerDay   = 3
  NsPerSecond   = 4
  NsPerMilli    = 2
INVARIANTS
  AcceptedIsUsable
  ZeroMeansDemonstrated EveryCriterionAnswered
  CountsAreAMatching AgreesWhenApart GreedyIsEarliest GateIsDeserved GateIsFair
  CoreNeverRefuses ArmsWhatItSays SaidIsMeant RegionIsShown
  RecordWholeOrNothing RecordReadsBack EventIdsTellApart TimesAreTheInstants
CHECK_DEADLOCK FALSE
