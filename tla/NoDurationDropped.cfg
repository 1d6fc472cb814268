SPECIFICATION CSpec
CONSTANTS
  CountMax     = 3
  Ids         <- MCIds
  Ppm          = 100
  Requests    <- MCRequests
  Sizes        = {0, 1, 3, 7}
  OddIds      <- MCOddIds
  SentenceCap  = 32
  Spelling    <- MCSpelling
  WordsIn     <- MCWordsIn
  Begins      <- MCBegins
  Leading     <- MCLeading
  TimeUnits   <- MCTimeUnits
INVARIANT NoDurationDropped
CHECK_DEADLOCK FALSE
