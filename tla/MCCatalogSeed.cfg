SPECIFICATION FairSpec
CONSTANTS
  q1 = q1
  q2 = q2
  q3 = q3
  Requests <- TwoRequests
  Symbols <- MCSymbols
  Markets <- MCMarkets
  Target = 2
  MinCap = 2
  Endpoints = 2
  MaxRetries = 2
  MaxCrashes = 1
INVARIANT SingleRun
PROPERTIES
  JoinsNoStaleRun
  CatalogIsOneSelection
  RunsEnd
CHECK_DEADLOCK FALSE
