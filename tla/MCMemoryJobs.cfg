SPECIFICATION FairSpec
CONSTANTS
  t1 = t1
  t2 = t2
  name = name
  style = style
  v = v
  w = w
  NoTurn = NoTurn
  Turns <- TwoTurns
  Keys <- MCKeys
  Values <- MCValues
  Suggestions <- Conflicting
  Typed <- MCTyped
  Renames <- NoRenames
  r1 = r1
  Restores <- OneRestore
  TopK = 2
  MaxRetries = 1
  MaxCrashes = 1
CONSTRAINT OneDisturbance
INVARIANTS
  JobsAccounted
  OneRowPerKey
  FailedJobLeavesNothing
PROPERTIES
  OlderFactsOnlyByRetry
  SummaryHasNewFacts
  JobsSettle
CHECK_DEADLOCK FALSE
