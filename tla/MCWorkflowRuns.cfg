SPECIFICATION FairSpec
CONSTANTS
  w1 = w1
  w2 = w2
  Workflows <- TwoWorkflows
  Analysed <- Maybe
  NoRow = NoRow
  Nobody = Nobody
  NumSteps = 2
  MaxBeats = 1
  MaxTroubles = 1
INVARIANTS
  EventsNumbered
  RowAgreesWithTrail
  CompletedAfterAllNodes
  CompletedRefreshesSnapshot
PROPERTIES
  TerminalIsFinal
  WorkflowsEnd
CHECK_DEADLOCK FALSE
