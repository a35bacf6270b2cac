SPECIFICATION Spec
CONSTANTS
  w1 = w1
  w2 = w2
  Workflows <- MCWorkflows
  Feed <- MCFeed
  Absent = Absent
  TTL = 1
  PollInterval = 1
  MaxWait = 3
  Latency = 1
  MaxTime = 5
  Answers <- MCAnswers
  Advices <- MCAdvices
  Unit = 10
  DiscountRates <- MCDiscountRates
  TerminalRates <- MCTerminalRates
  Years = 2
  Low <- MCLow
  High = 12
  Grain = 3
  MaxIterations = 5
  Precision = 40
  Least = 1
  Inputs <- MCInputs
  NoGrowth = NoGrowth
SYMMETRY Symmetric
INVARIANTS
  SolverFindsRoot
  ResearchEndsInTime
  OnlyValuedIsCached
  AdviceMatchesValuation
PROPERTIES
  ReadsAreRecent
CHECK_DEADLOCK FALSE
CONSTRAINT LateTicksAreOfResearch
