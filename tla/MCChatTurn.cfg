SPECIFICATION FairSpec
CONSTANTS
  t1 = t1
  t2 = t2
  h1 = h1
  h2 = h2
  skill = skill
  create = create
  edit = edit
  research = research
  other = other
  NoThread = NoThread
  Turns <- TwoTurns
  Threads <- TwoThreads
  Skills <- MCSkills
  Policies <- MCPolicies
  Tools <- MCTools
  Registered <- MCRegistered
  DocumentTools <- MCDocumentTools
  Builtin <- MCSkills
  DefaultPolicy <- Ordered
  NoSkill = NoSkill
  SkillRequestLimit = 1
  MaxAttempts = 2
  MaxCalls = 3
INVARIANTS
  ToolsFollowPolicy
  CompletedIsStored
  FailedStoresNothing
  SeededOnce
PROPERTIES
  TurnsEnd
CHECK_DEADLOCK FALSE
