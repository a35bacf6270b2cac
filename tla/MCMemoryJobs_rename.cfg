SPECIFICATION Spec
CONSTANTS
  t1 = t1
  t2 = t2
  name = name
  style = style
  v = v
  w = w
  NoTurn = NoTurn
  Turns <- TwoTurns
  Keys <- MCKeys
  Values <- MCValues
  Suggestions <- TwoFacts
  Typed <- MCTyped
  Renames <- MCKeys
  r1 = r1
  Restores <- NoRestores
  TopK = 2
  MaxRetries = 0
  MaxCrashes = 0
INVARIANT OneRowPerKey
CHECK_DEADLOCK FALSE
