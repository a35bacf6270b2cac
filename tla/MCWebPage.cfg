SPECIFICATION PageSpec
CONSTANTS
  ledger = ledger
  note = note
  rule = rule
  a = a
  b = b
  v1 = v1
  v2 = v2
  v3 = v3
  NoDoc = NoDoc
  NoRev = NoRev
  NoItem = NoItem
  MaxCalls = 3
  Keys <- MCKeys
  Protected <- MCProtected
  Rules <- MCRules
  Contents <- MCContents
  RevIds <- MCRevIds
SYMMETRY Symmetric
INVARIANTS
  SavesOwnText
  ShowsTheStore
PROPERTIES
  OverwrittenIsRecorded
CHECK_DEADLOCK FALSE
