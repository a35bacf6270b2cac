SPECIFICATION EditSpec
CONSTANTS
  Cells <- MCCells
  Empty = ""
  Symbol <- MCSymbol
  Dashes <- MCDashes
  OldFile = "-- a"
  NewFile = "++ b"
  Texts <- MCTexts
  Patches <- MCPatches
  Context = 1
  MaxPatch = 6
  None = None
INVARIANTS
  PatchLandsWhereDeclared
  StoredDiffReplays
  LedgerListsSymbolsOnce
CHECK_DEADLOCK FALSE
