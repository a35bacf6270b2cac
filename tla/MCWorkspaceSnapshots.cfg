SPECIFICATION SnapshotsSpec
CONSTANTS
  r1 = r1
  r2 = r2
  r3 = r3
  e1 = e1
  e2 = e2
  NoRequest = NoRequest
  NoRow = NoRow
  Requests <- SomeRequests
  Rows <- SomeRows
  Fresh <- MCFresh
  Earlier <- MCEarlier
  Protected <- MCProtected
  DefaultSkills <- MCDefaultSkills
  Stripped <- MCStripped
  Suffixed <- MCSuffixed
  MaxWork = 5
INVARIANTS
  CirclesAreOfDocuments
PROPERTIES
  RestoreIsComplete
  SnapshotIsWorkspace
SYMMETRY Symmetric
CHECK_DEADLOCK FALSE
