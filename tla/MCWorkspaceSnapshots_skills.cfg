SPECIFICATION SnapshotsSpec
CONSTANTS
  r1 = r1
  r2 = r2
  r3 = r3
  e1 = e1
  e2 = e2
  NoRequest = NoRequest
  NoRow = NoRow
  Requests <- TwoRequests
  Rows <- OtherRows
  Fresh <- OtherFresh
  Earlier <- NoneEarlier
  Protected <- MCProtected
  DefaultSkills <- MCDefaultSkills
  Stripped <- MCStripped
  Suffixed <- MCSuffixed
  MaxWork = 4
INVARIANT RestoreWorks
CHECK_DEADLOCK FALSE
