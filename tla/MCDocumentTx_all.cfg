SPECIFICATION FairSpec
CONSTANTS
  ledger = ledger
  note = note
  a = a
  b = b
  r1 = r1
  r2 = r2
  r3 = r3
  NoDoc = NoDoc
  NoRev = NoRev
  None = None
  Opening = Opening
  Keys <- MCKeys
  Protected <- MCProtected
  Contents <- MCContents
  Requests <- ThreeRequests
  Kinds <- AllKinds
INVARIANTS
  LinksStayInDocument
  TextIsRecorded
  FailureLeavesNothing
PROPERTIES
  RequestsEnd
