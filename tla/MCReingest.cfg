SPECIFICATION Spec
CONSTANTS
  d1 = d1  d2 = d2  v1 = v1  s1 = s1  me = me
  Clients = {me}
  Me = me
  Paths <- MCPaths
  Docs = {d1, d2}
  Versions = {v1}
  Statuses = {s1}
  SplitLen <- MCSplitLen
  MaxId = 2
  NoNote = NoNote
  Trees <- MCTrees
  Plans <- MCPlans
  Edits <- MCEdits
  Headers <- MCHeaders
  MaxEdits = 1
  Absent = Absent
  Unreadable = Unreadable
  Nothing = Nothing
CHECK_DEADLOCK FALSE
INVARIANTS
  TypeOK
  ReportedIsStored
  SummaryIsComplete
  ExcludedStayOut
  PatienceIsBounded
PROPERTY
  EveryRunEnds
