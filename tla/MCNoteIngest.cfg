SPECIFICATION Spec
CONSTANTS
  c1 = c1  c2 = c2  p1 = p1  d1 = d1  d2 = d2  v1 = v1  v2 = v2  s1 = s1  s2 = s2
  w1 = w1  w2 = w2  w3 = w3
  Workers = {w1, w2, w3}
  Clients = {c1, c2}
  Paths = {p1}
  Docs = {d1, d2}
  Versions = {v1, v2}
  Statuses = {s1}
  SplitLen <- MCSplitLen
  MaxId = 3
  NoNote = NoNote
  Ingests <- MCIngests
  Lookups <- MCLookups
  MaxRequests = 4
  EmbedBatchSize = 1
  Free = Free
  NoKey = NoKey
  NoRequest = NoRequest
  NoAnswer = NoAnswer
SYMMETRY Symmetric
INVARIANTS
  TypeOK
  NotesComplete
  NoOrphans
  WritersSerialised
  SkipDecisionHolds
  RedundantOnlyAfterRace
  NoResurrection
  AnswersStayInTenant
PROPERTIES
  WritesStayInTenant
  ImplementsNoteStore
