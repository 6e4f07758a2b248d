SPECIFICATION FairSpec
CONSTANTS
  c1 = c1  c2 = c2  p1 = p1  d1 = d1  d2 = d2  v1 = v1  v2 = v2  s1 = s1  s2 = s2
  w1 = w1  w2 = w2  w3 = w3
  Workers = {w1, w2, w3}
  Clients = {c1}
  Paths = {p1}
  Docs = {d1, d2}
  Versions = {v1}
  Statuses = {s1}
  SplitLen <- MCSplitLen
  MaxId = 2
  NoNote = NoNote
  Ingests <- FewIngests
  Lookups <- FewLookups
  MaxRequests = 4
  EmbedBatchSize = 2
  Free = Free
  NoKey = NoKey
  NoRequest = NoRequest
  NoAnswer = NoAnswer
PROPERTY
  OneCountHolds
