SPECIFICATION ServiceSpec
CONSTANTS
  w1 = w1  w2 = w2  w3 = w3
  k1 = k1  k2 = k2
  Workers = {w1, w2, w3}
  Senders = {w1, w2, w3}
  Conns = {k1, k2}
  EmbeddingDimension = 2
  MaxBytes = 3
  NoConn = NoConn
  NoAnswer = NoAnswer
  Scenarios <- MCScenarios
CHECK_DEADLOCK FALSE
INVARIANT
  UnderflowPassesValidation
