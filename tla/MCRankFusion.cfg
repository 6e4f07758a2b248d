SPECIFICATION Spec
CONSTANTS
  me = me  other = other
  NaN = NaN
  Ids = {1, 2, 3, 4}
  Searches <- MCSearches
CHECK_DEADLOCK FALSE
INVARIANTS
  TypeOK
  OwnPassagesOnly
  FavouredFirst
  OneArmKeepsItsOrder
  FillsToTopK
