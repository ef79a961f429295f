CONSTANTS
  MAX_RESOURCES = 15
  WBITS = 4
  Copy = {c1, c2}
SPECIFICATION Spec
INVARIANTS TypeOK IdsUnique
PROPERTIES NoImmediateReuse OnlyStrayIdsStop
CHECK_DEADLOCK FALSE
