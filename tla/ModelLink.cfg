SPECIFICATION Spec
CONSTANTS
  ATTEMPTS = 1
  BOX_TTL = 1
  TTL = 0
  MaxBlocks = 2
  MaxAi = 3
  MaxBox = 2
  MaxLost = 1
INVARIANTS TypeOK LedgerComplete
PROPERTIES AdviceIsOwn StaleAdviceRefused ProductIsOwn CallEnds
CHECK_DEADLOCK FALSE
