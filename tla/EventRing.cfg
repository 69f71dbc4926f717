SPECIFICATION Spec
CONSTANTS
  EV_N = 3
  Kinds = {1, 5}
  Masks = {{0}, {0, 4}}
  Critical = {4}
  MaxRoom = 2
  MaxPushes = 6
INVARIANT TypeOK
INVARIANT RingHoldsLog
INVARIANT DeltaExact
PROPERTY ImplementsEventLog
CHECK_DEADLOCK FALSE
