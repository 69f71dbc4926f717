SPECIFICATION Spec
CONSTANTS
  MAX_TASKS = 3
  Domains = {0}
  Handlers = {}
  SigTargets = {}
  AsOutcomes = {TRUE}
INVARIANT TypeOK
INVARIANT TableShape
INVARIANT ContextIntegrity
INVARIANT IsolatedNotRunning
PROPERTY NoZombieAfterTick
PROPERTY TickApproachesWaiter
PROPERTY ImplementsRoundRobin
CONSTRAINT Unbroken
CHECK_DEADLOCK FALSE
