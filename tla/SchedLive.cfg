SPECIFICATION FairSpec
CONSTANTS
  MAX_TASKS = 2
  Domains = {0}
  Handlers = {1}
  SigTargets = {1}
  AsOutcomes = {TRUE, FALSE}
INVARIANT CpuCoherence
PROPERTY SignalDelivered
PROPERTY NoStarvation
CONSTRAINT Unbroken
CHECK_DEADLOCK FALSE
