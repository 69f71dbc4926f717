SPECIFICATION Spec
CONSTANTS
  MAX_TASKS = 3
  Domains = {0}
  Handlers = {}
  SigTargets = {}
  AsOutcomes = {TRUE}
INVARIANT KernelStacksDistinct
CHECK_DEADLOCK FALSE
