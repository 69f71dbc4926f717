SPECIFICATION Spec
CONSTANTS
  MAX_TASKS = 1
  DOM_MAX = 2
  QUAL_N = 3
  Duties = {3}
  PermSets = {{4}}
  Regions = {"low"}
  DomShapes <- SomeShapes
  Profiles = {}
  Policies <- TauPolicies
  Plans <- TauPlans
  PolicyTexts <- TauTexts
  Confs = {50}
  MaxPending = 0
VIEW WithoutTrail
INVARIANT LedgerCounts
INVARIANT TauOrderedOnceSet
PROPERTY LowQualityShrinks
