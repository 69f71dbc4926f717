SPECIFICATION Spec
CONSTANTS
  MAX_TASKS = 2
  DOM_MAX = 2
  QUAL_N = 2
  Duties = {}
  PermSets <- SomePerms
  Regions = {"low"}
  DomShapes <- SomeShapes
  Profiles = {1}
  Policies <- SomePolicies
  Plans <- SomePlans
  PolicyTexts <- SomeTexts
  Confs = {50}
  MaxPending = 1
VIEW WithoutTrail
INVARIANT TypeOK
PROPERTY EffectsAuthorized
PROPERTY AuditHonest
