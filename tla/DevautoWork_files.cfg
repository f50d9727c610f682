SPECIFICATION Spec
CONSTANTS
  code = code  auth = auth  env = env
  Paths = {code, auth, env}
  Forbidden = {env}
  HighRisk = {auth}
  Ignored = {}
  Entries <- SomeEntries
  MaxEntries = 2
  GateWrites = {code, auth}
  AutoMode = TRUE
  PlanReviewer = TRUE
  Reviewers = {1, 2}
  Configs <- LocalOrPush
  MaxInner = 1
  MaxOuter = 1
  MaxMoves = 1
  MaxRejections = 1
INVARIANTS TypeOK PublishedWasChecked PublishedAsAgreed
CHECK_DEADLOCK FALSE
