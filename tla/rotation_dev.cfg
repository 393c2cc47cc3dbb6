SPECIFICATION SpecC
CONSTANTS
  Uids = {1, 2}
  Models = {m1}
  m1 = m1
  s1 = s1
  PlanCooldown = 2
  SoftCooldown = 1
  ErrCooldown = 1
  ErrThreshold = 2
  ModelBlockTTL = 1
  ExpireSlack = 1
  MinPickGap = 1
  Clients = {c1}
  NoUid = 0
  SaveOutcomes = {TRUE}
  CreditValues = {1}
  ExpireValues = {2}
  WorkCreditValues = {0, 1}
  MaxNow = 1
  MaxRotate = 2
  WorkEnabled = FALSE
  Sessions = {s1}
  NoSession = NoSession
  NoModel = NoModel
  Requests <- DevKinds
  Answers = {"busy", "plan", "client", "other", "ok"}
ACTION_CONSTRAINT DevCatalog
INVARIANTS TypeOKC LeaseExact
PROPERTIES EveryRequestEnds PressureFirst
