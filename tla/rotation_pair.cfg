SPECIFICATION SpecC
CONSTANTS
  Uids = {1, 2}
  Models = {m1}
  m1 = m1
  s1 = s1
  PlanCooldown = 2
  SoftCooldown = 1
  ErrCooldown = 2
  ErrThreshold = 2
  ModelBlockTTL = 1
  ExpireSlack = 1
  MinPickGap = 1
  Clients = {c1, c2}
  NoUid = 0
  SaveOutcomes = {TRUE}
  CreditValues = {}
  ExpireValues = {0}
  WorkCreditValues = {0, 1}
  MaxNow = 2
  MaxRotate = 2
  WorkEnabled = FALSE
  Sessions = {s1}
  NoSession = NoSession
  NoModel = NoModel
  Requests <- PairKinds
  Answers = {"soft", "refresh_fails", "ok"}
ACTION_CONSTRAINT SwitchOnly
PROPERTIES PoolSpec
