SPECIFICATION SpecC
CONSTANTS
  Uids = {1, 2}
  Models = {m1}
  m1 = m1
  s1 = s1
  PlanCooldown = 2
  SoftCooldown = 1
  ErrCooldown = 1
  ErrThreshold = 1
  ModelBlockTTL = 1
  ExpireSlack = 1
  MinPickGap = 1
  Clients = {c1}
  NoUid = 0
  SaveOutcomes = {TRUE}
  CreditValues = {}
  ExpireValues = {2}
  WorkCreditValues = {0, 1}
  MaxNow = 1
  MaxRotate = 2
  WorkEnabled = TRUE
  Sessions = {s1}
  NoSession = NoSession
  NoModel = NoModel
  Requests <- WorkKinds
  Answers = {"plan", "dead", "other", "ok"}
ACTION_CONSTRAINT OneProbe
PROPERTIES EveryRequestEnds
