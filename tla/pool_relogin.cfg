SPECIFICATION SpecR
CONSTANTS
  Uids = {u1, u2}
  Models = {}
  PlanCooldown = 2
  SoftCooldown = 1
  ErrCooldown = 1
  ErrThreshold = 2
  ModelBlockTTL = 1
  ExpireSlack = 1
  MinPickGap = 1
  Clients = {}
  NoUid = NoUid
  SaveOutcomes = {TRUE}
  CreditValues = {0}
  ExpireValues = {0}
  WorkCreditValues = {0}
  MaxNow = 1
INVARIANT DisabledOnlyWhileDead
