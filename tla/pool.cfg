SPECIFICATION Spec
CONSTANTS
  Uids = {u1}
  Models = {m1}
  PlanCooldown = 2
  SoftCooldown = 1
  ErrCooldown = 1
  ErrThreshold = 2
  ModelBlockTTL = 1
  ExpireSlack = 1
  MinPickGap = 1
  Clients = {c1, c2}
  NoUid = NoUid
  SaveOutcomes = {TRUE, FALSE}
  CreditValues = {0, 1}
  ExpireValues = {0}
  WorkCreditValues = {0, 1}
  MaxNow = 2
SYMMETRY Symmetry
VIEW Quotient
ACTION_CONSTRAINT OneFailedSave
INVARIANTS TypeOK RestartLosesNothing NoLeakedLease
PROPERTIES CooldownLiftedOnlyByCredits StopsStick
