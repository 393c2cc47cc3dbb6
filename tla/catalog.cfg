SPECIFICATION SpecM
CONSTANTS
  Accounts = {1, 2}
  m1 = m1
  m2 = m2
  m3 = m3
  m4 = m4
  Models = {m1, m2, m3, m4}
  StaticModels = {m1}
  DefaultModel = m1
  WorkModels = {}
  Plain <- SomePlain
  FunctionSupportsMaxTier = TRUE
  Tables <- SomeTables
  c1 = c1
  c2 = c2
  g1 = g1
  Clients = {c1, c2}
  Slots = {g1}
  Asks <- SomeAsks
  MaxTierMode = "auto"
  TTL = 2
  FetchFailCooldown = 1
  MaxNow = 2
INVARIANTS SingleFlight ListIsIntersection ListedIsServable ListedTierIsServed
PROPERTIES RoundsSpaced
SYMMETRY Interchangeable
