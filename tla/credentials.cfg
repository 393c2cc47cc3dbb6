SPECIFICATION SpecK
CONSTANTS
  Auths = {a1, a2, a3}
  NoAuth = NoAuth
  link = link
  json = json
  Logins = {link, json}
  Source <- TwoSources
  Workers = {w1, w2}
  NoWorker = NoWorker
  NoFile = NoFile
  MaxToken = 1
INVARIANTS RestartCanRefresh NoOrphanFile ReportedSuccessIsStored
PROPERTIES NoOverlapKills
VIEW View
SYMMETRY Interchangeable
ACTION_CONSTRAINT OneHurt
