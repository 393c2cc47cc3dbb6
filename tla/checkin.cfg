SPECIFICATION SpecI
CONSTANTS
  DayLength = 4
  RefreshHours = {1}
  CheckinHour = 3
  RoundHours = 1
  Accounts = 1
  MaxHour = 12
  MaxGen = 2
INVARIANTS RoundOnceADay SecondTryIsFresh LeftOutOnlyIfClaimed
CHECK_DEADLOCK FALSE
VIEW View
