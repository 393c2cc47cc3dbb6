SPECIFICATION SpecP
CONSTANTS
  Days = {1, 2, 3, 4, 5}
  jan = jan
  feb = feb
  Months = {jan, feb}
  Month <- TwoMonths
  Retention = 1
  Faults = {"load", "write", "remove", "read", "crash"}
  MaxFaults = 2
  MaxRecords = 1
  Dates = {4}
  Spans = {3}
  Limits = {2}
INVARIANTS NothingLost MonthlyExact RingShowsNewest PanelShowsRecent
PROPERTIES KeepsRecent OldDaysArchived LogSpec
