SPECIFICATION SpecP
CONSTANTS
  Days = {1, 2, 3, 4}
  jan = jan
  feb = feb
  Months = {jan, feb}
  Month <- TwoMonths
  Retention = 1
  Faults = {"scan"}
  MaxFaults = 1
  MaxRecords = 2
  Dates = {3}
  Spans = {1}
  Limits = {1}
INVARIANT NothingLost
