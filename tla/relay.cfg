SPECIFICATION SpecR
CONSTANTS
  Events <- SomeEvents
  MaxEvents = 3
  Items <- SomeItems
  MaxItems = 3
INVARIANTS StreamAgrees AccountingAgrees OnlyErrorsMeetPings EveryTextArrives WorkAgrees BodiesClosed
PROPERTIES PingsEnd
CHECK_DEADLOCK FALSE
