SPECIFICATION Spec
CONSTANTS
  AccumulateInterval = 3
  Interval = 3
  MaxTime = 14
  MaxShares = 4
INVARIANTS
  StatsTypeOK
  CountsAreExact
  ReportWindow
  RateIsBounded
CHECK_DEADLOCK FALSE
