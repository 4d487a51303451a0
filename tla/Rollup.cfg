CONSTANTS
  HourLen = 2
  Retention = 6
  Keep = 7
  Day = 3
  Span = 4
  Group = 2
  step = 2
  Latencies = {1, 4}
  Late = 1
  MaxMissed = 1
  MaxTime = 9
  MaxChecks = 2
  None = None
SPECIFICATION Spec
INVARIANTS HourlyExact ShownIsTrue ChartIsExact
