CONSTANTS
  Tokens = {t1}
  Devices = {d1, d2}
  Earlier = {d1}
  Requests = {q1, q2}
  Idle = 3
  MaxAge = 6
  DeviceMax = 7
  TouchGap = 2
  Delay = 1
  MaxTime = 8
  None = None
SYMMETRY Symmetry
SPECIFICATION Spec
INVARIANTS SessionsEnd
PROPERTIES EndedForGood StaysWhileUsed DeviceStaysKnown
