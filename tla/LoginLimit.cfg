CONSTANTS
  IPs = {a1, a2}
  Logins = {l1, l2}
  Window = 3
  PerIP = 2
  Global = 3
  MaxIPs = 1
  Slots = 1
  Delay = 1
  MaxTime = 5
  MaxRight = 1
  None = None
SPECIFICATION Spec
SYMMETRY Symmetry
INVARIANTS PerIPLimit SlotsExact
PROPERTIES LetThroughIsCounted GlobalLimit
