CONSTANTS
  Keys = {k1}
  Entries = {e1, e2}
  Readers = {r1, r2}
  Admins = {a1}
  TTL = 1
  MaxTime = 2
  MaxVersion = 2
  None = None
SPECIFICATION FairSpec
INVARIANTS FreshAfterClear PageIsRecent
PROPERTIES RequestEnds
