CONSTANTS
  Procs = {p1, p2}
  Newest = 2
  Nothing = Nothing
SPECIFICATION FairSpec
INVARIANTS SchemaIsWhole RunsOnce
PROPERTIES BootstrapKeepsAdmin StartEnds
