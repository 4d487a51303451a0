CONSTANTS
  Targets = {t1, t2}
  Configs = {c1}
  Runners = {g1, g2}
  Requests = {q1, q2}
  Forms <- AllForms
  MaxParallel = 1
  ReadFaults = FALSE
  None = None
  Main = Main
SPECIFICATION Spec
SYMMETRY Symmetry
VIEW WithoutStats
INVARIANTS OneRunner NeverStale Watched
PROPERTIES NoStartWhileJoining
