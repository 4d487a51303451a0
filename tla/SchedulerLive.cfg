CONSTANTS
  Targets = {t1, t2}
  Configs = {c1}
  Runners = {g1, g2}
  Requests = {q1, q2}
  Forms <- RemoveOne
  MaxParallel = 1
  ReadFaults = TRUE
  None = None
  Main = Main
SPECIFICATION FairSpec
VIEW WithoutStats
PROPERTIES RunnerChecks ShutdownTerminates ReloadReturns
