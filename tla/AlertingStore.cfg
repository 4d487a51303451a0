CONSTANTS
  Threshold = 2
  MailEnabled = FALSE
  MaxTime = 3
  MaxIncidents = 2
  Faults = TRUE
  MarkFaults = FALSE
  Crashes = TRUE
  Deletes = TRUE
  RetryWindow = 3
SPECIFICATION Spec
VIEW SameFuture
INVARIANTS MemoryMatches PausedIsQuiet
PROPERTIES OpensAtThreshold KeepsLog
