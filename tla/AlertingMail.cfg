CONSTANTS
  Threshold = 1
  MailEnabled = TRUE
  MaxTime = 2
  MaxIncidents = 1
  Faults = FALSE
  MarkFaults = TRUE
  Crashes = TRUE
  Deletes = FALSE
  RetryWindow = 0
SPECIFICATION FairSpec
INVARIANTS NoDuplicate FlagMeansSent
PROPERTIES RetryOnce MailAttempted
