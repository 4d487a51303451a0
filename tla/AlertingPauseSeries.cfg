CONSTANTS
  Threshold = 2
  MailEnabled = FALSE
  MaxTime = 3
  MaxIncidents = 1
  Faults = FALSE
  MarkFaults = FALSE
  Crashes = FALSE
  Deletes = FALSE
  RetryWindow = 3
SPECIFICATION Spec
PROPERTIES SeriesAfterPause
