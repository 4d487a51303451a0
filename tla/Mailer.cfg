CONSTANTS
  Senders = {s1, s2}
  Kinds = {"alert", "test"}
  Limit <- Limits
  Hour = 3
  Delay = 1
  To = 2
  MaxTime = 4
  None = None
SPECIFICATION FairSpec
INVARIANTS HourlyLimit AllOrNobody
PROPERTIES RefusedOnlyWhenFull SendEnds
