CONSTANTS
  Addrs <- MCAddrs
  SelfAnswer <- MCSelfAnswer
  Proxies = {"listed", "other"}
  PrivateAllow = {"listed"}
  Statuses <- MCStatuses
  Numbers <- MCNumbers
  Codes = {200, 302, 401}
  MaxAnswers = 2
SPECIFICATION FairSpec
INVARIANTS OnlyAllowedReached ResultMatches
PROPERTY CheckEnds
