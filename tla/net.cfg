SPECIFICATION FairSpec
CONSTANTS
  Callers = {c1, c2}
  None = None
  RetryMax = 3
INVARIANTS
  FlagFollowsNetwork
  NetFailureIsExplained
PROPERTY
  LossStopsDownload
