SPECIFICATION FairSpec
CONSTANTS
  Threads = {t1, t2}
  Infos = {online}
  None = None
  MaxBoots = 2
  MaxCalls = 3
INVARIANTS
  CallbacksFollowService
PROPERTIES
  DeadProxyIsDropped
  CallsReturn
CHECK_DEADLOCK FALSE
