SPECIFICATION FairSpec
CONSTANTS
  Threads = {t1, t2}
  Versions = {v1, v2}
  None = None
INVARIANTS
  ApplyWaitIsInstalled
PROPERTY
  InstallEnds
CHECK_DEADLOCK FALSE
