SPECIFICATION FairSpec
CONSTANTS
  a1 = a1
  a2 = a2
  l1 = l1
  app = app
  local = local
  NoInfo = NoInfo
  NoClient = NoClient
  Clients = {a1, a2, l1}
  Infos = {app, local}
  LocalInfos = {local}
  InfoOf <- SharedInfo
  MaxThreads = 2
  MaxStrays = 1
INVARIANTS
  RegisteredIsWatched
  RegistrationLasts
  IdleFlagIsTrue
  SentToTheUsable
PROPERTIES
  DeadAreForgotten
