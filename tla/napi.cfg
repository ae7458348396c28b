SPECIFICATION LiveSpec
CONSTANTS
  Used = {"checkNewVersion", "download", "upgrade", "getTaskInfo", "cancel"}
  Handlers = {"h1"}
  MaxSessions = 2
  MaxAge = 1
  MaxEvents = 1
INVARIANTS
  OwnArguments
  HeardOnce
PROPERTIES
  AnswerIsFresh
  ImplementsAsyncCalls
  EveryCallIsAnswered
