SPECIFICATION Spec
CONSTANTS
  MAX_VECTOR_SIZE = 3
  Word = 1073741824
  LongStrings <- MCLongStrings
  Text <- MCText
  Callers <- MCCallers
  Calls <- MCCalls
  Worlds <- MCWorlds
  ManagerErrors <- MCManagerErrors
  TransportErrors <- MCTransportErrors
  Pushed <- MCPushed
  MaxCalls = 2
INVARIANTS
  RequestIntact
  AnswerShowsTheService
  OutcomeIsTrue
  PushIntact
CHECK_DEADLOCK FALSE
