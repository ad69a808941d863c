SPECIFICATION LiveSpec
CONSTANTS
  conn1 = conn1
  conn2 = conn2
  call1 = call1
  call2 = call2
  notify1 = notify1
  beat1 = beat1
  handler1 = handler1
  Conns = {conn1}
  Requests = {call1, handler1}
  ConnOf <- Arrival
  Kind <- RequestKinds
  PoolSize = 1
  PoolCap = 1
  OptionSet <- LiveOptions
INVARIANTS
  AnsweredOnce
  LateConnsTurnedAway
PROPERTIES
  ShutdownCompletes
  ConnsReleased
  HandlersFinish
CHECK_DEADLOCK FALSE
