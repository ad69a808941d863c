SPECIFICATION FanSpec
CONSTANTS
  call1 = call1
  call2 = call2
  call3 = call3
  fan1 = fan1
  client1 = client1
  client2 = client2
  srv1 = srv1
  srv2 = srv2
  Ops = {call1, call2, call3}
  Fans = {fan1}
  XClients = {client1, client2}
  Servers = {srv1, srv2}
  Builder = Builder
  NoServer = NoServer
  XOf <- XClientOf
  XOfFan <- XClientOfFan
  OptionSet <- OnlyBroadcast
  FanKind <- FanKinds1
  Retries = 1
  Threshold = 1
  MaxDials = 3
INVARIANTS
  BroadcastNeedsAll
CHECK_DEADLOCK FALSE
