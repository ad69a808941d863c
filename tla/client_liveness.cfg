SPECIFICATION LiveSpec
CONSTANTS
  call1 = call1
  call2 = call2
  go1 = go1
  notify1 = notify1
  beat1 = beat1
  beat2 = beat2
  raw1 = raw1
  rawOneway1 = rawOneway1
  Calls = {call1, beat1}
  Kind <- CallKinds
  RawSeq <- ApartSeq
  OptionSet <- ListenOptions
  Closers = {}
  ChanCap = 1
  MaxPush = 1
PROPERTIES
  ClosedCallsFinish
  CancelledCallsFinish
  InputLoopEnds
  LoopFailureReachesCallers
CHECK_DEADLOCK FALSE
