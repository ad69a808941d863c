SPECIFICATION Spec
CONSTANTS
  call1 = call1
  call2 = call2
  go1 = go1
  notify1 = notify1
  beat1 = beat1
  beat2 = beat2
  raw1 = raw1
  rawOneway1 = rawOneway1
  Calls = {call1, notify1, rawOneway1}
  Kind <- CallKinds
  RawSeq <- ApartSeq
  OptionSet <- QuietOptions
  Closers = {k1}
  ChanCap = 1
  MaxPush = 1
INVARIANTS
  NoCallerStranded
PROPERTIES
  RefinesSession
CHECK_DEADLOCK FALSE
