SPECIFICATION WireSpec
CONSTANTS
  call1 = call1
  call2 = call2
  Half = 16
  Word = 2048
  Word32 = 256
  MinBuf = 16
  MaxBuf = 32
  MaxKeep = 24
  NoRetcode <- NoCode
  ErrorMeta <- ErrorPair
  Jobs <- Scripts
INVARIANTS
  MessagesArrive
  ArgsConverted
  RepliesArrive
CHECK_DEADLOCK FALSE
