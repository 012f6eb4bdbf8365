SPECIFICATION Spec
CONSTANTS
  TxLimit = 7
  CmdLen <- MCCmdLen
  ResponseLens = {176, 1030}
  PacketSize = 64
  LengthRange = 256
  BufferSize = 500
  RxLimit = 1024
  RingCapacity = 2047
  MaxBacklog = 2
  MaxTimeouts = 2
INVARIANT TypeOK
INVARIANT LateStaysLate
INVARIANT LagGrows
INVARIANT SentIsTaken
CHECK_DEADLOCK FALSE
