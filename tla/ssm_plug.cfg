SPECIFICATION PlugSpec
CONSTANTS
  TxLimit = 4
  CmdLen <- MCCmdLen
  ResponseLens = {60, 175}
  PacketSize = 64
  LengthRange = 256
  BufferSize = 500
  RxLimit = 1024
  RingCapacity = 2047
  MaxBacklog = 0
  MaxTimeouts = 2
INVARIANT InStep
INVARIANT AnswersOwnCommand
INVARIANT NothingLeftOver
PROPERTY Returns
PROPERTY TalkSpec
