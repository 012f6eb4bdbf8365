SPECIFICATION PlugSpec
CONSTANTS
  TxLimit = 3
  CmdLen <- MCCmdLen
  ResponseLens = {60}
  PacketSize = 64
  LengthRange = 256
  BufferSize = 500
  RxLimit = 1024
  RingCapacity = 2047
  MaxBacklog = 3
  MaxTimeouts = 2
PROPERTY KeepsProviding
