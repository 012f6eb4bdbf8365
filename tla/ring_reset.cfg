SPECIFICATION Spec
CONSTANTS
  RXBUF_SIZE = 4
  MaxPacketSize = 2
  Window = 3
  a = a
  b = b
  none = none
  Byte <- MCByte
  Zero = a
  NoByte = none
INVARIANT ResetOnDisconnect
