SPECIFICATION Spec
CONSTANTS
  RXBUF_SIZE = 3
  MaxPacketSize = 2
  Window = 7
  a = a
  b = b
  none = none
  Byte <- MCByte
  Zero = a
  NoByte = none
INVARIANT TypeOK
INVARIANT RingHoldsNewest
