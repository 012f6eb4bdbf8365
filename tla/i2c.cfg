SPECIFICATION Spec
CONSTANTS FifoSize = 4  MaxLen = 3
INVARIANT TypeOK
INVARIANT NeverRefused
INVARIANT BusInOrder
INVARIANT FifosFit
PROPERTY BusSpec
CHECK_DEADLOCK FALSE
