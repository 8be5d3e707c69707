SPECIFICATION Spec
CONSTANTS
  INT_LEN = 3
  POOL_CAPACITY = 2
  FIFO_LEN = 2
  WORD = 32
  Bytes = {0, 10, 49, 55, 97}
  MaxLength = 2
INVARIANTS TypeOK InBuffers PoolSound
PROPERTIES ReadsEnd ImplementsLineInput
