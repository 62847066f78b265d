\* Reception: the receive handler against read, peek, available and end.
SPECIFICATION Spec
CONSTANTS
  t1 = t1  t2 = t2  r1 = r1  r2 = r2
  TxByte <- Nothing
  RxByte <- TwoRx
  None = None
  BadParity = BadParity
  TxBufSize = 2
  RxBufSize = 3
  MayDisable = FALSE
  MayRebegin = FALSE
INVARIANTS
  ReceivedTrue
PROPERTIES
  ImplementsQueue
