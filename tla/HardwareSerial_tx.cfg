\* Transmission: ring, handler, USART and the sketch, interrupts on or off.
SPECIFICATION FairSpec
CONSTANTS
  t1 = t1  t2 = t2  r1 = r1  r2 = r2
  TxByte <- TwoTx
  RxByte <- Nothing
  None = None
  BadParity = BadParity
  TxBufSize = 3
  RxBufSize = 2
  MayDisable = TRUE
  MayRebegin = FALSE
INVARIANTS
  ToldTrue
PROPERTIES
  ImplementsChannel
  CallsReturn
  QueueMoves
