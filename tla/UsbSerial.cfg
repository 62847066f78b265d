\* The data path of the USB serial port; end points of two bytes, two waits.
SPECIFICATION FairSpec
CONSTANTS
  Message <- SomeMessages
  Longest = 3
  RxByte <- TwoBytes
  EpSize = 2
  Timeout = 2
  HostZlp = FALSE
CONSTRAINT
  OneWay
INVARIANTS
  BanksTrue
PROPERTIES
  WritesArrive
  ReadsInOrder
  CallsReturn
CHECK_DEADLOCK FALSE
