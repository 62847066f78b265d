\* Two objects, one of them without a pin change interrupt; the ring wraps.
SPECIFICATION Spec
CONSTANTS
  p1 = p1  p2 = p2  b1 = b1  b2 = b2
  Port <- TwoPorts
  PcintPort <- OnePort
  Byte <- TwoBytes
  None = None
  Late = Late
  MaxRxBuff = 3
INVARIANTS
  NoSilentDrop
  BytesTold
PROPERTIES
  FrameKept
  ImplementsQueue
