\* Two objects share the ring: one takes listening over from the other.
SPECIFICATION FairSpec
CONSTANTS
  p1 = p1  p2 = p2  b1 = b1  b2 = b2
  Port <- TwoPorts
  PcintPort <- TwoPorts
  Byte <- OneByte
  None = None
  Late = Late
  MaxRxBuff = 2
INVARIANTS
  PinInterruptRight
PROPERTIES
  InterruptServed
