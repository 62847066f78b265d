\* The clock, delay() and the measurement of a pulse; micros() wraps.
SPECIFICATION PulseSpec
CONSTRAINT FewPulses
CONSTANTS
  TimerSize = 4
  Ratio = 2
  Milli = 6
  FractUnit = 2
  ByteSize = 4
  ULong = 64
  MaxLag = 2
  MaxLatency = 2
  MaxNow = 37
  Delays = {1, 2}
  Cycles = 2
  LoopCycles = 4
  Timeouts = {6}
  MaxEdges = 2
  PulseAt = {29}
INVARIANT ShortDelayTrue
PROPERTIES
  MicrosFresh
  MillisTrue
  DelayLongEnough
  PulseTrue
  CallsReturn
CHECK_DEADLOCK FALSE
