\* A shift register and a handler on one port, two external interrupts.
SPECIFICATION Spec
CONSTANTS
  data = data
  clock = clock
  led = led
  Pin <- MCPin
  TimerPin = {data, clock}
  HandlerPin = led
  DataPin = data
  ClockPin = clock
  BitCount = 2
  ExtInt = {0, 1}
  MayReattach = FALSE
INVARIANTS
  PinsKept
  ShiftsRoundTrip
  RightHandler
