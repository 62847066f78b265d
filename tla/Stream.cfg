SPECIFICATION LiveSpec
CONSTRAINT Bounded
CONSTANTS
  Comma = Comma
  Minus = Minus
  Dot = Dot
  None = None
  Char <- MCChar
  Space = {Comma}
  High = {}
  Base = 2
  LongMax = 3
  ULong = 4
  Timeout = 1
  MaxLag = 1
  MaxChars = 4
  Calls <- MCCalls
INVARIANTS PrintedTrue FindsFirst ReadsExactly ParsesNumber
PROPERTIES GivesUpInTime CallsReturn
CHECK_DEADLOCK FALSE
