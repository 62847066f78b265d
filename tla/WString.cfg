SPECIFICATION StringSpec
CONSTANTS
  a = a
  b = b
  Blank = Blank
  Obj = {o1, o2}
  StringChar = {a, Blank}
  Literals <- Words
  Sizes = {0, 1, 3}
  MaxLen = 3
  MayKeep = FALSE
  MaySelf = FALSE
  MayRepeat = FALSE
INVARIANTS TextKept
PROPERTY DoesWhatItSays
CHECK_DEADLOCK FALSE
