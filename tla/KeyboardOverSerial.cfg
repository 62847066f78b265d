\* Every kind of character, rings smaller than a report.
SPECIFICATION FairSketchSpec
CONSTANTS
  Char <- SomeChars
  RxCap = 2
  TxCap = 5
  MaxChars = 3
INVARIANTS
  PrintableRelayed
PROPERTIES
  TypedRight
  AllTyped
CHECK_DEADLOCK FALSE
