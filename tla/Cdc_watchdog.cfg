\* DTR goes low twice at 1200 baud before it goes back high.
SPECIFICATION CdcSpec
CONSTANTS
  Value = {0, 1}
  Key = 7
INVARIANTS
  WatchdogRestored
