\* Bus events, configuration, modules plugged in any order, port resets.
SPECIFICATION FairSpec
CONSTANTS
  Value = {0, 1}
  Key = 7
  Module_ = {"hid", "midi", "big"}
  NumInterfaces <- SomeInterfaces
  EndpointType <- SomeEndpoints
  USB_ENDPOINTS = 7
  HeaderLen = 2
  CdcLen = 3
  ModuleLen = 2
  PacketSize = 4
  Lengths = {2, 5, 99}
  Most = 99
CONSTRAINT
  OneAtATime
INVARIANTS
  SketchRamKept
  PluggedApart
PROPERTIES
  DeclaredTrue
  SuspendStateSettles
CHECK_DEADLOCK FALSE
