\* A second has two milliseconds, a millisecond two ticks.
SPECIFICATION Spec
CONSTANTS
  None = None
  Garbled = Garbled
  Logs <- UpToThree
  Milli = 2
  Second = 4
  Now = 11
  Starts <- AskedStarts
  Ends <- AskedEnds
  Limits = {0, 9}
  CwDefault = 4
  CwMax = 12
  NrDefault = 8
  NrMax = 8
  MaxEvents = 2
  MaxBytes = 4
  NrRows = 2
  DbRows = 2
  DbBytes = 4
  Targets = {1, 2}
  Typed = {2}
INVARIANTS WindowFirst NothingVanishes SourcesAcceptWindow
