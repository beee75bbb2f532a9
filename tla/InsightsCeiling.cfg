\* Is the ceiling reported when the query ends just before StopQuery?
SPECIFICATION Spec
CONSTANTS
  Schedule <- Backoff
  MaxWait = 6
  Ceiling = 2
  Volume = 4
INVARIANTS ReportsOverCeiling
