\* The query of a tool call or of a trace; calls to AWS may fail at any point.
SPECIFICATION FairSpec
CONSTANTS
  Schedule <- Backoff
  MaxWait = 6
  Ceiling = 2
  Volume = 4
INVARIANTS TypeOK NothingLeftRunning RowsWithinCeiling PollsWholeBudget
PROPERTIES ThreadEnds CancelStopsQuery
