\* Is the query of a trace stopped when a call to AWS fails?
SPECIFICATION Spec
CONSTANTS
  Schedule <- Backoff
  MaxWait = 6
  Ceiling = 2
  Volume = 4
INVARIANTS TraceQueryStopped
