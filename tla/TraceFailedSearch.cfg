\* Is a query that failed at AWS reported as a failed source?
SPECIFICATION Spec
CONSTANTS
  Sources = {cloudwatch, newrelic, db}
  CloudWatch = cloudwatch
  Schedule <- Backoff
  MaxWait = 4
  Ceiling = 1
  Volume = 2
INVARIANTS FailedSearchReported
