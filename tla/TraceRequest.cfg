\* Sources may never answer, calls to AWS may fail, the client may go away.
SPECIFICATION FairSpec
CONSTANTS
  Sources = {cloudwatch, newrelic, db}
  CloudWatch = cloudwatch
  Schedule <- Backoff
  MaxWait = 4
  Ceiling = 1
  Volume = 2
INVARIANTS TypeOK ThreadTold
PROPERTIES ThreadIsInsightsQuery RefinesContract AlwaysReplies NoQueryOutlivesTrace
