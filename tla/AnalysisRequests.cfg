SPECIFICATION FairSpec
CONSTANTS
  q1 = q1
  q2 = q2
  q3 = q3
  Requests = {q1, q2, q3}
  Oversized = {q3}
  Denied = {q1}
  Facts = {f1, f2}
  Unlinked = Unlinked
  RelayBatch = 1
  StuckAttempts = 1
  MaxTroubles = 1
INVARIANT UnhealthyMeansStuck
PROPERTIES ImplementsExchange RequestsReachBroker AnswersSettle RefusalIsReported
CHECK_DEADLOCK FALSE
