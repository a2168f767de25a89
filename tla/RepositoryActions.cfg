SPECIFICATION ActionsSpec
CONSTANTS
  r1 = r1
  l1 = l1
  k1 = k1
  k2 = k2
  Repos = {r1}
  Lists = {l1}
  Requests <- StarRequests
  InitialLists <- NoLists
  Workers = {w1, w2}
  Actions <- AllModes
  MaxAttempts = 4
  MaxEdits = 0
  MaxSyncs = 1
  MaxStops = 1
  MaxCalls = 3
INVARIANTS OneWritePerAction RepliesAgree StarComponentTruthful
PROPERTY ClaimsComplete
CHECK_DEADLOCK FALSE
