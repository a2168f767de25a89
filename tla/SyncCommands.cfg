SPECIFICATION FairSpec
CONSTANTS
  Lists = {1, 2}
  a = a
  b = b
  Repos = {a, b}
  InitialFiled <- TwoLists
  Callers = {h1, h2}
  PageSize = 1
  PageItems = 1
  MaxEdits = 1
  MaxRuns = 2
  MaxStops = 1
  c1 = c1
  c2 = c2
  Commands = {c1, c2}
  Envelopes <- BothModes
  MaxDeliveries = 3
INVARIANTS ListEvidenceIsComplete MembersOfActiveLists OneDispatchPerCommand
PROPERTIES EvidencedUnlessShared QuietEnumerationConverges 
CHECK_DEADLOCK FALSE
