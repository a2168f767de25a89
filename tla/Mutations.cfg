SPECIFICATION MCSpec
CONSTANTS
  r1 = r1
  r2 = r2
  l1 = l1
  l2 = l2
  k1 = k1
  k2 = k2
  w1 = w1
  w2 = w2
  InitialLists <- SecondListOnly
  Repos = {r1, r2}
  Lists = {l1, l2}
  Requests <- AllKinds
  Workers = {w1, w2}
  MaxAttempts = 3
  MaxEdits = 1
  MaxSyncs = 1
  MaxStops = 1
SYMMETRY CallerSymmetry
INVARIANTS OneEffectPerKey EveryAnswerIsAudited  IgnoredMeansUnstarred
CHECK_DEADLOCK FALSE
