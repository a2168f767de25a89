SPECIFICATION FairSpec
CONSTANTS
  r1 = r1
  r2 = r2
  r3 = r3
  r4 = r4
  Repos = {r1, r2, r3, r4}
  Workers = {w1}
  PageSize = 2
  InitialStars <- ThreeStars
  InitialModes <- Unclassified
  StampKinds = {"later", "same", "none"}
  RemovalsDuringRun = TRUE
  MaxMoves = 2
  MaxRuns = 2
  MaxStops = 1
  MaxPage = 4
PROPERTY RunsFinish
CHECK_DEADLOCK FALSE
