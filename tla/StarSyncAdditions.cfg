SPECIFICATION Spec
CONSTANTS
  r1 = r1
  r2 = r2
  r3 = r3
  r4 = r4
  Repos = {r1, r2, r3, r4}
  Workers = {w1}
  PageSize = 2
  InitialStars <- ThreeStars
  InitialModes <- Unclassified
  StampKinds = {"later"}
  RemovalsDuringRun = FALSE
  MaxMoves = 3
  MaxRuns = 3
  MaxStops = 1
  MaxPage = 4
INVARIANT MarkCoversUninterrupted
PROPERTY UnstarsAreEvidenced
CHECK_DEADLOCK FALSE
