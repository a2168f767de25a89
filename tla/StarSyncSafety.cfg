SPECIFICATION Spec
CONSTANTS
  r1 = r1
  r2 = r2
  r3 = r3
  r4 = r4
  Repos = {r1, r2, r3, r4}
  Workers = {w1}
  PageSize = 2
  InitialStars <- ThreeStars
  InitialModes <- MixedModes
  StampKinds = {"later", "same"}
  RemovalsDuringRun = TRUE
  MaxMoves = 2
  MaxRuns = 3
  MaxStops = 1
  MaxPage = 4
INVARIANTS SnapshotEvidenceIsComplete 
PROPERTIES StarsAreEvidenced QuietSnapshotConverges
CHECK_DEADLOCK FALSE
