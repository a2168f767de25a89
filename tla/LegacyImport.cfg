SPECIFICATION Spec
SYMMETRY Alike
CONSTANTS
  u1 = u1
  r1 = r1
  r2 = r2
  i1 = i1
  i2 = i2
  Users = {u1}
  Repos = {r1, r2}
  Records = {"starred", "plain", "conflicting"}
  UserOf <- ArchiveUser
  RepoOf <- ArchiveRepo
  Starred = {"starred"}
  Filed = {"starred"}
  Mapped = {u1}
  Refused = {"conflicting"}
  Runs = {i1, i2}
  MaxEdits = 2
PROPERTIES EvidenceOutlivesReimport CleanMeansConfirmed 
CHECK_DEADLOCK FALSE
