SPECIFICATION Spec
SYMMETRY Alike
CONSTANTS
  r1 = r1
  r2 = r2
  d1 = d1
  d2 = d2
  o1 = o1
  o2 = o2
  readme = readme
  Owners = {o1, o2}
  Accounts = {a1}
  OwnerOf <- FirstOwns
  Repos = {r1, r2}
  ReadmeOf <- SameReadme
  Operations = {e1}
  Deliveries = {d1, d2}
  None = None
  MaxCalls = 2
  MaxStars = 1
INVARIANTS OneAnswerPerOperation VerifiedMeansRevoked  ReadmeBytesShared
CHECK_DEADLOCK FALSE
