SPECIFICATION FairSpec
CONSTANTS
  r1 = r1
  r2 = r2
  n1 = n1
  n2 = n2
  n3 = n3
  None = None
  Absent = Absent
  Repos = {r1, r2}
  Names = {n1, n2, n3}
  Known = {r2}
  FirstName <- Named
  Attributes <- AttributesByVersion
  Readmes <- ReadmesByVersion
  Observer = Observer
  Api = {a1}
  MaxVersion = 2
  MaxEdits = 2
  MaxActions = 1
  MaxStops = 1
INVARIANT OneLiveAlias
CHECK_DEADLOCK FALSE
