SPECIFICATION FairSpec
CONSTANTS
  Repos = {p1, p2, p3}
  Mirrored = {p1, p2}
  MaxChanges = 4
  MaxDecisions = 1
INVARIANTS MarkedChangesArePublished OneVersionPerWindow
PROPERTY ChangesSettle
CHECK_DEADLOCK FALSE
