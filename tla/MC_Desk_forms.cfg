CONSTANTS
  Sponsor = {s1, s2, s3}
  Wanted = {0, 2, 9, NULL}
  Name = {a, b}
  MaxRequests = 3
  NULL = NULL
SYMMETRY Symmetry
SPECIFICATION Spec
INVARIANTS TypeOK PositionsDense BucketMatchesRows NameTrailExact
PROPERTIES OthersKeepOrder
CHECK_DEADLOCK FALSE
