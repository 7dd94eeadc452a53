SPECIFICATION FairSpec
CONSTANTS
  Users = {u1}
  Sessions = {s1, s2, s3}
  Workers = {w1, w2}
  None = None
CHECK_DEADLOCK FALSE
INVARIANTS RotationRevokesParent BulkRevokesAll
PROPERTY RequestReturns
