SPECIFICATION Spec
CONSTANTS
  Docs = {d1}
  Workers = {w1, w2}
  NoDoc = NoDoc
  Faults = {}
CHECK_DEADLOCK FALSE
INVARIANT DeleteRemovesVectors
