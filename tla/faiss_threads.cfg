SPECIFICATION Spec
CONSTANTS
  Docs = {d1, d2}
  Workers = {w1, w2}
  ChunkCount = 1
  Crashes = "never"
  None = None
  Torn = Torn
CHECK_DEADLOCK FALSE
SYMMETRY Symmetry
INVARIANT ListsAgree
