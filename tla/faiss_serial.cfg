SPECIFICATION SearchSpec
CONSTANTS
  Docs = {d1, d2, d3}
  Workers = {w1}
  Searchers = {r1}
  ChunkCount = 2
  Crashes = "between"
  None = None
  Torn = Torn
CHECK_DEADLOCK FALSE
INVARIANTS ListsAgree SearchNamesItsVector
PROPERTY ImplementsContract
