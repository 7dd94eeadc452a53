SPECIFICATION Spec
CONSTANTS
  Ids = {a, b, c}
  NoId = NoId
  Fallback = step1
  MaxItems = 3
  MaxDeps = 2
  MaxSteps = 3
  Retries = 1
  HasTimeout = TRUE
  Unfinished = {c}
  c1 = c1
  c2 = c2
  Hits <- SomeHits
CHECK_DEADLOCK FALSE
INVARIANTS DependenciesFirst EndsAsThePlanAllows TraceTellsTheRun CitationsAreMerged
PROPERTIES ResultsAreFinal RunEnds
