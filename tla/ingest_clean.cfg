SPECIFICATION FairSpec
CONSTANTS
  Docs = {d1, d2}
  Workers = {w1, w2}
  NoDoc = NoDoc
  Faults = {}
CHECK_DEADLOCK FALSE
INVARIANT ErrorMeansFailed
PROPERTIES ImplementsPromise IngestSettles DeleteTakesEffect
