SPECIFICATION ViewsSpec
CONSTANTS
  Docs = {d1, d2}
  Workers = {w1, w2}
  NoDoc = NoDoc
  Faults = {}
  Clients = {c1}
  PageSize = 1
CHECK_DEADLOCK FALSE
SYMMETRY Symmetry
INVARIANTS GetShowsOneLife ReadyIsListedWhole AcknowledgedIsShown
