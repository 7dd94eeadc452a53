SPECIFICATION FairSpec
CONSTANTS
  Requests = {r1, r2, r3}
  NoRequest = NoRequest
  Supplied = {a}
  Kinds = {"live", "ready", "api"}
  Threads = 2
  Connections = 1
  Debug = FALSE
  MaxSessions = 2
CHECK_DEADLOCK FALSE
INVARIANT RepliesNameTheirRequest
PROPERTY EveryRequestAnswered
