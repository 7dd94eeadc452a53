SPECIFICATION QueriesSpec
CONSTANTS
  Docs = {d1, d2}
  Workers = {w1, w2}
  NoDoc = NoDoc
  Faults = {"crash", "db"}
  Users = {u1, u2}
  NoUser = NoUser
  Readers = {r1}
  TopK = 1
  Limit = 2
CHECK_DEADLOCK FALSE
SYMMETRY Symmetry
INVARIANTS   
   AnswersWereRetrievable
