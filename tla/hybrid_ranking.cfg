SPECIFICATION RankingSpec
CONSTANTS
  Chunks = {c1, c2, c3}
  Foreign = Foreign
  MaxScore = 2
  DenseWeight = 7
  LexicalWeight = 3
  MaxK = 2
CHECK_DEADLOCK FALSE
SYMMETRY Symmetry
INVARIANTS AnswerIsComplete BetterComesFirst OthersDoNotMatter
