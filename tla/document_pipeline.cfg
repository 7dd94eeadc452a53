SPECIFICATION Spec
CONSTANTS
  MaxLines = 5
  ChunkSize = 2
  ChunkOverlap = 1
  OnePerText = TRUE
CHECK_DEADLOCK FALSE
INVARIANTS PagesAreTruthful HeadingsAreTruthful IndicesFollowTheText ParagraphsReachChunks VectorsNameTheirRows
