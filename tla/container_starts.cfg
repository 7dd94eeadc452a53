SPECIFICATION UpgradeSpec
CONSTANTS
  Settings <- MCSettings
  Docs = {d1, d2, d3}
  ModelDims = 2
  MaxStarts = 4
  None = None
CHECK_DEADLOCK FALSE
INVARIANTS WiredTogether ReadyIsFoundAgain AnswersNameTheirVectors
