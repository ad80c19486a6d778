\* Objects with and without auto_save that follow each other on one index file.
SPECIFICATION Spec
CONSTANTS
  i1 = i1
  i2 = i2
  Id <- MCId
  Configs = {TRUE, FALSE}
  Threshold = TRUE
INVARIANTS
  EarlyIndexIsSaved
  IndexedHasMeta
  OwnVectors
PROPERTY
  LateIndexNeverSaved
