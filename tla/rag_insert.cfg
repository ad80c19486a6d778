SPECIFICATION Spec
CONSTANTS
  NoDoc = NoDoc
  NoChunk = NoChunk
  Document <- MCAll
  Tokenizer <- MCTokenizers
  Encode <- MCEncode
  ValidUtf8 <- MCValidUtf8
  Size <- MCSizes
  Mode = {}
  TopK = {2}
  Budget = {2}
  Faults = {}
  MaxInserts = 2
  MaxCrashes = 1
  MaxSettings = 3
INVARIANTS
  TypeOK
  ChunksHaveDocs
  DocsHaveChunks
  IndexBacked
PROPERTY
  PoisonedDocsBlockChunks
CHECK_DEADLOCK FALSE
