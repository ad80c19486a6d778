SPECIFICATION Spec
CONSTANTS
  NoDoc = NoDoc
  NoChunk = NoChunk
  Document <- MCWords
  Tokenizer <- MCTiktoken
  Encode <- MCEncode
  ValidUtf8 <- MCValidUtf8
  Size <- MCOneSize
  Mode = {"naive", "local", "global", "other"}
  TopK = {1, 2}
  Budget = {1, 4}
  Faults = {}
  MaxInserts = 2
  MaxCrashes = 0
  MaxSettings = 4
INVARIANT OneModeGoesByDoc
CHECK_DEADLOCK FALSE
