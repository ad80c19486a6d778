SPECIFICATION Spec
CONSTANTS
  NoDoc = NoDoc
  NoChunk = NoChunk
  Document <- MCOneDoc
  Tokenizer <- MCTiktoken
  Encode <- MCEncode
  ValidUtf8 <- MCValidUtf8
  Size <- MCOneSize
  Mode = {"naive"}
  TopK = {1}
  Budget = {1}
  Faults = {}
  MaxInserts = 1
  MaxCrashes = 1
  MaxSettings = 4
INVARIANT ReloadedAnswers
CHECK_DEADLOCK FALSE
