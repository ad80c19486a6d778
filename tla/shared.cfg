\* Two programs on one working directory, run up to four times.
SPECIFICATION Spec
CONSTANTS
  demo = demo
  carol = carol
  d1 = d1
  d2 = d2
  d3 = d3
  c1 = c1
  c2 = c2
  c3 = c3
  Absent = Absent
  Program <- MCProgram
  Document <- MCDocument
  Chunk <- MCChunk
  Batch <- MCBatch
  Chunked <- MCChunked
  MaxStarts = 4
INVARIANTS
  TypeOK
  NothingLost
  FilesAgree
  RerunHeals
CHECK_DEADLOCK FALSE
