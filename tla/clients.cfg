\* Two requests of either client to a service of which nothing is assumed.
SPECIFICATION FairSpec
CONSTANTS
  t1 = t1
  t2 = t2
  Missing = Missing
  Null = Null
  Batches <- MCBatches
  Objects <- MCObjects
  MaxCalls = 2
  MaxPieces = 2
INVARIANTS
  TypeOK
  CarriedOutOnce
  ResultFromReply
PROPERTY
  CallEnds
CHECK_DEADLOCK FALSE
