\* Paragraphs, words and windows of small texts, for all small sizes, legal or not.
SPECIFICATION FairTextSpec
CONSTANTS
  Lengths <- MCLengths
  MaxSizes <- MCMaxSizes
  Overlaps <- MCOverlaps
  MaxWindows <- MCMaxWindows
  Corpora <- MCCorpora
INVARIANTS
  TypeOK
  NoTokenLost
  OverlapExact
  ClosedForm
  NoProgressNoEnd
  CorpusKept
  TokensAreWords
PROPERTY
  Terminates
CHECK_DEADLOCK FALSE
