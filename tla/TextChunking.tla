---------------------------- MODULE TextChunking ----------------------------
(***************************************************************************)
(* From a corpus to chunk texts with the simple tokenizer: the paragraphs  *)
(* that src/test_christmas_carol.cpp makes of a file, one of them encoded, *)
(* cut by the loop of ChunkingLoop and decoded                             *)
(* (include/nano_graphrag/operations/chunking/default.hpp:35-89).          *)
(***************************************************************************)
EXTENDS ChunkingLoop, SimpleTokenizer

CONSTANT Corpora  \* the contents of the file

ASSUME CorpusAssumption ==
  \A corpus \in Corpora : corpus \in Seq(STRING) /\ SimpleEncode(corpus) \in Lengths

VARIABLES corpus, part  \* the file and which of its paragraphs is chunked

textVars == <<vars, corpus, part>>

\* std::getline until the end of the file.
LineChar(s, c) ==
  IF c = "\n" THEN [lines |-> Append(s.lines, s.line), line |-> <<>>]
  ELSE [s EXCEPT !.line = Append(@, c)]
LineLoop(text) ==
  LET after[i \in 0..Len(text)] ==
        IF i = 0 THEN [lines |-> <<>>, line |-> <<>>] ELSE LineChar(after[i - 1], text[i])
  IN  after[Len(text)]
Lines(text) == Push(LineLoop(text).lines, LineLoop(text).line)

\* The lines between empty lines, joined by line ends.
ParagraphLine(s, line) ==
  IF line = <<>> THEN [docs |-> Push(s.docs, s.para), para |-> <<>>]
  ELSE [s EXCEPT !.para = (IF @ = <<>> THEN <<>> ELSE Append(@, "\n")) \o line]
ParagraphLoop(lines) ==
  LET after[i \in 0..Len(lines)] ==
        IF i = 0 THEN [docs |-> <<>>, para |-> <<>>] ELSE ParagraphLine(after[i - 1], lines[i])
  IN  after[Len(lines)]
Paragraphs(text) == Push(ParagraphLoop(Lines(text)).docs, ParagraphLoop(Lines(text)).para)

Doc == Paragraphs(corpus)[part]

TextInit ==
  /\ corpus \in Corpora
  /\ part \in DOMAIN Paragraphs(corpus)
  /\ n = SimpleEncode(Doc)
  /\ Init

TextNext == Next /\ UNCHANGED <<corpus, part>>

TextSpec == TextInit /\ [][TextNext]_textVars

\* As FairSpec of ChunkingLoop.
FairTextSpec == TextSpec /\ WF_textVars(TextNext)

\* What is stored as the contents of the chunks.
Contents == [i \in DOMAIN windows |-> SimpleDecode(SimpleWords(Doc), windows[i])]
-----------------------------------------------------------------------------
\* No word of a corpus is lost, split, repeated or out of order on the way to its
\* chunks, unless the overlap is negative: with what a chunk repeats of the one
\* before taken off, the chunks of a paragraph between the words of the other
\* paragraphs read as the corpus does
\* (test_christmas_carol.cpp:57-82, simple.hpp:20-43,71-116, default.hpp:70-86).
AllWords(docs) == FlattenSeq([i \in DOMAIN docs |-> SimpleWords(docs[i])])
NewWords(i) ==
  LET words == SimpleWords(Contents[i])
  IN  IF i = 1 THEN words ELSE SubSeq(words, overlap + 1, Len(words))
CorpusKept ==
  (pc = "done" /\ Valid /\ overlap >= 0) =>
    LET docs == Paragraphs(corpus)
    IN  SimpleWords(corpus) =
          AllWords(SubSeq(docs, 1, part - 1))
            \o FlattenSeq([i \in DOMAIN windows |-> NewWords(i)])
            \o AllWords(SubSeq(docs, part + 1, Len(docs)))

\* The tokens that a chunk is charged with in the budget of a query are the words
\* of its content, by the count of the first loop and of the second
\* (default.hpp:82, GraphRAG.hpp:195-198, simple.hpp:20-43,82-98).
TokensAreWords ==
  (pc = "done" /\ Valid) =>
    \A i \in DOMAIN windows :
      SimpleEncode(Contents[i]) = windows[i].len /\ Len(SimpleWords(Contents[i])) = windows[i].len
=============================================================================
