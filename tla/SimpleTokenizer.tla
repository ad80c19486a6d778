--------------------------- MODULE SimpleTokenizer ---------------------------
(***************************************************************************)
(* SimpleTokenizer on texts, which are sequences of characters             *)
(* (include/nano_graphrag/operations/tokenize/simple.hpp): encode() counts *)
(* words in one loop, decode() finds them again in another and puts a      *)
(* window of them together.                                                *)
(***************************************************************************)
EXTENDS Chunking

Separator == {" ", "\n", "\t"}

\* encode(): every token is 1, so what it returns is known by its length.
EncodeChar(s, c) ==
  IF c \in Separator
  THEN [in_word |-> FALSE, tokens |-> IF s.in_word THEN s.tokens + 1 ELSE s.tokens]
  ELSE [s EXCEPT !.in_word = TRUE]
EncodeLoop(text) ==
  LET after[i \in 0..Len(text)] ==
        IF i = 0 THEN [in_word |-> FALSE, tokens |-> 0] ELSE EncodeChar(after[i - 1], text[i])
  IN  after[Len(text)]
SimpleEncode(text) ==
  LET end == EncodeLoop(text)
  IN  IF end.in_word THEN end.tokens + 1 ELSE end.tokens

\* seq.push_back(x), which both loops guard with !x.empty(), and x.clear().
Push(seq, x) == IF x = <<>> THEN seq ELSE Append(seq, x)

\* The words that decode() has found in a text, and the one it is in.
WordChar(s, c) ==
  IF c \in Separator THEN [words |-> Push(s.words, s.current), current |-> <<>>]
  ELSE [s EXCEPT !.current = Append(@, c)]
WordLoop(text) ==
  LET after[i \in 0..Len(text)] ==
        IF i = 0 THEN [words |-> <<>>, current |-> <<>>] ELSE WordChar(after[i - 1], text[i])
  IN  after[Len(text)]

\* Mutant of SimpleWords: the word after the last separator is forgotten.
SimpleWordsClosed(text) == WordLoop(text).words

\* The words that decode() splits a document into.
SimpleWords(text) == Push(WordLoop(text).words, WordLoop(text).current)

\* Mutant of Joined: no space between the words.
JoinedRun(words) == FlattenSeq(words)

\* Some words, one space between them.
Joined(words) ==
  LET after[i \in 0..Len(words)] ==
        IF i = 0 THEN <<>>
        ELSE IF after[i - 1] = <<>> THEN words[i]
        ELSE after[i - 1] \o <<" ">> \o words[i]
  IN  after[Len(words)]

\* The text of one window.
SimpleDecode(words, w) ==
  Joined(SubSeq(words, w.start + 1, Smaller(w.start + w.len, Len(words))))
=============================================================================
