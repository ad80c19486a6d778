------------------------------ MODULE Chunking ------------------------------
(***************************************************************************)
(* The sliding-window chunker of DefaultChunkingStrategy as operators      *)
(* (include/nano_graphrag/operations/chunking/default.hpp).  A document is *)
(* the sequence of its tokens, a token is the sequence of pieces of text   *)
(* it stands for, and the content of a chunk is the text of its tokens     *)
(* (whitespace between the words of the simple tokenizer is left out).     *)
(* The closed form of the windows is what the loop of ChunkingLoop does.   *)
(***************************************************************************)
EXTENDS Integers, Sequences, SequencesExt

Text(tokens) == FlattenSeq(tokens)

\* Mutant of Smaller: a window is not cut.
SmallerIsMost(a, b) == IF a < b THEN b ELSE a

Smaller(a, b) == IF a < b THEN a ELSE b

\* The sizes with which the loop over a document ends; no code checks them.
Fits(max, overlap) == 0 <= max /\ overlap < max

\* How many windows cover n tokens when each starts max - overlap further on.
NumWindows(n, max, overlap) ==
  (n + (max - overlap) - 1) \div (max - overlap)

\* The windows of a document of n tokens, for sizes that fit: start is
\* counted from 0 and len is lengths[i] of the code.
Windows(n, max, overlap) ==
  [i \in 1..NumWindows(n, max, overlap) |->
     LET start == (i - 1) * (max - overlap)
     IN  [start |-> start, len |-> Smaller(max, n - start)]]

\* The TextChunk of window w of document doc, the i-th of its document.
TextChunkOf(w, i, tokens, doc) ==
  [tokens |-> w.len, content |-> Text(SubSeq(tokens, w.start + 1, w.start + w.len)),
   full_doc_id |-> doc, chunk_order_index |-> i - 1]

\* chunking_by_token_size for one document.
ChunkingByTokenSize(tokens, doc, max, overlap) ==
  LET windows == Windows(Len(tokens), max, overlap)
  IN  [i \in DOMAIN windows |-> TextChunkOf(windows[i], i, tokens, doc)]

\* "chunk-" + std::to_string(h(content)) and "doc-" + ...: std::hash is taken
\* to be free of collisions, so an id keeps its prefix and what was hashed.
ChunkId(chunk) == [prefix |-> "chunk-", hash |-> chunk.content]
DocId(doc) == [prefix |-> "doc-", hash |-> doc]

\* get_chunks over the documents in the order the map happens to yield them:
\* inserting_chunks.emplace keeps the first chunk that has an id.
GetChunks(order, tokensOf, max, overlap) ==
  LET chunksOf == [d \in DOMAIN order |->
                     ChunkingByTokenSize(tokensOf[order[d]], DocId(order[d]), max, overlap)]
      found == UNION {{<<d, i>> : i \in DOMAIN chunksOf[d]} : d \in DOMAIN order}
      idAt(p) == ChunkId(chunksOf[p[1]][p[2]])
      first(id) == CHOOSE p \in found :
                     /\ idAt(p) = id
                     /\ \A q \in found : idAt(q) = id =>
                          (p[1] < q[1] \/ (p[1] = q[1] /\ p[2] <= q[2]))
  IN  [id \in {idAt(p) : p \in found} |-> chunksOf[first(id)[1]][first(id)[2]]]
=============================================================================
