--------------------------- MODULE GraphRAGProofs ---------------------------
(***************************************************************************)
(* The composed object, for every set of documents, every vocabulary, any  *)
(* sizes (one of which lets the chunking loop end) and every number of     *)
(* calls, crashes and setters: what the three stores keep of each other.   *)
(***************************************************************************)
EXTENDS GraphRAG, Induction, FiniteSetTheorems

\* All chunks of the document, by some tokenizer and size, are among these.
Covered(d, ids) ==
  \E t \in Tokenizer, s \in FitSize :
    \A i \in DOMAIN ChunkingByTokenSize(Encode[t][d], DocId(d), s.max, s.overlap) :
      ChunkId(ChunkingByTokenSize(Encode[t][d], DocId(d), s.max, s.overlap)[i]) \in ids

\* What get_chunks makes of a batch: chunks of its documents, and all of them.
MadeOf(made, batch) ==
  /\ DOMAIN made \subseteq ChunkKey
  /\ \A k \in DOMAIN made :
       made[k] \in TextChunk /\ \E d \in batch : made[k].full_doc_id = DocId(d)
  /\ \A d \in batch : Covered(d, DOMAIN made)

\* The settings and the insert in progress have their fields and types.
RagFields == {"stage", "batch", "made", "outcome", "strategy", "naive", "tokenizer", "size", "llm"}
PastFields == {"docsLost", "chunksLost", "searchable", "armed", "since"}
RagTyped ==
  /\ DOMAIN rag = RagFields /\ DOMAIN past = PastFields
  /\ rag.stage \in {"idle", "docs", "chunks", "down"}
  /\ rag.batch \subseteq Document /\ MadeOf(rag.made, rag.batch)
  /\ rag.tokenizer \in Tokenizer \cup {"null"} /\ rag.size \in Size
Typed == Docs!TypeOK /\ Chunks!TypeOK /\ RagTyped

\* Where the two stores are in each stage of an insert.
Flow ==
  /\ rag.stage = "idle" => docs.pc = "ready" /\ chunks.pc = "ready"
  /\ rag.stage = "docs" => docs.pc # "down" /\ chunks.pc = "ready"
  /\ rag.stage = "chunks" => docs.pc = "ready" /\ chunks.pc # "down"
  /\ rag.stage = "down" => /\ docs.pc = "down" /\ chunks.pc = "down"
                           /\ docs.data = Docs!EmptyMap /\ chunks.data = Chunks!EmptyMap
  /\ rag.stage \in {"idle", "down"} => rag.made = <<>> /\ rag.batch = {}

\* What an insert has stored so far.
Progress ==
  /\ (rag.stage = "chunks" \/ docs.pc \in {"saving", "opened"})
       => \A d \in rag.batch : docs.data[DocId(d)] # NoDoc
  /\ chunks.pc \in {"saving", "opened"} => DOMAIN rag.made \subseteq StoredChunks

\* A document is stored under its own id or not at all, in memory and on disk.
OwnDocs(map) == \A k \in DocKey : map[k] \in {k.hash, NoDoc}
DocValues == OwnDocs(docs.data) /\ OwnDocs(Docs!Load(docs.file))

\* An insert gets to its chunks only past a save() that did not throw.
SavedFirst == (rag.stage = "chunks" /\ "open" \notin Faults) => Docs!Dumpable(docs.data)

Opened == docs.pc = "opened" => docs.file = Docs!TornFile

\* Chunks in memory and on disk have their documents in memory, and on disk where
\* the file is not in the middle of a save().
NoOrphans ==
  (Reliable /\ ~past.docsLost) =>
    /\ Orphans(chunks.data, docs.data) = {}
    /\ rag.stage # "down" => Orphans(Chunks!Load(chunks.file), docs.data) = {}
    /\ docs.file.state # "torn"
         => Orphans(Chunks!Load(chunks.file), Docs!Load(docs.file)) = {}
    /\ (docs.pc = "ready" /\ docs.file.state # "torn") => Docs!Load(docs.file) = docs.data
    /\ rag.stage = "down" => docs.file.state # "torn"

Core == Typed /\ Flow /\ Progress /\ DocValues /\ SavedFirst /\ Opened /\ NoOrphans
-----------------------------------------------------------------------------
\* Of some pairs of positions the first, by document and then by window.
LEMMA LeastPair ==
  ASSUME NEW F \in SUBSET (Nat \X Nat), F # {}
  PROVE  \E p \in F : \A q \in F : p[1] < q[1] \/ (p[1] = q[1] /\ p[2] <= q[2])
<1> DEFINE Firsts == {p[1] : p \in F}
<1>1. PICK a \in Firsts : \A b \in Firsts : a <= b
  <2>1. Firsts \in SUBSET Nat /\ Firsts # {}
    OBVIOUS
  <2> QED
    BY <2>1, LeastElement
<1> DEFINE G == {p \in F : p[1] = a}
           Seconds == {p[2] : p \in G}
<1>2. PICK c \in Seconds : \A b \in Seconds : c <= b
  <2>1. Seconds \in SUBSET Nat /\ Seconds # {}
    OBVIOUS
  <2> QED
    BY <2>1, LeastElement
<1>3. PICK p \in G : p[2] = c
  OBVIOUS
<1>4. ASSUME NEW q \in F PROVE p[1] < q[1] \/ (p[1] = q[1] /\ p[2] <= q[2])
  <2>1. q[1] \in Firsts /\ p[1] = a /\ a \in Nat /\ q[1] \in Nat
    OBVIOUS
  <2>2. a <= q[1]
    BY <1>1, <2>1
  <2>3. CASE q[1] = a
    <3>1. q[2] \in Seconds
      BY <2>3
    <3> QED
      BY <1>2, <1>3, <2>1, <2>3, <3>1
  <2> QED
    BY <2>1, <2>2, <2>3
<1> QED
  BY <1>4

\* Chunks of a document that the vocabulary knows.
LEMMA ChunksTyped ==
  ASSUME NEW t \in Tokenizer, NEW d \in Document, NEW s \in FitSize,
         NEW i \in DOMAIN ChunkingByTokenSize(Encode[t][d], DocId(d), s.max, s.overlap)
  PROVE  LET c == ChunkingByTokenSize(Encode[t][d], DocId(d), s.max, s.overlap)[i]
         IN  i \in Nat /\ c \in TextChunk /\ ChunkId(c) \in ChunkKey /\ c.full_doc_id = DocId(d)
<1> DEFINE all == ChunkingByTokenSize(Encode[t][d], DocId(d), s.max, s.overlap)
<1>1. all[i] \in ToSet(all)
  BY DEF ToSet
<1>2. all[i] \in TextChunk
  BY <1>1 DEF TextChunk
<1>3. ChunkId(all[i]) \in ChunkKey
  BY <1>2 DEF ChunkKey
<1>4. i \in Nat /\ all[i].full_doc_id = DocId(d)
  BY DEF ChunkingByTokenSize, Windows, TextChunkOf
<1> QED
  BY <1>2, <1>3, <1>4

LEMMA OrderOK ==
  ASSUME NEW order \in SetToAllKPermutations(Document)
  PROVE  /\ \A d \in DOMAIN order : d \in Nat /\ order[d] \in Document
         /\ ToSet(order) \subseteq Document
<1>1. PICK s \in SUBSET Document : order \in SetToSeqs(s)
  BY DEF SetToAllKPermutations
<1>2. order \in [1..Cardinality(s) -> s]
  BY <1>1 DEF SetToSeqs
<1> QED
  BY <1>2 DEF ToSet

\* get_chunks returns chunks of the documents it was given.
LEMMA GetChunksOK ==
  ASSUME NEW t \in Tokenizer, NEW s \in FitSize,
         NEW order \in SetToAllKPermutations(Document)
  PROVE  MadeOf(GetChunks(order, Encode[t], s.max, s.overlap), ToSet(order))
<1> DEFINE chunksOf == [d \in DOMAIN order |->
                          ChunkingByTokenSize(Encode[t][order[d]], DocId(order[d]), s.max, s.overlap)]
           found == UNION {{<<d, i>> : i \in DOMAIN chunksOf[d]} : d \in DOMAIN order}
           idAt(p) == ChunkId(chunksOf[p[1]][p[2]])
           first(id) == CHOOSE p \in found :
                          /\ idAt(p) = id
                          /\ \A q \in found : idAt(q) = id =>
                               (p[1] < q[1] \/ (p[1] = q[1] /\ p[2] <= q[2]))
           made == GetChunks(order, Encode[t], s.max, s.overlap)
<1>1. made = [id \in {idAt(p) : p \in found} |-> chunksOf[first(id)[1]][first(id)[2]]]
  BY DEF GetChunks
<1>2. ASSUME NEW p \in found
      PROVE  /\ p[1] \in DOMAIN order /\ order[p[1]] \in Document
             /\ p \in Nat \X Nat
             /\ p[2] \in DOMAIN ChunkingByTokenSize(Encode[t][order[p[1]]], DocId(order[p[1]]), s.max, s.overlap)
             /\ chunksOf[p[1]][p[2]]
                  = ChunkingByTokenSize(Encode[t][order[p[1]]], DocId(order[p[1]]), s.max, s.overlap)[p[2]]
  <2>1. PICK d \in DOMAIN order : p \in {<<d, i>> : i \in DOMAIN chunksOf[d]}
    OBVIOUS
  <2>2. PICK i \in DOMAIN chunksOf[d] : p = <<d, i>>
    BY <2>1
  <2>3. d \in Nat /\ order[d] \in Document /\ p[1] = d /\ p[2] = i
    BY <2>2, OrderOK
  <2>4. i \in DOMAIN ChunkingByTokenSize(Encode[t][order[d]], DocId(order[d]), s.max, s.overlap)
    OBVIOUS
  <2>5. i \in Nat
    BY <2>3, <2>4, ChunksTyped
  <2> QED
    BY <2>2, <2>3, <2>4, <2>5
<1>3. ASSUME NEW p \in found
      PROVE  /\ chunksOf[p[1]][p[2]] \in TextChunk /\ idAt(p) \in ChunkKey
             /\ chunksOf[p[1]][p[2]].full_doc_id = DocId(order[p[1]])
             /\ order[p[1]] \in ToSet(order)
  BY <1>2, ChunksTyped DEF ToSet
<1>4. ASSUME NEW id \in {idAt(p) : p \in found} PROVE first(id) \in found
  <2> DEFINE F == {p \in found : idAt(p) = id}
  <2>1. F \in SUBSET (Nat \X Nat) /\ F # {}
    BY <1>2, <1>4
  <2>2. PICK p \in F : \A q \in F : p[1] < q[1] \/ (p[1] = q[1] /\ p[2] <= q[2])
    BY <2>1, LeastPair
  <2>3. /\ p \in found /\ idAt(p) = id
        /\ \A q \in found : idAt(q) = id => (p[1] < q[1] \/ (p[1] = q[1] /\ p[2] <= q[2]))
    BY <2>2
  <2> HIDE DEF found, idAt
  <2> QED
    BY <2>3
<1>0. ASSUME NEW d \in ToSet(order) PROVE Covered(d, {idAt(p) : p \in found})
  <2>1. PICK j \in DOMAIN order : order[j] = d
    BY DEF ToSet
  <2>2. chunksOf[j] = ChunkingByTokenSize(Encode[t][d], DocId(d), s.max, s.overlap)
    BY <2>1
  <2>3. ASSUME NEW i \in DOMAIN chunksOf[j] PROVE ChunkId(chunksOf[j][i]) \in {idAt(p) : p \in found}
    <3>1. <<j, i>> \in found /\ idAt(<<j, i>>) = ChunkId(chunksOf[j][i])
      OBVIOUS
    <3> QED
      BY <3>1
  <2> HIDE DEF chunksOf, found, idAt
  <2> QED
    BY <2>2, <2>3 DEF Covered
<1> HIDE DEF chunksOf, found, idAt, first, made
<1>5. DOMAIN made = {idAt(p) : p \in found}
  BY <1>1
<1>6. ASSUME NEW id \in DOMAIN made
      PROVE  id \in ChunkKey /\ made[id] \in TextChunk /\ \E d \in ToSet(order) : made[id].full_doc_id = DocId(d)
  <2>1. made[id] = chunksOf[first(id)[1]][first(id)[2]] /\ first(id) \in found
    BY <1>1, <1>4, <1>5, <1>6
  <2>2. id \in ChunkKey
    BY <1>3, <1>5, <1>6
  <2> QED
    BY <1>3, <2>1, <2>2
<1> QED
  BY <1>0, <1>5, <1>6 DEF MadeOf, made

\* There is a size with which the loop ends, and with it a document without tokens
\* has no chunks.
LEMMA SomeFit ==
  /\ FitSize # {} /\ FitSize \subseteq Size
  /\ \A s \in FitSize : DOMAIN ChunkingByTokenSize(<<>>, NoDoc, s.max, s.overlap) = {}
<1>1. FitSize # {} /\ FitSize \subseteq Size
  BY RagAssumption DEF FitSize
<1>2. ASSUME NEW w \in Int, w > 0 PROVE (0 + w - 1) \div w = 0
  BY <1>2
<1>3. ASSUME NEW s \in FitSize PROVE NumWindows(0, s.max, s.overlap) = 0
  <2>1. s.max - s.overlap \in Int /\ s.max - s.overlap > 0
    BY RagAssumption DEF FitSize, Fits
  <2> QED
    BY <1>2, <2>1 DEF NumWindows
<1> QED
  BY <1>1, <1>3 DEF ChunkingByTokenSize, Windows

LEMMA ChunksOfOK ==
  ASSUME NEW order \in SetToAllKPermutations(Document),
         order = <<>> \/ (rag.tokenizer \in Tokenizer /\ ~Chokes(order))
  PROVE  MadeOf(ChunksOf(order), ToSet(order))
<1>1. CASE order = <<>>
  BY <1>1 DEF ChunksOf, MadeOf, ToSet
<1>2. CASE order # <<>> /\ rag.size \in FitSize
  BY <1>2, GetChunksOK DEF ChunksOf
<1>3. CASE order # <<>> /\ rag.size \notin FitSize
  <2>1. ChunksOf(order) = <<>> /\ \A d \in ToSet(order) : Encode[rag.tokenizer][d] = <<>>
    BY <1>3 DEF ChunksOf, Chokes
  <2>2. ASSUME NEW d \in ToSet(order) PROVE Covered(d, {})
    <3>1. PICK s \in FitSize : TRUE
      BY SomeFit
    <3>2. DOMAIN ChunkingByTokenSize(<<>>, DocId(d), s.max, s.overlap) = {}
      BY <3>1, SomeFit DEF ChunkingByTokenSize
    <3> QED
      BY <1>3, <2>1, <3>1, <3>2 DEF Covered
  <2> QED
    BY <2>1, <2>2 DEF MadeOf
<1> QED
  BY <1>1, <1>2, <1>3

LEMMA KeysOK ==
  /\ \A c \in TextChunk : c.full_doc_id \in DocKey /\ ChunkId(c) \in ChunkKey
  /\ \A d \in Document : DocId(d) \in DocKey /\ DocId(d).hash = d
  /\ \A k \in DocKey : k.hash \in Document /\ k = DocId(k.hash)
<1>1. ASSUME NEW c \in TextChunk PROVE c.full_doc_id \in DocKey
  <2>1. PICK t \in Tokenizer, d \in Document, s \in FitSize :
          c \in ToSet(ChunkingByTokenSize(Encode[t][d], DocId(d), s.max, s.overlap))
    BY DEF TextChunk
  <2>2. PICK i \in DOMAIN ChunkingByTokenSize(Encode[t][d], DocId(d), s.max, s.overlap) :
          c = ChunkingByTokenSize(Encode[t][d], DocId(d), s.max, s.overlap)[i]
    BY <2>1 DEF ToSet
  <2>3. c.full_doc_id = DocId(d)
    BY <2>2, ChunksTyped
  <2> QED
    BY <2>3 DEF DocKey
<1> QED
  BY <1>1 DEF ChunkKey, DocKey, DocId

-----------------------------------------------------------------------------
\* What the steps of the two stores do, field by field.
LEMMA DocMapsOK ==
  /\ Docs!EmptyMap \in Docs!Map /\ Docs!TornFile \in Docs!File /\ Docs!NoFile \in Docs!File
  /\ Docs!Load(Docs!TornFile) = Docs!EmptyMap /\ Docs!Load(Docs!NoFile) = Docs!EmptyMap
  /\ Docs!TornFile.state = "torn" /\ Docs!NoFile.state # "torn"
  /\ \A m \in Docs!Map : /\ Docs!WholeFile(m) \in Docs!File /\ Docs!Load(Docs!WholeFile(m)) = m
                         /\ Docs!WholeFile(m).state # "torn"
  /\ \A f \in Docs!File : Docs!Load(f) \in Docs!Map
  /\ \A m, b \in Docs!Map : Docs!Merge(m, b) \in Docs!Map
<1>1. Docs!EmptyMap \in Docs!Map
  BY DEF Docs!EmptyMap, Docs!Map
<1>2. \A m, b \in Docs!Map : Docs!Merge(m, b) \in Docs!Map
  BY DEF Docs!Merge, Docs!Map
<1> QED
  BY <1>1, <1>2 DEF Docs!TornFile, Docs!NoFile, Docs!WholeFile, Docs!Load, Docs!File

LEMMA ChunkMapsOK ==
  /\ Chunks!EmptyMap \in Chunks!Map /\ Chunks!TornFile \in Chunks!File /\ Chunks!NoFile \in Chunks!File
  /\ Chunks!Load(Chunks!TornFile) = Chunks!EmptyMap /\ Chunks!Load(Chunks!NoFile) = Chunks!EmptyMap
  /\ \A m \in Chunks!Map : Chunks!WholeFile(m) \in Chunks!File /\ Chunks!Load(Chunks!WholeFile(m)) = m
  /\ \A f \in Chunks!File : Chunks!Load(f) \in Chunks!Map
  /\ \A m, b \in Chunks!Map : Chunks!Merge(m, b) \in Chunks!Map
<1>1. Chunks!EmptyMap \in Chunks!Map
  BY DEF Chunks!EmptyMap, Chunks!Map
<1>2. \A m, b \in Chunks!Map : Chunks!Merge(m, b) \in Chunks!Map
  BY DEF Chunks!Merge, Chunks!Map
<1> QED
  BY <1>1, <1>2 DEF Chunks!TornFile, Chunks!NoFile, Chunks!WholeFile, Chunks!Load, Chunks!File

DocsSaved ==
  \/ docs.pc = "saving" /\ docs'.pc = "ready" /\ docs'.file = docs.file
     /\ "open" \in Faults /\ docs'.status = "unsaved"
  \/ docs.pc = "saving" /\ docs'.pc = "opened" /\ docs'.file = Docs!TornFile
  \/ docs.pc = "opened" /\ docs'.pc = "ready" /\ docs'.file = docs.file
     /\ ~Docs!Dumpable(docs.data) /\ docs'.status = "throw"
  \/ docs.pc = "opened" /\ docs'.pc = "ready" /\ docs'.file = Docs!WholeFile(docs.data)
     /\ Docs!Dumpable(docs.data) /\ docs'.status = "ok"
  \/ docs.pc = "opened" /\ docs'.pc = "ready" /\ docs'.file = docs.file
     /\ Docs!Dumpable(docs.data) /\ "write" \in Faults /\ docs'.status = "unsaved"

LEMMA DocsMoves ==
  ASSUME Docs!TypeOK
  PROVE  /\ \A batch \in Docs!Map : Docs!Upsert(batch) =>
              /\ Docs!TypeOK' /\ docs'.data = Docs!Merge(docs.data, batch)
              /\ docs'.file = docs.file /\ docs.pc = "ready" /\ docs'.pc = "saving"
         /\ Docs!Save => Docs!TypeOK' /\ docs'.data = docs.data /\ DocsSaved
         /\ Docs!Crash => /\ Docs!TypeOK' /\ docs'.data = Docs!EmptyMap /\ docs'.file = docs.file
                          /\ docs'.pc = "down"
         /\ Docs!Restart => /\ Docs!TypeOK' /\ docs'.data = Docs!Load(docs.file)
                            /\ docs'.file = docs.file /\ docs'.pc = "ready"
<1> USE DEF Docs!TypeOK
<1>1. ASSUME NEW batch \in Docs!Map, Docs!Upsert(batch)
      PROVE  /\ Docs!TypeOK' /\ docs'.data = Docs!Merge(docs.data, batch)
             /\ docs'.file = docs.file /\ docs.pc = "ready" /\ docs'.pc = "saving"
  BY <1>1, DocMapsOK DEF Docs!Upsert
<1>2. ASSUME Docs!Save PROVE Docs!TypeOK' /\ docs'.data = docs.data /\ DocsSaved
  <2>1. CASE Docs!OpenFails
    BY <2>1 DEF Docs!OpenFails, DocsSaved
  <2>2. CASE Docs!OpenTruncates
    BY <2>2, DocMapsOK DEF Docs!OpenTruncates, DocsSaved
  <2>3. CASE Docs!DumpThrows
    BY <2>3 DEF Docs!DumpThrows, DocsSaved
  <2>4. CASE Docs!WriteWhole
    BY <2>4, DocMapsOK DEF Docs!WriteWhole, DocsSaved
  <2>5. CASE Docs!WriteShort
    BY <2>5 DEF Docs!WriteShort, DocsSaved
  <2> QED
    BY <1>2, <2>1, <2>2, <2>3, <2>4, <2>5 DEF Docs!Save
<1>3. ASSUME Docs!Crash
      PROVE  /\ Docs!TypeOK' /\ docs'.data = Docs!EmptyMap /\ docs'.file = docs.file
             /\ docs'.pc = "down"
  BY <1>3, DocMapsOK DEF Docs!Crash
<1>4. ASSUME Docs!Restart
      PROVE  /\ Docs!TypeOK' /\ docs'.data = Docs!Load(docs.file)
             /\ docs'.file = docs.file /\ docs'.pc = "ready"
  BY <1>4, DocMapsOK DEF Docs!Restart, Docs!Fresh
<1> QED
  BY <1>1, <1>2, <1>3, <1>4

ChunksSaved ==
  \/ chunks.pc = "saving" /\ chunks'.pc \in {"ready", "opened"}
     /\ chunks'.file \in {chunks.file, Chunks!TornFile}
  \/ chunks.pc = "opened" /\ chunks'.pc = "ready"
     /\ chunks'.file \in {chunks.file, Chunks!WholeFile(chunks.data)}

LEMMA ChunksMoves ==
  ASSUME Chunks!TypeOK
  PROVE  /\ \A batch \in Chunks!Map : Chunks!Upsert(batch) =>
              /\ Chunks!TypeOK' /\ chunks'.data = Chunks!Merge(chunks.data, batch)
              /\ chunks'.file = chunks.file /\ chunks.pc = "ready" /\ chunks'.pc = "saving"
         /\ Chunks!Save => Chunks!TypeOK' /\ chunks'.data = chunks.data /\ ChunksSaved
         /\ Chunks!Crash => /\ Chunks!TypeOK' /\ chunks'.data = Chunks!EmptyMap
                            /\ chunks'.file = chunks.file /\ chunks'.pc = "down"
         /\ Chunks!Restart => /\ Chunks!TypeOK' /\ chunks'.data = Chunks!Load(chunks.file)
                              /\ chunks'.file = chunks.file /\ chunks'.pc = "ready"
<1> USE DEF Chunks!TypeOK
<1>1. ASSUME NEW batch \in Chunks!Map, Chunks!Upsert(batch)
      PROVE  /\ Chunks!TypeOK' /\ chunks'.data = Chunks!Merge(chunks.data, batch)
             /\ chunks'.file = chunks.file /\ chunks.pc = "ready" /\ chunks'.pc = "saving"
  BY <1>1, ChunkMapsOK DEF Chunks!Upsert
<1>2. ASSUME Chunks!Save PROVE Chunks!TypeOK' /\ chunks'.data = chunks.data /\ ChunksSaved
  <2>1. CASE Chunks!OpenFails
    BY <2>1 DEF Chunks!OpenFails, ChunksSaved
  <2>2. CASE Chunks!OpenTruncates
    BY <2>2, ChunkMapsOK DEF Chunks!OpenTruncates, ChunksSaved
  <2>3. CASE Chunks!DumpThrows
    BY <2>3 DEF Chunks!DumpThrows, ChunksSaved
  <2>4. CASE Chunks!WriteWhole
    BY <2>4, ChunkMapsOK DEF Chunks!WriteWhole, ChunksSaved
  <2>5. CASE Chunks!WriteShort
    BY <2>5 DEF Chunks!WriteShort, ChunksSaved
  <2> QED
    BY <1>2, <2>1, <2>2, <2>3, <2>4, <2>5 DEF Chunks!Save
<1>3. ASSUME Chunks!Crash
      PROVE  /\ Chunks!TypeOK' /\ chunks'.data = Chunks!EmptyMap
             /\ chunks'.file = chunks.file /\ chunks'.pc = "down"
  BY <1>3, ChunkMapsOK DEF Chunks!Crash
<1>4. ASSUME Chunks!Restart
      PROVE  /\ Chunks!TypeOK' /\ chunks'.data = Chunks!Load(chunks.file)
             /\ chunks'.file = chunks.file /\ chunks'.pc = "ready"
  BY <1>4, ChunkMapsOK DEF Chunks!Restart, Chunks!Fresh
<1> QED
  BY <1>1, <1>2, <1>3, <1>4

-----------------------------------------------------------------------------
LEMMA FreshRagOK ==
  /\ DOMAIN FreshRag = RagFields
  /\ FreshRag.stage = "idle" /\ FreshRag.batch = {} /\ FreshRag.made = <<>>
  /\ FreshRag.tokenizer \in Tokenizer /\ FreshRag.size \in Size
  BY RagAssumption, SomeFit DEF FreshRag, RagFields

LEMMA NothingMade == MadeOf(<<>>, {})
  BY DEF MadeOf

\* The steps, as the stores and the insert in progress see them.
KeepsLosses ==
  /\ DOMAIN past' = PastFields
  /\ past'.docsLost = past.docsLost /\ past'.chunksLost = past.chunksLost
KeepsInsert ==
  /\ UNCHANGED <<docs, chunks>> /\ KeepsLosses
  /\ DOMAIN rag' = RagFields
  /\ rag'.stage = rag.stage /\ rag'.batch = rag.batch /\ rag'.made = rag.made
  /\ rag'.tokenizer \in Tokenizer \cup {"null"} /\ rag'.size \in Size

Begins ==
  /\ UNCHANGED <<docs, chunks>> /\ KeepsLosses
  /\ Idle
  /\ DOMAIN rag' = RagFields
  /\ rag'.stage = "docs" /\ rag'.batch \subseteq Document /\ MadeOf(rag'.made, rag'.batch)
  /\ rag'.tokenizer \in Tokenizer \cup {"null"} /\ rag'.size \in Size

Setter ==
  \/ SetEmbeddingStrategy \/ SetLlmStrategy
  \/ \E t \in Tokenizer \cup {"null"} : SetTokenizer(t)
  \/ \E s \in Size : SetChunkParams(s)

LEMMA SettersKeep ==
  ASSUME RagTyped
  PROVE  /\ Setter => KeepsInsert
         /\ \A v \in BOOLEAN : EnableNaive(v) => KeepsInsert
<1> USE DEF RagTyped, RagFields, KeepsLosses
<1>1. CASE SetEmbeddingStrategy
  BY <1>1 DEF SetEmbeddingStrategy, Settings, KeepsInsert
<1>2. CASE SetLlmStrategy
  BY <1>2 DEF SetLlmStrategy, Settings, KeepsInsert
<1>3. CASE \E t \in Tokenizer \cup {"null"} : SetTokenizer(t)
  BY <1>3 DEF SetTokenizer, Settings, KeepsInsert
<1>4. CASE \E s \in Size : SetChunkParams(s)
  BY <1>4 DEF SetChunkParams, Settings, KeepsInsert
<1>5. ASSUME NEW v \in BOOLEAN, EnableNaive(v) PROVE KeepsInsert
  <2>1. UNCHANGED <<docs, chunks>> /\ rag' = [rag EXCEPT !.naive = v]
        /\ past' = IF v THEN [past EXCEPT !.armed = rag.strategy, !.since = {}] ELSE past
    BY <1>5 DEF EnableNaive, Settings
  <2>2. KeepsLosses
    BY <2>1 DEF PastFields
  <2> QED
    BY <2>1, <2>2 DEF KeepsInsert
<1> QED
  BY <1>1, <1>2, <1>3, <1>4, <1>5 DEF Setter

LEMMA InsertBegins ==
  ASSUME RagTyped, NEW order \in SetToAllKPermutations(Document)
  PROVE  /\ InsertUnindexed(order) \/ InsertIndexed(order) =>
              Begins /\ rag'.made = ChunksOf(order)
         /\ InsertThrows(order) => KeepsInsert
<1> USE DEF RagTyped, RagFields
<1>0. ASSUME past' = [past EXCEPT !.since = @ \cup DOMAIN ChunksOf(order)] \/ past' = past
      PROVE  KeepsLosses
  BY <1>0 DEF KeepsLosses, PastFields
<1>1. ASSUME InsertUnindexed(order) \/ InsertIndexed(order)
      PROVE  Begins /\ rag'.made = ChunksOf(order)
  <2>1. /\ UNCHANGED <<docs, chunks>> /\ Idle
        /\ order = <<>> \/ (rag.tokenizer # "null" /\ ~Chokes(order))
    BY <1>1 DEF InsertUnindexed, InsertIndexed, Indexing, MayInsert, Called
  <2>5. KeepsLosses
    BY <1>0, <1>1 DEF InsertUnindexed, InsertIndexed, Indexing
  <2>2. rag' = [rag EXCEPT !.stage = "docs", !.batch = ToSet(order), !.made = ChunksOf(order)]
    BY <1>1 DEF InsertUnindexed, InsertIndexed
  <2>3. MadeOf(ChunksOf(order), ToSet(order)) /\ ToSet(order) \subseteq Document
    BY <2>1, ChunksOfOK, OrderOK
  <2>4. /\ DOMAIN rag' = RagFields /\ rag'.stage = "docs" /\ rag'.batch = ToSet(order)
        /\ rag'.made = ChunksOf(order) /\ rag'.tokenizer = rag.tokenizer /\ rag'.size = rag.size
    BY <2>2
  <2> QED
    BY <2>1, <2>3, <2>4, <2>5 DEF Begins
<1>2. ASSUME InsertThrows(order) PROVE KeepsInsert
  <2>1. KeepsLosses
    BY <1>0, <1>2 DEF InsertThrows, Indexing
  <2> QED
    BY <1>2, <2>1 DEF InsertThrows, Indexing, MayInsert, KeepsInsert
<1> QED
  BY <1>1, <1>2

\* What chunking that does not end comes to.
LEMMA ChokesKeep ==
  ASSUME RagTyped, NEW order, InsertChokes(order)
  PROVE  KeepsInsert \/ ProcessEnds
<1>1. CASE ProcessEnds
  BY <1>1
<1>2. CASE rag' = [rag EXCEPT !.outcome = "throw"] /\ UNCHANGED <<docs, chunks, vdb, vfile, past>>
  BY <1>2 DEF KeepsInsert, KeepsLosses, RagTyped, RagFields
<1> QED
  BY <1>1, <1>2 DEF InsertChokes

LEMMA QueriesKeep ==
  ASSUME RagTyped
  PROVE  \A mode, top_k, budget :
           QuerySorry(mode) \/ QueryThrows(mode) \/ Query(mode, top_k, budget) => KeepsInsert
<1> SUFFICES ASSUME NEW mode, NEW top_k, NEW budget,
                    QuerySorry(mode) \/ QueryThrows(mode) \/ Query(mode, top_k, budget)
             PROVE  KeepsInsert
  OBVIOUS
<1>1. Asking
  BY DEF QuerySorry, QueryThrows, Query
<1> QED
  BY <1>1 DEF Asking, KeepsInsert, KeepsLosses, RagTyped

LEMMA Steps ==
  ASSUME RagTyped, [Next]_vars
  PROVE  \/ KeepsInsert \/ Begins \/ ProcessEnds \/ Restart
         \/ StoreDocs \/ SaveDocs \/ StoreChunks \/ SaveChunks
<1>1. CASE Setter \/ \E v \in BOOLEAN : EnableNaive(v)
  BY <1>1, SettersKeep
<1>2. ASSUME NEW order \in SetToAllKPermutations(Document), Insert(order)
      PROVE  KeepsInsert \/ Begins \/ ProcessEnds
  BY <1>2, InsertBegins, ChokesKeep DEF Insert, InsertDies
<1>3. CASE \E mode \in Mode : \/ QuerySorry(mode) \/ QueryThrows(mode)
                              \/ \E top_k \in TopK, budget \in Budget : Query(mode, top_k, budget)
  BY <1>3, QueriesKeep
<1>4. CASE Crash
  BY <1>4 DEF Crash
<1>5. CASE UNCHANGED vars
  BY <1>5 DEF vars, KeepsInsert, KeepsLosses, RagTyped
<1> QED
  BY <1>1, <1>2, <1>3, <1>4, <1>5 DEF Next, Store, Setter

-----------------------------------------------------------------------------
\* The batches that insert() hands to its stores, and what is merged of them.
DocsOf(batch) == [k \in DocKey |-> IF k.hash \in batch THEN k.hash ELSE NoDoc]
ChunksMade == [k \in ChunkKey |-> IF k \in DOMAIN rag.made THEN rag.made[k] ELSE NoChunk]

LEMMA DocsMerged ==
  ASSUME NEW map \in Docs!Map, OwnDocs(map), NEW batch \in SUBSET Document
  PROVE  LET merged == Docs!Merge(map, DocsOf(batch))
         IN  /\ DocsOf(batch) \in Docs!Map /\ OwnDocs(merged)
             /\ \A d \in batch : merged[DocId(d)] # NoDoc
             /\ \A k \in DocKey : map[k] # NoDoc => merged[k] = map[k]
<1> DEFINE merged == Docs!Merge(map, DocsOf(batch))
<1>1. DocsOf(batch) \in Docs!Map
  BY DEF DocsOf, Docs!Map
<1>2. ASSUME NEW k \in DocKey
      PROVE  merged[k] = IF k.hash \in batch THEN k.hash ELSE map[k]
  <2>1. k.hash # NoDoc
    BY KeysOK, KeysAssumption
  <2> QED
    BY <2>1 DEF Docs!Merge, DocsOf
<1>3. OwnDocs(merged) /\ \A k \in DocKey : map[k] # NoDoc => merged[k] = map[k]
  BY <1>2 DEF OwnDocs
<1>4. ASSUME NEW d \in batch PROVE merged[DocId(d)] # NoDoc
  <2>1. DocId(d) \in DocKey /\ DocId(d).hash = d /\ d # NoDoc
    BY KeysOK, KeysAssumption
  <2> QED
    BY <1>2, <2>1
<1> QED
  BY <1>1, <1>3, <1>4

LEMMA ChunksMerged ==
  ASSUME Typed
  PROVE  LET merged == Chunks!Merge(chunks.data, ChunksMade)
         IN  /\ ChunksMade \in Chunks!Map
             /\ \A k \in ChunkKey : merged[k] = IF k \in DOMAIN rag.made THEN rag.made[k] ELSE chunks.data[k]
             /\ \A k \in DOMAIN rag.made : merged[k] # NoChunk
<1>1. ChunksMade \in Chunks!Map
  BY DEF ChunksMade, Chunks!Map, Typed, RagTyped, MadeOf
<1>2. \A k \in DOMAIN rag.made : k \in ChunkKey /\ rag.made[k] # NoChunk
  BY KeysAssumption DEF Typed, RagTyped, MadeOf
<1> QED
  BY <1>1, <1>2 DEF ChunksMade, Chunks!Merge

\* A document that cannot be dumped stays.
LEMMA PoisonStays ==
  ASSUME NEW map \in Docs!Map, OwnDocs(map), NEW batch \in SUBSET Document,
         Docs!Dumpable(Docs!Merge(map, DocsOf(batch)))
  PROVE  Docs!Dumpable(map)
<1>1. \A k \in DocKey : map[k] # NoDoc => Docs!Merge(map, DocsOf(batch))[k] = map[k]
  BY DocsMerged
<1>2. NoDoc \notin BadDoc
  BY KeysAssumption DEF BadDoc
<1> QED
  BY <1>1, <1>2 DEF Docs!Dumpable

\* Orphans of maps that have grown.
LEMMA FewerOrphans ==
  ASSUME NEW chunkMap \in Chunks!Map, NEW small \in Docs!Map, NEW big,
         \A k \in DocKey : small[k] # NoDoc => big[k] = small[k],
         Orphans(chunkMap, small) = {}
  PROVE  Orphans(chunkMap, big) = {}
<1> SUFFICES ASSUME NEW i \in Orphans(chunkMap, big) PROVE FALSE
  OBVIOUS
<1>1. i \in DOMAIN chunkMap /\ chunkMap[i] # NoChunk /\ big[chunkMap[i].full_doc_id] = NoDoc
  BY DEF Orphans, Stored
<1>2. chunkMap[i] \in TextChunk
  BY <1>1 DEF Chunks!Map
<1>3. chunkMap[i].full_doc_id \in DocKey
  BY <1>2, KeysOK
<1>4. small[chunkMap[i].full_doc_id] # NoDoc
  BY <1>1 DEF Orphans, Stored
<1> QED
  BY <1>1, <1>3, <1>4

LEMMA EmptyHasNoOrphans == \A map : Orphans(Chunks!EmptyMap, map) = {}
  BY DEF Orphans, Stored, Chunks!EmptyMap

LEMMA EmptyOwn == OwnDocs(Docs!EmptyMap)
  BY DEF OwnDocs, Docs!EmptyMap

LEMMA NewChunksHaveDocs ==
  ASSUME Typed, Orphans(chunks.data, docs.data) = {},
         \A d \in rag.batch : docs.data[DocId(d)] # NoDoc
  PROVE  Orphans(Chunks!Merge(chunks.data, ChunksMade), docs.data) = {}
<1> DEFINE merged == Chunks!Merge(chunks.data, ChunksMade)
<1> SUFFICES ASSUME NEW i \in Orphans(merged, docs.data) PROVE FALSE
  OBVIOUS
<1>1. DOMAIN merged = ChunkKey /\ DOMAIN chunks.data = ChunkKey
  BY DEF Chunks!Merge, Typed, Chunks!TypeOK, Chunks!Map
<1>2. i \in ChunkKey /\ merged[i] # NoChunk /\ docs.data[merged[i].full_doc_id] = NoDoc
  BY <1>1 DEF Orphans, Stored
<1>3. merged[i] = IF i \in DOMAIN rag.made THEN rag.made[i] ELSE chunks.data[i]
  BY <1>2, ChunksMerged
<1>4. CASE i \in DOMAIN rag.made
  BY <1>2, <1>3, <1>4 DEF Typed, RagTyped, MadeOf
<1>5. CASE i \notin DOMAIN rag.made
  BY <1>1, <1>2, <1>3, <1>5 DEF Orphans, Stored
<1> QED
  BY <1>4, <1>5

-----------------------------------------------------------------------------
LEMMA InitCore == Init => Core
<1> SUFFICES ASSUME Init PROVE Core
  OBVIOUS
<1>1. docs = Docs!Fresh(Docs!NoFile) /\ chunks = Chunks!Fresh(Chunks!NoFile) /\ rag = FreshRag
  BY DEF Init, Docs!Init, Chunks!Init
<1>2. /\ Docs!TypeOK /\ docs.data = Docs!EmptyMap /\ docs.file = Docs!NoFile /\ docs.pc = "ready"
      /\ Chunks!TypeOK /\ chunks.data = Chunks!EmptyMap /\ chunks.file = Chunks!NoFile
      /\ chunks.pc = "ready"
  BY <1>1, DocMapsOK, ChunkMapsOK DEF Docs!Fresh, Chunks!Fresh, Docs!TypeOK, Chunks!TypeOK
<1>3. Typed
  BY <1>1, <1>2, FreshRagOK, NothingMade DEF Typed, RagTyped, Init, PastFields
<1>4. Flow /\ Progress /\ SavedFirst /\ Opened
  BY <1>1, <1>2, FreshRagOK DEF Flow, Progress, SavedFirst, Opened
<1>5. DocValues
  BY <1>2, DocMapsOK, EmptyOwn DEF DocValues
<1>6. NoOrphans
  BY <1>1, <1>2, FreshRagOK, DocMapsOK, ChunkMapsOK, EmptyHasNoOrphans DEF NoOrphans
<1> QED
  BY <1>3, <1>4, <1>5, <1>6 DEF Core

LEMMA KeepsInsertCore == Core /\ KeepsInsert => Core'
<1> SUFFICES ASSUME Core, KeepsInsert PROVE Core'
  OBVIOUS
<1>1. Typed'
  BY DEF Core, KeepsInsert, KeepsLosses, Typed, RagTyped, Docs!TypeOK, Chunks!TypeOK
<1>2. Flow' /\ Progress' /\ SavedFirst' /\ Opened'
  BY DEF Core, KeepsInsert, Flow, Progress, SavedFirst, Opened, StoredChunks, Docs!Dumpable
<1>3. DocValues' /\ NoOrphans'
  BY DEF Core, KeepsInsert, KeepsLosses, DocValues, NoOrphans
<1> QED
  BY <1>1, <1>2, <1>3 DEF Core

LEMMA BeginsCore == Core /\ Begins => Core'
<1> SUFFICES ASSUME Core, Begins PROVE Core'
  OBVIOUS
<1>0. docs.pc = "ready" /\ chunks.pc = "ready"
  BY DEF Core, Begins, Idle, Flow
<1>1. Typed'
  BY DEF Core, Begins, KeepsLosses, Typed, RagTyped, Docs!TypeOK, Chunks!TypeOK
<1>2. Flow' /\ Progress' /\ SavedFirst' /\ Opened'
  BY <1>0 DEF Core, Begins, Flow, Progress, SavedFirst, Opened
<1>3. DocValues'
  BY DEF Core, Begins, DocValues
<1>4. NoOrphans'
  BY DEF Core, Begins, KeepsLosses, Idle, NoOrphans
<1> QED
  BY <1>1, <1>2, <1>3, <1>4 DEF Core

LEMMA StoreDocsCore == Core /\ StoreDocs => Core'
<1> SUFFICES ASSUME Core, StoreDocs PROVE Core'
  OBVIOUS
<1>1. rag.stage = "docs" /\ UNCHANGED <<chunks, rag, past>> /\ Docs!Upsert(DocsOf(rag.batch))
  BY DEF StoreDocs, Storing, DocsOf
<1>2. Docs!TypeOK /\ docs.data \in Docs!Map /\ OwnDocs(docs.data) /\ rag.batch \in SUBSET Document
  BY DEF Core, Typed, Docs!TypeOK, RagTyped, DocValues
<1>3. /\ DocsOf(rag.batch) \in Docs!Map /\ OwnDocs(Docs!Merge(docs.data, DocsOf(rag.batch)))
      /\ \A d \in rag.batch : Docs!Merge(docs.data, DocsOf(rag.batch))[DocId(d)] # NoDoc
      /\ \A k \in DocKey : docs.data[k] # NoDoc =>
           Docs!Merge(docs.data, DocsOf(rag.batch))[k] = docs.data[k]
  BY <1>2, DocsMerged
<1>4. /\ Docs!TypeOK' /\ docs'.data = Docs!Merge(docs.data, DocsOf(rag.batch))
      /\ docs'.file = docs.file /\ docs.pc = "ready" /\ docs'.pc = "saving"
  BY <1>1, <1>2, <1>3, DocsMoves
<1>5. Typed'
  BY <1>1, <1>4 DEF Core, Typed, RagTyped, Chunks!TypeOK
<1>6. Flow' /\ SavedFirst' /\ Opened'
  BY <1>1, <1>4 DEF Core, Flow, SavedFirst, Opened
<1>7. Progress' /\ DocValues'
  BY <1>1, <1>3, <1>4 DEF Core, Progress, DocValues, StoredChunks, Flow
<1>8. NoOrphans'
  <2> SUFFICES ASSUME Reliable, ~past.docsLost
               PROVE  /\ Orphans(chunks.data, docs'.data) = {}
                      /\ Orphans(Chunks!Load(chunks.file), docs'.data) = {}
                      /\ docs.file.state # "torn"
                           => Orphans(Chunks!Load(chunks.file), Docs!Load(docs.file)) = {}
    BY <1>1, <1>4 DEF NoOrphans
  <2>1. chunks.data \in Chunks!Map /\ Chunks!Load(chunks.file) \in Chunks!Map
    BY ChunkMapsOK DEF Core, Typed, Chunks!TypeOK
  <2>2. /\ Orphans(chunks.data, docs.data) = {}
        /\ Orphans(Chunks!Load(chunks.file), docs.data) = {}
        /\ docs.file.state # "torn"
             => Orphans(Chunks!Load(chunks.file), Docs!Load(docs.file)) = {}
    BY <1>1 DEF Core, NoOrphans
  <2>3. Orphans(chunks.data, docs'.data) = {}
    BY <1>2, <1>3, <1>4, <2>1, <2>2, FewerOrphans
  <2>4. Orphans(Chunks!Load(chunks.file), docs'.data) = {}
    BY <1>2, <1>3, <1>4, <2>1, <2>2, FewerOrphans
  <2> QED
    BY <2>2, <2>3, <2>4
<1> QED
  BY <1>5, <1>6, <1>7, <1>8 DEF Core

LEMMA SaveDocsCore == Core /\ SaveDocs => Core'
<1> SUFFICES ASSUME Core, SaveDocs PROVE Core'
  OBVIOUS
<1>1. rag.stage = "docs" /\ UNCHANGED <<chunks, past>> /\ Docs!Save
  BY DEF SaveDocs, Storing
<1>2. Docs!TypeOK' /\ docs'.data = docs.data /\ DocsSaved
  BY <1>1, DocsMoves DEF Core, Typed
<1>3. /\ docs.data \in Docs!Map /\ docs.file \in Docs!File /\ chunks.pc = "ready"
  BY <1>1 DEF Core, Typed, Docs!TypeOK, Flow
<1>4. \/ docs'.pc # "ready" /\ rag' = rag
      \/ /\ docs'.pc = "ready" /\ docs'.status # "throw"
         /\ DOMAIN rag' = RagFields /\ rag'.stage = "chunks" /\ rag'.batch = rag.batch
         /\ rag'.made = rag.made /\ rag'.tokenizer = rag.tokenizer /\ rag'.size = rag.size
      \/ /\ docs'.pc = "ready" /\ docs'.status = "throw"
         /\ DOMAIN rag' = RagFields /\ rag'.stage = "idle" /\ rag'.batch = {}
         /\ rag'.made = <<>> /\ rag'.tokenizer = rag.tokenizer /\ rag'.size = rag.size
  <2>1. DOMAIN rag = RagFields
    BY DEF Core, Typed, RagTyped
  <2>2. \/ docs'.pc # "ready" /\ rag' = rag
        \/ docs'.pc = "ready" /\ docs'.status # "throw" /\ rag' = [rag EXCEPT !.stage = "chunks"]
        \/ /\ docs'.pc = "ready" /\ docs'.status = "throw"
           /\ rag' = [rag EXCEPT !.stage = "idle", !.outcome = "throw", !.made = <<>>, !.batch = {}]
    BY DEF SaveDocs
  <2> QED
    BY <2>1, <2>2 DEF RagFields
<1>5. Typed'
  BY <1>1, <1>2, <1>4, NothingMade DEF Core, Typed, RagTyped, Chunks!TypeOK
<1>6. Flow'
  BY <1>1, <1>2, <1>3, <1>4 DEF Core, Flow, DocsSaved
<1>7. Progress'
  BY <1>1, <1>2, <1>3, <1>4 DEF Core, Progress, DocsSaved, StoredChunks
<1>8. Docs!Load(docs'.file) \in {Docs!Load(docs.file), docs.data, Docs!EmptyMap}
  BY <1>2, <1>3, DocMapsOK DEF DocsSaved
<1>9. DocValues'
  BY <1>2, <1>8, EmptyOwn DEF Core, DocValues
<1>10. SavedFirst'
  BY <1>1, <1>2, <1>4 DEF SavedFirst, DocsSaved, Docs!Dumpable
<1>11. Opened'
  BY <1>2 DEF Opened, DocsSaved
<1>12. NoOrphans'
  <2> SUFFICES ASSUME Reliable, ~past.docsLost
               PROVE  /\ Orphans(chunks.data, docs.data) = {}
                      /\ Orphans(Chunks!Load(chunks.file), docs.data) = {}
                      /\ docs'.file.state # "torn"
                           => Orphans(Chunks!Load(chunks.file), Docs!Load(docs'.file)) = {}
                      /\ (docs'.pc = "ready" /\ docs'.file.state # "torn")
                           => Docs!Load(docs'.file) = docs.data
                      /\ rag'.stage # "down"
    BY <1>1, <1>2 DEF NoOrphans
  <2>1. /\ Orphans(chunks.data, docs.data) = {}
        /\ Orphans(Chunks!Load(chunks.file), docs.data) = {}
    BY <1>1 DEF Core, NoOrphans
  <2>2. docs'.file.state # "torn" =>
          docs'.file = Docs!WholeFile(docs.data) /\ Docs!Load(docs'.file) = docs.data
    BY <1>2, <1>3, DocMapsOK DEF DocsSaved, Reliable, Core, Opened
  <2> QED
    BY <1>1, <1>4, <2>1, <2>2
<1> QED
  BY <1>5, <1>6, <1>7, <1>9, <1>10, <1>11, <1>12 DEF Core

LEMMA StoreChunksCore == Core /\ StoreChunks => Core'
<1> SUFFICES ASSUME Core, StoreChunks PROVE Core'
  OBVIOUS
<1>1. rag.stage = "chunks" /\ UNCHANGED <<docs, rag, past>> /\ Chunks!Upsert(ChunksMade)
  BY DEF StoreChunks, Storing, ChunksMade
<1>2. Typed /\ Chunks!TypeOK
  BY DEF Core, Typed
<1>3. /\ ChunksMade \in Chunks!Map
      /\ \A k \in DOMAIN rag.made : Chunks!Merge(chunks.data, ChunksMade)[k] # NoChunk
  BY <1>2, ChunksMerged
<1>4. /\ Chunks!TypeOK' /\ chunks'.data = Chunks!Merge(chunks.data, ChunksMade)
      /\ chunks'.file = chunks.file /\ chunks.pc = "ready" /\ chunks'.pc = "saving"
  BY <1>1, <1>2, <1>3, ChunksMoves
<1>5. Typed'
  BY <1>1, <1>4 DEF Core, Typed, RagTyped, Docs!TypeOK
<1>6. Flow' /\ SavedFirst' /\ Opened' /\ DocValues'
  BY <1>1, <1>4 DEF Core, Flow, SavedFirst, Opened, DocValues, Docs!Dumpable
<1>7. Progress'
  <2>1. DOMAIN chunks'.data = ChunkKey /\ DOMAIN rag.made \subseteq ChunkKey
    BY <1>2, <1>4 DEF Chunks!Merge, Typed, RagTyped, MadeOf
  <2>2. DOMAIN rag.made \subseteq StoredChunks'
    BY <1>3, <1>4, <2>1 DEF StoredChunks, Stored
  <2> QED
    BY <1>1, <2>2 DEF Core, Progress
<1>8. NoOrphans'
  <2> SUFFICES ASSUME Reliable, ~past.docsLost PROVE Orphans(chunks'.data, docs.data) = {}
    BY <1>1, <1>4 DEF Core, NoOrphans
  <2>1. Orphans(chunks.data, docs.data) = {} /\ \A d \in rag.batch : docs.data[DocId(d)] # NoDoc
    BY <1>1 DEF Core, NoOrphans, Progress
  <2> QED
    BY <1>2, <1>4, <2>1, NewChunksHaveDocs
<1> QED
  BY <1>5, <1>6, <1>7, <1>8 DEF Core

LEMMA SaveChunksCore == Core /\ SaveChunks => Core'
<1> SUFFICES ASSUME Core, SaveChunks PROVE Core'
  OBVIOUS
<1>1. rag.stage = "chunks" /\ UNCHANGED <<docs, past>> /\ Chunks!Save
  BY DEF SaveChunks, Storing
<1>2. Chunks!TypeOK' /\ chunks'.data = chunks.data /\ ChunksSaved
  BY <1>1, ChunksMoves DEF Core, Typed
<1>3. chunks.data \in Chunks!Map /\ chunks.file \in Chunks!File /\ docs.pc = "ready"
  BY <1>1 DEF Core, Typed, Chunks!TypeOK, Flow
<1>4. \/ chunks'.pc # "ready" /\ rag' = rag
      \/ /\ chunks'.pc = "ready"
         /\ DOMAIN rag' = RagFields /\ rag'.stage = "idle" /\ rag'.batch = {}
         /\ rag'.made = <<>> /\ rag'.tokenizer = rag.tokenizer /\ rag'.size = rag.size
  <2>1. DOMAIN rag = RagFields
    BY DEF Core, Typed, RagTyped
  <2>2. \/ chunks'.pc # "ready" /\ rag' = rag
        \/ /\ chunks'.pc = "ready"
           /\ rag' = [rag EXCEPT !.stage = "idle", !.made = <<>>, !.batch = {},
                        !.outcome = IF chunks'.status = "throw" THEN "throw" ELSE "ok"]
    BY DEF SaveChunks
  <2> QED
    BY <2>1, <2>2 DEF RagFields
<1>5. Typed'
  BY <1>1, <1>2, <1>4, NothingMade DEF Core, Typed, RagTyped, Docs!TypeOK
<1>6. Flow' /\ Opened' /\ SavedFirst' /\ DocValues'
  BY <1>1, <1>2, <1>3, <1>4 DEF Core, Flow, ChunksSaved, Opened, SavedFirst, DocValues, Docs!Dumpable
<1>7. Progress'
  BY <1>1, <1>2, <1>3, <1>4 DEF Core, Progress, ChunksSaved, StoredChunks
<1>8. NoOrphans'
  <2>1. Chunks!Load(chunks'.file) \in {Chunks!Load(chunks.file), chunks.data, Chunks!EmptyMap}
    BY <1>2, <1>3, ChunkMapsOK DEF ChunksSaved
  <2>2. rag'.stage # "down"
    BY <1>1, <1>4
  <2> SUFFICES ASSUME Reliable, ~past.docsLost
               PROVE  /\ Orphans(chunks.data, docs.data) = {}
                      /\ Orphans(Chunks!Load(chunks'.file), docs.data) = {}
                      /\ docs.file.state # "torn" =>
                           /\ Orphans(Chunks!Load(chunks'.file), Docs!Load(docs.file)) = {}
                           /\ Docs!Load(docs.file) = docs.data
    BY <1>1, <1>2, <2>2 DEF NoOrphans
  <2>3. /\ Orphans(chunks.data, docs.data) = {}
        /\ Orphans(Chunks!Load(chunks.file), docs.data) = {}
        /\ docs.file.state # "torn" => Docs!Load(docs.file) = docs.data
    BY <1>1, <1>3 DEF Core, NoOrphans
  <2> QED
    BY <2>1, <2>3, EmptyHasNoOrphans
<1> QED
  BY <1>5, <1>6, <1>7, <1>8 DEF Core

LEMMA ProcessEndsCore == Core /\ ProcessEnds => Core'
<1> SUFFICES ASSUME Core, ProcessEnds PROVE Core'
  OBVIOUS
<1>1. Docs!Crash /\ Chunks!Crash /\ past'.docsLost = (past.docsLost \/ docs.file.state = "torn")
  BY DEF ProcessEnds
<1>2. /\ Docs!TypeOK' /\ docs'.data = Docs!EmptyMap /\ docs'.file = docs.file /\ docs'.pc = "down"
      /\ Chunks!TypeOK' /\ chunks'.data = Chunks!EmptyMap /\ chunks'.file = chunks.file
      /\ chunks'.pc = "down"
  BY <1>1, DocsMoves, ChunksMoves DEF Core, Typed
<1>3. /\ DOMAIN rag' = RagFields /\ rag'.stage = "down" /\ rag'.batch = {} /\ rag'.made = <<>>
      /\ rag'.tokenizer \in Tokenizer /\ rag'.size \in Size
  <2>1. rag' = [FreshRag EXCEPT !.stage = "down"]
    BY DEF ProcessEnds
  <2> QED
    BY <2>1, FreshRagOK DEF RagFields
<1>4. Typed'
  <2>1. DOMAIN past' = PastFields
    BY DEF ProcessEnds, PastFields
  <2> QED
    BY <1>2, <1>3, <2>1, NothingMade DEF Typed, RagTyped
<1>5. Flow' /\ Progress' /\ SavedFirst' /\ Opened'
  BY <1>2, <1>3 DEF Flow, Progress, SavedFirst, Opened
<1>6. DocValues'
  BY <1>2, EmptyOwn DEF Core, DocValues
<1>7. NoOrphans'
  BY <1>1, <1>2, <1>3, EmptyHasNoOrphans DEF Core, NoOrphans
<1> QED
  BY <1>4, <1>5, <1>6, <1>7 DEF Core

LEMMA RestartCore == Core /\ Restart => Core'
<1> SUFFICES ASSUME Core, Restart PROVE Core'
  OBVIOUS
<1>1. rag.stage = "down" /\ Docs!Restart /\ Chunks!Restart /\ rag' = FreshRag /\ past' = past
  BY DEF Restart
<1>2. /\ Docs!TypeOK' /\ docs'.data = Docs!Load(docs.file) /\ docs'.file = docs.file
      /\ docs'.pc = "ready"
      /\ Chunks!TypeOK' /\ chunks'.data = Chunks!Load(chunks.file) /\ chunks'.file = chunks.file
      /\ chunks'.pc = "ready"
  BY <1>1, DocsMoves, ChunksMoves DEF Core, Typed
<1>3. Typed'
  BY <1>1, <1>2, FreshRagOK, NothingMade DEF Core, Typed, RagTyped
<1>4. Flow' /\ Progress' /\ SavedFirst' /\ Opened'
  BY <1>1, <1>2, FreshRagOK DEF Flow, Progress, SavedFirst, Opened
<1>5. DocValues'
  BY <1>2 DEF Core, DocValues
<1>6. NoOrphans'
  BY <1>1, <1>2, FreshRagOK DEF Core, NoOrphans
<1> QED
  BY <1>3, <1>4, <1>5, <1>6 DEF Core

LEMMA NextCore == Core /\ [Next]_vars => Core'
<1> SUFFICES ASSUME Core, [Next]_vars PROVE Core'
  OBVIOUS
<1>1. \/ KeepsInsert \/ Begins \/ ProcessEnds \/ Restart
      \/ StoreDocs \/ SaveDocs \/ StoreChunks \/ SaveChunks
  BY Steps DEF Core, Typed
<1> QED
  BY <1>1, KeepsInsertCore, BeginsCore, ProcessEndsCore, RestartCore, StoreDocsCore,
     SaveDocsCore, StoreChunksCore, SaveChunksCore

LEMMA CoreInvariance == Spec => []Core
  BY InitCore, NextCore, PTL DEF Spec

\* Every stored chunk has its document, in memory and in what a new process would
\* load, unless a process ended while full_docs.json was torn (GraphRAG.hpp:156-157).
THEOREM NoOrphanedChunks == Spec => []ChunksHaveDocs
<1>1. Core => ChunksHaveDocs
  BY DEF Core, NoOrphans, ChunksHaveDocs
<1> QED
  BY <1>1, CoreInvariance, PTL

\* A document that cannot be dumped keeps the object from storing chunks, whatever is
\* inserted later, until the process ends (GraphRAG.hpp:156, JsonKVStorage.hpp:117).
THEOREM PoisonBlocks == Spec => PoisonedDocsBlockChunks
<1>1. ASSUME Core, [Next]_vars, "open" \notin Faults, ~Docs!Dumpable(docs.data), rag'.stage # "down"
      PROVE  chunks'.data = chunks.data
  <2>1. CASE KeepsInsert
    BY <2>1 DEF KeepsInsert
  <2>2. CASE Begins
    BY <2>2 DEF Begins
  <2>3. CASE ProcessEnds
    <3>1. rag' = [FreshRag EXCEPT !.stage = "down"]
      BY <2>3 DEF ProcessEnds
    <3>2. rag'.stage = "down"
      BY <3>1, FreshRagOK DEF RagFields
    <3> QED
      BY <1>1, <3>2
  <2>4. CASE Restart
    <3>1. docs.data = Docs!EmptyMap
      BY <1>1, <2>4 DEF Restart, Core, Flow
    <3>2. NoDoc \notin BadDoc
      BY KeysAssumption DEF BadDoc
    <3>3. Docs!Dumpable(docs.data)
      BY <3>1, <3>2 DEF Docs!Dumpable, Docs!EmptyMap
    <3> QED
      BY <1>1, <3>3
  <2>5. CASE StoreDocs \/ SaveDocs
    BY <2>5 DEF StoreDocs, SaveDocs
  <2>6. CASE StoreChunks
    BY <1>1, <2>6 DEF StoreChunks, Core, SavedFirst
  <2>7. CASE SaveChunks
    BY <1>1, <2>7 DEF SaveChunks, Core, SavedFirst
  <2> QED
    BY <1>1, <2>1, <2>2, <2>3, <2>4, <2>5, <2>6, <2>7, Steps DEF Core, Typed
<1>2. Core /\ [Next]_vars =>
        [("open" \notin Faults /\ ~Docs!Dumpable(docs.data) /\ rag'.stage # "down")
           => chunks'.data = chunks.data]_vars
  BY <1>1
<1> QED
  BY <1>2, CoreInvariance, PTL DEF Spec, PoisonedDocsBlockChunks

-----------------------------------------------------------------------------
\* The vector index: never saved, empty when constructed, filled with a strategy
\* only, and with nothing but what was inserted since it was constructed.
VdbFields == {"exists", "emb", "db", "config", "autoSave", "metas", "index", "found",
              "left", "status"}
Backed ==
  Docs!Dumpable(docs.data)
    => VDB!Indexed(vdb.index) \ vdb.left \subseteq StoredChunks \cup DOMAIN rag.made
Fed == /\ vdb.emb => past.armed
       /\ VDB!Indexed(vdb.index) # {} => vdb.emb
       /\ VDB!Indexed(vdb.index) \subseteq past.since
IndexInv ==
  /\ DOMAIN vdb = VdbFields /\ vfile = VDB!NoVectors /\ ~vdb.autoSave
  /\ ~vdb.emb => vdb.db = "null"
  /\ VDB!Indexed(vdb.index) # {} => rag.stage # "down"
  /\ Backed /\ Fed

LEMMA NothingIndexed == VDB!Indexed(VDB!NoVectors) = {}
  BY DEF VDB!Indexed, VDB!NoVectors

LEMMA NoObjectOK ==
  /\ DOMAIN VDB!NoObject = VdbFields /\ ~VDB!NoObject.exists /\ ~VDB!NoObject.emb
  /\ VDB!NoObject.db = "null" /\ ~VDB!NoObject.autoSave
  /\ VDB!NoObject.index = VDB!NoVectors /\ VDB!NoObject.left = {}
  BY DEF VDB!NoObject, VdbFields

LEMMA NoAnswerOK == DOMAIN NoAnswer = {"kind", "mode", "ids", "top_k", "budget"} /\ NoAnswer.kind = "none"
  BY DEF NoAnswer

\* What the operations of the index do to it.
Keeps == /\ DOMAIN vdb' = VdbFields /\ vfile' = vfile /\ vdb'.autoSave = vdb.autoSave
         /\ vdb'.emb = vdb.emb /\ vdb'.db = vdb.db /\ vdb'.index = vdb.index
         /\ vdb'.left = vdb.left
Grows(ids) ==
  /\ DOMAIN vdb' = VdbFields /\ vfile' = vfile /\ ~vdb'.autoSave
  /\ ~vdb'.emb => vdb'.db = "null"
  /\ vdb'.emb = vdb.emb
  /\ VDB!Indexed(vdb'.index) \subseteq VDB!Indexed(vdb.index) \cup ids
  /\ VDB!Indexed(vdb'.index) # {} => vdb'.emb

LEMMA Constructed ==
  ASSUME IndexInv, NEW emb, VDB!Construct(emb, FALSE)
  PROVE  /\ DOMAIN vdb' = VdbFields /\ vfile' = vfile /\ ~vdb'.autoSave
         /\ ~vdb'.emb => vdb'.db = "null"
         /\ vdb'.emb = emb /\ VDB!Indexed(vdb'.index) = {}
<1> DEFINE found == IF emb THEN VDB!Indexed(vfile) ELSE {}
<1>1. /\ vdb' = [VDB!NoObject EXCEPT !.exists = TRUE, !.emb = emb, !.config = FALSE,
                   !.db = IF emb THEN "early" ELSE "null", !.autoSave = emb /\ FALSE,
                   !.index = IF emb THEN vfile ELSE VDB!NoVectors, !.found = found]
      /\ vfile' = vfile
  BY DEF VDB!Construct
<1> HIDE DEF found
<1>2. /\ DOMAIN vdb' = VdbFields /\ ~vdb'.autoSave /\ vdb'.emb = emb
      /\ vdb'.db = IF emb THEN "early" ELSE "null"
      /\ vdb'.index = IF emb THEN vfile ELSE VDB!NoVectors
  BY <1>1, NoObjectOK DEF VdbFields
<1> QED
  BY <1>1, <1>2, NothingIndexed DEF IndexInv

\* upsert(), before the index is given anything.
LEMMA UpsertedOK ==
  ASSUME IndexInv, NEW ids
  PROVE  /\ DOMAIN VDB!Upserted(ids) = VdbFields
         /\ VDB!Upserted(ids).autoSave = vdb.autoSave /\ VDB!Upserted(ids).emb = vdb.emb
         /\ VDB!Upserted(ids).left = vdb.left
         /\ ~vdb.emb => VDB!Upserted(ids).db = "null"
         /\ VDB!Indexed(VDB!Before) \subseteq VDB!Indexed(vdb.index)
<1> DEFINE db == IF VDB!Late THEN "late" ELSE vdb.db
           found == IF VDB!Late THEN VDB!Indexed(vfile) ELSE vdb.found
<1>1. VDB!Upserted(ids)
        = [vdb EXCEPT !.metas = VDB!Captured(ids), !.db = db, !.found = found]
  BY DEF VDB!Upserted
<1>2. ~vdb.emb => db = "null"
  BY DEF VDB!Late, IndexInv
<1>3. VDB!Indexed(VDB!Before) \subseteq VDB!Indexed(vdb.index)
  BY NothingIndexed DEF VDB!Before, IndexInv
<1> HIDE DEF db, found
<1> QED
  BY <1>1, <1>2, <1>3 DEF IndexInv, VdbFields

LEMMA DbExtended ==
  ASSUME NEW index, NEW vectors
  PROVE  VDB!Indexed(VDB!DbUpsert(index, vectors)) \subseteq VDB!Indexed(index) \cup DOMAIN vectors
  BY DEF VDB!Indexed, VDB!DbUpsert

LEMMA Extended ==
  ASSUME IndexInv, NEW vectors, VDB!UpsertReturns(vectors)
  PROVE  /\ Grows(DOMAIN vectors)
         /\ VDB!Indexed(vdb'.index) \ vdb'.left
              \subseteq (VDB!Indexed(vdb.index) \ vdb.left) \cup DOMAIN vectors
<1> DEFINE ids == DOMAIN vectors
           u == VDB!Upserted(ids)
           base == VDB!Before
           index == IF vdb.emb \/ vdb.db # "null" THEN VDB!DbUpsert(base, vectors) ELSE vdb.index
           left == IF vdb.autoSave THEN {} ELSE u.left \ ids
<1>1. /\ vdb' = IF ids = {} THEN [vdb EXCEPT !.status = "ok"]
                ELSE [u EXCEPT !.status = "ok", !.index = index, !.left = left]
      /\ vfile' = IF ids # {} /\ vdb.autoSave THEN index ELSE vfile
  BY DEF VDB!UpsertReturns
<1>2. DOMAIN vdb = VdbFields /\ ~vdb.autoSave /\ (~vdb.emb => vdb.db = "null")
  BY DEF IndexInv
<1>3. /\ DOMAIN u = VdbFields /\ u.autoSave = vdb.autoSave /\ u.emb = vdb.emb
      /\ left = vdb.left \ ids /\ (~vdb.emb => u.db = "null")
      /\ VDB!Indexed(base) \subseteq VDB!Indexed(vdb.index)
  BY <1>2, UpsertedOK
<1> HIDE DEF u, base, left
<1>4. VDB!Indexed(index) \subseteq VDB!Indexed(vdb.index) \cup ids
  BY <1>3, DbExtended
<1>5. ~vdb.emb => index = vdb.index
  BY <1>2
<1> HIDE DEF index, ids
<1>6. CASE ids = {}
  <2>1. Keeps
    BY <1>1, <1>2, <1>6 DEF Keeps, VdbFields
  <2> QED
    BY <1>2, <1>6, <2>1 DEF Keeps, Grows, IndexInv, Fed, ids
<1>7. CASE ids # {}
  <2>1. /\ DOMAIN vdb' = VdbFields /\ vdb'.autoSave = u.autoSave /\ vdb'.emb = u.emb
        /\ vdb'.db = u.db /\ vdb'.index = index /\ vdb'.left = left /\ vfile' = vfile
    BY <1>1, <1>2, <1>3, <1>7 DEF VdbFields
  <2>2. VDB!Indexed(vdb'.index) # {} => vdb'.emb
    BY <1>3, <1>5, <2>1 DEF IndexInv, Fed
  <2>3. Grows(ids)
    BY <1>2, <1>3, <1>4, <2>1, <2>2 DEF Grows
  <2>4. VDB!Indexed(vdb'.index) \ vdb'.left \subseteq (VDB!Indexed(vdb.index) \ vdb.left) \cup ids
    BY <1>3, <1>4, <2>1
  <2> QED
    BY <2>3, <2>4 DEF ids
<1> QED
  BY <1>6, <1>7

LEMMA Stopped ==
  ASSUME IndexInv, NEW vectors, VDB!UpsertStops(vectors)
  PROVE  /\ Grows(DOMAIN vectors)
         /\ VDB!Indexed(vdb'.index) \ vdb'.left \subseteq VDB!Indexed(vdb.index) \ vdb.left
<1> DEFINE u == VDB!Upserted(DOMAIN vectors)
           base == VDB!Before
<1>1. PICK part \in SUBSET DOMAIN vectors :
        vdb' = [u EXCEPT !.status = "throw", !.left = @ \cup part,
                         !.index = VDB!DbUpsert(base, [i \in part |-> vectors[i]])]
  BY DEF VDB!UpsertStops
<1>2. vfile' = vfile /\ (vdb.emb \/ vdb.db # "null")
  BY DEF VDB!UpsertStops
<1>3. DOMAIN vdb = VdbFields /\ ~vdb.autoSave /\ vdb.emb
  BY <1>2 DEF IndexInv
<1>4. /\ DOMAIN u = VdbFields /\ u.autoSave = vdb.autoSave /\ u.emb = vdb.emb
      /\ u.left = vdb.left
      /\ VDB!Indexed(base) \subseteq VDB!Indexed(vdb.index)
  BY UpsertedOK
<1> DEFINE index == VDB!DbUpsert(base, [i \in part |-> vectors[i]])
<1>5. VDB!Indexed(index) \subseteq VDB!Indexed(vdb.index) \cup part
  <2>1. VDB!Indexed(index) \subseteq VDB!Indexed(base) \cup DOMAIN [i \in part |-> vectors[i]]
    BY DbExtended
  <2> QED
    BY <1>4, <2>1
<1>6. vdb' = [u EXCEPT !.status = "throw", !.left = @ \cup part, !.index = index]
  BY <1>1
<1> HIDE DEF u, base, index
<1>7. /\ DOMAIN vdb' = VdbFields /\ vdb'.autoSave = u.autoSave /\ vdb'.emb = u.emb
      /\ vdb'.index = index /\ vdb'.left = u.left \cup part
  BY <1>4, <1>6 DEF VdbFields
<1> QED
  BY <1>2, <1>3, <1>4, <1>5, <1>7 DEF Grows

LEMMA Asked ==
  ASSUME IndexInv
  PROVE  /\ \A ids : VDB!UpsertThrows(ids) => Keeps
         /\ VDB!QueryThrows => Keeps
         /\ \A top_k : VDB!QueryReturns(top_k) =>
              Keeps /\ (vdb.db = "null" => DOMAIN hits' = {})
<1>0. DOMAIN vdb = VdbFields
  BY DEF IndexInv
<1>1. ASSUME NEW ids, VDB!UpsertThrows(ids) PROVE Keeps
  BY <1>0, <1>1 DEF VDB!UpsertThrows, Keeps, VdbFields
<1>2. ASSUME VDB!QueryThrows PROVE Keeps
  BY <1>0, <1>2 DEF VDB!QueryThrows, Keeps, VdbFields
<1>3. ASSUME NEW top_k, VDB!QueryReturns(top_k)
      PROVE  Keeps /\ (vdb.db = "null" => DOMAIN hits' = {})
  <2> DEFINE hit(ids) == {ids[r] : r \in DOMAIN ids}
             metas(ids) == [i \in ChunkKey |->
                              IF i \in hit(ids) /\ vdb.metas[i] = "missing" THEN "blank" ELSE vdb.metas[i]]
  <2>1. PICK ids \in IF vdb.db = "null" THEN {<<>>} ELSE VDB!DbQuery(vdb.index, top_k) :
          /\ vdb' = [vdb EXCEPT !.metas = metas(ids), !.status = "ok"]
          /\ hits' = [r \in DOMAIN ids |-> [id |-> ids[r], meta |-> metas(ids)[ids[r]]]]
    BY <1>3 DEF VDB!QueryReturns
  <2> HIDE DEF metas
  <2>2. Keeps
    <3>1. vfile' = vfile
      BY <1>3 DEF VDB!QueryReturns
    <3> QED
      BY <1>0, <2>1, <3>1 DEF Keeps, VdbFields
  <2>3. vdb.db = "null" => DOMAIN hits' = {}
    BY <2>1
  <2> QED
    BY <2>2, <2>3
<1> QED
  BY <1>1, <1>2, <1>3

-----------------------------------------------------------------------------
\* Steps that store no chunks, and those of them that leave the index alone.
LEMMA QuietIndex ==
  ASSUME IndexInv, KeepsInsert, DOMAIN vdb' = VdbFields, vfile' = vfile, ~vdb'.autoSave,
         ~vdb'.emb => vdb'.db = "null",
         VDB!Indexed(vdb'.index) # {} => rag.stage # "down",
         VDB!Indexed(vdb'.index) \ vdb'.left \subseteq VDB!Indexed(vdb.index) \ vdb.left,
         Fed'
  PROVE  IndexInv'
<1>1. docs' = docs /\ chunks' = chunks /\ rag'.stage = rag.stage /\ rag'.made = rag.made
  BY DEF KeepsInsert
<1>2. VDB!Indexed(vdb'.index) # {} => rag'.stage # "down"
  BY <1>1
<1>3. Backed'
  BY <1>1 DEF IndexInv, Backed, StoredChunks
<1> QED
  BY <1>2, <1>3 DEF IndexInv

LEMMA SameIndex ==
  ASSUME IndexInv, KeepsInsert, Keeps, past' = past
  PROVE  IndexInv'
<1>1. Fed'
  BY DEF IndexInv, Fed, Keeps
<1> QED
  BY <1>1, QuietIndex DEF IndexInv, Keeps

LEMMA UnchangedKeeps == IndexInv /\ UNCHANGED <<vdb, vfile>> => Keeps
  BY DEF IndexInv, Keeps

LEMMA SettersIndex ==
  ASSUME Core, IndexInv
  PROVE  /\ Setter => IndexInv'
         /\ \A v \in BOOLEAN : EnableNaive(v) => IndexInv'
<1>1. ASSUME Setter PROVE IndexInv'
  <2>1. UNCHANGED <<vdb, vfile, past>>
    BY <1>1 DEF Setter, SetEmbeddingStrategy, SetLlmStrategy, SetTokenizer, SetChunkParams,
                Settings
  <2>2. KeepsInsert
    BY <1>1, SettersKeep DEF Core, Typed
  <2> QED
    BY <2>1, <2>2, SameIndex, UnchangedKeeps
<1>2. ASSUME NEW v \in BOOLEAN, EnableNaive(v) PROVE IndexInv'
  <2>1. vfile' = vfile
        /\ past' = IF v THEN [past EXCEPT !.armed = rag.strategy, !.since = {}] ELSE past
    BY <1>2 DEF EnableNaive, Settings
  <2>2. KeepsInsert
    BY <1>2, SettersKeep DEF Core, Typed
  <2>4. CASE v
    <3>1. VDB!Construct(rag.strategy, FALSE)
      BY <1>2, <2>4 DEF EnableNaive
    <3>2. /\ DOMAIN vdb' = VdbFields /\ ~vdb'.autoSave /\ (~vdb'.emb => vdb'.db = "null")
          /\ vdb'.emb = rag.strategy /\ VDB!Indexed(vdb'.index) = {}
      BY <3>1, Constructed
    <3>3. past'.armed = rag.strategy
      BY <2>1, <2>4 DEF Core, Typed, RagTyped, PastFields
    <3>4. Fed'
      BY <3>2, <3>3 DEF Fed
    <3> QED
      BY <2>1, <2>2, <3>2, <3>4, QuietIndex
  <2>5. CASE ~v
    <3>1. vdb' = vdb /\ past' = past
      BY <1>2, <2>1, <2>5 DEF EnableNaive
    <3> QED
      BY <2>1, <2>2, <3>1, SameIndex, UnchangedKeeps
  <2> QED
    BY <2>4, <2>5
<1> QED
  BY <1>1, <1>2

\* What an insert puts into the index was inserted since it was constructed.
LEMMA FedByInsert ==
  ASSUME Core, IndexInv, NEW order, Indexing(order), Grows(DOMAIN ChunksOf(order))
  PROVE  Fed'
<1>1. past' = [past EXCEPT !.since = @ \cup DOMAIN ChunksOf(order)] /\ DOMAIN past = PastFields
  BY DEF Indexing, Core, Typed, RagTyped
<1>2. past'.armed = past.armed /\ past'.since = past.since \cup DOMAIN ChunksOf(order)
  BY <1>1 DEF PastFields
<1> QED
  BY <1>2 DEF Fed, IndexInv, Grows

LEMMA InsertIndex ==
  ASSUME Core, IndexInv, NEW order \in SetToAllKPermutations(Document),
         InsertUnindexed(order) \/ InsertIndexed(order) \/ InsertThrows(order)
  PROVE  IndexInv'
<1> DEFINE vectors == Vectors(order)
<1>0. RagTyped /\ rag.stage # "down" /\ DOMAIN vectors = DOMAIN ChunksOf(order)
  BY DEF InsertUnindexed, InsertIndexed, InsertThrows, Indexing, MayInsert, Called, Idle, Core,
         Typed, Vectors
<1> HIDE DEF vectors
<1>2. CASE InsertThrows(order)
  <2>1. KeepsInsert /\ Indexing(order)
    BY <1>0, <1>2, InsertBegins DEF InsertThrows
  <2>2. Grows(DOMAIN ChunksOf(order))
        /\ VDB!Indexed(vdb'.index) \ vdb'.left \subseteq VDB!Indexed(vdb.index) \ vdb.left
    <3>1. CASE VDB!UpsertThrows(DOMAIN ChunksOf(order))
      BY <3>1, Asked DEF Keeps, Grows, IndexInv, Fed
    <3>2. CASE VDB!UpsertStops(vectors)
      BY <1>0, <3>2, Stopped
    <3> QED
      BY <1>2, <3>1, <3>2 DEF InsertThrows, vectors
  <2>3. Fed'
    BY <2>1, <2>2, FedByInsert
  <2> QED
    BY <1>0, <2>1, <2>2, <2>3, QuietIndex DEF Grows
<1>3. CASE InsertUnindexed(order) \/ InsertIndexed(order)
  <2>1. Begins /\ rag'.made = ChunksOf(order)
    BY <1>0, <1>3, InsertBegins
  <2>2. rag.made = <<>> /\ docs' = docs /\ chunks' = chunks /\ rag'.stage = "docs"
    BY <2>1 DEF Begins, Core, Flow, Idle
  <2>3. /\ Grows(DOMAIN ChunksOf(order)) /\ Fed'
        /\ VDB!Indexed(vdb'.index) \ vdb'.left
             \subseteq (VDB!Indexed(vdb.index) \ vdb.left) \cup DOMAIN ChunksOf(order)
    <3>1. CASE InsertUnindexed(order)
      <4>1. UNCHANGED <<vdb, vfile, past>>
        BY <3>1 DEF InsertUnindexed
      <4> QED
        BY <4>1 DEF IndexInv, Grows, Fed
    <3>2. CASE InsertIndexed(order)
      <4>1. VDB!UpsertReturns(vectors) /\ Indexing(order)
        BY <3>2 DEF InsertIndexed, vectors
      <4>2. Grows(DOMAIN ChunksOf(order))
            /\ VDB!Indexed(vdb'.index) \ vdb'.left
                 \subseteq (VDB!Indexed(vdb.index) \ vdb.left) \cup DOMAIN ChunksOf(order)
        BY <1>0, <4>1, Extended
      <4> QED
        BY <4>1, <4>2, FedByInsert
    <3> QED
      BY <1>3, <3>1, <3>2
  <2>4. DOMAIN rag.made = {}
    BY <2>2
  <2>5. Backed'
    BY <2>1, <2>2, <2>3, <2>4 DEF IndexInv, Backed, StoredChunks
  <2> QED
    BY <2>2, <2>3, <2>5 DEF IndexInv, Grows
<1> QED
  BY <1>2, <1>3

LEMMA QueryIndex ==
  ASSUME Core, IndexInv, NEW mode \in Mode, NEW top_k, NEW budget,
         QuerySorry(mode) \/ QueryThrows(mode) \/ Query(mode, top_k, budget)
  PROVE  IndexInv'
<1>1. KeepsInsert
  BY QueriesKeep DEF Core, Typed
<1>2. past' = past
  BY DEF QuerySorry, QueryThrows, Query, Asking
<1>3. Keeps
  BY Asked, UnchangedKeeps DEF QuerySorry, QueryThrows, Query
<1> QED
  BY <1>1, <1>2, <1>3, SameIndex

LEMMA StoreIndex == Core /\ IndexInv /\ Store => IndexInv'
<1> SUFFICES ASSUME Core, IndexInv, Store PROVE IndexInv'
  OBVIOUS
<1>1. UNCHANGED <<vdb, vfile, past>>
  BY DEF Store, StoreDocs, SaveDocs, StoreChunks, SaveChunks, Storing
<1>2. Fed'
  BY <1>1 DEF IndexInv, Fed
<1>3. rag'.stage # "down"
  <2>1. DOMAIN rag = RagFields /\ rag.stage \in {"docs", "chunks"}
    BY DEF Core, Typed, RagTyped, Store, StoreDocs, SaveDocs, StoreChunks, SaveChunks
  <2> QED
    BY <2>1 DEF Store, StoreDocs, SaveDocs, StoreChunks, SaveChunks, RagFields
<1>4. Backed'
  <2>1. CASE StoreDocs
    <3>1. Docs!Upsert(DocsOf(rag.batch)) /\ UNCHANGED <<chunks, rag>>
      BY <2>1 DEF StoreDocs, DocsOf
    <3>2. /\ Docs!TypeOK /\ docs.data \in Docs!Map /\ OwnDocs(docs.data)
          /\ rag.batch \in SUBSET Document
      BY DEF Core, Typed, Docs!TypeOK, RagTyped, DocValues
    <3>3. DocsOf(rag.batch) \in Docs!Map
      BY <3>2, DocsMerged
    <3>4. docs'.data = Docs!Merge(docs.data, DocsOf(rag.batch))
      BY <3>1, <3>2, <3>3, DocsMoves
    <3>5. Docs!Dumpable(docs'.data) => Docs!Dumpable(docs.data)
      BY <3>2, <3>4, PoisonStays
    <3> QED
      BY <1>1, <3>1, <3>5 DEF IndexInv, Backed, StoredChunks
  <2>2. CASE SaveDocs
    <3>1. Docs!Save /\ chunks' = chunks
      BY <2>2 DEF SaveDocs
    <3>2. docs'.data = docs.data /\ DocsSaved
      BY <3>1, DocsMoves DEF Core, Typed
    <3>3. docs'.status = "throw" /\ docs'.pc = "ready" => ~Docs!Dumpable(docs.data)
      BY <3>2 DEF DocsSaved
    <3>4. rag'.made = rag.made \/ ~Docs!Dumpable(docs.data)
      BY <2>2, <3>3 DEF SaveDocs, Core, Typed, RagTyped, RagFields
    <3> QED
      BY <1>1, <3>1, <3>2, <3>4 DEF IndexInv, Backed, StoredChunks
  <2>3. CASE StoreChunks
    <3>1. Chunks!Upsert(ChunksMade) /\ UNCHANGED <<docs, rag>>
      BY <2>3 DEF StoreChunks, ChunksMade
    <3>2. Typed /\ Chunks!TypeOK
      BY DEF Core, Typed
    <3>3. /\ ChunksMade \in Chunks!Map
          /\ \A k \in ChunkKey : Chunks!Merge(chunks.data, ChunksMade)[k]
                                   = IF k \in DOMAIN rag.made THEN rag.made[k] ELSE chunks.data[k]
          /\ \A k \in DOMAIN rag.made : Chunks!Merge(chunks.data, ChunksMade)[k] # NoChunk
      BY <3>2, ChunksMerged
    <3>4. chunks'.data = Chunks!Merge(chunks.data, ChunksMade)
      BY <3>1, <3>2, <3>3, ChunksMoves
    <3>5. DOMAIN chunks'.data = ChunkKey /\ DOMAIN chunks.data = ChunkKey
      BY <3>2, <3>4 DEF Chunks!Merge, Chunks!TypeOK, Chunks!Map
    <3>6. StoredChunks \subseteq StoredChunks'
      BY <3>3, <3>4, <3>5 DEF StoredChunks, Stored
    <3> QED
      BY <1>1, <3>1, <3>6 DEF IndexInv, Backed
  <2>4. CASE SaveChunks
    <3>1. Chunks!Save /\ docs' = docs
      BY <2>4 DEF SaveChunks
    <3>2. chunks'.data = chunks.data /\ chunks.pc \in {"saving", "opened"}
      BY <3>1, ChunksMoves DEF Core, Typed, ChunksSaved
    <3>3. DOMAIN rag.made \subseteq StoredChunks
      BY <3>2 DEF Core, Progress
    <3> QED
      BY <1>1, <3>1, <3>2, <3>3 DEF IndexInv, Backed, StoredChunks
  <2> QED
    BY <2>1, <2>2, <2>3, <2>4 DEF Store
<1> QED
  BY <1>1, <1>2, <1>3, <1>4 DEF IndexInv

LEMMA EndIndex == IndexInv /\ ProcessEnds => IndexInv'
<1> SUFFICES ASSUME IndexInv, ProcessEnds PROVE IndexInv'
  OBVIOUS
<1>1. vdb' = VDB!NoObject /\ vfile' = vfile
  BY DEF ProcessEnds
<1>2. VDB!Indexed(vdb'.index) = {}
  BY <1>1, NoObjectOK, NothingIndexed
<1>3. Fed' /\ Backed'
  BY <1>1, <1>2, NoObjectOK DEF Fed, Backed
<1> QED
  BY <1>1, <1>2, <1>3, NoObjectOK DEF IndexInv

LEMMA RestartIndex == IndexInv /\ Restart => IndexInv'
<1> SUFFICES ASSUME IndexInv, Restart PROVE IndexInv'
  OBVIOUS
<1>1. rag.stage = "down" /\ UNCHANGED <<vdb, vfile, past>>
  BY DEF Restart
<1>2. VDB!Indexed(vdb'.index) = {}
  BY <1>1 DEF IndexInv
<1> QED
  BY <1>1, <1>2 DEF IndexInv, Backed, Fed

LEMMA InitIndex == Init => IndexInv
<1> SUFFICES ASSUME Init PROVE IndexInv
  OBVIOUS
<1>1. vdb = VDB!NoObject /\ vfile = VDB!NoVectors
  BY DEF Init, VDB!Init
<1> QED
  BY <1>1, NoObjectOK, NothingIndexed DEF IndexInv, Backed, Fed

LEMMA NextIndex == Core /\ IndexInv /\ [Next]_vars => IndexInv'
<1> SUFFICES ASSUME Core, IndexInv, [Next]_vars PROVE IndexInv'
  OBVIOUS
<1>1. CASE Setter \/ \E v \in BOOLEAN : EnableNaive(v)
  BY <1>1, SettersIndex
<1>2. ASSUME NEW order \in SetToAllKPermutations(Document), Insert(order) PROVE IndexInv'
  <2>1. CASE InsertChokes(order)
    <3>1. ASSUME rag' = [rag EXCEPT !.outcome = "throw"] /\ UNCHANGED <<docs, chunks, vdb, vfile, past>>
          PROVE  IndexInv'
      <4>1. KeepsInsert
        BY <3>1 DEF Core, Typed, KeepsInsert, KeepsLosses, RagTyped, RagFields
      <4> QED
        BY <3>1, <4>1, SameIndex, UnchangedKeeps
    <3> QED
      BY <2>1, <3>1, EndIndex DEF InsertChokes
  <2> QED
    BY <1>2, <2>1, InsertIndex, EndIndex DEF Insert, InsertDies
<1>3. CASE Store
  BY <1>3, StoreIndex
<1>4. ASSUME NEW mode \in Mode,
             \/ QuerySorry(mode) \/ QueryThrows(mode)
             \/ \E top_k \in TopK, budget \in Budget : Query(mode, top_k, budget)
      PROVE  IndexInv'
  BY <1>4, QueryIndex
<1>5. CASE Crash \/ Restart
  BY <1>5, EndIndex, RestartIndex DEF Crash
<1>6. CASE UNCHANGED vars
  BY <1>6 DEF vars, IndexInv, Backed, Fed, StoredChunks
<1> QED
  BY <1>1, <1>2, <1>3, <1>4, <1>5, <1>6 DEF Next, Setter

LEMMA IndexInvariance == Spec => []IndexInv
  BY CoreInvariance, InitIndex, NextIndex, PTL DEF Spec

\* What the index refers to is stored or about to be, but for what an upsert that
\* threw left there, and unless a document that cannot be dumped is in memory
\* (GraphRAG.hpp:152,156-157).
THEOREM IndexIsBacked == Spec => []IndexBacked
<1>1. IndexInv => IndexBacked
  BY DEF IndexInv, Backed, IndexBacked
<1> QED
  BY <1>1, IndexInvariance, PTL

-----------------------------------------------------------------------------
\* Documents whose chunks are all among these.
Has(map, ids) == \A k \in DocKey : map[k] # NoDoc => Covered(k.hash, ids)
HasOrMakes(map, batch, ids) ==
  \A k \in DocKey : map[k] # NoDoc => k.hash \in batch \/ Covered(k.hash, ids)
ChunksLoaded == Stored(Chunks!Load(chunks.file), NoChunk)

\* Of the stored documents: what an insert in progress has yet to store, and what a
\* new process would find.
Whole ==
  (Reliable /\ ~past.chunksLost) =>
    /\ rag.stage = "idle" => (Docs!Dumpable(docs.data) => Has(docs.data, StoredChunks))
    /\ (rag.stage = "docs" \/ (rag.stage = "chunks" /\ chunks.pc = "ready"))
         => (Docs!Dumpable(docs.data) => HasOrMakes(docs.data, rag.batch, StoredChunks))
    /\ (rag.stage = "chunks" /\ chunks.pc # "ready") => Has(docs.data, StoredChunks)
    /\ rag.stage = "chunks" => Docs!Load(docs.file) = docs.data
    /\ rag.stage \in {"idle", "docs"} => Has(Docs!Load(docs.file), StoredChunks)
    /\ (rag.stage \in {"idle", "docs"} /\ chunks.file.state # "torn")
         => Chunks!Load(chunks.file) = chunks.data
    /\ rag.stage = "down" => Has(Docs!Load(docs.file), ChunksLoaded)
    /\ chunks.pc = "opened" => chunks.file.state = "torn"

LEMMA MoreCovered ==
  ASSUME NEW d, NEW few, NEW many, few \subseteq many, Covered(d, few)
  PROVE  Covered(d, many)
  BY DEF Covered

LEMMA EmptyHas == \A ids : Has(Docs!EmptyMap, ids)
  BY DEF Has, Docs!EmptyMap

LEMMA InitWhole == Init => Whole
<1> SUFFICES ASSUME Init PROVE Whole
  OBVIOUS
<1>1. docs = Docs!Fresh(Docs!NoFile) /\ chunks = Chunks!Fresh(Chunks!NoFile) /\ rag = FreshRag
  BY DEF Init, Docs!Init, Chunks!Init
<1>2. /\ docs.data = Docs!EmptyMap /\ docs.file = Docs!NoFile
      /\ chunks.data = Chunks!EmptyMap /\ chunks.file = Chunks!NoFile /\ chunks.pc = "ready"
  BY <1>1, DocMapsOK, ChunkMapsOK DEF Docs!Fresh, Chunks!Fresh
<1> QED
  BY <1>1, <1>2, FreshRagOK, DocMapsOK, ChunkMapsOK, EmptyHas DEF Whole

LEMMA KeepsInsertWhole == Core /\ Whole /\ KeepsInsert => Whole'
<1> SUFFICES ASSUME Core, Whole, KeepsInsert PROVE Whole'
  OBVIOUS
<1>1. /\ docs' = docs /\ chunks' = chunks /\ past'.chunksLost = past.chunksLost
      /\ rag'.stage = rag.stage /\ rag'.batch = rag.batch
  BY DEF KeepsInsert, KeepsLosses
<1>2. StoredChunks' = StoredChunks /\ ChunksLoaded' = ChunksLoaded
  BY <1>1 DEF StoredChunks, ChunksLoaded
<1> QED
  BY <1>1, <1>2 DEF Whole

LEMMA BeginsWhole == Core /\ Whole /\ Begins => Whole'
<1> SUFFICES ASSUME Core, Whole, Begins PROVE Whole'
  OBVIOUS
<1>1. /\ docs' = docs /\ chunks' = chunks /\ past'.chunksLost = past.chunksLost
      /\ rag.stage = "idle" /\ rag'.stage = "docs" /\ chunks.pc = "ready"
  BY DEF Begins, KeepsLosses, Idle, Core, Flow
<1>2. StoredChunks' = StoredChunks
  BY <1>1 DEF StoredChunks
<1>3. Has(docs.data, StoredChunks) => HasOrMakes(docs.data, rag'.batch, StoredChunks)
  BY DEF Has, HasOrMakes
<1> QED
  BY <1>1, <1>2, <1>3 DEF Whole

LEMMA StoreDocsWhole == Core /\ Whole /\ StoreDocs => Whole'
<1> SUFFICES ASSUME Core, Whole, StoreDocs PROVE Whole'
  OBVIOUS
<1>1. rag.stage = "docs" /\ UNCHANGED <<chunks, rag, past>> /\ Docs!Upsert(DocsOf(rag.batch))
  BY DEF StoreDocs, Storing, DocsOf
<1>2. Docs!TypeOK /\ docs.data \in Docs!Map /\ OwnDocs(docs.data) /\ rag.batch \in SUBSET Document
  BY DEF Core, Typed, Docs!TypeOK, RagTyped, DocValues
<1>3. DocsOf(rag.batch) \in Docs!Map
  BY <1>2, DocsMerged
<1>4. docs'.data = Docs!Merge(docs.data, DocsOf(rag.batch)) /\ docs'.file = docs.file
  BY <1>1, <1>2, <1>3, DocsMoves
<1>5. Docs!Dumpable(docs'.data) => Docs!Dumpable(docs.data)
  BY <1>2, <1>4, PoisonStays
<1>6. HasOrMakes(docs.data, rag.batch, StoredChunks) => HasOrMakes(docs'.data, rag.batch, StoredChunks)
  <2> SUFFICES ASSUME HasOrMakes(docs.data, rag.batch, StoredChunks),
                      NEW k \in DocKey, docs'.data[k] # NoDoc, k.hash \notin rag.batch
               PROVE  Covered(k.hash, StoredChunks)
    BY DEF HasOrMakes
  <2>1. docs'.data[k] = docs.data[k]
    BY <1>4 DEF Docs!Merge, DocsOf
  <2> QED
    BY <2>1 DEF HasOrMakes
<1>7. StoredChunks' = StoredChunks
  BY <1>1 DEF StoredChunks
<1> QED
  BY <1>1, <1>4, <1>5, <1>6, <1>7 DEF Whole

LEMMA SaveDocsWhole == Core /\ Whole /\ SaveDocs => Whole'
<1> SUFFICES ASSUME Core, Whole, SaveDocs, Reliable, ~past.chunksLost PROVE Whole'
  BY DEF SaveDocs, Storing, Whole
<1>1. rag.stage = "docs" /\ UNCHANGED <<chunks, past>> /\ Docs!Save
  BY DEF SaveDocs, Storing
<1>2. docs'.data = docs.data /\ DocsSaved
  BY <1>1, DocsMoves DEF Core, Typed
<1>3. /\ docs.data \in Docs!Map /\ docs.file \in Docs!File /\ chunks.pc = "ready"
  BY <1>1 DEF Core, Typed, Docs!TypeOK, Flow
<1>4. \/ docs'.pc # "ready" /\ rag' = rag
      \/ docs'.pc = "ready" /\ docs'.status # "throw" /\ rag'.stage = "chunks" /\ rag'.batch = rag.batch
      \/ docs'.pc = "ready" /\ docs'.status = "throw" /\ rag'.stage = "idle"
  BY DEF SaveDocs, Core, Typed, RagTyped, RagFields
<1>5. \/ docs'.pc # "ready" /\ docs'.file = Docs!TornFile
      \/ docs'.pc = "ready" /\ docs'.status = "throw" /\ docs'.file = Docs!TornFile /\ ~Docs!Dumpable(docs.data)
      \/ docs'.pc = "ready" /\ docs'.status # "throw" /\ docs'.file = Docs!WholeFile(docs.data)
  BY <1>2 DEF DocsSaved, Reliable, Core, Opened
<1>6. StoredChunks' = StoredChunks /\ (Docs!Dumpable(docs.data) => HasOrMakes(docs.data, rag.batch, StoredChunks))
  BY <1>1 DEF StoredChunks, Whole
<1>7. rag'.stage # "idle" => rag'.batch = rag.batch
  BY <1>1, <1>4
<1> QED
  BY <1>1, <1>2, <1>3, <1>4, <1>5, <1>6, <1>7, DocMapsOK, EmptyHas DEF Whole

LEMMA StoreChunksWhole == Core /\ Whole /\ StoreChunks => Whole'
<1> SUFFICES ASSUME Core, Whole, StoreChunks, Reliable, ~past.chunksLost PROVE Whole'
  BY DEF StoreChunks, Storing, Whole
<1>1. rag.stage = "chunks" /\ UNCHANGED <<docs, rag, past>> /\ Chunks!Upsert(ChunksMade)
  BY DEF StoreChunks, Storing, ChunksMade
<1>2. Typed /\ Chunks!TypeOK /\ MadeOf(rag.made, rag.batch)
  BY DEF Core, Typed, RagTyped
<1>3. /\ ChunksMade \in Chunks!Map
      /\ \A k \in ChunkKey : Chunks!Merge(chunks.data, ChunksMade)[k]
                               = IF k \in DOMAIN rag.made THEN rag.made[k] ELSE chunks.data[k]
      /\ \A k \in DOMAIN rag.made : Chunks!Merge(chunks.data, ChunksMade)[k] # NoChunk
  BY <1>2, ChunksMerged
<1>4. /\ chunks'.data = Chunks!Merge(chunks.data, ChunksMade)
      /\ chunks'.file = chunks.file /\ chunks.pc = "ready" /\ chunks'.pc = "saving"
  BY <1>1, <1>2, <1>3, ChunksMoves
<1>5. DOMAIN chunks'.data = ChunkKey /\ DOMAIN chunks.data = ChunkKey /\ DOMAIN rag.made \subseteq ChunkKey
  BY <1>2, <1>4 DEF Chunks!Merge, Chunks!TypeOK, Chunks!Map, MadeOf
<1>6. StoredChunks \subseteq StoredChunks' /\ DOMAIN rag.made \subseteq StoredChunks'
  BY <1>3, <1>4, <1>5 DEF StoredChunks, Stored
<1>7. Docs!Dumpable(docs.data)
  BY <1>1 DEF Core, SavedFirst, Reliable
<1>8. Has(docs.data, StoredChunks')
  <2> SUFFICES ASSUME NEW k \in DocKey, docs.data[k] # NoDoc PROVE Covered(k.hash, StoredChunks')
    BY DEF Has
  <2>1. k.hash \in rag.batch \/ Covered(k.hash, StoredChunks)
    BY <1>1, <1>4, <1>7 DEF Whole, HasOrMakes
  <2>2. CASE k.hash \in rag.batch
    <3>1. Covered(k.hash, DOMAIN rag.made)
      BY <1>2, <2>2 DEF MadeOf
    <3> QED
      BY <1>6, <3>1, MoreCovered
  <2>3. CASE Covered(k.hash, StoredChunks)
    BY <1>6, <2>3, MoreCovered
  <2> QED
    BY <2>1, <2>2, <2>3
<1> QED
  BY <1>1, <1>4, <1>8 DEF Whole

LEMMA SaveChunksWhole == Core /\ Whole /\ SaveChunks => Whole'
<1> SUFFICES ASSUME Core, Whole, SaveChunks, Reliable, ~past.chunksLost PROVE Whole'
  BY DEF SaveChunks, Storing, Whole
<1>1. rag.stage = "chunks" /\ UNCHANGED <<docs, past>> /\ Chunks!Save
  BY DEF SaveChunks, Storing
<1>2. chunks'.data = chunks.data /\ chunks.pc \in {"saving", "opened"}
  BY <1>1, ChunksMoves DEF Core, Typed, ChunksSaved
<1>3. \/ chunks'.pc = "opened" /\ chunks'.file = Chunks!TornFile
      \/ chunks'.pc = "ready" /\ chunks'.file = Chunks!WholeFile(chunks.data)
      \/ chunks'.pc = "ready" /\ chunks'.file = chunks.file /\ chunks.pc = "opened"
  BY <1>1 DEF Chunks!Save, Chunks!OpenFails, Chunks!OpenTruncates, Chunks!DumpThrows,
              Chunks!WriteWhole, Chunks!WriteShort, Reliable, Core, Typed, Chunks!TypeOK
<1>4. \/ chunks'.pc # "ready" /\ rag' = rag
      \/ chunks'.pc = "ready" /\ rag'.stage = "idle"
  BY DEF SaveChunks, Core, Typed, RagTyped, RagFields
<1>5. /\ Has(docs.data, StoredChunks) /\ Docs!Load(docs.file) = docs.data
      /\ chunks.pc = "opened" => chunks.file.state = "torn"
  BY <1>1, <1>2 DEF Whole
<1>6. StoredChunks' = StoredChunks
  BY <1>2 DEF StoredChunks
<1>7. /\ Chunks!TornFile.state = "torn"
      /\ Chunks!Load(Chunks!WholeFile(chunks.data)) = chunks.data
  BY ChunkMapsOK DEF Chunks!TornFile, Core, Typed, Chunks!TypeOK
<1> QED
  BY <1>1, <1>2, <1>3, <1>4, <1>5, <1>6, <1>7 DEF Whole

LEMMA EndWhole == Core /\ Whole /\ ProcessEnds => Whole'
<1> SUFFICES ASSUME Core, Whole, ProcessEnds, ~past'.chunksLost PROVE Whole'
  BY DEF Whole
<1>1. /\ Docs!Crash /\ Chunks!Crash /\ rag' = [FreshRag EXCEPT !.stage = "down"]
      /\ past'.chunksLost = (past.chunksLost \/ chunks.file.state = "torn" \/ rag.stage = "chunks")
  BY DEF ProcessEnds
<1>2. docs'.file = docs.file /\ chunks'.file = chunks.file /\ chunks'.pc = "down" /\ rag'.stage = "down"
  BY <1>1, DocsMoves, ChunksMoves, FreshRagOK DEF Core, Typed, RagFields
<1>3. rag.stage \in {"idle", "docs"}
  BY <1>1 DEF Core, Typed, RagTyped, Flow, Docs!Crash
<1>4. Reliable => Has(Docs!Load(docs.file), StoredChunks) /\ Chunks!Load(chunks.file) = chunks.data
  BY <1>1, <1>3 DEF Whole
<1>5. Reliable => Has(Docs!Load(docs.file), ChunksLoaded)
  BY <1>4 DEF ChunksLoaded, StoredChunks
<1>6. ChunksLoaded' = ChunksLoaded
  BY <1>2 DEF ChunksLoaded
<1> QED
  BY <1>2, <1>5, <1>6 DEF Whole

LEMMA RestartWhole == Core /\ Whole /\ Restart => Whole'
<1> SUFFICES ASSUME Core, Whole, Restart PROVE Whole'
  OBVIOUS
<1>1. rag.stage = "down" /\ Docs!Restart /\ Chunks!Restart /\ rag' = FreshRag /\ past' = past
  BY DEF Restart
<1>2. /\ docs'.data = Docs!Load(docs.file) /\ docs'.file = docs.file
      /\ chunks'.data = Chunks!Load(chunks.file) /\ chunks'.file = chunks.file /\ chunks'.pc = "ready"
  BY <1>1, DocsMoves, ChunksMoves DEF Core, Typed
<1>3. StoredChunks' = ChunksLoaded
  BY <1>2 DEF StoredChunks, ChunksLoaded
<1> QED
  BY <1>1, <1>2, <1>3, FreshRagOK DEF Whole

LEMMA NextWhole == Core /\ Whole /\ [Next]_vars => Whole'
<1> SUFFICES ASSUME Core, Whole, [Next]_vars PROVE Whole'
  OBVIOUS
<1>1. \/ KeepsInsert \/ Begins \/ ProcessEnds \/ Restart
      \/ StoreDocs \/ SaveDocs \/ StoreChunks \/ SaveChunks
  BY Steps DEF Core, Typed
<1> QED
  BY <1>1, KeepsInsertWhole, BeginsWhole, EndWhole, RestartWhole, StoreDocsWhole,
     SaveDocsWhole, StoreChunksWhole, SaveChunksWhole

\* Between calls every stored document has all of its chunks, unless a document that
\* cannot be dumped is in memory or a process ended between the two saves or while
\* text_chunks.json was torn (GraphRAG.hpp:156-157).
THEOREM DocumentsAreWhole == Spec => []DocsHaveChunks
<1>1. Core /\ Whole => DocsHaveChunks
  <2> SUFFICES ASSUME Core, Whole, Reliable, Idle, ~past.chunksLost, Docs!Dumpable(docs.data),
                      NEW k \in StoredDocs
               PROVE  \E t \in Tokenizer, s \in FitSize : ChunkedBy(k.hash, t, s)
    BY DEF DocsHaveChunks
  <2>1. k \in DocKey /\ docs.data[k] # NoDoc
    BY DEF StoredDocs, Stored, Core, Typed, Docs!TypeOK, Docs!Map
  <2>2. Covered(k.hash, StoredChunks)
    BY <2>1 DEF Whole, Has, Idle
  <2> QED
    BY <2>2 DEF Covered, ChunkedBy
<1>2. Spec => []Whole
  BY CoreInvariance, InitWhole, NextWhole, PTL DEF Spec
<1> QED
  BY <1>1, <1>2, CoreInvariance, PTL
-----------------------------------------------------------------------------
\* There are finitely many chunks, for a finite vocabulary of documents.
LEMMA FiniteImage ==
  ASSUME NEW D, IsFiniteSet(D), NEW f, DOMAIN f = D
  PROVE  IsFiniteSet({f[x] : x \in D})
<1> DEFINE T == {f[x] : x \in D}
           g == [x \in D |-> f[x]]
<1>1. g \in Surjection(D, T)
  BY DEF Surjection
<1> HIDE DEF T, g
<1>2. IsFiniteSet(T)
  BY <1>1, FS_Surjection
<1> QED
  BY <1>2 DEF T

LEMMA ChunkLengths ==
  ASSUME NEW t \in Tokenizer, NEW d \in Document, NEW s \in FitSize
  PROVE  LET all == ChunkingByTokenSize(Encode[t][d], DocId(d), s.max, s.overlap)
         IN  /\ DOMAIN all = 1..NumWindows(Len(Encode[t][d]), s.max, s.overlap)
             /\ NumWindows(Len(Encode[t][d]), s.max, s.overlap) \in Int
             /\ \A i \in DOMAIN all : all[i].tokens \in Int
<1> DEFINE n == Len(Encode[t][d])
           all == ChunkingByTokenSize(Encode[t][d], DocId(d), s.max, s.overlap)
           w == Windows(n, s.max, s.overlap)
<1>1. n \in Nat /\ s.max \in Int /\ s.overlap \in Int /\ s.overlap < s.max
  BY RagAssumption DEF FitSize, Fits
<1>2. /\ all = [i \in DOMAIN w |-> TextChunkOf(w[i], i, Encode[t][d], DocId(d))]
      /\ DOMAIN w = 1..NumWindows(n, s.max, s.overlap)
  BY DEF ChunkingByTokenSize, Windows
<1>3. s.max - s.overlap \in Int /\ s.max - s.overlap > 0 /\ n + (s.max - s.overlap) - 1 \in Int
  BY <1>1
<1>4. NumWindows(n, s.max, s.overlap) \in Int
  BY <1>3 DEF NumWindows
<1>5. ASSUME NEW i \in DOMAIN w PROVE all[i].tokens \in Int
  <2>1. i \in Int /\ all[i].tokens = w[i].len
    BY <1>2, <1>5 DEF TextChunkOf
  <2>2. w[i].len = Smaller(s.max, n - (i - 1) * (s.max - s.overlap))
    BY <1>5 DEF Windows
  <2>3. (i - 1) * (s.max - s.overlap) \in Int
    BY <1>3, <2>1
  <2> QED
    BY <1>1, <2>1, <2>2, <2>3 DEF Smaller
<1> QED
  BY <1>2, <1>4, <1>5

LEMMA ChunkTokens == \A c \in TextChunk : c.tokens \in Int
<1> SUFFICES ASSUME NEW c \in TextChunk PROVE c.tokens \in Int
  OBVIOUS
<1>1. PICK t \in Tokenizer, d \in Document, s \in FitSize :
        c \in ToSet(ChunkingByTokenSize(Encode[t][d], DocId(d), s.max, s.overlap))
  BY DEF TextChunk
<1> QED
  BY <1>1, ChunkLengths DEF ToSet

LEMMA FiniteKeys == IsFiniteSet(ChunkKey)
<1> DEFINE C(p) == ToSet(ChunkingByTokenSize(Encode[p[1]][p[2][1]], DocId(p[2][1]),
                                             p[2][2].max, p[2][2].overlap))
           D == Tokenizer \X (Document \X FitSize)
           f == [p \in D |-> C(p)]
           F == {f[p] : p \in D}
<1>1. IsFiniteSet(D)
  <2>1. IsFiniteSet(FitSize)
    BY RagAssumption, FS_Subset DEF FitSize
  <2> QED
    BY <2>1, RagAssumption, FS_Product
<1>2. IsFiniteSet(F)
  <2>1. DOMAIN f = D
    OBVIOUS
  <2> HIDE DEF f, D
  <2> QED
    BY <1>1, <2>1, FiniteImage
<1>3. ASSUME NEW p \in D PROVE IsFiniteSet(f[p])
  <2> DEFINE all == ChunkingByTokenSize(Encode[p[1]][p[2][1]], DocId(p[2][1]),
                                        p[2][2].max, p[2][2].overlap)
             N == NumWindows(Len(Encode[p[1]][p[2][1]]), p[2][2].max, p[2][2].overlap)
  <2>1. p[1] \in Tokenizer /\ p[2][1] \in Document /\ p[2][2] \in FitSize
    OBVIOUS
  <2>2. DOMAIN all = 1..N /\ N \in Int
    BY <2>1, ChunkLengths
  <2>3. IsFiniteSet(1..N)
    BY <2>2, FS_Interval
  <2>4. f[p] = {all[i] : i \in 1..N}
    BY <2>2 DEF ToSet
  <2> HIDE DEF all, N, f
  <2> QED
    BY <2>2, <2>3, <2>4, FiniteImage
<1>4. TextChunk = UNION F
  <2>1. F = {C(p) : p \in D}
    OBVIOUS
  <2>2. ASSUME NEW c \in TextChunk PROVE c \in UNION F
    <3>1. PICK t \in Tokenizer, d \in Document, s \in FitSize :
            c \in ToSet(ChunkingByTokenSize(Encode[t][d], DocId(d), s.max, s.overlap))
      BY DEF TextChunk
    <3>2. <<t, <<d, s>>>> \in D /\ c \in C(<<t, <<d, s>>>>)
      BY <3>1
    <3> QED
      BY <2>1, <3>2
  <2>3. ASSUME NEW c \in UNION F PROVE c \in TextChunk
    <3>1. PICK p \in D : c \in C(p)
      BY <2>1
    <3>2. p[1] \in Tokenizer /\ p[2][1] \in Document /\ p[2][2] \in FitSize
      OBVIOUS
    <3> QED
      BY <3>1, <3>2 DEF TextChunk
  <2> QED
    BY <2>2, <2>3
<1>5. IsFiniteSet(TextChunk)
  <2>1. \A T \in F : IsFiniteSet(T)
    <3> HIDE DEF f, D
    <3> QED
      BY <1>3
  <2> HIDE DEF F
  <2> QED
    BY <1>2, <1>4, <2>1, FS_UNION
<1> DEFINE g == [c \in TextChunk |-> ChunkId(c)]
<1>6. ChunkKey = {g[c] : c \in TextChunk} /\ DOMAIN g = TextChunk
  BY DEF ChunkKey
<1> HIDE DEF g
<1> QED
  BY <1>5, <1>6, FiniteImage
-----------------------------------------------------------------------------
\* The lists that the query modes fill.
PickedSize(ids, places, top_k, r) ==
  Smaller(top_k, IF places = DOMAIN ids THEN r ELSE Smaller(1, r))
PickedSoFar(ids, places, top_k) ==
  [r \in 0..Len(ids) |-> SubSeq(ids, 1, PickedSize(ids, places, top_k, r))]

LEMMA SmallerOK ==
  \A a, b \in Nat : /\ Smaller(a, b) \in Nat
                    /\ a <= b => Smaller(a, b) = a
                    /\ b <= a => Smaller(a, b) = b
  BY DEF Smaller

LEMMA PickedStep ==
  ASSUME NEW S, NEW ids \in Seq(S), NEW k \in Nat \ {0},
         NEW places, places = DOMAIN ids \/ places = {1}
  PROVE  \A r \in 1..Len(ids) :
           PickedSoFar(ids, places, k)[r]
             = IF r \in places /\ Len(PickedSoFar(ids, places, k)[r - 1]) < k
               THEN Append(PickedSoFar(ids, places, k)[r - 1], ids[r])
               ELSE PickedSoFar(ids, places, k)[r - 1]
<1> TAKE r \in 1..Len(ids)
<1> DEFINE size(q) == PickedSize(ids, places, k, q)
           before == SubSeq(ids, 1, size(r - 1))
<1>1. r - 1 \in 0..Len(ids) /\ r \in 0..Len(ids)
  OBVIOUS
<1>2. /\ PickedSoFar(ids, places, k)[r] = SubSeq(ids, 1, size(r))
      /\ PickedSoFar(ids, places, k)[r - 1] = before
  BY <1>1 DEF PickedSoFar
<1>3. size(r - 1) \in Nat /\ size(r - 1) <= Len(ids) /\ size(r - 1) <= r - 1
  BY <1>1 DEF Smaller, PickedSize
<1>4. Len(before) = size(r - 1)
  BY <1>3
<1>5. CASE r \in places /\ size(r - 1) < k
  <2>1. size(r - 1) = r - 1 /\ size(r) = r
    BY <1>5 DEF Smaller, PickedSize
  <2>2. SubSeq(ids, 1, r) = Append(SubSeq(ids, 1, r - 1), ids[r])
    <3>1. DOMAIN SubSeq(ids, 1, r) = DOMAIN Append(SubSeq(ids, 1, r - 1), ids[r])
      OBVIOUS
    <3> QED
      OBVIOUS
  <2> QED
    BY <1>2, <1>4, <1>5, <2>1, <2>2
<1>6. CASE ~(r \in places /\ size(r - 1) < k)
  <2>1. size(r) = size(r - 1)
    BY <1>6 DEF Smaller, PickedSize
  <2> QED
    BY <1>2, <1>4, <1>6, <2>1
<1> QED
  BY <1>5, <1>6

\* With all places the first top_k ids are picked, with the first place only the
\* first id.
LEMMA PickedOK ==
  ASSUME NEW S, NEW ids \in Seq(S), NEW k \in Nat \ {0}
  PROVE  /\ Picked(ids, DOMAIN ids, k) = SubSeq(ids, 1, Smaller(k, Len(ids)))
         /\ ids # <<>> => Picked(ids, {1}, k) = <<ids[1]>>
<1>1. ASSUME NEW places, places = DOMAIN ids \/ places = {1}
      PROVE  Picked(ids, places, k) = PickedSoFar(ids, places, k)[Len(ids)]
  <2> DEFINE N == Len(ids)
             add(before, r) == IF r \in places /\ Len(before) < k THEN Append(before, ids[r]) ELSE before
             step == [p \in (1..N) \X Seq(S) |-> add(p[2], p[1])]
             f == PickedSoFar(ids, places, k)
             body(h) == [r \in 0..N |-> IF r = 0 THEN <<>> ELSE add(h[r - 1], r)]
             picked == CHOOSE h : h = body(h)
  <2>1. N \in Nat /\ \A r \in 1..N : ids[r] \in S /\ r - 1 \in 0..N
    OBVIOUS
  <2>2. /\ DOMAIN f = 0..N /\ f = [r \in 0..N |-> f[r]]
        /\ \A r \in 0..N : f[r] = SubSeq(ids, 1, PickedSize(ids, places, k, r))
    BY DEF PickedSoFar
  <2>3. \A r \in 0..N : f[r] \in Seq(S)
    <3> TAKE r \in 0..N
    <3> DEFINE m == PickedSize(ids, places, k, r)
    <3>1. m \in 0..N
      BY DEF Smaller, PickedSize
    <3>2. f[r] = SubSeq(ids, 1, m)
      BY <2>2
    <3> HIDE DEF m, f
    <3> QED
      BY <3>1, <3>2
  <2>4. f[0] = <<>>
    <3>1. PickedSize(ids, places, k, 0) = 0 /\ 0 \in 0..N
      BY DEF Smaller, PickedSize
    <3>2. SubSeq(ids, 1, 0) = <<>>
      OBVIOUS
    <3> HIDE DEF f
    <3> QED
      BY <2>2, <3>1, <3>2
  <2>5. \A r \in 1..N : f[r] = add(f[r - 1], r)
    BY <1>1, PickedStep
  <2> HIDE DEF f, add
  <2>6. \A r \in 1..N : f[r] = step[<<r, f[r - 1]>>]
    BY <2>1, <2>3, <2>5
  <2>7. step \in [(1..N) \X Seq(S) -> Seq(S)]
    BY <2>1 DEF add
  <2>8. IsRecursive(f, N, Seq(S), <<>>, step)
    <3> HIDE DEF step
    <3> QED
      BY <2>2, <2>3, <2>4, <2>6 DEF IsRecursive
  <2>9. f = body(f)
    <3>1. \A r \in 0..N : f[r] = IF r = 0 THEN <<>> ELSE add(f[r - 1], r)
      BY <2>1, <2>4, <2>5
    <3> QED
      BY <2>2, <3>1
  <2>10. picked = body(picked)
    <3> HIDE DEF body
    <3> QED
      BY <2>9
  <2>11. Picked(ids, places, k) = picked[N]
    BY DEF Picked, add
  <2> HIDE DEF picked
  <2>12. picked[0] = <<>> /\ \A r \in 1..N : picked[r] = add(picked[r - 1], r)
    BY <2>1, <2>10
  <2>13. \A r \in 1..N : picked[r - 1] \in Seq(S) => picked[r] = step[<<r, picked[r - 1]>>]
    BY <2>1, <2>12
  <2>14. picked[N] = f[N]
    <3> HIDE DEF step
    <3> QED
      BY <2>1, <2>8, <2>12, <2>13, RecursionUnique
  <2> QED
    BY <2>11, <2>14 DEF f
<1>2. Picked(ids, DOMAIN ids, k) = SubSeq(ids, 1, Smaller(k, Len(ids)))
  <2> DEFINE all == DOMAIN ids
  <2>1. PickedSize(ids, all, k, Len(ids)) = Smaller(k, Len(ids)) /\ Len(ids) \in 0..Len(ids)
    BY DEF PickedSize
  <2> HIDE DEF all
  <2>2. Picked(ids, all, k) = PickedSoFar(ids, all, k)[Len(ids)]
    BY <1>1 DEF all
  <2>3. Picked(ids, all, k) = SubSeq(ids, 1, Smaller(k, Len(ids)))
    BY <2>1, <2>2 DEF PickedSoFar
  <2> QED
    BY <2>3 DEF all
<1>3. ASSUME ids # <<>> PROVE Picked(ids, {1}, k) = <<ids[1]>>
  <2>1. Len(ids) >= 1 /\ Len(ids) \in Nat
    BY <1>3
  <2>2. PickedSoFar(ids, {1}, k)[Len(ids)] = SubSeq(ids, 1, 1)
    <3>1. {1} = DOMAIN ids => Len(ids) = 1
      <4>1. Len(ids) > 1 => 2 \in DOMAIN ids
        BY <2>1
      <4> QED
        BY <2>1, <4>1
    <3>2. PickedSize(ids, {1}, k, Len(ids)) = 1
      <4>1. Smaller(1, Len(ids)) = 1 /\ Smaller(k, 1) = 1
        <5>1. k \in Nat /\ 1 <= k /\ 1 \in Nat
          OBVIOUS
        <5> QED
          BY <2>1, <5>1, SmallerOK
      <4> QED
        BY <3>1, <4>1 DEF PickedSize
    <3>3. Len(ids) \in 0..Len(ids)
      BY <2>1
    <3> QED
      BY <3>2, <3>3 DEF PickedSoFar
  <2>3. SubSeq(ids, 1, 1) = <<ids[1]>>
    <3> DEFINE one == SubSeq(ids, 1, 1)
    <3>1. one \in Seq(S) /\ Len(one) = 1 /\ one[1] = ids[1]
      BY <2>1
    <3> HIDE DEF one
    <3>2. one = <<one[1]>>
      BY <3>1
    <3> QED
      BY <3>1, <3>2 DEF one
  <2> QED
    BY <1>1, <2>2, <2>3
<1> QED
  BY <1>2, <1>3
-----------------------------------------------------------------------------
LEMMA PrefixOK == \A i \in ChunkKey : Prefix(i) = "chunk-"
  BY DEF ChunkKey, ChunkId, Prefix

\* All ids having the same prefix, local answers from the first top_k of them and
\* global from the first.
LEMMA LookupsOK ==
  ASSUME NEW ids \in Seq(ChunkKey), ids # <<>>, NEW k \in Nat \ {0}
  PROVE  /\ LocalIds(ids, k) \subseteq {SubSeq(ids, 1, Smaller(k, Len(ids)))}
         /\ GlobalIds(ids, k) \subseteq {<<ids[1]>>}
<1>1. \A r \in DOMAIN ids : ids[r] \in ChunkKey /\ Prefix(ids[r]) = "chunk-"
  BY PrefixOK
<1>2. Len(ids) \in Nat /\ 1 \in DOMAIN ids /\ DOMAIN ids = 1..Len(ids)
  OBVIOUS
<1>3. ASSUME NEW found \in LocalIds(ids, k) PROVE found = SubSeq(ids, 1, Smaller(k, Len(ids)))
  <2>1. PICK best \in {Prefix(ids[r]) : r \in DOMAIN ids} :
          found = Picked(ids, {r \in DOMAIN ids : Prefix(ids[r]) = best}, k)
    BY <1>3 DEF LocalIds
  <2>2. best = "chunk-"
    BY <1>1
  <2>3. {r \in DOMAIN ids : Prefix(ids[r]) = best} = DOMAIN ids
    BY <1>1, <2>2
  <2>4. found = Picked(ids, DOMAIN ids, k)
    BY <2>1, <2>3
  <2> QED
    BY <2>4, PickedOK
<1>4. ASSUME NEW found \in GlobalIds(ids, k) PROVE found = <<ids[1]>>
  <2> DEFINE tops == {r \in DOMAIN ids : \A q \in 1..(r - 1) : Prefix(ids[q]) # Prefix(ids[r])}
  <2>1. tops = {1}
    <3>1. ASSUME NEW r \in tops PROVE r = 1
      <4>1. r \in 1..Len(ids) /\ (1 \in 1..(r - 1) => Prefix(ids[1]) # Prefix(ids[r]))
        BY <1>2
      <4>2. 1 \notin 1..(r - 1)
        BY <1>1, <1>2, <4>1
      <4> QED
        BY <1>2, <4>1, <4>2
    <3>2. 1 \in tops
      BY <1>2
    <3> QED
      BY <3>1, <3>2
  <2> HIDE DEF tops
  <2>2. Picked(ids, tops, k) = <<ids[1]>>
    BY <2>1, PickedOK
  <2>3. found \in SetToSeqs(ToSet(<<ids[1]>>))
    BY <1>4, <2>2 DEF GlobalIds, tops
  <2>4. ToSet(<<ids[1]>>) = {ids[1]}
    BY DEF ToSet
  <2>5. Cardinality({ids[1]}) = 1
    BY FS_Singleton
  <2>6. found \in [1..1 -> {ids[1]}]
    BY <2>3, <2>4, <2>5 DEF SetToSeqs
  <2>7. DOMAIN found = 1..1 /\ found[1] = ids[1]
    BY <2>6
  <2> QED
    BY <2>6, <2>7
<1> QED
  BY <1>3, <1>4

\* The section that is put together from the chunks of a list.
ScanState == [section : Seq(ChunkKey), tokens : Int]
NoSection == [section |-> <<>>, tokens |-> 0]
ScanStep(before, id, data, stored, budget) ==
  IF id \notin stored \/ before.tokens > budget THEN before
  ELSE [section |-> IF before.tokens + data[id].tokens > budget THEN before.section
                    ELSE Append(before.section, id),
        tokens |-> before.tokens + data[id].tokens]

LEMMA ScanStepOK ==
  ASSUME NEW s \in ScanState, NEW id \in ChunkKey, NEW data, NEW stored,
         \A i \in stored : data[i].tokens \in Int, NEW budget \in Nat
  PROVE  /\ ScanStep(s, id, data, stored, budget) \in ScanState
         /\ s.section # <<>> => ScanStep(s, id, data, stored, budget).section # <<>>
<1>1. s.section \in Seq(ChunkKey) /\ s.tokens \in Int
  BY DEF ScanState
<1>2. CASE id \notin stored \/ s.tokens > budget
  BY <1>2 DEF ScanStep
<1>3. CASE ~(id \notin stored \/ s.tokens > budget)
  <2> DEFINE section == IF s.tokens + data[id].tokens > budget THEN s.section
                        ELSE Append(s.section, id)
             tokens == s.tokens + data[id].tokens
  <2>1. section \in Seq(ChunkKey) /\ (s.section # <<>> => section # <<>>) /\ tokens \in Int
    BY <1>1, <1>3
  <2>2. ScanStep(s, id, data, stored, budget) = [section |-> section, tokens |-> tokens]
    BY <1>3 DEF ScanStep
  <2> HIDE DEF section, tokens
  <2> QED
    BY <2>1, <2>2 DEF ScanState
<1> QED
  BY <1>2, <1>3

\* A context is what a scan of the list has put together at its end.
IsScan(scan, ids, data, stored, budget) ==
  /\ Context(ids, data, stored, budget) = scan[Len(ids)].section
  /\ scan[0] = NoSection
  /\ \A r \in 1..Len(ids) : scan[r] = ScanStep(scan[r - 1], ids[r], data, stored, budget)
  /\ \A r \in 0..Len(ids) : scan[r] \in ScanState

LEMMA ContextSteps ==
  ASSUME NEW ids \in Seq(ChunkKey), NEW data, NEW stored,
         \A i \in stored : data[i].tokens \in Int, NEW budget \in Nat
  PROVE  \E scan : IsScan(scan, ids, data, stored, budget)
<1> DEFINE N == Len(ids)
           after(before, r) == ScanStep(before, ids[r], data, stored, budget)
           step == [p \in (1..N) \X ScanState |-> after(p[2], p[1])]
           body(h) == [r \in 0..N |-> IF r = 0 THEN NoSection ELSE after(h[r - 1], r)]
           scan == CHOOSE h : h = body(h)
<1>1. N \in Nat /\ \A r \in 1..N : ids[r] \in ChunkKey /\ r - 1 \in 0..N /\ r \in 0..N
  OBVIOUS
<1>2. \A r \in 1..N : \A s \in ScanState : after(s, r) \in ScanState
                                       /\ (s.section # <<>> => after(s, r).section # <<>>)
  BY <1>1, ScanStepOK
<1>3. Context(ids, data, stored, budget) = scan[N].section
  BY DEF Context, ScanStep, NoSection
<1>4. NoSection \in ScanState
  BY DEF NoSection, ScanState
<1> HIDE DEF after
<1>5. step \in [(1..N) \X ScanState -> ScanState]
  BY <1>2
<1>6. PICK f : IsRecursive(f, N, ScanState, NoSection, step)
  <2> HIDE DEF step
  <2> QED
    BY <1>1, <1>4, <1>5, Recursion
<1>7. f = body(f)
  <2>1. f \in [0..N -> ScanState] /\ f[0] = NoSection /\ \A r \in 1..N : f[r] = step[<<r, f[r - 1]>>]
    BY <1>6 DEF IsRecursive
  <2>2. \A r \in 1..N : f[r] = after(f[r - 1], r)
    BY <1>1, <2>1
  <2>3. \A r \in 0..N : f[r] = IF r = 0 THEN NoSection ELSE after(f[r - 1], r)
    BY <1>1, <2>1, <2>2
  <2> HIDE DEF step
  <2> QED
    BY <2>1, <2>3
<1>8. scan = body(scan)
  <2> HIDE DEF body
  <2> QED
    BY <1>7
<1> HIDE DEF scan
<1>9. scan[0] = NoSection /\ \A r \in 1..N : scan[r] = after(scan[r - 1], r)
  BY <1>1, <1>8
<1>10. \A r \in 0..N : scan[r] \in ScanState
  <2> DEFINE P == {r \in 0..N : scan[r] \in ScanState}
  <2>1. 0 \in P
    BY <1>1, <1>4, <1>9
  <2>2. \A r \in 0..(N - 1) : r \in P => r + 1 \in P
    <3> TAKE r \in 0..(N - 1)
    <3> HAVE r \in P
    <3>1. r + 1 \in 1..N /\ (r + 1) - 1 = r
      BY <1>1
    <3> QED
      BY <1>1, <1>2, <1>9, <3>1
  <2>3. \A r \in 0..N : r \in P
    <3> HIDE DEF P
    <3> QED
      BY <1>1, <2>1, <2>2, UpTo
  <2> QED
    BY <2>3
<1> QED
  BY <1>3, <1>9, <1>10 DEF after, IsScan

\* A context has ids of the list, and one at least if the first one is stored and
\* within the budget: what is in the section is never taken out again.
LEMMA ContextOK ==
  ASSUME NEW ids \in Seq(ChunkKey), NEW data, NEW stored,
         \A i \in stored : data[i].tokens \in Int, NEW budget \in Nat
  PROVE  /\ Context(ids, data, stored, budget) \in Seq(ChunkKey)
         /\ (ids # <<>> /\ ids[1] \in stored /\ data[ids[1]].tokens <= budget)
              => Context(ids, data, stored, budget) # <<>>
<1> DEFINE N == Len(ids)
           after(before, r) == ScanStep(before, ids[r], data, stored, budget)
<1>1. N \in Nat /\ \A r \in 1..N : ids[r] \in ChunkKey /\ r - 1 \in 0..N /\ r \in 0..N
  OBVIOUS
<1>2. \A r \in 1..N : \A s \in ScanState : s.section # <<>> => after(s, r).section # <<>>
  BY <1>1, ScanStepOK
<1>0. PICK scan : IsScan(scan, ids, data, stored, budget)
  BY ContextSteps
<1>3. /\ Context(ids, data, stored, budget) = scan[N].section /\ scan[0] = NoSection
      /\ \A r \in 1..N : scan[r] = after(scan[r - 1], r)
      /\ \A r \in 0..N : scan[r] \in ScanState
  BY <1>0 DEF IsScan
<1> HIDE DEF after
<1>4. ASSUME ids # <<>>, ids[1] \in stored, data[ids[1]].tokens <= budget
       PROVE  scan[N].section # <<>>
  <2> DEFINE P == {r \in 1..N : scan[r].section # <<>>}
  <2>1. 1 \in P
    <3>1. 1 \in 1..N /\ data[ids[1]].tokens \in Int
      BY <1>1, <1>4
    <3>2. scan[1] = ScanStep(NoSection, ids[1], data, stored, budget)
      BY <1>3, <3>1 DEF after
    <3>3. NoSection.tokens = 0 /\ NoSection.section = <<>>
      BY DEF NoSection
    <3>4. scan[1].section = Append(<<>>, ids[1])
      BY <1>4, <3>1, <3>2, <3>3 DEF ScanStep
    <3> DEFINE one == Append(<<>>, ids[1])
    <3>5. Len(one) = 1
      BY <1>1, <3>1
    <3> HIDE DEF one
    <3>6. one # <<>>
      BY <3>5
    <3>7. scan[1].section # <<>>
      BY <3>4, <3>6 DEF one
    <3> QED
      BY <3>1, <3>7
  <2>2. \A r \in 1..(N - 1) : r \in P => r + 1 \in P
    <3> TAKE r \in 1..(N - 1)
    <3> HAVE r \in P
    <3>1. r + 1 \in 1..N /\ (r + 1) - 1 = r /\ r \in 0..N
      BY <1>1
    <3> QED
      BY <1>2, <1>3, <3>1
  <2>3. \A r \in 1..N : r \in P
    <3> HIDE DEF P
    <3>1. 1 \in Nat
      OBVIOUS
    <3> QED
      BY <1>1, <2>1, <2>2, <3>1, UpFrom
  <2>4. N \in 1..N
    BY <1>1, <1>4
  <2> QED
    BY <2>3, <2>4
<1>5. scan[N] \in ScanState
  BY <1>1, <1>3
<1> QED
  BY <1>3, <1>4, <1>5 DEF ScanState
-----------------------------------------------------------------------------
\* What the operations of the index keep of its types.
LEMMA IndexTypes ==
  /\ VDB!NoObject \in VDB!Object /\ VDB!NoVectors \in VDB!Index /\ <<>> \in Seq(VDB!Row)
  /\ \A i \in ChunkKey : VDB!VectorOf(i) \in VDB!Vector
  BY DEF VDB!NoObject, VDB!Object, VDB!NoVectors, VDB!Index, VDB!Metas, VDB!Vector

LEMMA ConstructTyped ==
  ASSUME VDB!TypeOK, NEW emb \in BOOLEAN, VDB!Construct(emb, FALSE)
  PROVE  VDB!TypeOK'
<1> DEFINE index == IF emb THEN vfile ELSE VDB!NoVectors
           found == IF emb THEN VDB!Indexed(vfile) ELSE {}
<1>1. /\ vdb' = [VDB!NoObject EXCEPT !.exists = TRUE, !.emb = emb, !.config = FALSE,
                   !.db = IF emb THEN "early" ELSE "null", !.autoSave = emb /\ FALSE,
                   !.index = index, !.found = found]
      /\ hits' = <<>> /\ vfile' = vfile
  BY DEF VDB!Construct
<1>2. index \in VDB!Index /\ VDB!NoObject \in VDB!Object /\ <<>> \in Seq(VDB!Row)
  BY IndexTypes DEF VDB!TypeOK
<1>3. (emb /\ FALSE) \in BOOLEAN /\ found \subseteq ChunkKey
  BY DEF VDB!Indexed
<1> HIDE DEF index, found
<1>4. vdb' \in VDB!Object
  BY <1>1, <1>2, <1>3 DEF VDB!Object
<1> QED
  BY <1>1, <1>2, <1>4 DEF VDB!TypeOK

LEMMA UpsertTyped ==
  ASSUME VDB!TypeOK, NEW ids \in SUBSET ChunkKey, NEW vectors \in [ids -> VDB!Vector]
  PROVE  /\ VDB!UpsertThrows(ids) => VDB!TypeOK'
         /\ VDB!UpsertReturns(vectors) => VDB!TypeOK'
         /\ VDB!UpsertStops(vectors) => VDB!TypeOK'
<1> DEFINE u == VDB!Upserted(ids)
           base == VDB!Before
<1>1. /\ vdb \in VDB!Object /\ vdb.index \in VDB!Index /\ vdb.metas \in VDB!Metas
      /\ vfile \in VDB!Index /\ <<>> \in Seq(VDB!Row) /\ DOMAIN vectors = ids
      /\ vdb.db \in {"null", "early", "late"} /\ vdb.found \subseteq ChunkKey
      /\ vdb.left \subseteq ChunkKey
  BY IndexTypes DEF VDB!TypeOK, VDB!Object
<1>2. VDB!Captured(ids) \in VDB!Metas
  BY <1>1 DEF VDB!Captured, VDB!Metas
<1>3. ASSUME VDB!UpsertThrows(ids) PROVE VDB!TypeOK'
  <2>1. vdb' = [vdb EXCEPT !.metas = VDB!Captured(ids), !.status = "throw"]
        /\ hits' = <<>> /\ vfile' = vfile
    BY <1>3 DEF VDB!UpsertThrows
  <2>2. vdb' \in VDB!Object
    BY <1>1, <1>2, <2>1 DEF VDB!Object
  <2> QED
    BY <1>1, <2>1, <2>2 DEF VDB!TypeOK
<1>4. u \in VDB!Object /\ u.left = vdb.left
  <2> DEFINE db == IF VDB!Late THEN "late" ELSE vdb.db
             found == IF VDB!Late THEN VDB!Indexed(vfile) ELSE vdb.found
  <2>1. u = [vdb EXCEPT !.metas = VDB!Captured(ids), !.db = db, !.found = found]
    BY DEF VDB!Upserted
  <2>2. db \in {"null", "early", "late"} /\ found \subseteq ChunkKey
    BY <1>1 DEF VDB!Indexed
  <2> HIDE DEF db, found
  <2> QED
    BY <1>1, <1>2, <2>1, <2>2 DEF VDB!Object
<1>5. base \in VDB!Index
  BY <1>1 DEF VDB!Before
<1>6. ASSUME NEW part \in SUBSET ids, NEW some \in [part -> VDB!Vector]
      PROVE  VDB!DbUpsert(base, some) \in VDB!Index
  <2> HIDE DEF base
  <2> QED
    BY <1>5 DEF VDB!DbUpsert, VDB!Index
<1> HIDE DEF u, base
<1>7. ASSUME VDB!UpsertReturns(vectors) PROVE VDB!TypeOK'
  <2> DEFINE index == IF vdb.emb \/ vdb.db # "null" THEN VDB!DbUpsert(base, vectors) ELSE vdb.index
             left == IF vdb.autoSave THEN {} ELSE u.left \ ids
  <2>1. index \in VDB!Index /\ left \subseteq ChunkKey
    BY <1>1, <1>4, <1>6
  <2>2. /\ vdb' = IF ids = {} THEN [vdb EXCEPT !.status = "ok"]
                  ELSE [u EXCEPT !.status = "ok", !.index = index, !.left = left]
        /\ vfile' = IF ids # {} /\ vdb.autoSave THEN index ELSE vfile
        /\ hits' = <<>>
    BY <1>1, <1>7 DEF VDB!UpsertReturns, u, base
  <2> HIDE DEF index, left
  <2>3. vdb' \in VDB!Object
    BY <1>1, <1>4, <2>1, <2>2 DEF VDB!Object
  <2> QED
    BY <1>1, <2>1, <2>2, <2>3 DEF VDB!TypeOK
<1>8. ASSUME VDB!UpsertStops(vectors) PROVE VDB!TypeOK'
  <2>1. PICK part \in SUBSET ids :
          vdb' = [u EXCEPT !.status = "throw", !.left = @ \cup part,
                           !.index = VDB!DbUpsert(base, [i \in part |-> vectors[i]])]
    BY <1>1, <1>8 DEF VDB!UpsertStops, u, base
  <2> DEFINE index == VDB!DbUpsert(base, [i \in part |-> vectors[i]])
             left == u.left \cup part
  <2>2. index \in VDB!Index
    <3>1. [i \in part |-> vectors[i]] \in [part -> VDB!Vector]
      BY <1>1
    <3> QED
      BY <1>6, <3>1
  <2>3. left \subseteq ChunkKey
    BY <1>1, <1>4
  <2>4. vdb' = [u EXCEPT !.status = "throw", !.left = left, !.index = index]
    BY <2>1
  <2> HIDE DEF index, left
  <2>5. vdb' \in VDB!Object
    BY <1>4, <2>2, <2>3, <2>4 DEF VDB!Object
  <2>6. hits' = <<>> /\ vfile' = vfile
    BY <1>8 DEF VDB!UpsertStops
  <2> QED
    BY <1>1, <2>5, <2>6 DEF VDB!TypeOK
<1> QED
  BY <1>3, <1>7, <1>8

LEMMA SameCardinality == \A S : VDB!Cardinality(S) = Cardinality(S)
  BY DEF VDB!Cardinality, VDB!IsFiniteSet, Cardinality, IsFiniteSet

\* A query ranks ids that are indexed, finitely many, and gives each row its metadata.
LEMMA QueryTyped ==
  ASSUME VDB!TypeOK, NEW top_k \in Nat, VDB!QueryReturns(top_k)
  PROVE  /\ VDB!TypeOK' /\ vdb'.index = vdb.index /\ vdb'.left = vdb.left
         /\ \A r \in DOMAIN hits' : hits'[r].id \in VDB!Indexed(vdb.index)
         /\ Len(hits') <= top_k
<1> DEFINE hit(ids) == {ids[r] : r \in DOMAIN ids}
           metas(ids) == [i \in ChunkKey |->
                            IF i \in hit(ids) /\ vdb.metas[i] = "missing" THEN "blank" ELSE vdb.metas[i]]
<1>1. PICK ids \in IF vdb.db = "null" THEN {<<>>} ELSE VDB!DbQuery(vdb.index, top_k) :
        /\ vdb' = [vdb EXCEPT !.metas = metas(ids), !.status = "ok"]
        /\ hits' = [r \in DOMAIN ids |-> [id |-> ids[r], meta |-> metas(ids)[ids[r]]]]
        /\ vfile' = vfile
  BY DEF VDB!QueryReturns
<1>2. vdb \in VDB!Object /\ vdb.metas \in VDB!Metas /\ vfile \in VDB!Index
  BY DEF VDB!TypeOK, VDB!Object
<1>3. VDB!Indexed(vdb.index) \subseteq ChunkKey
  BY DEF VDB!Indexed
<1>4. \E s \in Nat : s <= top_k /\ ids \in [1..s -> VDB!Indexed(vdb.index)]
  <2>1. CASE vdb.db = "null"
    <3>1. /\ ids = <<>> /\ <<>> \in [1..0 -> VDB!Indexed(vdb.index)]
          /\ 0 \in Nat /\ 0 <= top_k
      BY <1>1, <2>1
    <3> QED
      BY <3>1
  <2>2. CASE vdb.db # "null"
    <3>1. Cardinality(VDB!Indexed(vdb.index)) \in Nat
      BY <1>3, FiniteKeys, FS_Subset, FS_CardinalityType
    <3> DEFINE size == IF top_k < Cardinality(VDB!Indexed(vdb.index)) THEN top_k
                       ELSE Cardinality(VDB!Indexed(vdb.index))
               sizes == IF FALSE THEN 0..size ELSE {size}
    <3>2. size \in Nat /\ size <= top_k
      BY <3>1
    <3>3. ids \in VDB!DbQuery(vdb.index, top_k)
      BY <1>1, <2>2
    <3>4. VDB!DbQuery(vdb.index, top_k) = UNION {{r \in [1..s -> VDB!Indexed(vdb.index)] :
                           \A a, b \in 1..s : r[a] = r[b] => a = b} : s \in sizes}
      BY SameCardinality DEF VDB!DbQuery
    <3> HIDE DEF size
    <3>5. PICK s \in sizes : ids \in [1..s -> VDB!Indexed(vdb.index)]
      BY <3>3, <3>4
    <3> QED
      BY <3>2, <3>5
  <2> QED
    BY <2>1, <2>2
<1>5. PICK s \in Nat : s <= top_k /\ ids \in [1..s -> VDB!Indexed(vdb.index)]
  BY <1>4
<1>6. metas(ids) \in VDB!Metas
  BY <1>2 DEF VDB!Metas
<1>7. /\ hits' \in Seq(VDB!Row) /\ Len(hits') <= top_k
      /\ \A r \in DOMAIN hits' : hits'[r].id \in VDB!Indexed(vdb.index)
  <2>1. \A i \in hit(ids) : i \in ChunkKey /\ metas(ids)[i] \in {"captured", "blank"}
    BY <1>2, <1>3, <1>5 DEF VDB!Metas
  <2>2. \A r \in 1..s : [id |-> ids[r], meta |-> metas(ids)[ids[r]]] \in VDB!Row
    BY <1>5, <2>1 DEF VDB!Row
  <2> HIDE DEF metas
  <2>3. hits' = [r \in 1..s |-> [id |-> ids[r], meta |-> metas(ids)[ids[r]]]]
    BY <1>1, <1>5
  <2> QED
    BY <1>5, <2>2, <2>3
<1> HIDE DEF metas
<1>8. vdb' \in VDB!Object /\ vdb'.index = vdb.index /\ vdb'.left = vdb.left
  BY <1>1, <1>2, <1>6 DEF VDB!Object
<1> QED
  BY <1>1, <1>2, <1>7, <1>8 DEF VDB!TypeOK
-----------------------------------------------------------------------------
\* What a query looks up: ids of its ranked hits, the first of them included, and no
\* more than it was asked for.
LEMMA FirstFew ==
  ASSUME NEW ranked \in Seq(ChunkKey), NEW k \in Nat
  PROVE  LET found == SubSeq(ranked, 1, Smaller(k, Len(ranked)))
         IN  ToSet(found) \subseteq ToSet(ranked) /\ Len(found) <= k
<1> DEFINE m == Smaller(k, Len(ranked))
           found == SubSeq(ranked, 1, m)
<1>1. m \in 0..Len(ranked) /\ m <= k
  BY DEF Smaller
<1> HIDE DEF m
<1>2. Len(found) = m /\ DOMAIN found = 1..m /\ \A r \in 1..m : found[r] = ranked[r]
  BY <1>1
<1>3. \A r \in 1..m : r \in DOMAIN ranked
  BY <1>1
<1> HIDE DEF found
<1>4. ToSet(found) \subseteq ToSet(ranked) /\ Len(found) <= k
  BY <1>1, <1>2, <1>3 DEF ToSet
<1> QED
  BY <1>4 DEF found, m

LEMMA LookedUp ==
  ASSUME NEW ranked \in Seq(ChunkKey), ranked # <<>>, NEW mode \in {"naive", "local", "global"},
         NEW k \in Nat \ {0}, NEW found \in Lookups(mode, ranked, k)
  PROVE  /\ found \in Seq(ChunkKey) /\ found # <<>> /\ found[1] = ranked[1]
         /\ ToSet(found) \subseteq ToSet(ranked)
         /\ Len(found) <= IF mode = "naive" THEN Len(ranked) ELSE k
<1>1. /\ Len(ranked) \in Nat /\ Len(ranked) >= 1 /\ k \in Nat /\ k >= 1 /\ 1 \in Nat
      /\ ranked[1] \in ChunkKey
  OBVIOUS
<1>2. CASE mode = "naive"
  <2>1. found = ranked
    BY <1>2 DEF Lookups
  <2> QED
    BY <1>1, <1>2, <2>1
<1>3. CASE mode = "local"
  <2> DEFINE m == Smaller(k, Len(ranked))
  <2>1. m \in 1..Len(ranked)
    BY <1>1 DEF Smaller
  <2>2. found = SubSeq(ranked, 1, m)
    BY <1>3, LookupsOK DEF Lookups
  <2> HIDE DEF m
  <2>3. SubSeq(ranked, 1, m) \in Seq(ChunkKey) /\ Len(SubSeq(ranked, 1, m)) = m
        /\ SubSeq(ranked, 1, m)[1] = ranked[1]
    BY <2>1
  <2>4. found # <<>>
    BY <2>1, <2>2, <2>3
  <2>5. ToSet(found) \subseteq ToSet(ranked) /\ Len(found) <= k
    BY <2>2, FirstFew DEF m
  <2> QED
    BY <1>3, <2>2, <2>3, <2>4, <2>5
<1>4. CASE mode = "global"
  <2>1. found = <<ranked[1]>>
    BY <1>4, LookupsOK DEF Lookups
  <2>2. ToSet(<<ranked[1]>>) \subseteq ToSet(ranked)
    BY <1>1 DEF ToSet
  <2> QED
    BY <1>1, <1>4, <2>1, <2>2
<1> QED
  BY <1>2, <1>3, <1>4

\* What a query that found something does: it answers from a list of ids that
\* begins with the first of its hits.
Gives(mode, top_k, budget, found) ==
  /\ found \in Seq(ChunkKey) /\ found # <<>> /\ found[1] \in VDB!Indexed(vdb.index)
  /\ answer'.kind \in {"context", "llm", "throw"} /\ answer'.mode = mode
  /\ answer'.ids = Context(found, chunks.data, StoredChunks, budget)
  /\ answer'.top_k = top_k /\ answer'.budget = budget
  /\ ToSet(found) \subseteq ToSet(Ranked') /\ Len(found) <= top_k
  /\ ToSet(Ranked') \subseteq VDB!Indexed(vdb.index)

LEMMA QueryGives ==
  ASSUME VDB!TypeOK, NEW mode \in Mode, NEW top_k \in TopK, NEW budget \in Budget,
         Query(mode, top_k, budget)
  PROVE  /\ VDB!TypeOK' /\ vdb'.index = vdb.index /\ vdb'.left = vdb.left
         /\ \/ answer' = [NoAnswer EXCEPT !.kind = "sorry", !.mode = mode]
            \/ \E found : Gives(mode, top_k, budget, found)
<1>1. mode \in {"naive", "local", "global"} /\ top_k \in Nat \ {0} /\ budget \in Nat
  BY RagAssumption DEF Query
<1>2. Fetched[mode] * top_k \in Nat
  <2>1. Fetched[mode] \in {1, 2, 3}
    BY <1>1 DEF Fetched
  <2> QED
    BY <1>1, <2>1
<1>3. VDB!QueryReturns(Fetched[mode] * top_k)
  BY DEF Query
<1>4. /\ VDB!TypeOK' /\ vdb'.index = vdb.index /\ vdb'.left = vdb.left
      /\ \A r \in DOMAIN hits' : hits'[r].id \in VDB!Indexed(vdb.index)
      /\ Len(hits') <= Fetched[mode] * top_k
  BY <1>2, <1>3, QueryTyped
<1> DEFINE ranked == [r \in DOMAIN hits' |-> hits'[r].id]
<1>5. ranked \in Seq(ChunkKey) /\ (ranked # <<>> => ranked[1] \in VDB!Indexed(vdb.index))
  <2>1. hits' \in Seq(VDB!Row)
    BY <1>4 DEF VDB!TypeOK
  <2>2. DOMAIN hits' = 1..Len(hits') /\ Len(hits') \in Nat
    BY <2>1
  <2>3. \A r \in DOMAIN hits' : hits'[r].id \in ChunkKey
    BY <1>4 DEF VDB!Indexed
  <2>4. ranked \in Seq(ChunkKey)
    BY <2>2, <2>3
  <2>5. ASSUME ranked # <<>> PROVE ranked[1] \in VDB!Indexed(vdb.index)
    <3>1. DOMAIN ranked = DOMAIN hits'
      OBVIOUS
    <3> HIDE DEF ranked
    <3>2. 1 \in DOMAIN hits'
      BY <2>4, <2>5, <3>1
    <3> QED
      BY <1>4, <3>2 DEF ranked
  <2> QED
    BY <2>4, <2>5
<1>6. ranked = Ranked' /\ ToSet(ranked) \subseteq VDB!Indexed(vdb.index)
  BY <1>4 DEF Ranked, ToSet
<1>7. IF ranked = <<>> THEN answer' = [NoAnswer EXCEPT !.kind = "sorry", !.mode = mode]
      ELSE \E ids \in Lookups(mode, ranked, top_k),
              kind \in IF rag.llm THEN {"context", "llm", "throw"} ELSE {"context"} :
             answer' = [kind |-> kind, mode |-> mode, ids |-> Context(ids, chunks.data, StoredChunks, budget),
                        top_k |-> top_k, budget |-> budget]
  BY DEF Query
<1> HIDE DEF ranked
<1>8. CASE ranked = <<>>
  BY <1>4, <1>7, <1>8
<1>9. CASE ranked # <<>>
  <2>1. PICK found \in Lookups(mode, ranked, top_k),
             kind \in IF rag.llm THEN {"context", "llm", "throw"} ELSE {"context"} :
          answer' = [kind |-> kind, mode |-> mode, ids |-> Context(found, chunks.data, StoredChunks, budget),
                     top_k |-> top_k, budget |-> budget]
    BY <1>7, <1>9
  <2>2. /\ found \in Seq(ChunkKey) /\ found # <<>> /\ found[1] = ranked[1]
        /\ ToSet(found) \subseteq ToSet(ranked)
        /\ Len(found) <= IF mode = "naive" THEN Len(ranked) ELSE top_k
    BY <1>1, <1>5, <1>9, LookedUp
  <2>3. kind \in {"context", "llm", "throw"}
    OBVIOUS
  <2>4. Len(found) <= top_k
    <3>1. CASE mode = "naive"
      <4>1. hits' \in Seq(VDB!Row)
        BY <1>4 DEF VDB!TypeOK
      <4>2. Len(Ranked') = Len(hits')
        BY <4>1 DEF Ranked
      <4>3. Fetched[mode] * top_k = top_k
        BY <1>1, <3>1 DEF Fetched
      <4>4. Len(hits') \in Nat /\ Len(hits') <= top_k /\ Len(found) \in Nat
        BY <1>4, <2>2, <4>1, <4>3
      <4> QED
        BY <1>1, <1>6, <2>2, <3>1, <4>2, <4>4
    <3> QED
      BY <2>2, <3>1
  <2>5. Gives(mode, top_k, budget, found)
    BY <1>5, <1>6, <1>9, <2>1, <2>2, <2>3, <2>4 DEF Gives
  <2> QED
    BY <1>4, <2>5
<1> QED
  BY <1>8, <1>9
-----------------------------------------------------------------------------
\* Every step but a query that finds something leaves no answer behind.
LEMMA AnswerSteps ==
  ASSUME [Next]_vars
  PROVE  \/ UNCHANGED vars
         \/ ~Answered'
         \/ \E mode \in Mode, top_k \in TopK, budget \in Budget : Query(mode, top_k, budget)
<1>1. ASSUME answer' = NoAnswer PROVE ~Answered'
  BY <1>1, NoAnswerOK DEF Answered
<1>2. CASE \/ Setter \/ \E v \in BOOLEAN : EnableNaive(v)
  BY <1>1, <1>2 DEF Setter, SetEmbeddingStrategy, SetLlmStrategy, SetTokenizer, SetChunkParams,
                    EnableNaive, Settings, NoQuery
<1>3. CASE Crash \/ Restart \/ Store
  BY <1>1, <1>3 DEF Crash, ProcessEnds, Restart, Store, StoreDocs, SaveDocs, StoreChunks, SaveChunks,
                    Storing, NoQuery
<1>4. CASE \E order \in SetToAllKPermutations(Document) : Insert(order)
  BY <1>1, <1>4 DEF Insert, InsertUnindexed, InsertIndexed, InsertThrows, InsertDies,
                    InsertChokes, Indexing, MayInsert, ProcessEnds, NoQuery
<1>5. ASSUME NEW mode \in Mode, QuerySorry(mode) \/ QueryThrows(mode) PROVE ~Answered'
  <2>1. \E kind \in {"sorry", "throw"} : answer' = [NoAnswer EXCEPT !.kind = kind, !.mode = mode]
    BY <1>5 DEF QuerySorry, QueryThrows
  <2>2. answer'.kind \in {"sorry", "throw"}
    BY <2>1, NoAnswerOK
  <2> QED
    BY <2>2 DEF Answered
<1> QED
  BY <1>2, <1>3, <1>4, <1>5 DEF Next, Setter

\* A query that found something gives at least the first chunk.
LEMMA NeverBlankKept ==
  ASSUME Core, IndexInv, VDB!TypeOK, NeverBlank, [Next]_vars
  PROVE  NeverBlank'
<1>1. CASE UNCHANGED vars
  BY <1>1 DEF vars, NeverBlank, Answered
<1>2. CASE ~Answered'
  BY <1>2 DEF Answered, NeverBlank
<1>3. ASSUME NEW mode \in Mode, NEW top_k \in TopK, NEW budget \in Budget, Query(mode, top_k, budget)
      PROVE  NeverBlank'
  <2>1. Idle /\ UNCHANGED <<docs, chunks, rag, count, past>>
    BY <1>3 DEF Query, Asking
  <2>2. CASE answer' = [NoAnswer EXCEPT !.kind = "sorry", !.mode = mode]
    <3>1. answer'.kind = "sorry"
      BY <2>2, NoAnswerOK
    <3> QED
      BY <3>1 DEF NeverBlank, Answered
  <2>3. ASSUME NEW found, Gives(mode, top_k, budget, found) PROVE NeverBlank'
    <3>0. vdb'.left = vdb.left
      BY <1>3, QueryGives
    <3> SUFFICES ASSUME \A c \in TextChunk : c.tokens <= budget, vdb.left = {},
                        Docs!Dumpable(docs.data)
                 PROVE  answer'.ids # <<>>
      BY <2>1, <2>3, <3>0 DEF NeverBlank, Gives
    <3>1. found[1] \in StoredChunks
      <4>1. DOMAIN rag.made = {}
        BY <2>1 DEF Core, Flow, Idle
      <4> QED
        BY <2>3, <4>1 DEF Gives, IndexInv, Backed
    <3>2. \A i \in StoredChunks : chunks.data[i] \in TextChunk
      BY DEF Core, Typed, Chunks!TypeOK, Chunks!Map, StoredChunks, Stored
    <3>3. \A i \in StoredChunks : chunks.data[i].tokens \in Int
      BY <3>2, ChunkTokens
    <3>4. chunks.data[found[1]].tokens <= budget /\ budget \in Nat
      BY <3>1, <3>2, RagAssumption
    <3>5. Context(found, chunks.data, StoredChunks, budget) # <<>>
      BY <2>3, <3>1, <3>3, <3>4, ContextOK DEF Gives
    <3> QED
      BY <2>3, <3>5 DEF Gives
  <2> QED
    BY <1>3, <2>2, <2>3, QueryGives
<1> QED
  BY <1>1, <1>2, <1>3, AnswerSteps
-----------------------------------------------------------------------------
\* The types that the other layers do not need: the index, the settings, the answer
\* and the counters.
PastType == [docsLost : BOOLEAN, chunksLost : BOOLEAN, searchable : BOOLEAN,
             armed : BOOLEAN, since : SUBSET ChunkKey]
SettingsTyped ==
  /\ rag.outcome \in {"ok", "throw"}
  /\ rag.strategy \in BOOLEAN /\ rag.naive \in BOOLEAN /\ rag.llm \in BOOLEAN
AnswerTyped ==
  /\ answer.kind \in {"none", "sorry", "context", "llm", "throw"}
  /\ answer.mode \in Mode \cup {"other"} /\ answer.ids \in Seq(ChunkKey)
CountTyped ==
  /\ count \in [inserts : 0..MaxInserts, crashes : 0..MaxCrashes, settings : 0..MaxSettings]
  /\ past \in PastType
Rest == VDB!TypeOK /\ SettingsTyped /\ AnswerTyped /\ CountTyped

LEMMA NoAnswerTyped ==
  ASSUME answer' = NoAnswer
  PROVE  AnswerTyped'
  BY DEF NoAnswer, AnswerTyped

LEMMA Bounds == MaxInserts \in Nat /\ MaxCrashes \in Nat /\ MaxSettings \in Nat
  BY RagAssumption

LEMMA CountsUp ==
  ASSUME CountTyped, past' \in PastType
  PROVE  /\ (count.inserts < MaxInserts /\ count' = [count EXCEPT !.inserts = @ + 1])
              => CountTyped'
         /\ (count.settings < MaxSettings /\ count' = [count EXCEPT !.settings = @ + 1])
              => CountTyped'
  BY Bounds DEF CountTyped

LEMMA FreshRagTyped ==
  /\ FreshRag.outcome = "ok" /\ FreshRag.strategy = FALSE /\ FreshRag.naive = FALSE /\ FreshRag.llm = FALSE
  /\ DOMAIN FreshRag = RagFields
  BY DEF FreshRag, RagFields

LEMMA InitRest == Init => Rest
<1> SUFFICES ASSUME Init PROVE Rest
  OBVIOUS
<1>1. vdb = VDB!NoObject /\ vfile = VDB!NoVectors /\ hits = <<>> /\ answer = NoAnswer
  BY DEF Init, VDB!Init
<1>2. VDB!TypeOK
  BY <1>1, IndexTypes DEF VDB!TypeOK
<1>3. AnswerTyped
  BY <1>1 DEF NoAnswer, AnswerTyped
<1>4. CountTyped
  BY Bounds DEF Init, CountTyped, PastType
<1>5. SettingsTyped
  BY FreshRagTyped DEF Init, SettingsTyped
<1> QED
  BY <1>2, <1>3, <1>4, <1>5 DEF Rest

LEMMA SettersRest ==
  ASSUME Core, Rest
  PROVE  /\ Setter => Rest'
         /\ \A v \in BOOLEAN : EnableNaive(v) => Rest'
<1>0. DOMAIN rag = RagFields /\ <<>> \in Seq(VDB!Row)
  BY IndexTypes DEF Core, Typed, RagTyped
<1>1. ASSUME Setter \/ \E v \in BOOLEAN : EnableNaive(v)
      PROVE  AnswerTyped' /\ CountTyped' /\ hits' = <<>> /\ vfile' = vfile
  <2>1. Settings
    BY <1>1 DEF Setter, SetEmbeddingStrategy, SetLlmStrategy, SetTokenizer, SetChunkParams, EnableNaive
  <2>2. answer' = NoAnswer /\ hits' = <<>> /\ vfile' = vfile
    BY <2>1 DEF Settings, NoQuery
  <2>4. past' \in PastType
    <3>1. past \in PastType /\ rag.strategy \in BOOLEAN /\ {} \in SUBSET ChunkKey
      BY DEF Rest, CountTyped, SettingsTyped
    <3>2. past' = past \/ past' = [past EXCEPT !.armed = rag.strategy, !.since = {}]
      BY <1>1 DEF Setter, SetEmbeddingStrategy, SetLlmStrategy, SetTokenizer, SetChunkParams,
                  EnableNaive
    <3> QED
      BY <3>1, <3>2 DEF PastType
  <2>3. CountTyped'
    BY <2>1, <2>4, CountsUp DEF Settings, Rest
  <2> QED
    BY <2>2, <2>3, NoAnswerTyped
<1>2. ASSUME Setter PROVE Rest'
  <2>1. vdb' = vdb
    BY <1>2 DEF Setter, SetEmbeddingStrategy, SetLlmStrategy, SetTokenizer, SetChunkParams
  <2>2. VDB!TypeOK'
    BY <1>0, <1>1, <1>2, <2>1 DEF Rest, VDB!TypeOK
  <2>3. SettingsTyped'
    <3>1. \E x : \/ rag' = [rag EXCEPT !.strategy = TRUE] \/ rag' = [rag EXCEPT !.llm = TRUE]
                 \/ rag' = [rag EXCEPT !.tokenizer = x] \/ rag' = [rag EXCEPT !.size = x]
      BY <1>2 DEF Setter, SetEmbeddingStrategy, SetLlmStrategy, SetTokenizer, SetChunkParams
    <3> QED
      BY <1>0, <3>1 DEF SettingsTyped, Rest, RagFields
  <2> QED
    BY <1>1, <1>2, <2>2, <2>3 DEF Rest
<1>3. ASSUME NEW v \in BOOLEAN, EnableNaive(v) PROVE Rest'
  <2>1. rag' = [rag EXCEPT !.naive = v] /\ (IF v THEN VDB!Construct(rag.strategy, FALSE) ELSE UNCHANGED vdb)
    BY <1>3 DEF EnableNaive
  <2>2. SettingsTyped'
    BY <1>0, <2>1 DEF SettingsTyped, Rest, RagFields
  <2>3. VDB!TypeOK'
    <3>1. CASE v
      BY <2>1, <3>1, ConstructTyped DEF Rest, SettingsTyped
    <3>2. CASE ~v
      BY <1>0, <1>1, <1>3, <2>1, <3>2 DEF Rest, VDB!TypeOK
    <3> QED
      BY <3>1, <3>2
  <2> QED
    BY <1>1, <1>3, <2>2, <2>3 DEF Rest
<1> QED
  BY <1>2, <1>3

LEMMA InsertRest ==
  ASSUME Core, Rest, NEW order \in SetToAllKPermutations(Document),
         InsertUnindexed(order) \/ InsertIndexed(order) \/ InsertThrows(order)
  PROVE  Rest'
<1>0. DOMAIN rag = RagFields /\ <<>> \in Seq(VDB!Row) /\ RagTyped
  BY IndexTypes DEF Core, Typed, RagTyped
<1> DEFINE ids == DOMAIN ChunksOf(order)
<1>1. MayInsert(order)
  BY DEF InsertUnindexed, InsertIndexed, InsertThrows, Indexing
<1>5. ids \in SUBSET ChunkKey
  BY <1>0, <1>1, ChunksOfOK DEF MayInsert, RagTyped, MadeOf
<1> HIDE DEF ids
<1>2. AnswerTyped' /\ CountTyped'
  <2>1. answer' = NoAnswer /\ count.inserts < MaxInserts
        /\ count' = [count EXCEPT !.inserts = @ + 1]
    BY <1>1 DEF MayInsert, Called
  <2>2. past' \in PastType
    <3>1. past' = past \/ past' = [past EXCEPT !.since = @ \cup ids]
      BY DEF InsertUnindexed, InsertIndexed, InsertThrows, Indexing, ids
    <3> QED
      BY <1>5, <3>1 DEF Rest, CountTyped, PastType
  <2> QED
    BY <2>1, <2>2, CountsUp, NoAnswerTyped DEF Rest
<1>3. SettingsTyped'
  <2>1. \E b, m : \/ rag' = [rag EXCEPT !.stage = "docs", !.batch = b, !.made = m]
                  \/ rag' = [rag EXCEPT !.outcome = "throw"]
    BY DEF InsertUnindexed, InsertIndexed, InsertThrows
  <2> QED
    BY <1>0, <2>1 DEF SettingsTyped, Rest, RagFields
<1>4. VDB!TypeOK'
  <2>1. CASE InsertUnindexed(order)
    BY <1>0, <2>1 DEF InsertUnindexed, Rest, VDB!TypeOK
  <2>2. CASE InsertIndexed(order) \/ InsertThrows(order)
    <3> DEFINE vectors == Vectors(order)
    <3>1. vectors \in [ids -> VDB!Vector]
      BY <1>5, IndexTypes DEF Vectors, ids
    <3>2. VDB!UpsertThrows(ids) \/ VDB!UpsertReturns(vectors) \/ VDB!UpsertStops(vectors)
      BY <2>2 DEF InsertIndexed, InsertThrows, ids
    <3> HIDE DEF vectors
    <3> QED
      BY <1>5, <3>1, <3>2, UpsertTyped DEF Rest
  <2> QED
    BY <2>1, <2>2
<1> QED
  BY <1>2, <1>3, <1>4 DEF Rest

LEMMA StoreRest == Core /\ Rest /\ Store => Rest'
<1> SUFFICES ASSUME Core, Rest, Store PROVE Rest'
  OBVIOUS
<1>0. DOMAIN rag = RagFields /\ <<>> \in Seq(VDB!Row)
  BY IndexTypes DEF Core, Typed, RagTyped
<1>1. answer' = NoAnswer /\ hits' = <<>> /\ UNCHANGED <<vdb, vfile, count, past>>
  BY DEF Store, StoreDocs, SaveDocs, StoreChunks, SaveChunks, Storing, NoQuery
<1>2. VDB!TypeOK' /\ AnswerTyped' /\ CountTyped'
  BY <1>0, <1>1, NoAnswerTyped DEF Rest, VDB!TypeOK, CountTyped
<1>3. SettingsTyped'
  BY <1>0 DEF Store, StoreDocs, SaveDocs, StoreChunks, SaveChunks, SettingsTyped, Rest, RagFields
<1> QED
  BY <1>2, <1>3 DEF Rest

LEMMA EndRest ==
  ASSUME Rest, ProcessEnds
  PROVE  VDB!TypeOK' /\ SettingsTyped' /\ AnswerTyped'
         /\ past' \in PastType
<1>1. vdb' = VDB!NoObject /\ vfile' = vfile /\ hits' = <<>> /\ answer' = NoAnswer
  BY DEF ProcessEnds, NoQuery
<1>2. VDB!TypeOK' /\ AnswerTyped'
  BY <1>1, IndexTypes, NoAnswerTyped DEF Rest, VDB!TypeOK
<1>3. SettingsTyped'
  BY FreshRagTyped DEF ProcessEnds, SettingsTyped, RagFields
<1> DEFINE a == past.docsLost \/ docs.file.state = "torn"
           b == past.chunksLost \/ chunks.file.state = "torn" \/ rag.stage = "chunks"
           c == VDB!Indexed(vdb.index) \cap Stored(Chunks!Load(chunks.file), NoChunk) # {}
<1>4. a \in BOOLEAN /\ b \in BOOLEAN /\ c \in BOOLEAN
  OBVIOUS
<1>5. past' = [docsLost |-> a, chunksLost |-> b, searchable |-> c, armed |-> FALSE, since |-> {}]
  BY DEF ProcessEnds
<1> HIDE DEF a, b, c
<1>6. past' \in PastType
  BY <1>4, <1>5 DEF PastType
<1> QED
  BY <1>2, <1>3, <1>6

LEMMA QueryRest ==
  ASSUME Core, Rest, NEW mode \in Mode,
         \/ QuerySorry(mode) \/ QueryThrows(mode)
         \/ \E top_k \in TopK, budget \in Budget : Query(mode, top_k, budget)
  PROVE  Rest'
<1>0. <<>> \in Seq(VDB!Row)
  BY IndexTypes
<1>1. UNCHANGED <<docs, chunks, rag, count, past>>
  BY DEF QuerySorry, QueryThrows, Query, Asking
<1>2. SettingsTyped' /\ CountTyped'
  BY <1>1 DEF Rest, SettingsTyped, CountTyped
<1>3. ASSUME NEW kind \in {"sorry", "throw"}, answer' = [NoAnswer EXCEPT !.kind = kind, !.mode = mode]
      PROVE  AnswerTyped'
  BY <1>3 DEF AnswerTyped, NoAnswer
<1>4. CASE QuerySorry(mode)
  <2>1. VDB!TypeOK'
    BY <1>0, <1>4 DEF QuerySorry, Rest, VDB!TypeOK
  <2> QED
    BY <1>2, <1>3, <1>4, <2>1 DEF QuerySorry, Rest
<1>5. CASE QueryThrows(mode)
  <2>1. vdb' = [vdb EXCEPT !.status = "throw"] /\ hits' = <<>> /\ vfile' = vfile
    BY <1>5 DEF QueryThrows, VDB!QueryThrows
  <2>2. VDB!TypeOK'
    BY <1>0, <2>1 DEF Rest, VDB!TypeOK, VDB!Object
  <2> QED
    BY <1>2, <1>3, <1>5, <2>2 DEF QueryThrows, Rest
<1>6. ASSUME NEW top_k \in TopK, NEW budget \in Budget, Query(mode, top_k, budget) PROVE Rest'
  <2>1. VDB!TypeOK'
    BY <1>6, QueryGives DEF Rest
  <2>2. ASSUME NEW found, Gives(mode, top_k, budget, found) PROVE AnswerTyped'
    <3>1. \A i \in StoredChunks : chunks.data[i].tokens \in Int
      BY ChunkTokens DEF Core, Typed, Chunks!TypeOK, Chunks!Map, StoredChunks, Stored
    <3>2. budget \in Nat
      BY RagAssumption
    <3>3. Context(found, chunks.data, StoredChunks, budget) \in Seq(ChunkKey)
      BY <2>2, <3>1, <3>2, ContextOK DEF Gives
    <3> QED
      BY <2>2, <3>3 DEF Gives, AnswerTyped
  <2>3. AnswerTyped'
    BY <1>3, <1>6, <2>2, QueryGives DEF Rest
  <2> QED
    BY <1>2, <2>1, <2>3 DEF Rest
<1> QED
  BY <1>4, <1>5, <1>6

LEMMA NextRest == Core /\ Rest /\ [Next]_vars => Rest'
<1> SUFFICES ASSUME Core, Rest, [Next]_vars PROVE Rest'
  OBVIOUS
<1>1. CASE Setter \/ \E v \in BOOLEAN : EnableNaive(v)
  BY <1>1, SettersRest
<1>2. ASSUME NEW order \in SetToAllKPermutations(Document), Insert(order) PROVE Rest'
  <2>1. CASE InsertDies(order) \/ InsertChokes(order)
    <3>1. count.inserts < MaxInserts /\ count' = [count EXCEPT !.inserts = @ + 1]
      BY <2>1 DEF InsertDies, InsertChokes, Called
    <3>2. CASE ProcessEnds
      <4>1. CountTyped'
        BY <3>1, <3>2, EndRest, CountsUp DEF Rest
      <4> QED
        BY <3>2, <4>1, EndRest DEF Rest
    <3>3. ASSUME rag' = [rag EXCEPT !.outcome = "throw"], NoQuery,
                 UNCHANGED <<docs, chunks, vdb, vfile, past>>
          PROVE  Rest'
      <4>1. CountTyped'
        BY <3>1, <3>3, CountsUp DEF Rest, CountTyped
      <4>2. SettingsTyped'
        BY <3>3 DEF Core, Typed, RagTyped, RagFields, Rest, SettingsTyped
      <4>3. VDB!TypeOK' /\ AnswerTyped'
        BY <3>3, IndexTypes, NoAnswerTyped DEF NoQuery, Rest, VDB!TypeOK
      <4> QED
        BY <4>1, <4>2, <4>3 DEF Rest
    <3> QED
      BY <2>1, <3>2, <3>3 DEF InsertDies, InsertChokes
  <2> QED
    BY <1>2, <2>1, InsertRest DEF Insert
<1>3. CASE Store
  BY <1>3, StoreRest
<1>4. ASSUME NEW mode \in Mode,
             \/ QuerySorry(mode) \/ QueryThrows(mode)
             \/ \E top_k \in TopK, budget \in Budget : Query(mode, top_k, budget)
      PROVE  Rest'
  BY <1>4, QueryRest
<1>5. CASE Crash
  <2>1. ProcessEnds /\ count.crashes < MaxCrashes /\ count' = [count EXCEPT !.crashes = @ + 1]
    BY <1>5 DEF Crash
  <2>2. CountTyped'
    BY <2>1, EndRest, Bounds DEF CountTyped, Rest
  <2> QED
    BY <2>1, <2>2, EndRest DEF Rest
<1>6. CASE Restart
  <2>1. rag' = FreshRag /\ answer' = NoAnswer /\ hits' = <<>> /\ UNCHANGED <<vdb, vfile, count, past>>
    BY <1>6 DEF Restart, NoQuery
  <2>2. VDB!TypeOK' /\ CountTyped'
    BY <2>1, IndexTypes DEF Rest, VDB!TypeOK, CountTyped
  <2>3. SettingsTyped'
    BY <2>1, FreshRagTyped DEF SettingsTyped
  <2> QED
    BY <2>1, <2>2, <2>3, NoAnswerTyped DEF Rest
<1>7. CASE UNCHANGED vars
  BY <1>7 DEF vars, Rest, VDB!TypeOK, SettingsTyped, AnswerTyped, CountTyped
<1> QED
  BY <1>1, <1>2, <1>3, <1>4, <1>5, <1>6, <1>7 DEF Next, Setter

LEMMA RestInvariance == Spec => []Rest
  BY CoreInvariance, InitRest, NextRest, PTL DEF Spec

\* Types of the composed object: stores, index, settings, insert, answer, history.
THEOREM TypeCorrect == Spec => []TypeOK
<1>1. Core /\ Rest => TypeOK
  BY DEF Core, Typed, RagTyped, MadeOf, Rest, SettingsTyped, AnswerTyped, CountTyped, PastType,
         TypeOK
<1> QED
  BY <1>1, CoreInvariance, RestInvariance, PTL

\* A query that found something answers from at least one chunk, when the budget admits
\* any single chunk, no bad document is in memory and no upsert of the index stopped half
\* way (GraphRAG.hpp:188-200,248-257,294-303).
THEOREM SomethingAnswered == Spec => []NeverBlank
<1>1. Init => NeverBlank
  BY NoAnswerOK DEF Init, NeverBlank, Answered
<1>2. Core /\ IndexInv /\ Rest /\ NeverBlank /\ [Next]_vars => NeverBlank'
  BY NeverBlankKept DEF Rest
<1> QED
  BY <1>1, <1>2, CoreInvariance, IndexInvariance, RestInvariance, PTL DEF Spec
-----------------------------------------------------------------------------
\* full_docs and text_chunks as stores of their own: whatever JsonKVStorageProofs
\* says of a store holds of them, their records and their vocabularies.
DocsStore == INSTANCE JsonKVStorageProofs WITH
  Key <- DocKey, Value <- Document, Undumpable <- BadDoc, Absent <- NoDoc, kv <- docs
ChunksStore == INSTANCE JsonKVStorageProofs WITH
  Key <- ChunkKey, Value <- TextChunk, Undumpable <- BadChunk, Absent <- NoChunk, kv <- chunks

\* A step of the object is one of full_docs, or none.
LEMMA DocsStep == Core /\ [Next]_vars => [Docs!Next]_docs
<1> SUFFICES ASSUME Core, [Next]_vars PROVE [Docs!Next]_docs
  OBVIOUS
<1>1. CASE StoreDocs
  <2>1. DocsOf(rag.batch) \in Docs!Map
    BY DEF Core, Typed, RagTyped, DocsOf, Docs!Map
  <2>2. Docs!Upsert(DocsOf(rag.batch))
    BY <1>1 DEF StoreDocs, DocsOf
  <2> QED
    BY <2>1, <2>2 DEF Docs!Next
<1>2. CASE SaveDocs \/ ProcessEnds \/ Restart
  BY <1>2 DEF SaveDocs, ProcessEnds, Restart, Docs!Next
<1>3. CASE KeepsInsert \/ Begins \/ StoreChunks \/ SaveChunks
  BY <1>3 DEF KeepsInsert, Begins, StoreChunks, SaveChunks
<1>4. RagTyped
  BY DEF Core, Typed
<1> QED
  BY <1>1, <1>2, <1>3, <1>4, Steps

\* A step of the object is one of text_chunks, or none.
LEMMA ChunksStep == Core /\ [Next]_vars => [Chunks!Next]_chunks
<1> SUFFICES ASSUME Core, [Next]_vars PROVE [Chunks!Next]_chunks
  OBVIOUS
<1>1. CASE StoreChunks
  <2>1. ChunksMade \in Chunks!Map
    BY DEF Core, Typed, RagTyped, MadeOf, ChunksMade, Chunks!Map
  <2>2. Chunks!Upsert(ChunksMade)
    BY <1>1 DEF StoreChunks, ChunksMade
  <2> QED
    BY <2>1, <2>2 DEF Chunks!Next
<1>2. CASE SaveChunks \/ ProcessEnds \/ Restart
  BY <1>2 DEF SaveChunks, ProcessEnds, Restart, Chunks!Next
<1>3. CASE KeepsInsert \/ Begins \/ StoreDocs \/ SaveDocs
  BY <1>3 DEF KeepsInsert, Begins, StoreDocs, SaveDocs
<1>4. RagTyped
  BY DEF Core, Typed
<1> QED
  BY <1>1, <1>2, <1>3, <1>4, Steps

\* The instance of the proofs has the steps of the instance of the model.
LEMMA DocsSame == (Docs!Init => DocsStore!Init) /\ (Docs!Next => DocsStore!Next)
<1>0. Docs!Init => DocsStore!Init
  BY DEF Docs!Init, Docs!Fresh, Docs!Load, Docs!NoFile, Docs!EmptyMap,
    DocsStore!Init, DocsStore!Fresh, DocsStore!Load, DocsStore!NoFile, DocsStore!EmptyMap
<1> SUFFICES ASSUME Docs!Next PROVE DocsStore!Next
  BY <1>0
<1>1. CASE \E batch \in Docs!Map : Docs!Upsert(batch)
  BY <1>1 DEF
    Docs!Map, Docs!Upsert, Docs!Merge, DocsStore!Next, DocsStore!Map, DocsStore!Upsert,
    DocsStore!Merge
<1>2. CASE Docs!Drop \/ Docs!Crash
  BY <1>2 DEF
    Docs!Drop, Docs!Crash, Docs!EmptyMap, DocsStore!Next, DocsStore!Drop,
    DocsStore!Crash, DocsStore!EmptyMap
<1>3. CASE Docs!Save
  BY <1>3 DEF
    Docs!Save, Docs!OpenFails, Docs!OpenTruncates, Docs!DumpThrows, Docs!WriteWhole,
    Docs!WriteShort, Docs!Dumpable, Docs!TornFile, Docs!WholeFile, Docs!EmptyMap,
    DocsStore!Next, DocsStore!Save, DocsStore!OpenFails, DocsStore!OpenTruncates,
    DocsStore!DumpThrows, DocsStore!WriteWhole, DocsStore!WriteShort,
    DocsStore!Dumpable, DocsStore!TornFile, DocsStore!WholeFile, DocsStore!EmptyMap
<1>4. CASE Docs!Restart
  BY <1>4 DEF
    Docs!Restart, Docs!Fresh, Docs!Load, Docs!EmptyMap, DocsStore!Next,
    DocsStore!Restart, DocsStore!Fresh, DocsStore!Load, DocsStore!EmptyMap
<1> QED
  BY <1>1, <1>2, <1>3, <1>4 DEF Docs!Next

\* The instance of the proofs has the steps of the instance of the model.
LEMMA ChunksSame == (Chunks!Init => ChunksStore!Init) /\ (Chunks!Next => ChunksStore!Next)
<1>0. Chunks!Init => ChunksStore!Init
  BY DEF Chunks!Init, Chunks!Fresh, Chunks!Load, Chunks!NoFile, Chunks!EmptyMap,
    ChunksStore!Init, ChunksStore!Fresh, ChunksStore!Load, ChunksStore!NoFile, ChunksStore!EmptyMap
<1> SUFFICES ASSUME Chunks!Next PROVE ChunksStore!Next
  BY <1>0
<1>1. CASE \E batch \in Chunks!Map : Chunks!Upsert(batch)
  BY <1>1 DEF
    Chunks!Map, Chunks!Upsert, Chunks!Merge, ChunksStore!Next, ChunksStore!Map,
    ChunksStore!Upsert, ChunksStore!Merge
<1>2. CASE Chunks!Drop \/ Chunks!Crash
  BY <1>2 DEF
    Chunks!Drop, Chunks!Crash, Chunks!EmptyMap, ChunksStore!Next, ChunksStore!Drop,
    ChunksStore!Crash, ChunksStore!EmptyMap
<1>3. CASE Chunks!Save
  BY <1>3 DEF
    Chunks!Save, Chunks!OpenFails, Chunks!OpenTruncates, Chunks!DumpThrows,
    Chunks!WriteWhole, Chunks!WriteShort, Chunks!Dumpable, Chunks!TornFile,
    Chunks!WholeFile, Chunks!EmptyMap, ChunksStore!Next, ChunksStore!Save,
    ChunksStore!OpenFails, ChunksStore!OpenTruncates, ChunksStore!DumpThrows,
    ChunksStore!WriteWhole, ChunksStore!WriteShort, ChunksStore!Dumpable,
    ChunksStore!TornFile, ChunksStore!WholeFile, ChunksStore!EmptyMap
<1>4. CASE Chunks!Restart
  BY <1>4 DEF
    Chunks!Restart, Chunks!Fresh, Chunks!Load, Chunks!EmptyMap, ChunksStore!Next,
    ChunksStore!Restart, ChunksStore!Fresh, ChunksStore!Load, ChunksStore!EmptyMap
<1> QED
  BY <1>1, <1>2, <1>3, <1>4 DEF Chunks!Next

LEMMA StoreAssumptions == DocsStore!KVAssumption /\ ChunksStore!KVAssumption
<1>1. Faults \subseteq {"open", "write"}
  BY RagAssumption
<1> QED
  BY <1>1, KeysAssumption DEF DocsStore!KVAssumption, ChunksStore!KVAssumption, BadDoc, BadChunk

\* Inside the object each of its two stores behaves as a store does by itself
\* (GraphRAG.hpp:63-65,156-157): insert(), the constructor and the end of the process
\* use them in no other way.
THEOREM StoresAreStores == Spec => DocsStore!Spec /\ ChunksStore!Spec
<1>1. Init => DocsStore!Init /\ ChunksStore!Init
  BY DocsSame, ChunksSame DEF Init
<1>2. Core /\ [Next]_vars => [DocsStore!Next]_docs /\ [ChunksStore!Next]_chunks
  BY DocsStep, ChunksStep, DocsSame, ChunksSame
<1> QED
  BY <1>1, <1>2, CoreInvariance, PTL DEF Spec, DocsStore!Spec, ChunksStore!Spec

\* So each of them implements DurableMap: a new process finds in full_docs.json, and
\* in text_chunks.json, one whole earlier map or nothing (JsonKVStorage.hpp:88-132).
THEOREM StoresAreDurable == Spec => DocsStore!RefinesDurableMap /\ ChunksStore!RefinesDurableMap
<1>1. DocsStore!Spec => DocsStore!RefinesDurableMap
  BY StoreAssumptions, DocsStore!Refinement
<1>2. ChunksStore!Spec => ChunksStore!RefinesDurableMap
  BY StoreAssumptions, ChunksStore!Refinement
<1> QED
  BY <1>1, <1>2, StoresAreStores, PTL
-----------------------------------------------------------------------------
\* Costs add up.
LEMMA CostOK ==
  ASSUME NEW stored, NEW data, \A i \in stored : data[i].tokens \in Int
  PROVE  /\ Cost(<<>>, data) = 0
         /\ \A t \in Seq(stored), i \in stored :
              Cost(t, data) \in Int /\ Cost(Append(t, i), data) = Cost(t, data) + data[i].tokens
<1> DEFINE step == [p \in Int \X stored |-> p[1] + data[p[2]].tokens]
<1>1. 0 \in Int /\ step \in [Int \X stored -> Int]
  OBVIOUS
<1>2. \A n \in Int, i \in stored : step[<<n, i>>] = n + data[i].tokens
  OBVIOUS
<1> HIDE DEF step
<1>3. PICK F : IsLoop(F, Int, stored, 0, step)
  BY <1>1, Loop
<1>4. ASSUME NEW t \in Seq(stored) PROVE Cost(t, data) = F[t]
  <2> DEFINE N == Len(t)
             body(h) == [r \in 0..N |-> IF r = 0 THEN 0 ELSE h[r - 1] + data[t[r]].tokens]
             cost == CHOOSE h : h = body(h)
  <2>0. N \in Nat /\ \A r \in 1..N : t[r] \in stored /\ r - 1 \in 0..N /\ r \in 0..N /\ r # 0
    OBVIOUS
  <2>1. PICK f \in [0..N -> Int] : f[0] = 0 /\ \A r \in 1..N : f[r] = step[<<f[r - 1], t[r]>>]
    BY <1>3 DEF IsLoop
  <2>2. f = body(f)
    <3>1. \A r \in 1..N : f[r] = f[r - 1] + data[t[r]].tokens
      BY <1>2, <2>0, <2>1
    <3>2. \A r \in 0..N : f[r] = IF r = 0 THEN 0 ELSE f[r - 1] + data[t[r]].tokens
      BY <2>0, <2>1, <3>1
    <3> QED
      BY <2>1, <3>2
  <2>3. cost = body(cost)
    <3> HIDE DEF body
    <3> QED
      BY <2>2
  <2>4. Cost(t, data) = cost[N]
    BY DEF Cost
  <2> HIDE DEF cost
  <2>5. cost[0] = 0 /\ \A r \in 1..N : cost[r] = cost[r - 1] + data[t[r]].tokens
    BY <2>0, <2>3
  <2>6. \A r \in 1..N : cost[r - 1] \in Int => cost[r] = step[<<cost[r - 1], t[r]>>]
    BY <1>2, <2>0, <2>5
  <2> QED
    BY <1>3, <2>4, <2>5, <2>6 DEF IsLoop, N
<1>5. /\ F \in [Seq(stored) -> Int] /\ F[<<>>] = 0
      /\ \A t \in Seq(stored), i \in stored : F[Append(t, i)] = step[<<F[t], i>>]
  BY <1>3 DEF IsLoop
<1>6. Cost(<<>>, data) = 0
  <2>1. <<>> \in Seq(stored)
    OBVIOUS
  <2> QED
    BY <1>4, <1>5, <2>1
<1>7. ASSUME NEW t \in Seq(stored), NEW i \in stored
      PROVE  Cost(t, data) \in Int /\ Cost(Append(t, i), data) = Cost(t, data) + data[i].tokens
  <2>1. Append(t, i) \in Seq(stored)
    OBVIOUS
  <2>2. F[t] \in Int
    BY <1>5
  <2> QED
    BY <1>2, <1>4, <1>5, <2>1, <2>2
<1> QED
  BY <1>6, <1>7

\* A context is made of stored ids of the list, no more of them than there are and no
\* more than the budget admits.
LEMMA ContextBounds ==
  ASSUME NEW ids \in Seq(ChunkKey), NEW data, NEW stored,
         \A i \in stored : data[i].tokens \in Int, NEW budget \in Nat
  PROVE  /\ ToSet(Context(ids, data, stored, budget)) \subseteq ToSet(ids) \cap stored
         /\ Len(Context(ids, data, stored, budget)) <= Len(ids)
         /\ Cost(Context(ids, data, stored, budget), data) <= budget
<1> DEFINE N == Len(ids)
           these == ToSet(ids) \cap stored
           Within(s, r) == /\ s.section \in Seq(these) /\ s.tokens \in Int /\ Len(s.section) <= r
                           /\ Cost(s.section, data) <= budget
                           /\ s.tokens <= budget => s.tokens = Cost(s.section, data)
<1>1. N \in Nat /\ \A r \in 1..N : ids[r] \in ToSet(ids) /\ r - 1 \in 0..N
  BY DEF ToSet
<1>2. PICK scan : IsScan(scan, ids, data, stored, budget)
  BY ContextSteps
<1>3. /\ Context(ids, data, stored, budget) = scan[N].section /\ scan[0] = NoSection
      /\ \A r \in 1..N : scan[r] = ScanStep(scan[r - 1], ids[r], data, stored, budget)
  BY <1>2 DEF IsScan
<1>4. /\ Cost(<<>>, data) = 0
      /\ \A t \in Seq(these), i \in these :
           Cost(t, data) \in Int /\ Cost(Append(t, i), data) = Cost(t, data) + data[i].tokens
  <2>1. \A i \in these : data[i].tokens \in Int
    OBVIOUS
  <2> HIDE DEF these
  <2> QED
    BY <2>1, CostOK
<1>5. Within(NoSection, 0)
  <2>1. NoSection.section = <<>> /\ NoSection.tokens = 0 /\ <<>> \in Seq(these) /\ Len(<<>>) = 0
    BY DEF NoSection
  <2> HIDE DEF these
  <2> QED
    BY <1>4, <2>1
<1>6. ASSUME NEW r \in 0..(N - 1), NEW s, Within(s, r)
      PROVE  Within(ScanStep(s, ids[r + 1], data, stored, budget), r + 1)
  <2> DEFINE i == ids[r + 1]
             cost == s.tokens + data[i].tokens
             n == ScanStep(s, i, data, stored, budget)
             long == Append(s.section, i)
  <2> SUFFICES Within(n, r + 1)
    OBVIOUS
  <2>1. r + 1 \in 1..N /\ i \in ToSet(ids) /\ r \in Nat
    BY <1>1
  <2>2. s.section \in Seq(these) /\ s.tokens \in Int /\ Len(s.section) \in Nat
    BY <1>6
  <2>3. CASE i \notin stored \/ s.tokens > budget
    <3>1. n = s
      BY <2>3 DEF ScanStep
    <3> HIDE DEF n, these
    <3> QED
      BY <1>6, <2>1, <2>2, <3>1
  <2>4. CASE ~(i \notin stored \/ s.tokens > budget)
    <3>1. i \in these /\ data[i].tokens \in Int /\ s.tokens <= budget /\ cost \in Int
      BY <2>1, <2>2, <2>4
    <3>2. /\ n.section = IF cost > budget THEN s.section ELSE long
          /\ n.tokens = cost
      BY <2>4 DEF ScanStep
    <3>3. s.tokens = Cost(s.section, data) /\ Cost(long, data) = cost
      BY <1>4, <1>6, <2>2, <3>1
    <3>4. long \in Seq(these) /\ Len(long) = Len(s.section) + 1
      BY <2>2, <3>1
    <3> HIDE DEF n, these, cost, long
    <3>5. CASE cost > budget
      BY <1>6, <2>1, <2>2, <3>1, <3>2, <3>5
    <3>6. CASE ~(cost > budget)
      BY <1>6, <2>1, <2>2, <3>1, <3>2, <3>3, <3>4, <3>6
    <3> QED
      BY <3>5, <3>6
  <2> QED
    BY <2>3, <2>4
<1>7. \A r \in 0..N : Within(scan[r], r)
  <2> DEFINE P == {r \in 0..N : Within(scan[r], r)}
  <2>1. 0 \in P
    BY <1>1, <1>3, <1>5
  <2>2. ASSUME NEW r \in 0..(N - 1), r \in P PROVE r + 1 \in P
    <3>1. r + 1 \in 1..N /\ r + 1 \in 0..N /\ (r + 1) - 1 = r
      BY <1>1
    <3>2. scan[r + 1] = ScanStep(scan[r], ids[r + 1], data, stored, budget)
      BY <1>3, <3>1
    <3>3. Within(scan[r], r)
      BY <2>2
    <3> HIDE DEF Within
    <3> QED
      BY <1>6, <3>1, <3>2, <3>3
  <2>3. \A r \in 0..N : r \in P
    <3> HIDE DEF P
    <3> QED
      BY <1>1, <2>1, <2>2, UpTo
  <2> HIDE DEF Within
  <2> QED
    BY <2>3
<1>8. Within(scan[N], N)
  <2> HIDE DEF Within
  <2> QED
    BY <1>1, <1>7
<1>9. ToSet(scan[N].section) \subseteq these
  <2>1. scan[N].section \in Seq(these)
    BY <1>8
  <2> HIDE DEF these
  <2> QED
    BY <2>1 DEF ToSet
<1> QED
  BY <1>3, <1>8, <1>9

LEMMA BoundedKept ==
  ASSUME Core, VDB!TypeOK, BoundedAnswer, [Next]_vars
  PROVE  BoundedAnswer'
<1>1. CASE UNCHANGED vars
  BY <1>1 DEF vars, BoundedAnswer, Answered, Ranked, StoredChunks
<1>2. CASE ~Answered'
  BY <1>2 DEF BoundedAnswer
<1>3. ASSUME NEW mode \in Mode, NEW top_k \in TopK, NEW budget \in Budget, Query(mode, top_k, budget)
      PROVE  BoundedAnswer'
  <2>1. /\ chunks' = chunks /\ mode \in {"naive", "local", "global"}
        /\ top_k \in Nat /\ top_k >= 1 /\ budget \in Nat
    BY <1>3, RagAssumption DEF Query, Asking
  <2>2. CASE answer' = [NoAnswer EXCEPT !.kind = "sorry", !.mode = mode]
    <3>1. answer'.kind = "sorry"
      BY <2>2, NoAnswerOK
    <3> QED
      BY <3>1 DEF BoundedAnswer, Answered
  <2>3. ASSUME NEW found, Gives(mode, top_k, budget, found) PROVE BoundedAnswer'
    <3> DEFINE ranked == Ranked'
    <3>2. ToSet(found) \subseteq ToSet(ranked) /\ Len(found) <= top_k
      BY <2>3 DEF Gives
    <3> HIDE DEF ranked
    <3>3. \A i \in StoredChunks : chunks.data[i].tokens \in Int
      <4>1. \A i \in StoredChunks : chunks.data[i] \in TextChunk
        BY DEF Core, Typed, Chunks!TypeOK, Chunks!Map, StoredChunks, Stored
      <4> QED
        BY <4>1, ChunkTokens
    <3> DEFINE given == Context(found, chunks.data, StoredChunks, budget)
    <3>4. /\ ToSet(given) \subseteq ToSet(found) \cap StoredChunks
          /\ Len(given) <= Len(found) /\ Cost(given, chunks.data) <= budget
          /\ Len(given) \in Nat /\ Len(found) \in Nat
      <4>1. found \in Seq(ChunkKey)
        BY <2>3 DEF Gives
      <4>2. given \in Seq(ChunkKey)
        BY <2>1, <3>3, <4>1, ContextOK
      <4>3. /\ ToSet(given) \subseteq ToSet(found) \cap StoredChunks
            /\ Len(given) <= Len(found) /\ Cost(given, chunks.data) <= budget
        BY <2>1, <3>3, <4>1, ContextBounds
      <4> HIDE DEF given
      <4> QED
        BY <4>1, <4>2, <4>3
    <3>5. /\ answer'.ids = given /\ answer'.mode = mode /\ answer'.top_k = top_k
          /\ answer'.budget = budget
      BY <2>3 DEF Gives
    <3> HIDE DEF given
    <3>6. StoredChunks' = StoredChunks
      BY <2>1 DEF StoredChunks
    <3>7. ToSet(given) \subseteq ToSet(ranked) \cap StoredChunks /\ Len(given) <= top_k
      BY <2>1, <3>2, <3>4
    <3> QED
      BY <2>1, <3>4, <3>5, <3>6, <3>7 DEF BoundedAnswer, ranked
  <2> QED
    BY <1>3, <2>2, <2>3, QueryGives
<1> QED
  BY <1>1, <1>2, <1>3, AnswerSteps

\* An answer is made of stored hits of its query, at most top_k of them, and stays
\* within its budget, in every mode (GraphRAG.hpp:188-200,237-257,281-303).
THEOREM AnswersAreBounded == Spec => []BoundedAnswer
<1>1. Init => BoundedAnswer
  BY NoAnswerOK DEF Init, BoundedAnswer, Answered
<1>2. Core /\ Rest /\ BoundedAnswer /\ [Next]_vars => BoundedAnswer'
  BY BoundedKept DEF Rest
<1> QED
  BY <1>1, <1>2, CoreInvariance, RestInvariance, PTL DEF Spec

\* Nothing is found but by the index, which was fed since it was constructed.
LEMMA FoundKept ==
  ASSUME Core, IndexInv, VDB!TypeOK, FoundSinceEnabled, [Next]_vars
  PROVE  FoundSinceEnabled'
<1>1. CASE UNCHANGED vars
  BY <1>1 DEF vars, FoundSinceEnabled, Answered
<1>2. CASE ~Answered'
  BY <1>2 DEF FoundSinceEnabled
<1>3. ASSUME NEW mode \in Mode, NEW top_k \in TopK, NEW budget \in Budget, Query(mode, top_k, budget)
      PROVE  FoundSinceEnabled'
  <2>1. past' = past /\ budget \in Nat
    BY <1>3, RagAssumption DEF Query, Asking
  <2>2. CASE answer' = [NoAnswer EXCEPT !.kind = "sorry", !.mode = mode]
    <3>1. answer'.kind = "sorry"
      BY <2>2, NoAnswerOK
    <3> QED
      BY <3>1 DEF FoundSinceEnabled, Answered
  <2>3. ASSUME NEW found, Gives(mode, top_k, budget, found) PROVE FoundSinceEnabled'
    <3>1. /\ found \in Seq(ChunkKey) /\ found[1] \in VDB!Indexed(vdb.index)
          /\ answer'.ids = Context(found, chunks.data, StoredChunks, budget)
          /\ ToSet(found) \subseteq VDB!Indexed(vdb.index)
      BY <2>3 DEF Gives
    <3>2. \A i \in StoredChunks : chunks.data[i].tokens \in Int
      <4>1. \A i \in StoredChunks : chunks.data[i] \in TextChunk
        BY DEF Core, Typed, Chunks!TypeOK, Chunks!Map, StoredChunks, Stored
      <4> QED
        BY <4>1, ChunkTokens
    <3>3. ToSet(answer'.ids) \subseteq ToSet(found)
      BY <2>1, <3>1, <3>2, ContextBounds
    <3>4. past.armed /\ VDB!Indexed(vdb.index) \subseteq past.since
      BY <3>1 DEF IndexInv, Fed
    <3> QED
      BY <2>1, <3>1, <3>3, <3>4 DEF FoundSinceEnabled
  <2> QED
    BY <1>3, <2>2, <2>3, QueryGives
<1> QED
  BY <1>1, <1>2, <1>3, AnswerSteps

\* An answer is made of chunks inserted since naive mode was last enabled, and there is
\* none when the embedding strategy was set later (GraphRAG.hpp:81-84,119): the inductive
\* part is IndexInv, which knows what the index was given and since when.
THEOREM OnlyNewIsFound == Spec => []FoundSinceEnabled
<1>1. Init => FoundSinceEnabled
  BY NoAnswerOK DEF Init, FoundSinceEnabled, Answered
<1>2. Core /\ IndexInv /\ Rest /\ FoundSinceEnabled /\ [Next]_vars => FoundSinceEnabled'
  BY FoundKept DEF Rest
<1> QED
  BY <1>1, <1>2, CoreInvariance, IndexInvariance, RestInvariance, PTL DEF Spec
=============================================================================
