------------------------------ MODULE GraphRAG ------------------------------
(***************************************************************************)
(* One GraphRAG object over its working directory                          *)
(* (include/nano_graphrag/GraphRAG.hpp): insert() across the vector index, *)
(* full_docs and text_chunks, the three query modes, the setters, and what *)
(* the end of the process at any point leaves behind.                      *)
(*                                                                         *)
(* The program is single-threaded: the calls of one client follow each     *)
(* other, and the only interleaving is with the end of the process, which  *)
(* tells apart the steps of an insert between which the disk changes.      *)
(***************************************************************************)
EXTENDS Retrieval

CONSTANTS
  Document,      \* the document texts a client inserts
  Tokenizer,     \* the tokenizer types that create_tokenizer_strategy knows
  Encode,        \* [Tokenizer -> [Document -> Seq(token)]], a token being text
  ValidUtf8(_),  \* is a text valid UTF-8
  Size,          \* values of set_chunk_params: records with max and overlap
  NoDoc, NoChunk,
  Mode,          \* values of QueryParam::mode in use
  TopK,          \* values of QueryParam::top_k
  Budget,        \* values of QueryParam::naive_max_token_for_text_unit
  Faults,        \* of the file system, see JsonKVStorage
  MaxInserts, MaxCrashes,  \* bounds on the number of calls and of crashes
  MaxSettings              \* bound on the calls of the setters

ASSUME RagAssumption ==
  /\ \A s \in Size : s.max \in Int /\ s.overlap \in Int
  /\ Mode \subseteq {"naive", "local", "global", "other"}
  /\ TopK \subseteq Nat \ {0} /\ Budget \subseteq Nat
  /\ \A t \in Tokenizer, d \in Document : Len(Encode[t][d]) \in Nat
  /\ IsFiniteSet(Document) /\ IsFiniteSet(Tokenizer) /\ IsFiniteSet(Size)
  /\ \E s \in Size : Fits(s.max, s.overlap)
  /\ "Tiktoken" \in Tokenizer
  /\ Faults \subseteq {"open", "write"} /\ {MaxInserts, MaxCrashes, MaxSettings} \subseteq Nat

VARIABLES
  docs, chunks,  \* full_docs and text_chunks, see JsonKVStorage
  vdb, vfile,    \* chunks_vdb and its index file, see NanoVectorDBStorage
  hits,          \* the rows of the last query of chunks_vdb
  rag,           \* the settings of the object and the insert in progress
  answer,        \* what the last call of query() gave, and from what
  count,         \* how many inserts, crashes and settings so far
  past           \* history: which store may have lost what the other one kept,
                 \* whether the previous process had saved what it could find,
                 \* whether the strategy was set when naive mode was last enabled,
                 \* and the chunks of the inserts since then

vars == <<docs, chunks, vdb, vfile, hits, rag, answer, count, past>>

DocKey == {DocId(d) : d \in Document}
FitSize == {s \in Size : Fits(s.max, s.overlap)}
TextChunk == UNION {ToSet(ChunkingByTokenSize(Encode[t][d], DocId(d), s.max, s.overlap)) :
                      t \in Tokenizer, d \in Document, s \in FitSize}
ChunkKey == {ChunkId(c) : c \in TextChunk}
BadDoc == {d \in Document : \E t \in Tokenizer : ~ValidUtf8(Text(Encode[t][d]))}
BadChunk == {c \in TextChunk : ~ValidUtf8(c.content)}

ASSUME KeysAssumption == NoDoc \notin Document /\ NoChunk \notin TextChunk

Docs == INSTANCE JsonKVStorage WITH
  Key <- DocKey, Value <- Document, Undumpable <- BadDoc, Absent <- NoDoc, kv <- docs
Chunks == INSTANCE JsonKVStorage WITH
  Key <- ChunkKey, Value <- TextChunk, Undumpable <- BadChunk, Absent <- NoChunk, kv <- chunks

\* enable_naive passes neither "auto_save" nor a threshold above 0.
VDB == INSTANCE NanoVectorDBStorage WITH
  Id <- ChunkKey, Configs <- {FALSE}, Threshold <- FALSE,
  vs <- vdb, file <- vfile, rows <- hits

Stored(data, none) == {k \in DOMAIN data : data[k] # none}
StoredDocs == Stored(docs.data, NoDoc)
StoredChunks == Stored(chunks.data, NoChunk)

\* Mutant of FreshRag: the constructor leaves the tokenizer out.
FreshRagUnset == [stage |-> "idle", batch |-> {}, made |-> <<>>, outcome |-> "ok",
                  strategy |-> FALSE, naive |-> FALSE, tokenizer |-> "unset",
                  size |-> CHOOSE s \in FitSize : TRUE, llm |-> FALSE]

\* The object as its constructor leaves it.
FreshRag == [stage |-> "idle", batch |-> {}, made |-> <<>>, outcome |-> "ok",
             strategy |-> FALSE, naive |-> FALSE, tokenizer |-> "Tiktoken",
             size |-> CHOOSE s \in FitSize : TRUE, llm |-> FALSE]
NoAnswer == [kind |-> "none", mode |-> "other", ids |-> <<>>, top_k |-> 1, budget |-> 0]

TypeOK ==
  /\ Docs!TypeOK /\ Chunks!TypeOK /\ VDB!TypeOK
  /\ rag.stage \in {"idle", "docs", "chunks", "down"}
  /\ rag.batch \subseteq Document /\ rag.outcome \in {"ok", "throw"}
  /\ DOMAIN rag.made \subseteq ChunkKey
  /\ \A i \in DOMAIN rag.made : rag.made[i] \in TextChunk
  /\ rag.strategy \in BOOLEAN /\ rag.naive \in BOOLEAN /\ rag.llm \in BOOLEAN
  /\ rag.tokenizer \in Tokenizer \cup {"null"} /\ rag.size \in Size
  /\ answer.kind \in {"none", "sorry", "context", "llm", "throw"}
  /\ answer.mode \in Mode \cup {"other"} /\ answer.ids \in Seq(ChunkKey)
  /\ count \in [inserts : 0..MaxInserts, crashes : 0..MaxCrashes, settings : 0..MaxSettings]
  /\ past \in [docsLost : BOOLEAN, chunksLost : BOOLEAN, searchable : BOOLEAN,
               armed : BOOLEAN, since : SUBSET ChunkKey]

Init ==
  /\ Docs!Init /\ Chunks!Init /\ VDB!Init
  /\ rag = FreshRag /\ answer = NoAnswer
  /\ count = [inserts |-> 0, crashes |-> 0, settings |-> 0]
  /\ past = [docsLost |-> FALSE, chunksLost |-> FALSE, searchable |-> FALSE,
             armed |-> FALSE, since |-> {}]
-----------------------------------------------------------------------------
Idle == rag.stage = "idle"
NoQuery == answer' = NoAnswer /\ hits' = <<>>
Settings == /\ Idle /\ count.settings < MaxSettings
            /\ count' = [count EXCEPT !.settings = @ + 1]
            /\ NoQuery /\ UNCHANGED <<docs, chunks, vfile>>

SetEmbeddingStrategy ==
  /\ Settings /\ ~rag.strategy
  /\ rag' = [rag EXCEPT !.strategy = TRUE] /\ UNCHANGED <<vdb, past>>

SetLlmStrategy ==
  /\ Settings /\ ~rag.llm
  /\ rag' = [rag EXCEPT !.llm = TRUE] /\ UNCHANGED <<vdb, past>>

\* Also the OpenAI type, for which the factory returns nullptr.
SetTokenizer(t) ==
  /\ Settings /\ t # rag.tokenizer
  /\ rag' = [rag EXCEPT !.tokenizer = t] /\ UNCHANGED <<vdb, past>>

SetChunkParams(s) ==
  /\ Settings /\ s # rag.size
  /\ rag' = [rag EXCEPT !.size = s] /\ UNCHANGED <<vdb, past>>

\* Mutant of EnableNaive: an index that is there is kept.
EnableNaiveOnce(v) ==
  /\ Settings
  /\ rag' = [rag EXCEPT !.naive = v]
  /\ IF v /\ ~vdb.exists THEN VDB!Construct(rag.strategy, FALSE) ELSE UNCHANGED vdb
  /\ past' = IF v THEN [past EXCEPT !.armed = rag.strategy, !.since = {}] ELSE past

\* enable_naive(true) always constructs a new index, with the strategy of now;
\* enable_naive(false) leaves chunks_vdb where it is.
EnableNaive(v) ==
  /\ Settings
  /\ rag' = [rag EXCEPT !.naive = v]
  /\ IF v THEN VDB!Construct(rag.strategy, FALSE) ELSE UNCHANGED vdb
  /\ past' = IF v THEN [past EXCEPT !.armed = rag.strategy, !.since = {}] ELSE past
-----------------------------------------------------------------------------
\* The process ends: only the files are left.  From here on the history variable
\* tells when one store may come back without what the other one refers to.
ProcessEnds ==
  /\ Docs!Crash /\ Chunks!Crash
  /\ vdb' = VDB!NoObject /\ rag' = [FreshRag EXCEPT !.stage = "down"]
  /\ past' = [docsLost |-> past.docsLost \/ docs.file.state = "torn",
              chunksLost |-> \/ past.chunksLost \/ chunks.file.state = "torn"
                             \/ rag.stage = "chunks",
              searchable |-> VDB!Indexed(vdb.index)
                               \cap Stored(Chunks!Load(chunks.file), NoChunk) # {},
              armed |-> FALSE, since |-> {}]
  /\ NoQuery /\ UNCHANGED vfile

\* What get_chunks returns, over the documents in the order the hash map yields
\* them; with no document it never looks at the tokenizer, and sizes that do not fit
\* let only documents without tokens through.
ChunksOf(order) ==
  IF order = <<>> \/ rag.size \notin FitSize THEN <<>>
  ELSE GetChunks(order, Encode[rag.tokenizer], rag.size.max, rag.size.overlap)
Chokes(order) == rag.size \notin FitSize /\ \E d \in ToSet(order) : Encode[rag.tokenizer][d] # <<>>

\* insert() up to its first write to disk: ids, chunks and, in naive mode, the
\* vector index.
Called == /\ Idle /\ count.inserts < MaxInserts
          /\ count' = [count EXCEPT !.inserts = @ + 1]
MayInsert(order) ==
  /\ Called
  /\ order = <<>> \/ (rag.tokenizer # "null" /\ ~Chokes(order))
  /\ answer' = NoAnswer
  /\ UNCHANGED <<docs, chunks>>
InNaiveMode == rag.naive /\ vdb.exists
Vectors(order) == [i \in DOMAIN ChunksOf(order) |-> VDB!VectorOf(i)]
Indexing(order) == /\ MayInsert(order) /\ InNaiveMode
                   /\ past' = [past EXCEPT !.since = @ \cup DOMAIN ChunksOf(order)]

\* Mutants of InsertUnindexed and InsertIndexed: text_chunks is not given the
\* chunks (made in naive mode only; moved into the index).
InsertNoChunks(order) ==
  /\ MayInsert(order) /\ ~InNaiveMode
  /\ rag' = [rag EXCEPT !.stage = "docs", !.batch = ToSet(order)]
  /\ hits' = <<>> /\ UNCHANGED <<vdb, vfile, past>>
InsertMoved(order) ==
  /\ Indexing(order)
  /\ VDB!UpsertReturns(Vectors(order))
  /\ rag' = [rag EXCEPT !.stage = "docs", !.batch = ToSet(order)]

InsertUnindexed(order) ==
  /\ MayInsert(order) /\ ~InNaiveMode
  /\ rag' = [rag EXCEPT !.stage = "docs", !.batch = ToSet(order), !.made = ChunksOf(order)]
  /\ hits' = <<>> /\ UNCHANGED <<vdb, vfile, past>>

InsertIndexed(order) ==
  /\ Indexing(order)
  /\ VDB!UpsertReturns(Vectors(order))
  /\ rag' = [rag EXCEPT !.stage = "docs", !.batch = ToSet(order), !.made = ChunksOf(order)]

\* embed() or the index throws: insert() ends before anything was stored.
InsertThrows(order) ==
  /\ Indexing(order)
  /\ VDB!UpsertThrows(DOMAIN ChunksOf(order)) \/ VDB!UpsertStops(Vectors(order))
  /\ rag' = [rag EXCEPT !.outcome = "throw"]

\* encode() through the null pointer that the OpenAI type left: the process dies.
InsertDies(order) ==
  /\ Called
  /\ order # <<>> /\ rag.tokenizer = "null"
  /\ ProcessEnds

\* The loop over a document with sizes that do not fit, see ChunkingLoop: insert()
\* throws before it has changed anything, or takes the process with it.
InsertChokes(order) ==
  /\ Called
  /\ rag.tokenizer # "null" /\ Chokes(order)
  /\ \/ /\ rag' = [rag EXCEPT !.outcome = "throw"]
        /\ NoQuery /\ UNCHANGED <<docs, chunks, vdb, vfile, past>>
     \/ ProcessEnds

Insert(order) == \/ InsertUnindexed(order) \/ InsertIndexed(order) \/ InsertThrows(order)
                 \/ InsertDies(order) \/ InsertChokes(order)

Storing == NoQuery /\ UNCHANGED <<vdb, vfile, count, past>>

\* full_docs->upsert(new_docs) ...
StoreDocs ==
  /\ rag.stage = "docs"
  /\ Docs!Upsert([k \in DocKey |-> IF k.hash \in rag.batch THEN k.hash ELSE NoDoc])
  /\ Storing /\ UNCHANGED <<chunks, rag>>

\* Mutant of SaveDocs: the exception of save() is swallowed.
SaveDocsSwallows ==
  /\ rag.stage = "docs"
  /\ Docs!Save
  /\ rag' = IF docs'.pc # "ready" THEN rag ELSE [rag EXCEPT !.stage = "chunks"]
  /\ Storing /\ UNCHANGED chunks

\* ... and its save(), whose exception ends insert().
SaveDocs ==
  /\ rag.stage = "docs"
  /\ Docs!Save
  /\ rag' = IF docs'.pc # "ready" THEN rag
            ELSE IF docs'.status # "throw" THEN [rag EXCEPT !.stage = "chunks"]
            ELSE [rag EXCEPT !.stage = "idle", !.outcome = "throw", !.made = <<>>, !.batch = {}]
  /\ Storing /\ UNCHANGED chunks

\* text_chunks->upsert(inserting_chunks), and the end of insert().
StoreChunks ==
  /\ rag.stage = "chunks"
  /\ Chunks!Upsert([k \in ChunkKey |-> IF k \in DOMAIN rag.made THEN rag.made[k] ELSE NoChunk])
  /\ Storing /\ UNCHANGED <<docs, rag>>

SaveChunks ==
  /\ rag.stage = "chunks"
  /\ Chunks!Save
  /\ rag' = IF chunks'.pc # "ready" THEN rag
            ELSE [rag EXCEPT !.stage = "idle", !.made = <<>>, !.batch = {},
                             !.outcome = IF chunks'.status = "throw" THEN "throw" ELSE "ok"]
  /\ Storing /\ UNCHANGED docs

Store == StoreDocs \/ SaveDocs \/ StoreChunks \/ SaveChunks
-----------------------------------------------------------------------------
Asking == Idle /\ UNCHANGED <<docs, chunks, rag, count, past>>

\* No index, or a mode query() does not know.
QuerySorry(mode) ==
  /\ Asking
  /\ mode = "other" \/ ~vdb.exists
  /\ answer' = [NoAnswer EXCEPT !.kind = "sorry", !.mode = mode]
  /\ hits' = <<>> /\ UNCHANGED <<vdb, vfile>>

QueryThrows(mode) ==
  /\ Asking
  /\ mode # "other"
  /\ VDB!QueryThrows
  /\ answer' = [NoAnswer EXCEPT !.kind = "throw", !.mode = mode]

\* The context itself is the answer when only it was asked for, when there is no
\* LLM, and when the LLM replies with nothing; prompt() may throw.
Query(mode, top_k, budget) ==
  /\ Asking
  /\ mode # "other"
  /\ VDB!QueryReturns(Fetched[mode] * top_k)
  /\ LET ranked == [r \in DOMAIN hits' |-> hits'[r].id]
     IN  IF ranked = <<>> THEN answer' = [NoAnswer EXCEPT !.kind = "sorry", !.mode = mode]
         ELSE \E ids \in Lookups(mode, ranked, top_k),
                 kind \in IF rag.llm THEN {"context", "llm", "throw"} ELSE {"context"} :
                answer' = [kind |-> kind, mode |-> mode, ids |-> Context(ids, chunks.data, StoredChunks, budget),
                           top_k |-> top_k, budget |-> budget]
-----------------------------------------------------------------------------
\* A new process constructs GraphRAG on the same working directory; the index
\* file was never written.
Restart ==
  /\ rag.stage = "down"
  /\ Docs!Restart /\ Chunks!Restart
  /\ rag' = FreshRag
  /\ NoQuery /\ UNCHANGED <<vdb, vfile, count, past>>

Crash ==
  /\ count.crashes < MaxCrashes
  /\ count' = [count EXCEPT !.crashes = @ + 1]
  /\ ProcessEnds

Next ==
  \/ SetEmbeddingStrategy \/ SetLlmStrategy
  \/ \E t \in Tokenizer \cup {"null"} : SetTokenizer(t)
  \/ \E s \in Size : SetChunkParams(s)
  \/ \E v \in BOOLEAN : EnableNaive(v)
  \/ \E order \in SetToAllKPermutations(Document) : Insert(order)
  \/ Store
  \/ \E mode \in Mode : QuerySorry(mode) \/ QueryThrows(mode)
  \/ \E mode \in Mode, top_k \in TopK, budget \in Budget : Query(mode, top_k, budget)
  \/ Crash \/ Restart

Spec == Init /\ [][Next]_vars
-----------------------------------------------------------------------------
Reliable == Faults = {}
Orphans(chunkMap, docMap) ==
  {i \in Stored(chunkMap, NoChunk) : docMap[chunkMap[i].full_doc_id] = NoDoc}

\* Every stored chunk belongs to a stored document, in memory and in what a new
\* process would reload, unless a process ended while full_docs.json was torn
\* (GraphRAG.hpp:156-157 stores the documents first; JsonKVStorage.hpp:115).
ChunksHaveDocs ==
  (Reliable /\ ~past.docsLost) =>
    /\ Orphans(chunks.data, docs.data) = {}
    /\ docs.file.state # "torn"
         => Orphans(Chunks!Load(chunks.file), Docs!Load(docs.file)) = {}

\* The other way round: between calls, every stored document has all the chunks that
\* get_chunks makes of it, with one of the tokenizers and one of the sizes, whichever
\* of them are shared with other documents and whatever was re-inserted or resized,
\* unless a document that cannot be dumped is in memory or a process ended between
\* the two saves (GraphRAG.hpp:156-157: two files, nothing that makes them one step).
ChunkedBy(d, t, s) ==
  \A i \in DOMAIN ChunkingByTokenSize(Encode[t][d], DocId(d), s.max, s.overlap) :
    ChunkId(ChunkingByTokenSize(Encode[t][d], DocId(d), s.max, s.overlap)[i]) \in StoredChunks
DocsHaveChunks ==
  (Reliable /\ Idle /\ ~past.chunksLost /\ Docs!Dumpable(docs.data)) =>
    \A k \in StoredDocs : \E t \in Tokenizer, s \in FitSize : ChunkedBy(k.hash, t, s)

\* Whatever is in the vector index can be answered from text_chunks or is about
\* to be, but for what an upsert of the index that threw left there (GraphRAG.hpp:152)
\* and unless a document that cannot be dumped is in memory: then inserts go on
\* extending the index and fail before the chunks (:156).
IndexBacked ==
  Docs!Dumpable(docs.data) =>
    VDB!Indexed(vdb.index) \ vdb.left \subseteq StoredChunks \cup DOMAIN rag.made

\* One document that is not valid UTF-8 stops the whole object from storing
\* chunks, whatever is inserted later, until the process ends: it stays in
\* full_docs and every later full_docs->upsert throws (GraphRAG.hpp:156,
\* JsonKVStorage.hpp:117).
PoisonedDocsBlockChunks ==
  [][("open" \notin Faults /\ ~Docs!Dumpable(docs.data) /\ rag'.stage # "down")
       => chunks'.data = chunks.data]_vars

\* A query that found something answers from at least one chunk, in every mode, if the
\* budget admits any single chunk, no bad document is in memory and no upsert of the
\* index stopped half way (GraphRAG.hpp:188-200,248-257,294-303: a hit that is not
\* stored is skipped silently).
Answered == answer.kind \in {"context", "llm"}
NeverBlank ==
  (/\ Answered
   /\ \A c \in TextChunk : c.tokens <= answer.budget
   /\ vdb.left = {} /\ Docs!Dumpable(docs.data)) => answer.ids # <<>>

\* What an answer is made of, in every mode: hits of the query that are stored, no
\* more than top_k of them, and no more tokens than the budget
\* (GraphRAG.hpp:188-200,237-257,281-303).
Ranked == [r \in DOMAIN hits |-> hits[r].id]
BoundedAnswer ==
  Answered =>
    /\ ToSet(answer.ids) \subseteq ToSet(Ranked) \cap StoredChunks
    /\ Len(answer.ids) <= answer.top_k
    /\ Cost(answer.ids, chunks.data) <= answer.budget

\* Nothing is found but by the index of the last enable_naive(true): an answer is made
\* of chunks that were inserted since then, and there is none when the strategy was set
\* later, although chunks from before are still stored (GraphRAG.hpp:81-84,119: the
\* setter does not reach chunks_vdb, and the new index is not filled from text_chunks).
FoundSinceEnabled == Answered => past.armed /\ ToSet(answer.ids) \subseteq past.since

\* "Local: restrict to chunks from the most relevant doc" and "Global: ... Group by
\* doc prefix, take top chunk per doc" (GraphRAG.hpp:214,271,280): an answer in local
\* mode is made of chunks of one document or, at the least, global mode would take a
\* chunk of each document from the same hits.
AnswerDocs(ids) == {chunks.data[i].full_doc_id : i \in ToSet(ids) \cap StoredChunks}
OneModeGoesByDoc ==
  (answer.mode = "local" /\ Answered) =>
    \/ Cardinality(AnswerDocs(answer.ids)) <= 1
    \/ \A ids \in Lookups("global", Ranked, answer.top_k) : AnswerDocs(ids) = AnswerDocs(Ranked)

\* "Reload from disk for persistent workflows" (readme.md:22): when the previous
\* process had indexed chunks and saved them, a new one in which a strategy and
\* then naive mode are set finds something.
ReloadedAnswers ==
  (past.searchable /\ vdb.emb /\ answer.mode # "other") => answer.kind # "sorry"
=============================================================================
