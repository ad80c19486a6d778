# nano-graphrag: TLA+ models, checks and proofs

nano-graphrag is a header-only C++ library for retrieval over a set of documents:
a client hands texts to a `GraphRAG` object, which cuts them into chunks, stores
documents and chunks as JSON files, optionally indexes the chunks as vectors, and
answers questions from the chunks the index ranks first. This directory holds TLA+
modules translated from the code, TLC configurations that check them on small
instances, and theorems about them that TLAPS checks for every value of the
constants. Paths below are relative to `include/nano_graphrag/` unless they start
with a top-level name; line numbers are those of the sources the modules name.

## 1. Inventory of the system

The library runs in the thread that calls it; there is no lock, callback or second
thread anywhere. What makes it hard is not concurrency inside the process. It is what
one call leaves behind when it fails half way, what a process that ends between two
writes leaves on disk, what two processes on one working directory do to each other,
what a remote service may do between a request and its answer, what the order of the
setters does, and boundary sizes.

| Part | State | Operations | Talks to |
|---|---|---|---|
| GraphRAG facade (`GraphRAG.hpp`) | settings, the stores below, strategies | constructor, six setters, `insert`, `query` in three modes | all stores, chunker, strategies, by direct calls |
| JSON key-value store (`storage/JsonKVStorage.hpp`) | `data_` and one file `<ns>.json` | constructor (loads), `upsert`, `drop` (both save), reads | the file system |
| Vector store (`storage/NanoVectorDBStorage.hpp`) | `db_`, `metas_`, `auto_save_`, an index file | constructor, `upsert`, `query`, assignment of the public `embedding_strategy` | embedding strategy, external index |
| Graph store (`storage/GraphStorage.hpp`) | `nodes_`, `edges_`, `adjacency_` | node and edge upserts and reads, `clustering`, `community_schema` | nothing; no other part calls it after construction |
| Chunking (`operations/chunking/`) | tokenizer, sizes | `chunk`, `get_chunks` | tokenizer |
| Tokenizers (`operations/tokenize/`) | vocabulary table | `encode`, `decode`, their batch forms | external BPE for Tiktoken |
| Embedding client (`embedding/openai.hpp`) | key, model, dimension | `embed` | REST client |
| LLM client (`llm/openai.hpp`) | key, model | `prompt` | REST client |
| REST client (`interfaces/restapi.hpp`) | base URL, timeout | one request per call | the network |
| Types, prompts, log (`utils/`) | none | none | |
| Programs (`src/demo.cpp`, `src/test_christmas_carol.cpp`) | `./nano_cache` on disk | straight-line clients | GraphRAG |

What must be right, and where it is hard:

* **JSON store.** `save()` truncates the file, then serialises, then writes, and never
  looks at the stream again. `dump(2)` throws on a string that is not UTF-8, after the
  truncation. So: what does a normal return guarantee, what does an exception cost,
  what can a restart find? (crash between two steps; one step of several failing)
* **insert().** Index, `full_docs` and `text_chunks` are three writes without rollback.
  Which of the three refers to what is missing in another, after an embedding call
  that throws, a `save()` that throws, a process that ends? A document that cannot be
  serialised stays in `full_docs` and makes every later call fail. (partial failure,
  a long sequence of legal calls that reaches an unintended state)
* **Setters.** `enable_naive(true)` constructs the index with the strategy of that
  moment and always anew; `set_tokenizer(OpenAI)` stores a null pointer;
  `set_chunk_params` takes sizes for which chunking never ends or skips tokens. (protocol sequences)
* **Queries.** The filters of local and global mode work on the id up to its first
  dash, and every id starts with `chunk-`. The first chunk that passes the token budget
  ends the context. Chunks that are not stored are skipped without a word.
* **Chunk ids** are hashes of the text only, so documents share chunks and a later
  insert takes a shared chunk over. (state that is stale when used)
* **Vector store.** `auto_save` is read only when the strategy was there at
  construction; metadata is not in the index file; a wrong number of embeddings
  becomes zero vectors. (configuration read too early, restart)
* **Graph store.** `clustering()` inserts into the hash map it iterates over; edge keys
  are joined with `|`, which ids may contain; the schema reads labels that later calls
  make stale.
* **Chunking loop.** Progress, coverage and the last windows at every size.
* **Tokenizer.** `encode()` counts words in one loop, `decode()` finds them again in
  another and cuts by the positions of the first. The last word of a text and the last
  paragraph of a file have no separator after them.
* **Shared directory.** Both programs use `./nano_cache`. Each loads two files once and
  rewrites both whole, in no common order. (lost updates, a load in the middle of a save,
  two files that come from different processes)
* **REST, LLM and embedding client.** One request with a timeout of 60 s and no retry: it
  may have been carried out when the call throws. Replies are JSON objects whose
  fields may be missing, null, empty or elsewhere. (a timeout that races a late answer)

`PROJECT.json` lists each of these hazards at its line with the properties that
are about it. Not every hazard can be excluded by a property that the code satisfies: some of
them are what the code does. Then either a violation run shows it (section 3), or the
property says how far the damage goes and the note of the hazard says what it leaves out:

* A file that cannot be opened, or is cut short, in silence: `Durable` does not speak of such a call, and
  `RefinesDurableMap` only bounds what the disk may be afterwards.
* `insert()` without rollback: hits without a stored chunk are never part of an answer (`BoundedAnswer`), but
  they stay in the index, and `IndexBacked` and `NeverBlank` leave out the states that have them.
* A chunk cut in the middle of a character: `DocsHaveChunks` holds in the process that made it and leaves
  out the processes that find the torn `text_chunks.json`; `BadValueLosesFile` has the cost.
* A second `enable_naive(true)`: nothing promises that what is stored can be found. `FoundSinceEnabled` says
  exactly what can.
* Nodes inserted during `clustering()`: `ClustersAreComponents` leaves such a clustering out, the run
  `graph_insertion` shows it. Ids with `|`: `EdgeRecords` leaves them out (section 3 has the divergence).
* Stale labels: `SameLabelConnected` says that labels never join what is not connected. It allows
  that two communities joined by a later edge stay apart and that `upsert_node` erases a label.
* A text in a later item of a reply: `prompt()` returns nothing, and `ResultFromReply` says nothing of that case
  (section 3 has the divergence).
* Lost updates of two processes: `raced`, `crossed` and `died` below are conditions of
  `NothingLost` and `FilesAgree`; the update that is lost is the case they leave out.

## 2. Modules and how they correspond to the code

```
JsonFile              maps, files, load and merge (operators)
   ^ EXTENDS
JsonKVStorage         one store and its file            -- JsonKVStorageProofs
   | refines DurableMap (what a client of one store may rely on)
SharedCache           2 x JsonFile, several programs     -- SharedCacheProofs

Embedding             what embed() makes of a reply (operators)
   ^ EXTENDS
NanoVectorDBStorage   one vector store and its file     -- NanoVectorDBStorageProofs
LlmReply              what prompt() makes of a reply (operators)
RestClient            EXTENDS Embedding, LlmReply       -- RestClientProofs

Chunking              windows, chunks, ids (operators)
   ^ EXTENDS          ^ EXTENDS        ^ EXTENDS
ChunkingLoop       SimpleTokenizer   Retrieval
      ^ EXTENDS        ^ EXTENDS       ^ EXTENDS
       TextChunking                  GraphRAG = Retrieval + 2 x JsonKVStorage
    -- TextChunkingProofs                       + NanoVectorDBStorage -- GraphRAGProofs
GraphStorage          the graph store, alone as in the code -- GraphStorageProofs
MC<Module>            constants for TLC
Induction             facts about recursions and sequences for TextChunkingProofs,
                      GraphRAGProofs and RestClientProofs
```

**JsonFile** and **JsonKVStorage.** `kv.data` is `data_`, `kv.file` the JSON file (missing,
torn or the text of a map), `kv.pc` where a call is, `kv.status` how the last one ended.
`Upsert` and `Drop` change memory; `OpenTruncates` / `OpenFails`, `DumpThrows`, `WriteWhole` /
`WriteShort` are the lines of `save()` in their order; `Crash` may come between any two
of them; `Restart` is the constructor, which takes a file it cannot parse for an empty
store. Values are model values, some of them `Undumpable`. `Faults` says whether the file
system may refuse to open the file or cut a write short; `save()` tells nobody, so the
caller sees a normal return, which the status `"unsaved"` keeps apart from `"ok"` for
the properties only. `DurableMap` is what is left when the steps of `save()` are hidden:
whole maps pass to the disk or the copy there is lost.

**SharedCache.** Programs that share `./nano_cache`. A step is one access to one file:
`LoadDocs`, `LoadChunks` (the constructor), `OpenDocs`, `WriteDocs`, `OpenChunks`,
`WriteChunks` (`insert()`; opening truncates) and `End`, possible anywhere. A program can be
run again. Documents stand for their records, `Chunked` for `get_chunks`. `past` is history:
who is stale (has loaded a file that somebody else changed since), whether someone stale has
saved (`raced`), whether an access met a load or save that was half done (`crossed`), whether a
process ended inside `insert()` (`died`). Values here can be dumped and writes are not cut
short, since `JsonKVStorage` has those faults.

**NanoVectorDBStorage.** `vs` is the object: who constructed `db_` (early, in the
constructor; late, in `upsert`), `auto_save_` next to the `auto_save` of the
configuration, `metas_` and the index. `file` is the index file, `rows` the result of
the last query. The index is a git submodule that is not in the tree, so `Index`,
`Indexed`, `DbUpsert` and `DbQuery` are external: a map from id to vector that is read
from the file when constructed, extended by `upsert`, written by `save`, ranked in any
order by `query`. A vector is known by the text it embeds. `UpsertThrows` is an exception of
`embed()`; `UpsertStops` one of `db_->upsert` or `db_->save`, after which any part of the batch is in the index and
the file is as it was. What a failed `save` may leave in the file is not to be seen in the tree and
left out; a process that ends between `upsert` and `save` leaves what `Destroy` leaves. `found` (what the index had when
this process constructed it) and `left` (what an upsert that threw may have put there) are history.

**Embedding**, **LlmReply** and **RestClient.** `Embed` and `Prompt` are `embed()` and
`prompt()` as operators on the JSON object of a reply, with the order in which they look
into its fields and what each does with one that is missing or unusable. The items of an
embedding reply may come in any order, be missing, be sent twice, lack a field or have an index beyond
the texts: the vectors are put back in the order of the texts, a missing one is an empty vector, and a
reply without data gives none, for which `upsert` puts zero vectors in. `EmbedThrows` has the replies that
cannot be read: data that is no array, an item that is no object, an embedding that is no array of
numbers, an index that is no int. `RestClient` has the
calls a process makes and the service: `Begin` (with the early returns and the missing key),
`SendFails` / `Send`, `Receive` / `HeadRefused`, `Piece` and `Finish` are `post_json` and its
caller in order; `TimeOut` is the 60 s without a byte or a reset; `Serve` is the service,
which carries out a request at any later time, even when the client is gone. `served`
counts how often each request was carried out.

**Chunking** and **ChunkingLoop.** `Windows` is the closed form of the sliding window and
`GetChunks` what `get_chunks` returns; `ChunkingLoop` is the `for` loop itself, round by
round, for every int that `set_chunk_params` takes as a size, but for sums that leave the
width of an int. With a negative overlap the loop skips the tokens between its windows; with
`max` 0 and a negative overlap its windows are empty; with `max` below 0 a window ends before it begins and the
constructor of the vector throws. For `overlap > max` the code
reads before the first token, which is undefined: `Die` or another `Round`, both from
the same state. `Fits` (`0 <= max`, `overlap < max`) is when the closed form applies. A token is the sequence of pieces of text it stands for, so that a
window can cut a character whose bytes are two tokens.

**SimpleTokenizer** and **TextChunking.** Texts are sequences of characters. `SimpleEncode`
is the counting loop, `SimpleWords` the splitting loop, `SimpleDecode` the text of a window;
each loop of the code is a recursive function over the positions of the text (`EncodeLoop`,
`WordLoop`, `Joined`), whose step is the body of the loop (`EncodeChar`, `WordChar`). `TextChunking` puts them before and after the rounds of `ChunkingLoop` and in front of them
the paragraphs that `test_christmas_carol.cpp` makes of a file: `corpus` and `part` are the
file and the paragraph, `Contents` what is stored.

**Retrieval** has what the three query modes do with the ranked ids: `LocalIds`,
`GlobalIds`, `Context`, and the loop that fills a list up to `top_k`, `Picked`. Results that depend on the order of a hash map are sets of
possible results.

**GraphRAG** composes them. Two instances of `JsonKVStorage` (`docs`, `chunks`) and one of
`NanoVectorDBStorage` (`vdb`) share the process: `ProcessEnds` takes all down at once and
`Restart` constructs them from their files. `insert()` is `InsertIndexed` /
`InsertUnindexed` / `InsertThrows` / `InsertDies` up to the first write to disk, then
`StoreDocs`, `SaveDocs`, `StoreChunks`, `SaveChunks`, which are the steps of the stores
joined with the stage of the insert; an exception of the first `save()` ends the insert before the
second store is touched. `InsertThrows` is an exception of `embed()` or of the index, `InsertDies` the null tokenizer,
`InsertChokes` an insert with sizes that do not fit: it throws when memory runs out or takes the process
with it. Setters are possible between calls only. `past` is a
history variable that records which store a process end may have cost what, whether the strategy
was set at the last `enable_naive(true)` and which chunks were inserted since.

**GraphStorage.** Ids are sequences of characters, since the hazard is in their text.
`clustering()` is its rounds: `Start` takes the next node of the iteration, `Visit`
labels the node that is taken from the queue and queues its new neighbours, `Finish` is
the end of the loop. A `Visit` that inserts a node may lose any part of the nodes the
iteration had left, because the insertion may rehash the map under the iterator. `upsert_node` may bring
a `clusters` of the caller's own (`ClientLabel`); `given` is the history of who has one.

Abstractions: `std::hash` has no collisions (an id is its prefix and what was hashed);
wording, logging and layout are out; in `GraphRAG` the whitespace that the simple tokenizer
puts between words is out and `Encode` is a table, total on the documents, which includes
texts that are not UTF-8 (`TextChunking` has the characters); properties of nodes other than
`clusters` are out; similarity is out, so every ranking is possible.

## 3. Runs

Passing runs:

| Run | Instance | Shows | States |
|---|---|---|---|
| `kv` | 2 keys, 3 values of which one cannot be dumped, both faults | after a normal return the file reloads to memory (`Durable`); a bad value costs the whole file (`BadValueLosesFile`) but never comes back by a reload (`ReloadIsDumpable`); refinement of `DurableMap` | 585 |
| `shared` | 2 programs with 1 and 2 documents, of which two share a chunk; 4 processes | nothing is lost until someone saves what it has not read (`NothingLost`); the two files lose updates together unless accesses crossed (`FilesAgree`); running a program again heals everything of its own (`RerunHeals`) | 25 thousand |
| `chunking` | every text of up to 5 of three characters, longer texts of 6 to 9 words; max -1..4, overlap -2..5 | the tokens outside all windows are exactly those a negative overlap skips (`NoTokenLost`), exact overlaps, the loop equals the closed form, it ends for sizes that fit and never for others; no word of a file is lost, split or repeated on the way to the chunks (`CorpusKept`, overlap not negative) and what a chunk is charged in the budget is its words (`TokensAreWords`) | 137 thousand |
| `clients` | 2 calls, batches of up to 2 texts, prompt replies with every field missing, null, empty or there; bodies of up to 2 pieces | a request is carried out at most once and exactly once when the call returned (`CarriedOutOnce`); what is returned is from the call's own reply, nothing only when a reply of one item has no text, and no vector that was sent is left out (`ResultFromReply`); every call ends (`CallEnds`) | 25 thousand |
| `vdb` | 2 ids, objects with and without `auto_save` in turn | the file follows an index built early but for what an upsert that threw left, never one built late; an id without metadata was in the index when the process constructed it; no vector under the id of another text, in whatever order a service answers | 22 thousand |
| `rag_insert` | documents "x y", a character of two tokens followed by "y", which share a chunk, and a text that is not UTF-8; three sizes, of which one never ends; both tokenizers; 2 inserts, 1 crash, 3 settings; no queries | which agreement of the three stores survives (below) | 201 thousand |
| `rag_query` | two documents that share a chunk; all modes; top_k 1, 2; budgets 1 and 4; one size; 2 inserts, 3 settings; a file system without faults and no process end | a query with hits is not answered from nothing when any chunk fits the budget (`NeverBlank`); an answer is made of stored hits, at most `top_k`, within the budget (`BoundedAnswer`); of chunks inserted since the last `enable_naive(true)` only, and of none when the strategy was set later (`FoundSinceEnabled`) | 51 thousand |
| `graph` | 3 ids, each the beginning of the next; a label of the caller that equals one of `clustering()` | both records of an edge agree; clusters are the connected components when no node was inserted; labels read later still join only connected nodes, but for those a caller labelled; the schema splits the edges; `clustering()` ends | 61 thousand |

What `rag_insert` says of the three stores: every stored chunk has its document, unless
a process ended while `full_docs.json` was torn (`ChunksHaveDocs`); every stored document
has all of its chunks between calls, unless a process ended between the two saves or
while `text_chunks.json` was torn, or a bad document is in memory (`DocsHaveChunks`); the
index refers to stored chunks, but for what an upsert of the index that threw left there, unless a bad
document is in memory (`IndexBacked`), in which
case no chunk is ever stored again by that process (`PoisonedDocsBlockChunks`). Each
exception named here is a hazard of the list: without it TLC shows the property violated by
that hazard.

Likewise in `shared`: without `raced` TLC shows the lost update of two programs that loaded
the same files; without `crossed` it shows the documents of one program with the chunks of
the other; without `died` it shows a process killed between its two saves. `RerunHeals` needs
none of these exceptions. Its only condition is that nobody else has touched the files since
the program loaded them.

Runs that find a violation, each of what a comment or the readme says:

| Run | The text | What the code does |
|---|---|---|
| `vdb_metadata` | metadata is "returned with query results" (`storage/NanoVectorDBStorage.hpp:29-30`) | reloaded ids have none |
| `rag_modes` | "Local: restrict to chunks from the most relevant doc" (`GraphRAG.hpp:214`, also `:239`), "Global: ... take top chunk per doc" (`:271,280`) | the prefix that both compare is `chunk-` for all ids (`:229`): an answer in local mode mixes documents, and on the same hits global mode leaves a document out |
| `rag_reload` | "Reload from disk for persistent workflows" (`readme.md:22`) | the index is neither saved nor rebuilt: no answer after a restart |
| `graph_insertion` | "writes a `clusters` attribute on nodes" (`storage/GraphStorage.hpp:134-135`) | insertion while iterating can leave nodes out |

Divergences without a run:

* `docs/llm.md:20` says that `prompt()` "falls back to structured `output[].content[].text`"; only `output[0]` is
  searched (`llm/openai.hpp:59`), so that a text in a later item is not found. `Prompt` does the same.
* `has_edge` is to "Check if an undirected edge exists between nodes s and t" (`storage/GraphStorage.hpp:40`); keys
  are joined with `|` (`:234`), so the edge between `1` and `2|3` is found for `1|2` and `3` as well. `HasEdge`
  does the same, and `EdgeRecords` is about ids without the separator.
* The class comment of the JSON store calls it "non-persistent (lives in memory)"
  (`storage/JsonKVStorage.hpp:18-19`), and it is the persistent one: `Durable`, `Restart`.

### Bounds, and why they are enough

* `kv`, `vdb`, `graph` have no counter: their state spaces are finite and complete for the
  instance. Two keys tell a batch that replaces from one that adds; two ids tell
  records captured by this object from those of an earlier one; three ids give two
  components that a later edge joins and an edge end that is no node, and, each being the
  beginning of the next, keys that would be equal if nothing separated the ids.
* `chunking`: sizes on both sides of 0 and of each other, documents of up to 9 tokens, so that there are
  gaps, empty windows, and lengths that are a multiple of the step and one off it.
* `MaxStarts` = 4 (SharedCache): two processes race, one is run again, and a fourth loads what
  that left. In the guard of `LoadDocs`.
* `MaxCalls` = 2, `MaxPieces` = 2 (RestClient): the second call meets the late answer of the
  first; a body of two pieces can end between them. In the guards of `Begin` and `Receive`.
* `Corpora`: all texts of up to five characters meet every way a text can begin, end and be
  separated; the longer ones have more words than the largest window.
* `MaxInserts`, `MaxCrashes`, `MaxSettings` (GraphRAG) bound the calls of the client. Two
  inserts are one that meets what the other left; one crash is enough for every torn
  file and for every pair of files of different age; three settings reach an
  index with and without strategy, then one more change (an LLM, a tokenizer, a size,
  a second `enable_naive`); `rag_modes` and `rag_reload` may have four. They are in the guards of
  `Called`, `Crash` and `Settings`.
* `MaxWindows` (ChunkingLoop) is how many windows memory holds; larger than
  every length, so that it is only met by a loop that does not advance.
* Deadlock is checked in `kv`, `vdb`, `vdb_metadata`, `graph` and `graph_insertion`. It
  is off in `chunking` (the loop ends), in `shared` (the programs end, and `MaxStarts` is used up) and in
  `clients` and the `rag_*` runs (the client may stop calling, as it does when the bounds are
  used up).

### Fairness

Only what a single thread gives: `WF(TextNext)` of the chunking loop and `WF(Clustering)` of a
clustering that has begun. Neither waits for anything. `WF(Client)` of a call in progress: the thread does wait there, but its
session has a timeout (`interfaces/restapi.hpp:91`), so that a step is always possible; nothing
is assumed of the service. The timeout is per read, so that a body sent without end, a byte
within every minute, would keep a call for ever: `MaxPieces` excludes it, and `CallEnds` is to be
read with that exception. No fairness is assumed of clients, of crashes, of other processes or
of the file system.

## 4. Proofs

Every theorem is of the form `Spec => []Inv` or `Spec => [][A]_vars`, or that `Spec` implements
another specification, for all values of the
constants that satisfy the named `ASSUME` of the module, so for any number of keys,
documents, programs, ids, calls, crashes and settings. The pattern is the same
everywhere: an inductive invariant `IInv`, `Init => IInv`, one lemma for each action that
disturbs it, `IInv => Inv`, and PTL.

**`JsonKVStorageProofs`** (`KVAssumption`: bad values are values, "absent" is not one):
`TypeCorrect`, `Durability`, `BadValueCostsFile`, `ReloadsAreDumpable`, and `Refinement`, that the
store implements `DurableMap`. `OpenedIsTorn` (between the truncation and the end of the call the
file is torn) is the strengthening: without it `BadValueLosesFile` says nothing about the
state in which `dump` throws. The refinement maps memory to memory, what `Load` makes of the
file to the disk, and `pc # "down"` to up; each step of `save()` is then `Lose`, `Sync` or a stutter.

**`GraphRAGProofs`** (`RagAssumption`, `KeysAssumption`: sizes are ints and one of them fits, the default tokenizer is
one of the tokenizers, "no document" and "no chunk" are none, an encoding has a length, which may
be 0, faults are the two kinds, counts are naturals; and a client has finitely many documents, sizes
and tokenizers, so that the index, whose size `db_->query` compares with `top_k`, is finite):
`TypeCorrect`, `NoOrphanedChunks`, `DocumentsAreWhole`, `PoisonBlocks`, `IndexIsBacked`, `SomethingAnswered`,
`AnswersAreBounded`, `OnlyNewIsFound`, `StoresAreStores`, `StoresAreDurable`.
Four layers, each inductive relative to those before:

* `Core`: where the stores are in each stage of an insert (`Flow`), what it has stored so far
  (`Progress`), that a document is stored under its own id or not at all (`DocValues`, from which a
  document that cannot be dumped is never overwritten: `PoisonStays`), that chunks are reached
  only past a save that did not throw (`SavedFirst`), and for every pair of memory and
  disk that a crash or a restart may combine, that chunks there have documents (`NoOrphans`).
* `Whole`: of every stored document all chunks are stored or about to be, in memory and in
  what a new process would load. It rests on `MadeOf`, what `get_chunks` returns for a batch,
  including the first-wins choice of a shared chunk.
* `IndexInv`: the index file is never written, an index without strategy is never
  built, what is indexed is stored or in the insert in progress (`Backed`), and was inserted since the
  last `enable_naive(true)`, with a strategy that was there before it (`Fed`).
* `Rest`: settings, answer, hits and counters have their types.

The theorems about answers rest on lemmas about the loops of the query modes, each proved by
induction over the ranked ids: what `Picked` picks (`PickedOK`), which ids a mode looks up when all
of them begin with `chunk-` (`LookupsOK`), what a round of `Context` does (`ContextSteps`), that
a first chunk within the budget stays (`ContextOK`) and that a context costs no more than the budget
(`CostOK`, `ContextBounds`). `SomethingAnswered` then needs `IndexInv`: without it the first hit might be
skipped as not stored. `AnswersAreBounded` needs none of it: a chunk that is not stored never gets past the
scan. `OnlyNewIsFound` is `Fed` carried through the ranking and the scan.

`StoresAreStores` is about the composition: hiding everything but one store, each behaviour of
the object is one of `JsonKVStorageProofs`' store (`DocsStore`, `ChunksStore`), although the steps of an
insert, the end of the process and the restart move two stores, the index and the stage
together. `StoresAreDurable` is then `Refinement` of that module, cited for each of the two.

**`NanoVectorDBStorageProofs`** (`VdbAssumption`): `TypeCorrect`, `EarlyIsSaved`, `MetaBeforeIndex`,
`VectorsAreOwn`, `LateNeverSaved`. `Saving` (auto_save_ is the configuration of an early index and of no
other) is the strengthening; `VectorsAreOwn` rests on lemmas about `Embed` and about the pairing
of ids and vectors in `Assigned`.

**`GraphStorageProofs`** (`GraphAssumption`: a finite set of ids over an ordered alphabet):
`TypeCorrect`, `RecordsAgree`, `Components`, `OldLabels`, `SchemaIsPartition`. The order of ids is
shown total and antisymmetric (`LessTotal`, `LessAntisymmetric`), from which both directions of
an edge have one key. For the walk, `Walking`, `Closed` and `Joined` say that finished parts have no edge
out of them, that labels grow, and that what has one label is connected; types need that
labels are counted by the nodes that bear them.

**`SharedCacheProofs`** (`CacheAssumption`): `TypeCorrect`, `SafeUntilRaced`, `LostTogether`, `Healing`,
`AloneIsSafe`. The last one has `Alone` as its hypothesis, that there is one program: over any
number of its processes nothing is lost and the files agree (`KeepsAll`), unless one of them ended
inside `insert()`. Its invariant `Undisturbed`, that nobody is ever stale, met or overwritten,
turns the exceptions of the other theorems into none, so these exceptions are the sharing and nothing else.
`Memories` (what a process has in memory, and what it still knows of the files while it is not
stale) is common; `Kept` needs the notion of a process that is `Doomed` to save over what it
has not read; `Ordered` is that without crossings one process at a time is busy and that
documents and chunks agree on disk and in every memory.

**`RestClientProofs`** (`ClientAssumption`; `ArraysAssumption`: batches and JSON arrays are sequences):
`TypeCorrect`, `AskedOnce`, `ReplyUsed`. `Once` follows a request from `"sending"` (neither pending nor
served) to `"reading"` (served once). `Own` is that a result was made by `embed()` or `prompt()` from the
reply of this very call; the rest of `ReplyUsed` is about the two operators for every reply (`LookedAtTexts`: with
one item `prompt()` looks at all of a reply; `EmbedKept`:
the vector of an item ends in the place of its text, whatever the order, doubles and gaps;
`PromptOK`: what the search through the fields returns, and when nothing).

**`TextChunkingProofs`** (`LoopAssumption`, `CorpusAssumption`). About the window loop: `TypeCorrect`,
`NothingLost`, `Overlapping`, `NeverDone`, `LoopIsClosedForm`. The windows start at multiples of the step and
the loop variable at the next one (`Stepping`, `Position`), each is cut at `max` or at the end
(`Cut`), of what lies before `start` all is covered but for the gaps of a negative overlap (`CoveredSoFar`), a
loop whose sizes do not fit has not moved past the document (`NoProgress`) and a finished one is beyond it (`DoneBeyond`). About texts, for
every corpus, `max >= 1` and `0 <= overlap < max`: `NoWordLost`, on the way from the file over its paragraphs
and their chunks, and `ChargedByWords`, that the counting loop and the splitting loop agree on every
window. Since every step of `TextSpec` is one of the loop, the invariant of the first group is used for the second.

**`Induction`** has the lemmas that `GraphRAGProofs`, `RestClientProofs` and `TextChunkingProofs`
share. The theorems of the library that prove by induction take an operator as parameter; here a
property is the set of what has it and a step is a function, so that induction is a statement
about sets closed under `+ 1` (`UpTo`, `UpFrom`) or under `Append` (`SeqGrows`), from the
well-foundedness of `<` (`LeastElement`). `Recursion` and `RecursionUnique` say that a recursive
function over positions has the values its text says and that no other has, `Loop` that a loop
over a sequence is one function of it that `Append` extends by one step; `FlattenOK`,
`FlattenConcat` and `PieceOfPiece` are about `FlattenSeq` and `SubSeq`.

Only checked by TLC: the liveness properties (`Terminates`, `ClusteringEnds`, `CallEnds`), since fairness and `ENABLED` are out of the prover's reach. Every invariant and every
action property that a passing run checks is a theorem as well. Of the converse, no run checks
`StoresAreStores`, `StoresAreDurable`, `AloneIsSafe`
and the types of the vector store by itself, nor documents without a token, which the theorems include.

## 5. Not modelled, and why

* Tiktoken: an external vocabulary, a table here. Its ranks and regular expressions are not
  in the tree.
* `decode_batch` of the simple tokenizer and `tokenizer_unused.hpp`: nothing calls or includes them.
* URL parsing, TLS, headers, the JSON parser: Poco's and nlohmann's.
* `Community`, most of `QueryParam`, the node and edge getters of the graph store that return
  properties, `set_chat_model`: data that no code reads.
* `embedding/hash.hpp`: empty.
* Prompts, logging, build files; the queries of the two programs, whose calls are actions of
  `GraphRAG`.
* `community_reports`, `entities_vdb` and the graph store inside `GraphRAG`: constructed or declared,
  then never used by it.
* Numerical similarity and ranking: in the external index.
* Four hazards of the list have no property, all of them modelled: a null tokenizer ends the process
  (`InsertDies`; nothing is promised about it), zero vectors put in for a wrong
  number of embeddings (`Assigned`; what they do to a ranking is the index's), edge keys that collide
  (`EdgeKeyStr`) and a text in a later item of a reply (`Prompt`), see the divergences of section 3.
* Sums of sizes that leave the width of an int, the content of an index file after a `save` of the index
  that failed, and the end of an insert (its storing steps are a straight line; the chunking before them need not
  end, see `NoProgressNoEnd`).

## 6. Plan

Everything of the first plan is written: the stores, the loop, the vector store, the facade, the graph
store, two processes on one directory, replies, the client and the service, the simple tokenizer,
stale labels, and the theorems about all of them. What is left, in the order of what
it would add:

1. `SharedCache` with `JsonKVStorage` in place of `JsonFile`, so that races meet short writes and
   values that cannot be dumped.
2. An abstract retrieval store that `GraphRAG` refines when nothing fails: `NoOrphanedChunks`,
   `DocumentsAreWhole` and `StoresAreDurable` together are most of that refinement.
3. Safety halves of the liveness properties: measures that each step of an insert, a clustering or
   a call makes smaller, so that only fairness is left to TLC.
