----------------------------- MODULE SharedCache -----------------------------
(***************************************************************************)
(* Programs that share a working directory.  src/demo.cpp and              *)
(* src/test_christmas_carol.cpp both construct GraphRAG("./nano_cache"),   *)
(* insert their documents once and go on to query what they have in        *)
(* memory.  The constructor loads full_docs.json and text_chunks.json,     *)
(* insert() saves them one after the other, and nothing keeps a second     *)
(* process from loading or saving in between.                              *)
(*                                                                         *)
(* A step is one access to one file.  A text written over a longer one     *)
(* leaves the end of the longer one behind, which operator>> of the parser *)
(* does not read: a whole file is the map of whoever wrote last.  A text   *)
(* reaches the file in one piece.                                          *)
(***************************************************************************)
EXTENDS Naturals

CONSTANTS
  Program,   \* the programs, each run by at most one process at a time
  Document,  \* document ids, standing for their records
  Chunk,     \* chunk ids, standing for their records
  Batch,     \* [Program -> SUBSET Document], what a program inserts
  Chunked,   \* [Document -> SUBSET Chunk], what get_chunks makes of a document
  Absent,    \* "no such key"
  MaxStarts  \* bound on the number of processes

ASSUME CacheAssumption ==
  /\ Batch \in [Program -> SUBSET Document]
  /\ Chunked \in [Document -> SUBSET Chunk]
  /\ Absent \notin Document \cup Chunk
  /\ MaxStarts \in Nat

VARIABLES
  docsFile, chunksFile,  \* full_docs.json and text_chunks.json
  proc,     \* of each program: where main() is, data_ of the two stores, and the
            \* chunks that the insert in progress has made
  starts,   \* how many processes so far
  past      \* history, see Init

vars == <<docsFile, chunksFile, proc, starts, past>>

Docs == INSTANCE JsonFile WITH Key <- Document, Value <- Document
Chunks == INSTANCE JsonFile WITH Key <- Chunk, Value <- Chunk

Stored(map) == {k \in DOMAIN map : map[k] # Absent}
ChunksOf(ids) == UNION {Chunked[d] : d \in ids}
DocBatch(ids) == [k \in Document |-> IF k \in ids THEN k ELSE Absent]
ChunkBatch(ids) == [k \in Chunk |-> IF k \in ids THEN k ELSE Absent]

NoProcess == [pc |-> "down", docs |-> Docs!EmptyMap, chunks |-> Chunks!EmptyMap, made |-> {}]

Process == [pc : {"down", "loading", "ready", "docs open", "docs saved", "chunks open", "done"},
            docs : Docs!Map, chunks : Chunks!Map, made : SUBSET Chunk]

TypeOK ==
  /\ docsFile \in Docs!File /\ chunksFile \in Chunks!File
  /\ proc \in [Program -> Process]
  /\ starts \in 0..MaxStarts
  /\ past \in [inserted : SUBSET Document, stale : SUBSET Program,
               raced : BOOLEAN, crossed : BOOLEAN, died : BOOLEAN]

Init ==
  /\ docsFile = Docs!NoFile /\ chunksFile = Chunks!NoFile
  /\ proc = [p \in Program |-> NoProcess]
  /\ starts = 0
  /\ past = [inserted |-> {},     \* the documents of every insert that returned
             stale |-> {},        \* who has loaded a file that was changed since
             raced |-> FALSE,     \* someone who was stale has saved
             crossed |-> FALSE,   \* a load or a save met one that was half done
             died |-> FALSE]      \* a process ended inside insert()
-----------------------------------------------------------------------------
Saving(p) == proc[p].pc \in {"docs open", "docs saved", "chunks open"}
Busy(p) == proc[p].pc = "loading" \/ Saving(p)
Met(p) == past.crossed \/ \E q \in Program \ {p} : Busy(q)

\* What the history makes of an access to a file by p.
Reads(p, stale) == past' = [past EXCEPT !.stale = stale, !.crossed = Met(p)]
Writes(p, inserted) ==
  past' = [past EXCEPT !.inserted = inserted, !.stale = @ \cup (Program \ {p}),
                       !.raced = @ \/ p \in past.stale, !.crossed = Met(p)]

\* main() constructs GraphRAG, whose constructor loads full_docs first ...
LoadDocs(p) ==
  /\ proc[p].pc = "down" /\ starts < MaxStarts
  /\ proc' = [proc EXCEPT ![p] = [NoProcess EXCEPT !.pc = "loading", !.docs = Docs!Load(docsFile)]]
  /\ starts' = starts + 1
  /\ Reads(p, past.stale \ {p}) /\ UNCHANGED <<docsFile, chunksFile>>

\* Mutant of LoadChunks: text_chunks starts empty.
LoadNoChunks(p) ==
  /\ proc[p].pc = "loading"
  /\ proc' = [proc EXCEPT ![p].pc = "ready"]
  /\ Reads(p, past.stale) /\ UNCHANGED <<docsFile, chunksFile, starts>>

\* ... and then text_chunks.
LoadChunks(p) ==
  /\ proc[p].pc = "loading"
  /\ proc' = [proc EXCEPT ![p].pc = "ready", ![p].chunks = Chunks!Load(chunksFile)]
  /\ Reads(p, past.stale) /\ UNCHANGED <<docsFile, chunksFile, starts>>

\* Mutant of OpenDocs: only documents that are not stored yet are chunked.
OpenDocsNew(p) ==
  /\ proc[p].pc = "ready"
  /\ proc' = [proc EXCEPT ![p].pc = "docs open",
                          ![p].made = ChunksOf(Batch[p] \ Stored(proc[p].docs)),
                          ![p].docs = Docs!Merge(@, DocBatch(Batch[p]))]
  /\ docsFile' = Docs!TornFile
  /\ Writes(p, past.inserted) /\ UNCHANGED <<chunksFile, starts>>

\* insert() makes the chunks of all its documents and stores the documents:
\* memory first, then save(), which opens the file ...
OpenDocs(p) ==
  /\ proc[p].pc = "ready"
  /\ proc' = [proc EXCEPT ![p].pc = "docs open", ![p].made = ChunksOf(Batch[p]),
                          ![p].docs = Docs!Merge(@, DocBatch(Batch[p]))]
  /\ docsFile' = Docs!TornFile
  /\ Writes(p, past.inserted) /\ UNCHANGED <<chunksFile, starts>>

\* ... and writes it;
WriteDocs(p) ==
  /\ proc[p].pc = "docs open"
  /\ proc' = [proc EXCEPT ![p].pc = "docs saved"]
  /\ docsFile' = Docs!WholeFile(proc[p].docs)
  /\ Writes(p, past.inserted) /\ UNCHANGED <<chunksFile, starts>>

\* then the chunks in the same way.
OpenChunks(p) ==
  /\ proc[p].pc = "docs saved"
  /\ proc' = [proc EXCEPT ![p].pc = "chunks open",
                          ![p].chunks = Chunks!Merge(@, ChunkBatch(proc[p].made))]
  /\ chunksFile' = Chunks!TornFile
  /\ Writes(p, past.inserted) /\ UNCHANGED <<docsFile, starts>>

WriteChunks(p) ==
  /\ proc[p].pc = "chunks open"
  /\ proc' = [proc EXCEPT ![p].pc = "done"]
  /\ chunksFile' = Chunks!WholeFile(proc[p].chunks)
  /\ Writes(p, past.inserted \cup Batch[p]) /\ UNCHANGED <<docsFile, starts>>

\* The process ends, of its own accord or not.  What it does to the files before
\* that, or the queries after the insert, is nothing.
End(p) ==
  /\ proc[p].pc # "down"
  /\ proc' = [proc EXCEPT ![p] = NoProcess]
  /\ past' = [past EXCEPT !.died = @ \/ Saving(p)]
  /\ UNCHANGED <<docsFile, chunksFile, starts>>

Next == \E p \in Program :
  \/ LoadDocs(p) \/ LoadChunks(p)
  \/ OpenDocs(p) \/ WriteDocs(p) \/ OpenChunks(p) \/ WriteChunks(p)
  \/ End(p)

Spec == Init /\ [][Next]_vars
-----------------------------------------------------------------------------
Quiet == \A p \in Program : ~Saving(p)
DocsOnDisk == Stored(Docs!Load(docsFile))
ChunksOnDisk == Stored(Chunks!Load(chunksFile))

\* Nothing is lost until a process saves over what it has not read: as long as
\* none does, and none ends inside insert(), the files hold every document whose
\* insert returned, and its chunks, however the processes overlap otherwise
\* (JsonKVStorage.hpp:33-35 loads once, :115-117 rewrites the whole file).
NothingLost ==
  (Quiet /\ ~past.raced /\ ~past.died) =>
    past.inserted \subseteq DocsOnDisk /\ ChunksOf(past.inserted) \subseteq ChunksOnDisk

\* Even when updates are lost the two files lose them together, as long as no
\* load and no save was met half done by another process and none ended inside
\* insert(): the chunks on disk are those of the documents on disk
\* (GraphRAG.hpp:63-65,156-157).
FilesAgree ==
  (Quiet /\ ~past.crossed /\ ~past.died) => ChunksOnDisk = ChunksOf(DocsOnDisk)

\* Running a program again repairs what it had inserted: whatever processes ended
\* half way, raced or crossed before, an insert that returned, of a process whose
\* files nobody else has touched since it loaded them, left all its documents and
\* chunks on disk (GraphRAG.hpp:127-140 leaves no document out because it is
\* already stored).
RerunHeals ==
  \A p \in Program \ past.stale :
    proc[p].pc = "done" => Batch[p] \subseteq DocsOnDisk /\ ChunksOf(Batch[p]) \subseteq ChunksOnDisk
=============================================================================
