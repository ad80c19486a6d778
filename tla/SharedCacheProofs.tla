-------------------------- MODULE SharedCacheProofs --------------------------
(***************************************************************************)
(* The shared working directory, for any number of programs, documents and *)
(* processes.                                                              *)
(***************************************************************************)
EXTENDS SharedCache, TLAPS

After == {"docs open", "docs saved", "chunks open", "done"}  \* the insert has begun

\* What a process has in memory, whatever the others do.
Own(p) ==
  /\ proc[p].pc \in After => Batch[p] \subseteq Stored(proc[p].docs)
  /\ proc[p].pc \in {"docs open", "docs saved"} => proc[p].made = ChunksOf(Batch[p])
  /\ proc[p].pc \in {"chunks open", "done"} => ChunksOf(Batch[p]) \subseteq Stored(proc[p].chunks)

\* What it knows of the files as long as nobody else has written to them.
Knows(p) ==
  /\ proc[p].pc \in {"loading", "ready"} => proc[p].docs = Docs!Load(docsFile)
  /\ proc[p].pc \in {"docs saved", "chunks open", "done"} => docsFile = Docs!WholeFile(proc[p].docs)
  /\ proc[p].pc \in {"ready", "docs open", "docs saved"}
       => proc[p].chunks = Chunks!Load(chunksFile)
  /\ proc[p].pc = "done" => chunksFile = Chunks!WholeFile(proc[p].chunks)

Memories == /\ \A p \in Program : Own(p)
            /\ \A p \in Program \ past.stale : Knows(p)

\* Someone will save over what it has not read, or end inside insert().
Doomed == \E p \in past.stale : Saving(p)

\* Until then, what was inserted is on disk, or with the one process that saves.
Kept ==
  (~past.raced /\ ~past.died /\ ~Doomed) =>
    /\ Quiet => past.inserted \subseteq DocsOnDisk /\ ChunksOf(past.inserted) \subseteq ChunksOnDisk
    /\ \A p \in Program : Saving(p) =>
         past.inserted \subseteq Stored(proc[p].docs)
           /\ ChunksOf(past.inserted) \subseteq Stored(proc[p].chunks)

\* As long as no access has met a load or a save that was half done, one process
\* at a time is busy, and chunks and documents agree on disk and in memory.
Agreeing(p) ==
  /\ proc[p].pc = "loading" => proc[p].docs = Docs!Load(docsFile)
  /\ proc[p].pc \in {"ready", "chunks open", "done"}
       => Stored(proc[p].chunks) = ChunksOf(Stored(proc[p].docs))
  /\ proc[p].pc \in {"docs open", "docs saved"}
       => Stored(proc[p].chunks) \cup proc[p].made = ChunksOf(Stored(proc[p].docs))
  /\ proc[p].pc \in {"docs saved", "chunks open"} => docsFile = Docs!WholeFile(proc[p].docs)

Ordered ==
  /\ \A p, q \in Program : Busy(p) /\ Busy(q) => p = q
  /\ \A p \in Program : Agreeing(p)
  /\ Quiet => ChunksOnDisk = ChunksOf(DocsOnDisk)
OneByOne == (~past.crossed /\ ~past.died) => Ordered

IInv == TypeOK /\ Memories /\ Kept /\ OneByOne
-----------------------------------------------------------------------------
\* What a merge stores, and what a file that was written holds.
LEMMA MergeDocs ==
  ASSUME NEW m \in Docs!Map, NEW ids \in SUBSET Document
  PROVE  /\ Docs!Merge(m, DocBatch(ids)) \in Docs!Map
         /\ Stored(Docs!Merge(m, DocBatch(ids))) = Stored(m) \cup ids
  BY CacheAssumption DEF Docs!Map, Docs!Merge, DocBatch, Stored

LEMMA MergeChunks ==
  ASSUME NEW m \in Chunks!Map, NEW ids \in SUBSET Chunk
  PROVE  /\ Chunks!Merge(m, ChunkBatch(ids)) \in Chunks!Map
         /\ Stored(Chunks!Merge(m, ChunkBatch(ids))) = Stored(m) \cup ids
  BY CacheAssumption DEF Chunks!Map, Chunks!Merge, ChunkBatch, Stored

LEMMA FileOfDocs ==
  /\ Docs!EmptyMap \in Docs!Map /\ Docs!TornFile \in Docs!File /\ Docs!NoFile \in Docs!File
  /\ \A m \in Docs!Map : Docs!WholeFile(m) \in Docs!File /\ Docs!Load(Docs!WholeFile(m)) = m
  /\ \A f \in Docs!File : Docs!Load(f) \in Docs!Map
  /\ Stored(Docs!Load(Docs!NoFile)) = {}
  BY DEF Docs!EmptyMap, Docs!Map, Docs!TornFile, Docs!NoFile, Docs!File, Docs!WholeFile,
     Docs!Load, Stored

LEMMA FileOfChunks ==
  /\ Chunks!EmptyMap \in Chunks!Map /\ Chunks!TornFile \in Chunks!File
  /\ Chunks!NoFile \in Chunks!File
  /\ \A m \in Chunks!Map : Chunks!WholeFile(m) \in Chunks!File
                             /\ Chunks!Load(Chunks!WholeFile(m)) = m
  /\ \A f \in Chunks!File : Chunks!Load(f) \in Chunks!Map
  /\ Stored(Chunks!Load(Chunks!NoFile)) = {}
  BY DEF Chunks!EmptyMap, Chunks!Map, Chunks!TornFile, Chunks!NoFile, Chunks!File,
     Chunks!WholeFile, Chunks!Load, Stored

LEMMA ChunksOfTypes ==
  /\ \A ids \in SUBSET Document : ChunksOf(ids) \in SUBSET Chunk
  /\ \A a, b \in SUBSET Document : ChunksOf(a \cup b) = ChunksOf(a) \cup ChunksOf(b)
  /\ \A a, b \in SUBSET Document : a \subseteq b => ChunksOf(a) \subseteq ChunksOf(b)
  /\ \A m \in Docs!Map : Stored(m) \in SUBSET Document
  /\ ChunksOf({}) = {}
  /\ \A p \in Program : Batch[p] \in SUBSET Document
  BY CacheAssumption DEF ChunksOf, Stored, Docs!Map
-----------------------------------------------------------------------------
\* Each step, field by field.
Past == [inserted : SUBSET Document, stale : SUBSET Program,
         raced : BOOLEAN, crossed : BOOLEAN, died : BOOLEAN]
Same(p) == \A q \in Program \ {p} : proc'[q] = proc[q]

ReadFacts(p, stale) ==
  /\ past'.inserted = past.inserted /\ past'.stale = stale /\ past'.raced = past.raced
  /\ past'.crossed = Met(p) /\ past'.died = past.died
  /\ docsFile' = docsFile /\ chunksFile' = chunksFile
WriteFacts(p, inserted) ==
  /\ past'.inserted = inserted /\ past'.stale = past.stale \cup (Program \ {p})
  /\ past'.raced = (past.raced \/ p \in past.stale)
  /\ past'.crossed = Met(p) /\ past'.died = past.died

LEMMA LoadDocsFacts ==
  ASSUME TypeOK, NEW p \in Program, LoadDocs(p)
  PROVE  /\ proc[p].pc = "down" /\ proc'[p].pc = "loading"
         /\ proc'[p].docs = Docs!Load(docsFile) /\ proc'[p].chunks = Chunks!EmptyMap
         /\ proc'[p].made = {} /\ Same(p) /\ TypeOK'
         /\ ReadFacts(p, past.stale \ {p})
<1>1. proc[p] \in Process /\ past \in Past /\ Met(p) \in BOOLEAN
  BY DEF TypeOK, Past, Met
<1>2. Docs!Load(docsFile) \in Docs!Map /\ Chunks!EmptyMap \in Chunks!Map
  BY FileOfDocs, FileOfChunks DEF TypeOK
<1> DEFINE loading == [NoProcess EXCEPT !.pc = "loading", !.docs = Docs!Load(docsFile)]
<1>3. /\ loading.pc = "loading" /\ loading.docs = Docs!Load(docsFile)
      /\ loading.chunks = Chunks!EmptyMap /\ loading.made = {}
  BY DEF NoProcess
<1>4. loading \in Process
  BY <1>2 DEF Process, NoProcess
<1> HIDE DEF loading
<1>5. ReadFacts(p, past.stale \ {p}) /\ past' \in Past
  BY <1>1, ChunksOfTypes DEF LoadDocs, Reads, ReadFacts, Past
<1>6. proc' \in [Program -> Process]
  BY <1>1, <1>2, <1>3, <1>4, <1>5 DEF LoadDocs, TypeOK, Process, loading
<1>7. docsFile' \in Docs!File /\ chunksFile' \in Chunks!File /\ starts' \in 0..MaxStarts
  <2>1. /\ docsFile' = docsFile /\ chunksFile' = chunksFile
        /\ starts' = starts + 1 /\ starts < MaxStarts
    BY DEF LoadDocs
  <2> QED
    BY <2>1, CacheAssumption DEF TypeOK
<1>8. TypeOK'
  BY <1>5, <1>6, <1>7 DEF TypeOK, Past
<1> QED
  BY <1>1, <1>2, <1>3, <1>4, <1>5, <1>8 DEF LoadDocs, TypeOK, Same, Process, loading

LEMMA LoadChunksFacts ==
  ASSUME TypeOK, NEW p \in Program, LoadChunks(p)
  PROVE  /\ proc[p].pc = "loading" /\ proc'[p].pc = "ready"
         /\ proc'[p].docs = proc[p].docs /\ proc'[p].chunks = Chunks!Load(chunksFile)
         /\ proc'[p].made = proc[p].made /\ Same(p) /\ TypeOK'
         /\ ReadFacts(p, past.stale)
<1>1. proc[p] \in Process /\ past \in Past /\ Met(p) \in BOOLEAN
  BY DEF TypeOK, Past, Met
<1>2. Chunks!Load(chunksFile) \in Chunks!Map
  BY FileOfChunks DEF TypeOK
<1>3. ReadFacts(p, past.stale) /\ past' \in Past
  BY <1>1, ChunksOfTypes DEF LoadChunks, Reads, ReadFacts, Past
<1>4. proc' \in [Program -> Process]
  BY <1>1, <1>2, <1>3 DEF LoadChunks, TypeOK, Process
<1>5. docsFile' \in Docs!File /\ chunksFile' \in Chunks!File /\ starts' \in 0..MaxStarts
  BY <1>1, CacheAssumption DEF LoadChunks, TypeOK, Process, Reads
<1>6. TypeOK'
  BY <1>3, <1>4, <1>5 DEF TypeOK, Past
<1> QED
  BY <1>1, <1>2, <1>3, <1>6 DEF LoadChunks, TypeOK, Same, Process

LEMMA OpenDocsFacts ==
  ASSUME TypeOK, NEW p \in Program, OpenDocs(p)
  PROVE  /\ proc[p].pc = "ready" /\ proc'[p].pc = "docs open"
         /\ Stored(proc'[p].docs) = Stored(proc[p].docs) \cup Batch[p]
         /\ proc'[p].chunks = proc[p].chunks /\ proc'[p].made = ChunksOf(Batch[p])
         /\ Same(p) /\ TypeOK'
         /\ docsFile' = Docs!TornFile /\ chunksFile' = chunksFile
         /\ WriteFacts(p, past.inserted)
<1>1. proc[p] \in Process /\ past \in Past /\ Met(p) \in BOOLEAN
  BY DEF TypeOK, Past, Met
<1> DEFINE docs == Docs!Merge(proc[p].docs, DocBatch(Batch[p]))
<1>2. /\ docs \in Docs!Map /\ ChunksOf(Batch[p]) \in SUBSET Chunk
      /\ Stored(docs) = Stored(proc[p].docs) \cup Batch[p]
  <2>1. proc[p].docs \in Docs!Map /\ Batch[p] \in SUBSET Document
    BY <1>1, ChunksOfTypes DEF Process
  <2> QED
    BY <2>1, MergeDocs, ChunksOfTypes
<1>3. WriteFacts(p, past.inserted) /\ past' \in Past
  BY <1>1, ChunksOfTypes DEF OpenDocs, Writes, WriteFacts, Past
<1>4. proc' \in [Program -> Process]
  BY <1>1, <1>2, <1>3 DEF OpenDocs, TypeOK, Process
<1>5. docsFile' \in Docs!File /\ chunksFile' \in Chunks!File /\ starts' \in 0..MaxStarts
  BY <1>1, FileOfDocs, CacheAssumption DEF OpenDocs, TypeOK, Process
<1>6. TypeOK'
  BY <1>3, <1>4, <1>5 DEF TypeOK, Past
<1> QED
  BY <1>1, <1>2, <1>3, <1>6 DEF OpenDocs, TypeOK, Same, Process

LEMMA WriteDocsFacts ==
  ASSUME TypeOK, NEW p \in Program, WriteDocs(p)
  PROVE  /\ proc[p].pc = "docs open" /\ proc'[p].pc = "docs saved"
         /\ proc'[p].docs = proc[p].docs /\ proc'[p].chunks = proc[p].chunks
         /\ proc'[p].made = proc[p].made /\ Same(p) /\ TypeOK'
         /\ docsFile' = Docs!WholeFile(proc[p].docs) /\ chunksFile' = chunksFile
         /\ WriteFacts(p, past.inserted)
<1>1. proc[p] \in Process /\ past \in Past /\ Met(p) \in BOOLEAN
  BY DEF TypeOK, Past, Met
<1>2. WriteFacts(p, past.inserted) /\ past' \in Past
  BY <1>1, ChunksOfTypes DEF WriteDocs, Writes, WriteFacts, Past
<1>3. proc' \in [Program -> Process]
  BY <1>1, <1>2 DEF WriteDocs, TypeOK, Process
<1>4. docsFile' \in Docs!File /\ chunksFile' \in Chunks!File /\ starts' \in 0..MaxStarts
  BY <1>1, FileOfDocs, CacheAssumption DEF WriteDocs, TypeOK, Process
<1>5. TypeOK'
  BY <1>2, <1>3, <1>4 DEF TypeOK, Past
<1> QED
  BY <1>1, <1>2, <1>5 DEF WriteDocs, TypeOK, Same, Process

LEMMA OpenChunksFacts ==
  ASSUME TypeOK, NEW p \in Program, OpenChunks(p)
  PROVE  /\ proc[p].pc = "docs saved" /\ proc'[p].pc = "chunks open"
         /\ proc'[p].docs = proc[p].docs
         /\ Stored(proc'[p].chunks) = Stored(proc[p].chunks) \cup proc[p].made
         /\ proc'[p].made = proc[p].made /\ Same(p) /\ TypeOK'
         /\ docsFile' = docsFile /\ chunksFile' = Chunks!TornFile
         /\ WriteFacts(p, past.inserted)
<1>1. proc[p] \in Process /\ past \in Past /\ Met(p) \in BOOLEAN
  BY DEF TypeOK, Past, Met
<1> DEFINE chunks == Chunks!Merge(proc[p].chunks, ChunkBatch(proc[p].made))
<1>2. chunks \in Chunks!Map /\ Stored(chunks) = Stored(proc[p].chunks) \cup proc[p].made
  <2>1. proc[p].chunks \in Chunks!Map /\ proc[p].made \in SUBSET Chunk
    BY <1>1 DEF Process
  <2> QED
    BY <2>1, MergeChunks
<1>3. WriteFacts(p, past.inserted) /\ past' \in Past
  BY <1>1, ChunksOfTypes DEF OpenChunks, Writes, WriteFacts, Past
<1>4. proc' \in [Program -> Process]
  BY <1>1, <1>2, <1>3 DEF OpenChunks, TypeOK, Process
<1>5. docsFile' \in Docs!File /\ chunksFile' \in Chunks!File /\ starts' \in 0..MaxStarts
  BY <1>1, FileOfChunks, CacheAssumption DEF OpenChunks, TypeOK, Process
<1>6. TypeOK'
  BY <1>3, <1>4, <1>5 DEF TypeOK, Past
<1> QED
  BY <1>1, <1>2, <1>3, <1>6 DEF OpenChunks, TypeOK, Same, Process

LEMMA WriteChunksFacts ==
  ASSUME TypeOK, NEW p \in Program, WriteChunks(p)
  PROVE  /\ proc[p].pc = "chunks open" /\ proc'[p].pc = "done"
         /\ proc'[p].docs = proc[p].docs /\ proc'[p].chunks = proc[p].chunks
         /\ proc'[p].made = proc[p].made /\ Same(p) /\ TypeOK'
         /\ docsFile' = docsFile /\ chunksFile' = Chunks!WholeFile(proc[p].chunks)
         /\ WriteFacts(p, past.inserted \cup Batch[p])
<1>1. proc[p] \in Process /\ past \in Past /\ Met(p) \in BOOLEAN
  BY DEF TypeOK, Past, Met
<1>2. WriteFacts(p, past.inserted \cup Batch[p]) /\ past' \in Past
  BY <1>1, ChunksOfTypes DEF WriteChunks, Writes, WriteFacts, Past
<1>3. proc' \in [Program -> Process]
  BY <1>1, <1>2 DEF WriteChunks, TypeOK, Process
<1>4. docsFile' \in Docs!File /\ chunksFile' \in Chunks!File /\ starts' \in 0..MaxStarts
  BY <1>1, FileOfChunks, CacheAssumption DEF WriteChunks, TypeOK, Process
<1>5. TypeOK'
  BY <1>2, <1>3, <1>4 DEF TypeOK, Past
<1> QED
  BY <1>1, <1>2, <1>5 DEF WriteChunks, TypeOK, Same, Process

LEMMA EndFacts ==
  ASSUME TypeOK, NEW p \in Program, End(p)
  PROVE  /\ proc[p].pc # "down" /\ proc'[p].pc = "down"
         /\ proc'[p].docs = Docs!EmptyMap /\ proc'[p].chunks = Chunks!EmptyMap
         /\ proc'[p].made = {} /\ Same(p) /\ TypeOK'
         /\ docsFile' = docsFile /\ chunksFile' = chunksFile
         /\ past'.inserted = past.inserted /\ past'.stale = past.stale
         /\ past'.raced = past.raced /\ past'.crossed = past.crossed
         /\ past'.died = (past.died \/ Saving(p))
<1>1. past \in Past /\ Saving(p) \in BOOLEAN
  BY DEF TypeOK, Past, Saving
<1>2. NoProcess \in Process
  BY FileOfDocs, FileOfChunks DEF NoProcess, Process
<1>3. proc' \in [Program -> Process]
  BY <1>1, <1>2 DEF End, TypeOK, Process
<1>4. docsFile' \in Docs!File /\ chunksFile' \in Chunks!File /\ starts' \in 0..MaxStarts
  BY <1>1, CacheAssumption DEF End, TypeOK, Process
<1>5. past' \in Past
  BY <1>1 DEF End, Past
<1>6. TypeOK'
  BY <1>3, <1>4, <1>5 DEF TypeOK, Past
<1> QED
  BY <1>1, <1>2, <1>6 DEF End, TypeOK, Same, NoProcess, Past

LEMMA TypeStep ==
  ASSUME TypeOK, [Next]_vars
  PROVE  TypeOK'
<1>1. CASE UNCHANGED vars
  BY <1>1 DEF TypeOK, vars
<1> QED
  BY <1>1, LoadDocsFacts, LoadChunksFacts, OpenDocsFacts, WriteDocsFacts, OpenChunksFacts,
     WriteChunksFacts, EndFacts DEF Next
-----------------------------------------------------------------------------
\* What the processes know.
LEMMA MemoriesStep ==
  ASSUME TypeOK, Memories, [Next]_vars
  PROVE  Memories'
<1>0. \A q \in Program : proc[q] \in Process /\ Batch[q] \in SUBSET Document
                           /\ ChunksOf(Batch[q]) \in SUBSET Chunk
  BY CacheAssumption, ChunksOfTypes DEF TypeOK
<1>1. CASE UNCHANGED vars
  BY <1>1 DEF vars, Memories, Own, Knows
<1>2. ASSUME NEW p \in Program, Same(p), Own(p)', p \notin past'.stale => Knows(p)',
             past.stale \subseteq past'.stale \cup {p},
             past'.stale = past.stale \cup (Program \ {p})
               \/ (docsFile' = docsFile /\ chunksFile' = chunksFile)
      PROVE  Memories'
  <2>1. ASSUME NEW q \in Program \ {p} PROVE Own(q)'
    BY <1>2, <2>1 DEF Same, Memories, Own
  <2>2. ASSUME NEW q \in Program \ {p}, q \notin past'.stale PROVE Knows(q)'
    BY <1>2, <2>2 DEF Same, Memories, Knows
  <2> QED
    BY <1>2, <2>1, <2>2 DEF Memories
<1>3. ASSUME NEW p \in Program, LoadDocs(p) PROVE Memories'
  <2>1. /\ proc'[p].pc = "loading" /\ proc'[p].docs = Docs!Load(docsFile) /\ Same(p)
        /\ past'.stale = past.stale \ {p} /\ docsFile' = docsFile /\ chunksFile' = chunksFile
    BY <1>3, LoadDocsFacts DEF ReadFacts
  <2> QED
    BY <1>2, <2>1 DEF Own, Knows, After
<1>4. ASSUME NEW p \in Program, LoadChunks(p) PROVE Memories'
  <2>1. /\ proc[p].pc = "loading" /\ proc'[p].pc = "ready" /\ proc'[p].docs = proc[p].docs
        /\ proc'[p].chunks = Chunks!Load(chunksFile) /\ Same(p)
        /\ past'.stale = past.stale /\ docsFile' = docsFile /\ chunksFile' = chunksFile
    BY <1>4, LoadChunksFacts DEF ReadFacts
  <2> QED
    BY <1>2, <2>1 DEF Memories, Own, Knows, After
<1>5. ASSUME NEW p \in Program, OpenDocs(p) PROVE Memories'
  <2>1. /\ proc[p].pc = "ready" /\ proc'[p].pc = "docs open"
        /\ Stored(proc'[p].docs) = Stored(proc[p].docs) \cup Batch[p]
        /\ proc'[p].chunks = proc[p].chunks /\ proc'[p].made = ChunksOf(Batch[p])
        /\ Same(p) /\ chunksFile' = chunksFile /\ past'.stale = past.stale \cup (Program \ {p})
    BY <1>5, OpenDocsFacts DEF WriteFacts
  <2>2. Batch[p] \subseteq Stored(proc'[p].docs)
    BY <2>1
  <2> QED
    BY <1>2, <2>1, <2>2 DEF Memories, Own, Knows, After
<1>6. ASSUME NEW p \in Program, WriteDocs(p) PROVE Memories'
  <2>1. /\ proc[p].pc = "docs open" /\ proc'[p].pc = "docs saved"
        /\ proc'[p].docs = proc[p].docs /\ proc'[p].chunks = proc[p].chunks
        /\ proc'[p].made = proc[p].made /\ docsFile' = Docs!WholeFile(proc[p].docs)
        /\ Same(p) /\ chunksFile' = chunksFile /\ past'.stale = past.stale \cup (Program \ {p})
    BY <1>6, WriteDocsFacts DEF WriteFacts
  <2> QED
    BY <1>2, <2>1 DEF Memories, Own, Knows, After
<1>7. ASSUME NEW p \in Program, OpenChunks(p) PROVE Memories'
  <2>1. /\ proc[p].pc = "docs saved" /\ proc'[p].pc = "chunks open"
        /\ proc'[p].docs = proc[p].docs
        /\ Stored(proc'[p].chunks) = Stored(proc[p].chunks) \cup proc[p].made
        /\ Same(p) /\ docsFile' = docsFile /\ past'.stale = past.stale \cup (Program \ {p})
    BY <1>7, OpenChunksFacts DEF WriteFacts
  <2>2. ChunksOf(Batch[p]) \subseteq Stored(proc'[p].chunks)
    BY <2>1 DEF Memories, Own
  <2> QED
    BY <1>2, <2>1, <2>2 DEF Memories, Own, Knows, After
<1>8. ASSUME NEW p \in Program, WriteChunks(p) PROVE Memories'
  <2>1. /\ proc[p].pc = "chunks open" /\ proc'[p].pc = "done"
        /\ proc'[p].docs = proc[p].docs /\ proc'[p].chunks = proc[p].chunks
        /\ chunksFile' = Chunks!WholeFile(proc[p].chunks)
        /\ Same(p) /\ docsFile' = docsFile /\ past'.stale = past.stale \cup (Program \ {p})
    BY <1>8, WriteChunksFacts DEF WriteFacts
  <2> QED
    BY <1>2, <2>1 DEF Memories, Own, Knows, After
<1>9. ASSUME NEW p \in Program, End(p) PROVE Memories'
  <2>1. /\ proc'[p].pc = "down" /\ Same(p) /\ past'.stale = past.stale
        /\ docsFile' = docsFile /\ chunksFile' = chunksFile
    BY <1>9, EndFacts
  <2> QED
    BY <1>2, <2>1 DEF Own, Knows, After
<1> QED
  BY <1>1, <1>3, <1>4, <1>5, <1>6, <1>7, <1>8, <1>9 DEF Next

\* A process that is done and up to date has on disk what it has in memory.
LEMMA Healed == TypeOK /\ Memories => RerunHeals
<1> SUFFICES ASSUME TypeOK, Memories, NEW p \in Program \ past.stale, proc[p].pc = "done"
             PROVE  Batch[p] \subseteq DocsOnDisk /\ ChunksOf(Batch[p]) \subseteq ChunksOnDisk
  BY DEF RerunHeals
<1>1. proc[p].docs \in Docs!Map /\ proc[p].chunks \in Chunks!Map
  BY DEF TypeOK, Process
<1>2. /\ docsFile = Docs!WholeFile(proc[p].docs) /\ chunksFile = Chunks!WholeFile(proc[p].chunks)
      /\ Batch[p] \subseteq Stored(proc[p].docs)
      /\ ChunksOf(Batch[p]) \subseteq Stored(proc[p].chunks)
  BY DEF Memories, Own, Knows, After
<1> QED
  BY <1>1, <1>2, FileOfDocs, FileOfChunks DEF DocsOnDisk, ChunksOnDisk
-----------------------------------------------------------------------------
\* What was inserted.
LEMMA KeptStep ==
  ASSUME TypeOK, Memories, Kept, [Next]_vars
  PROVE  Kept'
<1>0. \A q \in Program : proc[q] \in Process /\ Batch[q] \in SUBSET Document
                           /\ ChunksOf(Batch[q]) \in SUBSET Chunk
  BY CacheAssumption, ChunksOfTypes DEF TypeOK
<1>t. /\ past.inserted \in SUBSET Document /\ past.stale \in SUBSET Program
      /\ past.raced \in BOOLEAN /\ past.died \in BOOLEAN
      /\ docsFile \in Docs!File /\ chunksFile \in Chunks!File
  BY DEF TypeOK
<1>1. CASE UNCHANGED vars
  BY <1>1 DEF vars, Kept, Doomed, Quiet, Saving, DocsOnDisk, ChunksOnDisk
\* A step of a process that is not in insert() and does not write.
<1>2. ASSUME NEW p \in Program, Same(p), ~Saving(p), ~Saving(p)',
             docsFile' = docsFile, chunksFile' = chunksFile,
             past.stale \ {p} = past'.stale \ {p}, past'.inserted = past.inserted,
             past'.raced = past.raced, past'.died = past.died
      PROVE  Kept'
  <2>1. \A q \in Program : (Saving(q)' <=> Saving(q)) /\ (Saving(q) => proc'[q] = proc[q])
    BY <1>2 DEF Same, Saving
  <2>2. (Doomed' <=> Doomed) /\ (Quiet' <=> Quiet)
    BY <1>2, <2>1, <1>t DEF Doomed, Quiet
  <2> QED
    BY <1>2, <2>1, <2>2 DEF Kept, DocsOnDisk, ChunksOnDisk
\* A write: unless it dooms the files, no one else is in insert() and the writer is up to date.
<1>3. ASSUME NEW p \in Program, Same(p), past'.stale = past.stale \cup (Program \ {p}),
             past'.raced = (past.raced \/ p \in past.stale), past'.died = past.died,
             ~past'.raced, ~past'.died, ~Doomed'
      PROVE  /\ ~past.raced /\ ~past.died /\ ~Doomed
             /\ \A q \in Program \ {p} : ~Saving(q) /\ ~Saving(q)'
             /\ p \notin past.stale
  <2>1. \A q \in Program \ {p} : ~Saving(q)'
    BY <1>3 DEF Doomed
  <2>2. \A q \in Program \ {p} : ~Saving(q)
    BY <1>3, <2>1 DEF Saving, Same
  <2> QED
    BY <1>3, <1>t, <2>1, <2>2 DEF Doomed
<1>4. ASSUME NEW p \in Program, LoadDocs(p) PROVE Kept'
  <2>1. /\ proc[p].pc = "down" /\ proc'[p].pc = "loading" /\ Same(p)
        /\ ReadFacts(p, past.stale \ {p})
    BY <1>4, LoadDocsFacts
  <2>2. ~Saving(p) /\ ~Saving(p)'
    BY <2>1 DEF Saving
  <2> QED
    BY <1>2, <2>1, <2>2 DEF ReadFacts
<1>5. ASSUME NEW p \in Program, LoadChunks(p) PROVE Kept'
  <2>1. /\ proc[p].pc = "loading" /\ proc'[p].pc = "ready" /\ Same(p)
        /\ ReadFacts(p, past.stale)
    BY <1>5, LoadChunksFacts
  <2>2. ~Saving(p) /\ ~Saving(p)'
    BY <2>1 DEF Saving
  <2> QED
    BY <1>2, <2>1, <2>2 DEF ReadFacts
<1>6. ASSUME NEW p \in Program, OpenDocs(p), ~past'.raced, ~past'.died, ~Doomed' PROVE Kept'
  <2>1. /\ proc[p].pc = "ready" /\ proc'[p].pc = "docs open"
        /\ Stored(proc'[p].docs) = Stored(proc[p].docs) \cup Batch[p]
        /\ proc'[p].chunks = proc[p].chunks
        /\ Same(p) /\ WriteFacts(p, past.inserted)
    BY <1>6, OpenDocsFacts
  <2>2. /\ ~past.raced /\ ~past.died /\ ~Doomed /\ p \notin past.stale
        /\ \A q \in Program \ {p} : ~Saving(q) /\ ~Saving(q)'
    BY <1>3, <1>6, <2>1 DEF WriteFacts
  <2>3. Quiet /\ Saving(p)'
    BY <2>1, <2>2 DEF Quiet, Saving
  <2>4. proc[p].docs = Docs!Load(docsFile) /\ proc[p].chunks = Chunks!Load(chunksFile)
    BY <2>1, <2>2 DEF Memories, Knows
  <2>5. past.inserted \subseteq Stored(proc[p].docs)
        /\ ChunksOf(past.inserted) \subseteq Stored(proc[p].chunks)
    BY <2>2, <2>3, <2>4 DEF Kept, DocsOnDisk, ChunksOnDisk
  <2>6. Stored(proc[p].docs) \subseteq Stored(proc'[p].docs)
    BY <2>1
  <2>7. past'.inserted = past.inserted /\ ~Quiet'
    BY <2>1, <2>3 DEF WriteFacts, Quiet
  <2> QED
    BY <2>1, <2>2, <2>5, <2>6, <2>7 DEF Kept
<1>7. ASSUME NEW p \in Program, WriteDocs(p), ~past'.raced, ~past'.died, ~Doomed' PROVE Kept'
  <2>1. /\ proc[p].pc = "docs open" /\ proc'[p].pc = "docs saved"
        /\ proc'[p].docs = proc[p].docs /\ proc'[p].chunks = proc[p].chunks
        /\ Same(p) /\ WriteFacts(p, past.inserted)
    BY <1>7, WriteDocsFacts
  <2>2. /\ ~past.raced /\ ~past.died /\ ~Doomed
        /\ \A q \in Program \ {p} : ~Saving(q) /\ ~Saving(q)'
    BY <1>3, <1>7, <2>1 DEF WriteFacts
  <2>3. Saving(p) /\ ~Quiet' /\ past'.inserted = past.inserted
    BY <2>1 DEF Saving, Quiet, WriteFacts
  <2> QED
    BY <2>1, <2>2, <2>3 DEF Kept
<1>8. ASSUME NEW p \in Program, OpenChunks(p), ~past'.raced, ~past'.died, ~Doomed' PROVE Kept'
  <2>1. /\ proc[p].pc = "docs saved" /\ proc'[p].pc = "chunks open"
        /\ proc'[p].docs = proc[p].docs
        /\ Stored(proc'[p].chunks) = Stored(proc[p].chunks) \cup proc[p].made
        /\ Same(p) /\ WriteFacts(p, past.inserted)
    BY <1>8, OpenChunksFacts
  <2>2. /\ ~past.raced /\ ~past.died /\ ~Doomed
        /\ \A q \in Program \ {p} : ~Saving(q) /\ ~Saving(q)'
    BY <1>3, <1>8, <2>1 DEF WriteFacts
  <2>3. Saving(p) /\ ~Quiet' /\ past'.inserted = past.inserted
    BY <2>1 DEF Saving, Quiet, WriteFacts
  <2>4. Stored(proc[p].chunks) \subseteq Stored(proc'[p].chunks)
    BY <2>1
  <2> QED
    BY <2>1, <2>2, <2>3, <2>4 DEF Kept
<1>9. ASSUME NEW p \in Program, WriteChunks(p), ~past'.raced, ~past'.died, ~Doomed' PROVE Kept'
  <2>1. /\ proc[p].pc = "chunks open" /\ proc'[p].pc = "done"
        /\ proc'[p].docs = proc[p].docs /\ proc'[p].chunks = proc[p].chunks
        /\ docsFile' = docsFile /\ chunksFile' = Chunks!WholeFile(proc[p].chunks)
        /\ Same(p) /\ WriteFacts(p, past.inserted \cup Batch[p])
    BY <1>9, WriteChunksFacts
  <2>2. /\ ~past.raced /\ ~past.died /\ ~Doomed /\ p \notin past.stale
        /\ \A q \in Program \ {p} : ~Saving(q) /\ ~Saving(q)'
    BY <1>3, <1>9, <2>1 DEF WriteFacts
  <2>3. Saving(p) /\ ~Saving(p)' /\ past'.inserted = past.inserted \cup Batch[p]
    BY <2>1 DEF Saving, WriteFacts
  <2>4. /\ docsFile = Docs!WholeFile(proc[p].docs)
        /\ Batch[p] \subseteq Stored(proc[p].docs)
    BY <2>1, <2>2 DEF Memories, Knows, Own, After
  <2>5. ChunksOf(Batch[p]) \subseteq Stored(proc[p].chunks)
    BY <2>1 DEF Memories, Own
  <2>6. past.inserted \subseteq Stored(proc[p].docs)
        /\ ChunksOf(past.inserted) \subseteq Stored(proc[p].chunks)
    BY <2>2, <2>3 DEF Kept
  <2>7. DocsOnDisk' = Stored(proc[p].docs) /\ ChunksOnDisk' = Stored(proc[p].chunks)
    BY <1>0, <2>1, <2>4, FileOfDocs, FileOfChunks DEF Process, DocsOnDisk, ChunksOnDisk
  <2>8. ChunksOf(past'.inserted) = ChunksOf(past.inserted) \cup ChunksOf(Batch[p])
    BY <1>0, <1>t, <2>3, ChunksOfTypes
  <2>9. \A q \in Program : ~Saving(q)'
    BY <2>2, <2>3
  <2> QED
    BY <2>3, <2>4, <2>5, <2>6, <2>7, <2>8, <2>9 DEF Kept
<1>10. ASSUME NEW p \in Program, End(p), ~past'.died PROVE Kept'
  <2>1. /\ proc'[p].pc = "down" /\ Same(p) /\ past'.inserted = past.inserted
        /\ past'.stale = past.stale /\ past'.raced = past.raced
        /\ past'.died = (past.died \/ Saving(p))
        /\ docsFile' = docsFile /\ chunksFile' = chunksFile
    BY <1>10, EndFacts
  <2>2. ~Saving(p) /\ ~Saving(p)' /\ past'.died = past.died
    BY <1>10, <1>t, <2>1 DEF Saving
  <2> QED
    BY <1>2, <2>1, <2>2
<1>11. CASE past'.raced \/ past'.died \/ Doomed'
  BY <1>11 DEF Kept
<1> QED
  BY <1>1, <1>4, <1>5, <1>6, <1>7, <1>8, <1>9, <1>10, <1>11 DEF Next
-----------------------------------------------------------------------------
\* The agreement of the two files.
LEMMA OneByOneStep ==
  ASSUME TypeOK, OneByOne, [Next]_vars
  PROVE  OneByOne'
<1>0. \A q \in Program : /\ proc[q] \in Process /\ Batch[q] \in SUBSET Document
                         /\ Stored(proc[q].docs) \in SUBSET Document
  BY CacheAssumption, ChunksOfTypes DEF TypeOK, Process
<1>t. past.crossed \in BOOLEAN /\ past.died \in BOOLEAN
      /\ docsFile \in Docs!File /\ chunksFile \in Chunks!File
  BY DEF TypeOK
<1>1. CASE UNCHANGED vars
  BY <1>1 DEF vars, OneByOne, Ordered, Agreeing, Busy, Quiet, Saving, DocsOnDisk, ChunksOnDisk
\* An access of p that met nothing half done: the others keep what they have.
<1>2. ASSUME NEW p \in Program, Same(p), past'.crossed = Met(p), past'.died = past.died,
             ~past'.crossed, ~past'.died
      PROVE  /\ Ordered
             /\ \A a, b \in Program : Busy(a)' /\ Busy(b)' => a = b
             /\ Agreeing(p)' => \A q \in Program : Agreeing(q)'
             /\ Quiet <=> ~Saving(p)
             /\ Quiet' <=> ~Saving(p)'
  <2>1. Ordered /\ \A q \in Program \ {p} : ~Busy(q)
    BY <1>2, <1>t DEF Met, OneByOne
  <2>2. \A q \in Program \ {p} : ~Busy(q)'
    BY <1>2, <2>1 DEF Same, Busy, Saving
  <2>3. \A q \in Program \ {p} : ~Saving(q) /\ ~Saving(q)'
    BY <2>1, <2>2 DEF Busy
  <2>4. ASSUME NEW q \in Program \ {p} PROVE Agreeing(q)'
    BY <1>2, <2>1, <2>4 DEF Same, Ordered, Agreeing, Busy, Saving
  <2> QED
    BY <2>1, <2>2, <2>3, <2>4 DEF Quiet
<1>3. ASSUME NEW p \in Program, LoadDocs(p), ~past'.crossed, ~past'.died PROVE OneByOne'
  <2>1. /\ proc[p].pc = "down" /\ proc'[p].pc = "loading"
        /\ proc'[p].docs = Docs!Load(docsFile) /\ Same(p) /\ ReadFacts(p, past.stale \ {p})
    BY <1>3, LoadDocsFacts
  <2>2. ~Saving(p) /\ ~Saving(p)' /\ Agreeing(p)'
    BY <2>1 DEF Saving, Agreeing, ReadFacts
  <2> QED
    BY <1>2, <1>3, <2>1, <2>2 DEF OneByOne, Ordered, ReadFacts, DocsOnDisk, ChunksOnDisk
<1>4. ASSUME NEW p \in Program, LoadChunks(p), ~past'.crossed, ~past'.died PROVE OneByOne'
  <2>1. /\ proc[p].pc = "loading" /\ proc'[p].pc = "ready" /\ proc'[p].docs = proc[p].docs
        /\ proc'[p].chunks = Chunks!Load(chunksFile) /\ Same(p) /\ ReadFacts(p, past.stale)
    BY <1>4, LoadChunksFacts
  <2>2. ~Saving(p) /\ ~Saving(p)'
    BY <2>1 DEF Saving
  <2>3. Ordered /\ Quiet
    BY <1>2, <1>4, <2>1, <2>2 DEF ReadFacts
  <2>4. Agreeing(p)'
    BY <2>1, <2>3 DEF Ordered, Agreeing, DocsOnDisk, ChunksOnDisk
  <2> QED
    BY <1>2, <1>4, <2>1, <2>2, <2>4 DEF OneByOne, Ordered, ReadFacts, DocsOnDisk, ChunksOnDisk
<1>5. ASSUME NEW p \in Program, OpenDocs(p), ~past'.crossed, ~past'.died PROVE OneByOne'
  <2>1. /\ proc[p].pc = "ready" /\ proc'[p].pc = "docs open"
        /\ Stored(proc'[p].docs) = Stored(proc[p].docs) \cup Batch[p]
        /\ proc'[p].chunks = proc[p].chunks /\ proc'[p].made = ChunksOf(Batch[p])
        /\ Same(p) /\ WriteFacts(p, past.inserted)
    BY <1>5, OpenDocsFacts
  <2>2. Ordered /\ Saving(p)'
    BY <1>2, <1>5, <2>1 DEF WriteFacts, Saving
  <2>3. ChunksOf(Stored(proc'[p].docs)) = ChunksOf(Stored(proc[p].docs)) \cup ChunksOf(Batch[p])
    <3>1. Stored(proc[p].docs) \in SUBSET Document /\ Batch[p] \in SUBSET Document
      BY <1>0
    <3>2. ChunksOf(Stored(proc[p].docs) \cup Batch[p])
            = ChunksOf(Stored(proc[p].docs)) \cup ChunksOf(Batch[p])
      BY <3>1, ChunksOfTypes, Zenon
    <3> QED
      BY <2>1, <3>2
  <2>4. Agreeing(p)'
    BY <2>1, <2>2, <2>3 DEF Ordered, Agreeing
  <2> QED
    BY <1>2, <1>5, <2>1, <2>2, <2>4 DEF OneByOne, Ordered, WriteFacts
<1>6. ASSUME NEW p \in Program, WriteDocs(p), ~past'.crossed, ~past'.died PROVE OneByOne'
  <2>1. /\ proc[p].pc = "docs open" /\ proc'[p].pc = "docs saved"
        /\ proc'[p].docs = proc[p].docs /\ proc'[p].chunks = proc[p].chunks
        /\ proc'[p].made = proc[p].made /\ docsFile' = Docs!WholeFile(proc[p].docs)
        /\ Same(p) /\ WriteFacts(p, past.inserted)
    BY <1>6, WriteDocsFacts
  <2>2. Ordered /\ Saving(p)'
    BY <1>2, <1>6, <2>1 DEF WriteFacts, Saving
  <2>3. Agreeing(p)'
    BY <2>1, <2>2 DEF Ordered, Agreeing
  <2> QED
    BY <1>2, <1>6, <2>1, <2>2, <2>3 DEF OneByOne, Ordered, WriteFacts
<1>7. ASSUME NEW p \in Program, OpenChunks(p), ~past'.crossed, ~past'.died PROVE OneByOne'
  <2>1. /\ proc[p].pc = "docs saved" /\ proc'[p].pc = "chunks open"
        /\ proc'[p].docs = proc[p].docs /\ docsFile' = docsFile
        /\ Stored(proc'[p].chunks) = Stored(proc[p].chunks) \cup proc[p].made
        /\ Same(p) /\ WriteFacts(p, past.inserted)
    BY <1>7, OpenChunksFacts
  <2>2. Ordered /\ Saving(p)'
    BY <1>2, <1>7, <2>1 DEF WriteFacts, Saving
  <2>3. Agreeing(p)'
    BY <2>1, <2>2 DEF Ordered, Agreeing
  <2> QED
    BY <1>2, <1>7, <2>1, <2>2, <2>3 DEF OneByOne, Ordered, WriteFacts
<1>8. ASSUME NEW p \in Program, WriteChunks(p), ~past'.crossed, ~past'.died PROVE OneByOne'
  <2>1. /\ proc[p].pc = "chunks open" /\ proc'[p].pc = "done"
        /\ proc'[p].docs = proc[p].docs /\ proc'[p].chunks = proc[p].chunks
        /\ docsFile' = docsFile /\ chunksFile' = Chunks!WholeFile(proc[p].chunks)
        /\ Same(p) /\ WriteFacts(p, past.inserted \cup Batch[p])
    BY <1>8, WriteChunksFacts
  <2>2. Ordered
    BY <1>2, <1>8, <2>1 DEF WriteFacts
  <2>3. /\ Stored(proc[p].chunks) = ChunksOf(Stored(proc[p].docs))
        /\ docsFile = Docs!WholeFile(proc[p].docs)
    BY <2>1, <2>2 DEF Ordered, Agreeing
  <2>4. Agreeing(p)'
    BY <2>1, <2>3 DEF Agreeing
  <2>5. DocsOnDisk' = Stored(proc[p].docs) /\ ChunksOnDisk' = Stored(proc[p].chunks)
    BY <1>0, <2>1, <2>3, FileOfDocs, FileOfChunks DEF Process, DocsOnDisk, ChunksOnDisk
  <2> QED
    BY <1>2, <1>8, <2>1, <2>3, <2>4, <2>5 DEF OneByOne, Ordered, WriteFacts
<1>9. ASSUME NEW p \in Program, End(p), ~past'.crossed, ~past'.died PROVE OneByOne'
  <2>1. /\ proc'[p].pc = "down" /\ Same(p) /\ past'.crossed = past.crossed
        /\ past'.died = (past.died \/ Saving(p))
        /\ docsFile' = docsFile /\ chunksFile' = chunksFile
    BY <1>9, EndFacts
  <2>2. Ordered /\ ~Saving(p) /\ ~Busy(p)' /\ ~Saving(p)' /\ Agreeing(p)'
    BY <1>9, <1>t, <2>1 DEF OneByOne, Busy, Saving, Agreeing
  <2>3. \A q \in Program \ {p} : /\ Busy(q)' <=> Busy(q)
                                 /\ Saving(q)' <=> Saving(q)
                                 /\ Agreeing(q)
    BY <2>1, <2>2 DEF Same, Busy, Saving, Ordered
  <2>4. ASSUME NEW q \in Program \ {p} PROVE Agreeing(q)'
    BY <2>1, <2>3 DEF Same, Agreeing
  <2>5. Quiet' <=> Quiet
    BY <2>2, <2>3 DEF Quiet
  <2> QED
    BY <2>1, <2>2, <2>3, <2>4, <2>5 DEF OneByOne, Ordered, DocsOnDisk, ChunksOnDisk
<1>10. CASE past'.crossed \/ past'.died
  BY <1>10 DEF OneByOne
<1> QED
  BY <1>1, <1>3, <1>4, <1>5, <1>6, <1>7, <1>8, <1>9, <1>10 DEF Next
-----------------------------------------------------------------------------
LEMMA Initially == Init => IInv
<1> SUFFICES ASSUME Init PROVE IInv
  OBVIOUS
<1>1. /\ \A p \in Program : proc[p] = NoProcess
      /\ docsFile = Docs!NoFile /\ chunksFile = Chunks!NoFile
      /\ past.inserted = {} /\ past.stale = {}
  BY DEF Init
<1>2. \A p \in Program : proc[p].pc = "down" /\ ~Saving(p) /\ ~Busy(p)
  <2>1. \A p \in Program : proc[p].pc = "down"
    <3>1. NoProcess.pc = "down"
      BY DEF NoProcess
    <3> QED
      BY <1>1, <3>1
  <2> QED
    BY <2>1 DEF Saving, Busy
<1>3. TypeOK
  <2>1. NoProcess \in Process
    BY FileOfDocs, FileOfChunks DEF NoProcess, Process
  <2> QED
    BY <2>1, FileOfDocs, FileOfChunks, CacheAssumption DEF Init, TypeOK
<1>4. DocsOnDisk = {} /\ ChunksOnDisk = {}
  BY <1>1, FileOfDocs, FileOfChunks DEF DocsOnDisk, ChunksOnDisk
<1>5. Memories
  BY <1>2 DEF Memories, Own, Knows, After
<1>6. Kept
  BY <1>1, <1>2, <1>4, ChunksOfTypes DEF Kept
<1>7. OneByOne
  BY <1>2, <1>4, ChunksOfTypes DEF OneByOne, Ordered, Agreeing
<1> QED
  BY <1>3, <1>5, <1>6, <1>7 DEF IInv

LEMMA Invariance == Spec => []IInv
<1>1. IInv /\ [Next]_vars => IInv'
  BY TypeStep, MemoriesStep, KeptStep, OneByOneStep DEF IInv
<1> QED
  BY Initially, <1>1, PTL DEF Spec

\* The files and the processes have their types (JsonKVStorage.hpp:115-132).
THEOREM TypeCorrect == Spec => []TypeOK
<1>1. IInv => TypeOK
  BY DEF IInv
<1> QED
  BY <1>1, Invariance, PTL

\* The files hold every insert that returned until a process saves over what it has
\* not read, or ends inside insert() (JsonKVStorage.hpp:33-35,115-117).
THEOREM SafeUntilRaced == Spec => []NothingLost
<1>1. IInv => NothingLost
  BY DEF IInv, NothingLost, Kept, Doomed, Quiet, TypeOK
<1> QED
  BY <1>1, Invariance, PTL

\* Processes that access the files one at a time leave chunks and documents that
\* agree, whatever updates they lose (GraphRAG.hpp:63-65,156-157).
THEOREM LostTogether == Spec => []FilesAgree
<1>1. IInv => FilesAgree
  BY DEF IInv, FilesAgree, OneByOne, Ordered
<1> QED
  BY <1>1, Invariance, PTL

\* Inserting again heals whatever crashes and races have left (GraphRAG.hpp:127-140).
THEOREM Healing == Spec => []RerunHeals
<1>1. IInv => RerunHeals
  BY Healed DEF IInv
<1> QED
  BY <1>1, Invariance, PTL
-----------------------------------------------------------------------------
\* One program that has the working directory to itself, whose processes follow each
\* other: no other one can make it stale or be met half way.
Alone == \A p, q \in Program : p = q
Undisturbed == past.stale = {} /\ ~past.raced /\ ~past.crossed

LEMMA UndisturbedStep ==
  ASSUME Alone, TypeOK, Undisturbed, [Next]_vars
  PROVE  Undisturbed'
<1>1. \A p \in Program : Program \ {p} = {} /\ ~Met(p)
  BY DEF Alone, Met, Undisturbed
<1>2. ASSUME NEW p \in Program, NEW inserted, Writes(p, inserted) PROVE Undisturbed'
  BY <1>1, <1>2 DEF Writes, Undisturbed, TypeOK
<1>3. ASSUME NEW p \in Program, NEW stale, Reads(p, stale), stale = {} PROVE Undisturbed'
  BY <1>1, <1>3 DEF Reads, Undisturbed, TypeOK
<1>4. ASSUME NEW p \in Program, LoadDocs(p) \/ LoadChunks(p) PROVE Undisturbed'
  <2>1. past.stale = {} /\ past.stale \ {p} = {}
    BY DEF Undisturbed
  <2> QED
    BY <1>3, <1>4, <2>1 DEF LoadDocs, LoadChunks
<1>5. ASSUME NEW p \in Program, OpenDocs(p) \/ WriteDocs(p) \/ OpenChunks(p) \/ WriteChunks(p)
      PROVE  Undisturbed'
  BY <1>2, <1>5 DEF OpenDocs, WriteDocs, OpenChunks, WriteChunks
<1>6. ASSUME NEW p \in Program, End(p) PROVE Undisturbed'
  BY <1>6 DEF End, Undisturbed, TypeOK
<1>7. CASE UNCHANGED vars
  BY <1>7 DEF vars, Undisturbed
<1> QED
  BY <1>4, <1>5, <1>6, <1>7 DEF Next

\* A program that nobody shares the directory with loses nothing and leaves files that
\* agree, over any number of its processes, as long as none of them ends inside
\* insert(): it is only the sharing, and that, which the stores cannot cope with
\* (JsonKVStorage.hpp:33-35,115-117, GraphRAG.hpp:156-157).
KeepsAll ==
  (Quiet /\ ~past.died) =>
    /\ past.inserted \subseteq DocsOnDisk
    /\ ChunksOnDisk = ChunksOf(DocsOnDisk)

\* Alone in its directory, a program keeps all it inserted (demo.cpp, JsonKVStorage.hpp:115-117).
THEOREM AloneIsSafe ==
  ASSUME Alone
  PROVE  Spec => []KeepsAll
<1>1. Init => Undisturbed
  BY DEF Init, Undisturbed
<1>2. TypeOK /\ Undisturbed /\ [Next]_vars => Undisturbed'
  BY UndisturbedStep
<1>3. Undisturbed /\ NothingLost /\ FilesAgree => KeepsAll
  BY DEF Undisturbed, NothingLost, FilesAgree, KeepsAll
<1> QED
  BY <1>1, <1>2, <1>3, TypeCorrect, SafeUntilRaced, LostTogether, PTL DEF Spec
=============================================================================
