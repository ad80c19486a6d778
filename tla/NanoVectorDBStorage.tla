------------------------ MODULE NanoVectorDBStorage -------------------------
(***************************************************************************)
(* One NanoVectorDBStorage object, the vector index inside it and the      *)
(* index file (include/nano_graphrag/storage/NanoVectorDBStorage.hpp).     *)
(*                                                                         *)
(* The index itself, nano_vectordb::NanoVectorDB, is a git submodule that  *)
(* is not in the tree: it is modelled from its uses here as a map from id  *)
(* to vector that its constructor reads from the storage file, that upsert *)
(* extends, that save() writes to the file and that query() ranks.  When   *)
(* its upsert throws, any part of the batch may be in the map; a save that *)
(* throws is taken to leave the file alone, since what else it may leave   *)
(* there is not to be seen in the tree.                                    *)
(* A vector is known by the text it embeds, a text by the id it belongs to *)
(* (the ids are hashes of the texts).                                      *)
(***************************************************************************)
EXTENDS Embedding, SequencesExt

CONSTANTS
  Id,          \* the ids of records
  Configs,     \* the "auto_save" entries that clients configure
  Threshold    \* is query_better_than_threshold > 0

ASSUME VdbAssumption ==
  IsFiniteSet(Id) /\ Configs \subseteq BOOLEAN /\ Threshold \in BOOLEAN

VARIABLES
  vs,    \* the object, see Object below
  file,  \* what the index file holds
  rows   \* what the last query returned

vars == <<vs, file, rows>>

\* The zero vector is put in when the strategy returns the wrong number of vectors.
Vector == {VectorOf(i) : i \in Id} \cup {ZeroVector, EmptyVector}
NotIndexed == <<>>
Index == [Id -> Vector \cup {NotIndexed}]
NoVectors == [i \in Id |-> NotIndexed]
Indexed(index) == {i \in Id : index[i] # NotIndexed}

\* metas_ of an id: missing, captured by upsert(), or the empty map that
\* metas_[r.data.id] inserts while a query builds its rows.
Metas == [Id -> {"missing", "captured", "blank"}]

Object == [exists : BOOLEAN,                  \* is there an object at all
           emb : BOOLEAN,                     \* embedding_strategy, with dim > 0
           db : {"null", "early", "late"},    \* db_, and who constructed it
           config : BOOLEAN,                  \* "auto_save" of global_config
           autoSave : BOOLEAN,                \* auto_save_
           metas : Metas, index : Index,
           found : SUBSET Id,               \* history: what the index had when constructed,
           left : SUBSET Id,                \* and what an upsert that threw may have put there
           status : {"ok", "throw"}]          \* how the last call ended

NoObject == [exists |-> FALSE, emb |-> FALSE, db |-> "null", config |-> FALSE,
             autoSave |-> FALSE, metas |-> [i \in Id |-> "missing"],
             index |-> NoVectors, found |-> {}, left |-> {}, status |-> "ok"]

Row == [id : Id, meta : {"captured", "blank"}]

TypeOK == vs \in Object /\ file \in Index /\ rows \in Seq(Row)

Init == vs = NoObject /\ file = NoVectors /\ rows = <<>>
-----------------------------------------------------------------------------
\* db_->upsert(datas), and the ids in the order of a ranked query: at most top_k,
\* all of them unless a threshold cuts the list.
DbUpsert(index, vectors) ==
  [i \in Id |-> IF i \in DOMAIN vectors THEN vectors[i] ELSE index[i]]
DbQuery(index, top_k) ==
  LET size == IF top_k < Cardinality(Indexed(index)) THEN top_k
              ELSE Cardinality(Indexed(index))
      sizes == IF Threshold THEN 0..size ELSE {size}
  IN  UNION {{r \in [1..s -> Indexed(index)] :
                \A a, b \in 1..s : r[a] = r[b] => a = b} : s \in sizes}

\* Mutants of Construct: auto_save is never read, is read whether or not there is
\* a strategy.
ConstructWith(emb, config, db, autoSave) ==
  /\ vs' = [NoObject EXCEPT !.exists = TRUE, !.emb = emb, !.config = config, !.db = db,
              !.autoSave = autoSave, !.index = IF emb THEN file ELSE NoVectors,
              !.found = IF emb THEN Indexed(file) ELSE {}]
  /\ rows' = <<>>
  /\ UNCHANGED file
ConstructUnsaved(emb, config) ==
  ConstructWith(emb, config, IF emb THEN "early" ELSE "null", FALSE)
ConstructSaved(emb, config) ==
  ConstructWith(emb, config, IF emb THEN "early" ELSE "null", config)

\* The constructor: with a usable strategy the index is built at once, and only
\* then are the backend, the metric and auto_save taken from the configuration.
Construct(emb, config) ==
  /\ vs' = [NoObject EXCEPT !.exists = TRUE, !.emb = emb, !.config = config,
              !.db = IF emb THEN "early" ELSE "null",
              !.autoSave = emb /\ config,
              !.index = IF emb THEN file ELSE NoVectors,
              !.found = IF emb THEN Indexed(file) ELSE {}]
  /\ rows' = <<>>
  /\ UNCHANGED file

\* The public member embedding_strategy assigned after construction.
SetStrategy ==
  /\ vs.exists
  /\ vs' = [vs EXCEPT !.emb = TRUE]
  /\ UNCHANGED <<file, rows>>

\* Mutant of Captured: the metadata is dropped.
CapturedNothing(ids) == vs.metas

\* upsert() up to the call of embed(): the metadata is captured first.
Captured(ids) == [i \in Id |-> IF i \in ids THEN "captured" ELSE vs.metas[i]]

\* embed() throws (no API key, HTTP error, a reply that EmbedThrows): nothing is
\* indexed.
UpsertThrows(ids) ==
  /\ vs.exists
  /\ ids # {}
  /\ vs.emb
  /\ vs' = [vs EXCEPT !.metas = Captured(ids), !.status = "throw"]
  /\ rows' = <<>>
  /\ UNCHANGED file

\* The vectors for the ids in the order in which the hash map yields them: when
\* there is not one for each, all are replaced by zero vectors.
Assigned(order, embeddings) ==
  [i \in ToSet(order) |->
     IF Len(embeddings) # Len(order) THEN ZeroVector
     ELSE embeddings[CHOOSE p \in DOMAIN order : order[p] = i]]

\* An object built without a strategy constructs its index in upsert(), late.
Late == vs.db = "null" /\ vs.emb
Before == IF Late THEN file ELSE vs.index
Upserted(ids) == [vs EXCEPT !.metas = Captured(ids), !.db = IF Late THEN "late" ELSE @,
                            !.found = IF Late THEN Indexed(file) ELSE @]

\* upsert() returns, with these vectors for its ids.
UpsertReturns(vectors) ==
  LET ids == DOMAIN vectors
      index == IF vs.emb \/ vs.db # "null" THEN DbUpsert(Before, vectors) ELSE vs.index
  IN  /\ vs.exists
      /\ vs' = IF ids = {} THEN [vs EXCEPT !.status = "ok"]
               ELSE [Upserted(ids) EXCEPT !.status = "ok", !.index = index,
                                          !.left = IF vs.autoSave THEN {} ELSE @ \ ids]
      /\ file' = IF ids # {} /\ vs.autoSave THEN index ELSE file
      /\ rows' = <<>>

\* db_->upsert(datas) or db_->save() throws: some of the batch is in the index, all
\* of it when it was save(), and the file is as it was.  A process that ends there
\* leaves the same behind as one that ends before the call, see Destroy.
UpsertStops(vectors) ==
  /\ vs.exists
  /\ DOMAIN vectors # {}
  /\ vs.emb \/ vs.db # "null"
  /\ \E part \in SUBSET DOMAIN vectors :
       vs' = [Upserted(DOMAIN vectors) EXCEPT
                !.status = "throw", !.left = @ \cup part,
                !.index = DbUpsert(Before, [i \in part |-> vectors[i]])]
  /\ rows' = <<>>
  /\ UNCHANGED file

\* What embed() may return for some ids, over the orders of the hash map.
Embedded(ids) ==
  UNION {{Assigned(order, Embed(order, reply)) :
            reply \in {r \in Replies(order) : ~EmbedThrows(order, r)}} : order \in SetToSeqs(ids)}

Upsert(ids) ==
  \/ UpsertThrows(ids)
  \/ \E vectors \in Embedded(ids) : UpsertReturns(vectors) \/ UpsertStops(vectors)

\* query(): embed() of the question may throw; otherwise the ranked ids become
\* rows, and metas_[id] inserts an empty map for an id it does not know.
QueryThrows ==
  /\ vs.exists /\ vs.emb
  /\ vs' = [vs EXCEPT !.status = "throw"]
  /\ rows' = <<>>
  /\ UNCHANGED file

QueryReturns(top_k) ==
  /\ vs.exists
  /\ \E ids \in IF vs.db = "null" THEN {<<>>} ELSE DbQuery(vs.index, top_k) :
       LET hit == {ids[r] : r \in DOMAIN ids}
           metas == [i \in Id |-> IF i \in hit /\ vs.metas[i] = "missing" THEN "blank"
                                  ELSE vs.metas[i]]
       IN  /\ vs' = [vs EXCEPT !.metas = metas, !.status = "ok"]
           /\ rows' = [r \in DOMAIN ids |-> [id |-> ids[r], meta |-> metas[ids[r]]]]
  /\ UNCHANGED file

\* The object is destroyed, with its process or without: the file remains.
Destroy ==
  /\ vs.exists
  /\ vs' = NoObject /\ rows' = <<>>
  /\ UNCHANGED file

Next == \/ \E emb \in BOOLEAN, config \in Configs : Construct(emb, config)
        \/ SetStrategy
        \/ \E ids \in SUBSET Id : Upsert(ids)
        \/ QueryThrows
        \/ \E top_k \in 0..Cardinality(Id) : QueryReturns(top_k)
        \/ Destroy

Spec == Init /\ [][Next]_vars
-----------------------------------------------------------------------------
\* "Metadata fields specified in meta_fields are captured per id and returned
\* with query results" (NanoVectorDBStorage.hpp:29-30): no row is blank.
RowsCarryMeta == \A r \in DOMAIN rows : rows[r].meta = "captured"

\* An id that the index did not have when this process constructed it has its
\* metadata, whether or not it is saved meanwhile: upsert() captures it before
\* anything reaches the index, and no exception and no query loses it
\* (NanoVectorDBStorage.hpp:108-119,155,195).
IndexedHasMeta ==
  \A i \in Indexed(vs.index) \ vs.found : vs.metas[i] = "captured"

\* A vector made from a text is never kept under the id of another one, whatever
\* the order in which the ids were sent and the service answered, and whatever it
\* left out (embedding/openai.hpp:58-80, NanoVectorDBStorage.hpp:105,127-151).
OwnVectors ==
  \A index \in {vs.index, file} : \A i, j \in Id : index[i] = VectorOf(j) => i = j

\* With auto_save the file and the index of an object built with its strategy differ,
\* between calls, by nothing but what an upsert that threw left in the index, and
\* the next upsert that returns saves that as well (NanoVectorDBStorage.hpp:84,
\* 155-157).
EarlyIndexIsSaved ==
  (vs.config /\ vs.db = "early") => \A i \in Id : vs.index[i] # file[i] => i \in vs.left

\* An index built late never reaches the file, whatever the configuration says
\* (NanoVectorDBStorage.hpp:84 reads auto_save only when :48 held): a step after
\* which the index in use is a late one leaves the file alone.
LateIndexNeverSaved == [][vs'.db = "late" => UNCHANGED file]_vars
=============================================================================
