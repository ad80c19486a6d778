---------------------- MODULE NanoVectorDBStorageProofs ----------------------
(***************************************************************************)
(* The vector store, for every finite set of ids, every configuration and  *)
(* every reply of the embedding service.                                   *)
(***************************************************************************)
EXTENDS NanoVectorDBStorage, Induction, FiniteSetTheorems

\* auto_save is taken from the configuration of an early index, and of no other.
Saving == vs.autoSave <=> (vs.config /\ vs.db = "early")

IInv == TypeOK /\ Saving /\ EarlyIndexIsSaved /\ IndexedHasMeta /\ OwnVectors

\* Vectors that an id may have: its own, or one made of nothing.
OwnOrNone(i) == {VectorOf(i), EmptyVector, ZeroVector}
Legal(vectors) ==
  DOMAIN vectors \subseteq Id /\ \A i \in DOMAIN vectors : vectors[i] \in OwnOrNone(i)
-----------------------------------------------------------------------------
LEMMA VectorsDiffer ==
  /\ \A i, j : VectorOf(i) = VectorOf(j) => i = j
  /\ \A i : VectorOf(i) # EmptyVector /\ VectorOf(i) # ZeroVector /\ VectorOf(i) # NotIndexed
  /\ EmptyVector # NotIndexed /\ ZeroVector # NotIndexed
  BY DEF VectorOf, EmptyVector, ZeroVector, NotIndexed

\* What embed() makes of a reply is the vector of the text or an empty one.
LEMMA EmbedOwn ==
  ASSUME NEW texts \in Seq(Id), NEW reply \in Replies(texts), NEW p \in DOMAIN texts,
         Len(Embed(texts, reply)) = Len(texts)
  PROVE  Embed(texts, reply)[p] \in {VectorOf(texts[p]), EmptyVector}
<1> DEFINE sent == {j \in DOMAIN reply.items :
                      reply.items[j].kind = "whole" /\ reply.items[j].index = p - 1}
<1>1. texts # <<>> /\ Len(texts) \in Nat \ {0} /\ p \in 1..Len(texts)
  OBVIOUS
<1>2. reply.data = "array"
  <2> SUFFICES ASSUME reply.data # "array" PROVE FALSE
    OBVIOUS
  <2>1. Embed(texts, reply) = <<>>
    BY DEF Embed
  <2> QED
    BY <1>1, <2>1
<1>3. PICK k \in 0..Len(texts) : reply.items \in [1..k -> Items(texts)]
  BY <1>2 DEF Replies
<1>4. Embed(texts, reply)[p]
        = IF sent = {} THEN EmptyVector ELSE reply.items[Max(sent)].vector
  BY <1>1, <1>2 DEF Embed
<1>5. CASE sent # {}
  <2>1. k \in Nat /\ sent \subseteq 1..k
    BY <1>1, <1>3
  <2>2. Max(sent) \in sent
    BY <1>5, <2>1, MaxIsMember
  <2> DEFINE item == reply.items[Max(sent)]
  <2>3. item \in Items(texts) /\ item.kind = "whole" /\ item.index = p - 1
    BY <1>3, <2>1, <2>2
  <2> HIDE DEF item
  <2>4. item.vector = VectorOf(texts[p])
    <3>1. ASSUME NEW q \in DOMAIN texts, item = Item(texts, q) PROVE q = p /\ item.vector = VectorOf(texts[q])
      BY <1>1, <2>3, <3>1 DEF Item
    <3>2. item # [kind |-> "whole", index |-> Len(texts), vector |-> ForeignVector]
      BY <1>1, <2>3
    <3>3. item \notin [kind : {"partial", "bad"}, index : {0}, vector : {EmptyVector}]
      BY <2>3
    <3> QED
      BY <2>3, <3>1, <3>2, <3>3 DEF Items
  <2> QED
    BY <1>4, <1>5, <2>4 DEF item
<1> QED
  BY <1>4, <1>5

\* So the vectors that upsert() gives to the index are legal, in every order.
LEMMA AssignedLegal ==
  ASSUME NEW ids \in SUBSET Id, NEW order \in SetToSeqs(ids), NEW reply \in Replies(order)
  PROVE  Legal(Assigned(order, Embed(order, reply)))
<1> DEFINE embeddings == Embed(order, reply)
           vectors == Assigned(order, embeddings)
<1>1. Cardinality(ids) \in Nat
  BY VdbAssumption, FS_Subset, FS_CardinalityType
<1>2. order \in [1..Cardinality(ids) -> ids]
  BY DEF SetToSeqs
<1>3. order \in Seq(Id) /\ DOMAIN order = 1..Cardinality(ids)
  BY <1>1, <1>2
<1>4. DOMAIN vectors = ToSet(order) /\ ToSet(order) \subseteq Id
  BY <1>2 DEF Assigned, ToSet
<1>5. ASSUME NEW i \in ToSet(order) PROVE vectors[i] \in OwnOrNone(i)
  <2>1. vectors[i] = IF Len(embeddings) # Len(order) THEN ZeroVector
                     ELSE embeddings[CHOOSE p \in DOMAIN order : order[p] = i]
    BY DEF Assigned
  <2>2. CASE Len(embeddings) # Len(order)
    BY <2>1, <2>2 DEF OwnOrNone
  <2>3. CASE Len(embeddings) = Len(order)
    <3> DEFINE p == CHOOSE p \in DOMAIN order : order[p] = i
    <3>1. p \in DOMAIN order /\ order[p] = i
      BY DEF ToSet
    <3> HIDE DEF p
    <3>2. embeddings[p] \in {VectorOf(order[p]), EmptyVector}
      BY <1>3, <2>3, <3>1, EmbedOwn
    <3> QED
      BY <2>1, <2>3, <3>1, <3>2 DEF OwnOrNone, p
  <2> QED
    BY <2>2, <2>3
<1> QED
  BY <1>4, <1>5 DEF Legal
-----------------------------------------------------------------------------
LEMMA EmbeddedLegal ==
  ASSUME NEW ids \in SUBSET Id, NEW vectors \in Embedded(ids)
  PROVE  Legal(vectors)
<1>1. PICK order \in SetToSeqs(ids) :
        vectors \in {Assigned(order, Embed(order, reply)) :
                       reply \in {r \in Replies(order) : ~EmbedThrows(order, r)}}
  BY DEF Embedded
<1>2. PICK reply \in Replies(order) : vectors = Assigned(order, Embed(order, reply))
  BY <1>1
<1> QED
  BY <1>2, AssignedLegal

LEMMA NoObjectOK == NoObject \in Object /\ NoVectors \in Index /\ Indexed(NoVectors) = {}
  BY DEF NoObject, Object, NoVectors, Index, Metas, Indexed, NotIndexed

LEMMA InitIInv == Init => IInv
<1> SUFFICES ASSUME Init PROVE IInv
  OBVIOUS
<1>1. vs = NoObject /\ file = NoVectors /\ rows = <<>>
  BY DEF Init
<1>2. TypeOK
  BY <1>1, NoObjectOK DEF TypeOK
<1>3. /\ vs.index = NoVectors /\ vs.autoSave = FALSE /\ vs.config = FALSE /\ vs.db = "null"
  BY <1>1 DEF NoObject
<1>4. OwnVectors
  BY <1>1, <1>3, VectorsDiffer DEF OwnVectors, NoVectors
<1> QED
  BY <1>1, <1>2, <1>3, <1>4, NoObjectOK DEF IInv, Saving, EarlyIndexIsSaved, IndexedHasMeta

LEMMA ConstructIInv ==
  ASSUME IInv, NEW emb \in BOOLEAN, NEW config \in Configs, Construct(emb, config)
  PROVE  IInv'
<1> DEFINE index == IF emb THEN file ELSE NoVectors
<1>1. /\ vs' = [exists |-> TRUE, emb |-> emb, db |-> IF emb THEN "early" ELSE "null",
                config |-> config, autoSave |-> emb /\ config,
                metas |-> [i \in Id |-> "missing"], index |-> index,
                found |-> IF emb THEN Indexed(file) ELSE {}, left |-> {}, status |-> "ok"]
      /\ rows' = <<>> /\ file' = file
  BY DEF Construct, NoObject
<1>2. config \in BOOLEAN /\ (emb /\ config) \in BOOLEAN
  BY VdbAssumption
<1>3. index \in Index /\ file \in Index
  BY NoObjectOK DEF IInv, TypeOK
<1>4. TypeOK'
  <2>1. (IF emb THEN Indexed(file) ELSE {}) \subseteq Id
    BY DEF Indexed
  <2> HIDE DEF index
  <2> QED
    BY <1>1, <1>2, <1>3, <2>1 DEF TypeOK, Object, Metas
<1>5. /\ vs'.found = (IF emb THEN Indexed(file) ELSE {}) /\ vs'.db = (IF emb THEN "early" ELSE "null") /\ vs'.config = config
      /\ vs'.autoSave = (emb /\ config) /\ vs'.index = index
  <2> HIDE DEF index
  <2> QED
    BY <1>1
<1>6. Saving' /\ EarlyIndexIsSaved'
  BY <1>1, <1>2, <1>5 DEF Saving, EarlyIndexIsSaved
<1>7. IndexedHasMeta'
  BY <1>1, <1>5, NoObjectOK DEF IndexedHasMeta
<1>8. OwnVectors'
  BY <1>1, <1>5, VectorsDiffer DEF IInv, OwnVectors, NoVectors
<1> QED
  BY <1>4, <1>6, <1>7, <1>8 DEF IInv

\* Calls that leave index, file and configuration alone and only add metadata.
LEMMA QuietIInv ==
  ASSUME IInv, NEW metas \in Metas, NEW emb \in BOOLEAN, NEW status \in {"ok", "throw"},
         \A i \in Id : vs.metas[i] = "captured" => metas[i] = "captured",
         vs' = [vs EXCEPT !.metas = metas, !.emb = emb, !.status = status],
         file' = file, rows' \in Seq(Row)
  PROVE  IInv'
<1>1. vs \in Object /\ file \in Index
  BY DEF IInv, TypeOK
<1>2. /\ vs' \in Object /\ vs'.index = vs.index /\ vs'.db = vs.db /\ vs'.config = vs.config
      /\ vs'.autoSave = vs.autoSave /\ vs'.metas = metas /\ vs'.found = vs.found
      /\ vs'.left = vs.left
  BY <1>1 DEF Object
<1>3. TypeOK'
  BY <1>1, <1>2 DEF TypeOK
<1>4. IndexedHasMeta'
  BY <1>2 DEF IInv, IndexedHasMeta, Indexed
<1> QED
  BY <1>2, <1>3, <1>4 DEF IInv, Saving, EarlyIndexIsSaved, OwnVectors

\* What both ways out of upsert() share: vectors that are their ids' own, some of
\* which were put into the index that was there before or was constructed late.
LEMMA DbUpserted ==
  ASSUME IInv, NEW vectors, Legal(vectors), NEW part \in SUBSET DOMAIN vectors
  PROVE  LET put == [i \in part |-> vectors[i]]
         IN  /\ DbUpsert(Before, put) \in Index
             /\ \A i \in Id \ part : DbUpsert(Before, put)[i] = Before[i]
             /\ \A i, j \in Id : DbUpsert(Before, put)[i] = VectorOf(j) => i = j
<1> DEFINE put == [i \in part |-> vectors[i]]
<1>1. vs.index \in Index /\ file \in Index
  BY DEF IInv, TypeOK, Object
<1>2. Before \in Index /\ \A i, j \in Id : Before[i] = VectorOf(j) => i = j
  BY <1>1 DEF Before, IInv, OwnVectors
<1>3. \A i \in part : i \in Id /\ put[i] \in OwnOrNone(i)
  BY DEF Legal
<1>4. \A i \in part : put[i] \in Vector
  BY <1>3 DEF OwnOrNone, Vector
<1>5. \A i \in Id : DbUpsert(Before, put)[i] = IF i \in part THEN put[i] ELSE Before[i]
  BY DEF DbUpsert
<1>6. DbUpsert(Before, put) \in Index
  BY <1>2, <1>4 DEF DbUpsert, Index
<1>7. \A i \in part : \A j \in Id : put[i] = VectorOf(j) => i = j
  BY <1>3, VectorsDiffer DEF OwnOrNone
<1> QED
  BY <1>2, <1>5, <1>6, <1>7

LEMMA UpsertedOK ==
  ASSUME IInv, NEW ids \in SUBSET Id
  PROVE  /\ Upserted(ids) \in Object /\ Upserted(ids).config = vs.config
         /\ Upserted(ids).autoSave = vs.autoSave /\ Upserted(ids).left = vs.left
         /\ Upserted(ids).metas = Captured(ids)
         /\ Upserted(ids).db = (IF Late THEN "late" ELSE vs.db)
         /\ Upserted(ids).found = (IF Late THEN Indexed(file) ELSE vs.found)
         /\ \A i \in Id : Captured(ids)[i] = IF i \in ids THEN "captured" ELSE vs.metas[i]
<1>1. vs \in Object
  BY DEF IInv, TypeOK
<1>2. Captured(ids) \in Metas /\ Indexed(file) \subseteq Id
  BY <1>1 DEF Captured, Metas, Object, Indexed
<1>3. \A i \in Id : Captured(ids)[i] = IF i \in ids THEN "captured" ELSE vs.metas[i]
  BY DEF Captured
<1> QED
  BY <1>1, <1>2, <1>3 DEF Upserted, Object

\* An index that is that of before but for ids whose metadata is captured.
LEMMA GrownHasMeta ==
  ASSUME IInv, NEW ids \in SUBSET Id, NEW index \in Index,
         \A i \in Id \ ids : index[i] = Before[i] \/ index[i] = vs.index[i],
         NEW vs1, vs1.index = index, vs1.metas = Captured(ids),
         vs1.found = (IF Late THEN Indexed(file) ELSE vs.found),
         Late => \A i \in Id \ ids : index[i] = Before[i]
  PROVE  \A i \in Indexed(vs1.index) \ vs1.found : vs1.metas[i] = "captured"
<1> SUFFICES ASSUME NEW i \in Indexed(index) \ vs1.found PROVE Captured(ids)[i] = "captured"
  OBVIOUS
<1>1. i \in Id /\ index[i] # NotIndexed
  BY DEF Indexed
<1>2. CASE i \in ids
  BY <1>1, <1>2, UpsertedOK
<1>3. CASE i \notin ids /\ Late
  <2>1. index[i] = file[i]
    BY <1>1, <1>3 DEF Before
  <2>2. i \in Indexed(file)
    BY <1>1, <2>1 DEF Indexed
  <2> QED
    BY <1>3, <2>2
<1>4. CASE i \notin ids /\ ~Late
  <2>1. index[i] = vs.index[i]
    BY <1>1, <1>4 DEF Before
  <2>2. i \in Indexed(vs.index) \ vs.found
    BY <1>1, <1>4, <2>1 DEF Indexed
  <2> QED
    BY <1>1, <1>4, <2>2, UpsertedOK DEF IInv, IndexedHasMeta
<1> QED
  BY <1>2, <1>3, <1>4

LEMMA UpsertReturnsIInv ==
  ASSUME IInv, NEW vectors, Legal(vectors), UpsertReturns(vectors)
  PROVE  IInv'
<1> DEFINE ids == DOMAIN vectors
           index == IF vs.emb \/ vs.db # "null" THEN DbUpsert(Before, vectors) ELSE vs.index
<1>1. vs \in Object /\ file \in Index /\ vs.index \in Index /\ ids \in SUBSET Id
  BY DEF IInv, TypeOK, Object, Legal
<1>2. /\ vs' = IF ids = {} THEN [vs EXCEPT !.status = "ok"]
               ELSE [Upserted(ids) EXCEPT !.status = "ok", !.index = index,
                                          !.left = IF vs.autoSave THEN {} ELSE @ \ ids]
      /\ file' = (IF ids # {} /\ vs.autoSave THEN index ELSE file)
      /\ rows' = <<>>
  BY DEF UpsertReturns
<1>3. CASE ids = {}
  <2>1. vs' = [vs EXCEPT !.metas = vs.metas, !.emb = vs.emb, !.status = "ok"]
    BY <1>1, <1>2, <1>3 DEF Object
  <2>2. rows' \in Seq(Row) /\ file' = file /\ vs.emb \in BOOLEAN /\ vs.metas \in Metas
    BY <1>1, <1>2, <1>3 DEF Object
  <2> QED
    BY <1>1, <2>1, <2>2, QuietIInv
<1>4. CASE ids # {}
  <2>1. /\ index \in Index /\ \A i, j \in Id : index[i] = VectorOf(j) => i = j
        /\ \A i \in Id \ ids : index[i] = Before[i] \/ index[i] = vs.index[i]
        /\ Late => \A i \in Id \ ids : index[i] = Before[i]
    <3>1. DbUpsert(Before, [i \in ids |-> vectors[i]]) = DbUpsert(Before, vectors)
      BY DEF DbUpsert
    <3>2. /\ DbUpsert(Before, vectors) \in Index
          /\ \A i \in Id \ ids : DbUpsert(Before, vectors)[i] = Before[i]
          /\ \A i, j \in Id : DbUpsert(Before, vectors)[i] = VectorOf(j) => i = j
      BY <3>1, DbUpserted
    <3>3. \A i, j \in Id : vs.index[i] = VectorOf(j) => i = j
      BY DEF IInv, OwnVectors
    <3> QED
      BY <1>1, <3>2, <3>3 DEF Late
  <2> HIDE DEF index, ids
  <2>2. /\ vs' = [Upserted(ids) EXCEPT !.status = "ok", !.index = index,
                                       !.left = IF vs.autoSave THEN {} ELSE @ \ ids]
        /\ file' = IF vs.autoSave THEN index ELSE file
    BY <1>2, <1>4
  <2>3. /\ vs'.index = index /\ vs'.metas = Captured(ids) /\ vs'.config = vs.config
        /\ vs'.autoSave = vs.autoSave /\ vs'.db = (IF Late THEN "late" ELSE vs.db)
        /\ vs'.found = (IF Late THEN Indexed(file) ELSE vs.found)
        /\ vs'.left = (IF vs.autoSave THEN {} ELSE vs.left \ ids)
        /\ vs' \in Object
    <3> DEFINE u == Upserted(ids)
               left == IF vs.autoSave THEN {} ELSE vs.left \ ids
    <3>1. /\ u \in Object /\ u.config = vs.config /\ u.autoSave = vs.autoSave /\ u.left = vs.left
          /\ u.metas = Captured(ids) /\ u.db = (IF Late THEN "late" ELSE vs.db)
          /\ u.found = (IF Late THEN Indexed(file) ELSE vs.found)
      BY <1>1, UpsertedOK
    <3>2. left \subseteq Id
      BY <1>1 DEF Object
    <3>3. vs' = [u EXCEPT !.status = "ok", !.index = index, !.left = left]
      BY <2>2, <3>1
    <3> HIDE DEF u, left
    <3>4. /\ vs' \in Object /\ vs'.index = index /\ vs'.left = left /\ vs'.metas = u.metas
          /\ vs'.config = u.config /\ vs'.autoSave = u.autoSave /\ vs'.db = u.db
          /\ vs'.found = u.found
      BY <2>1, <3>1, <3>2, <3>3 DEF Object
    <3> QED
      BY <3>1, <3>4 DEF left
  <2>4. TypeOK'
    BY <1>1, <1>2, <2>1, <2>2, <2>3 DEF TypeOK
  <2>5. Saving'
    BY <2>3 DEF IInv, Saving, Late
  <2>6. EarlyIndexIsSaved'
    <3>1. (vs'.config /\ vs'.db = "early") => vs.autoSave
      BY <2>3 DEF IInv, Saving
    <3> QED
      BY <2>2, <2>3, <3>1 DEF EarlyIndexIsSaved
  <2>7. IndexedHasMeta'
    BY <1>1, <2>1, <2>3, GrownHasMeta DEF IndexedHasMeta
  <2>8. OwnVectors'
    BY <2>1, <2>2, <2>3 DEF IInv, OwnVectors
  <2> QED
    BY <2>4, <2>5, <2>6, <2>7, <2>8 DEF IInv
<1> QED
  BY <1>3, <1>4

LEMMA UpsertStopsIInv ==
  ASSUME IInv, NEW vectors, Legal(vectors), UpsertStops(vectors)
  PROVE  IInv'
<1> DEFINE ids == DOMAIN vectors
<1>1. vs \in Object /\ file \in Index /\ ids \in SUBSET Id
  BY DEF IInv, TypeOK, Legal
<1>2. PICK part \in SUBSET ids :
        vs' = [Upserted(ids) EXCEPT
                 !.status = "throw", !.left = @ \cup part,
                 !.index = DbUpsert(Before, [i \in part |-> vectors[i]])]
  BY DEF UpsertStops
<1>3. rows' = <<>> /\ file' = file
  BY DEF UpsertStops
<1> DEFINE index == DbUpsert(Before, [i \in part |-> vectors[i]])
<1>4. /\ index \in Index /\ \A i, j \in Id : index[i] = VectorOf(j) => i = j
      /\ \A i \in Id \ part : index[i] = Before[i]
  BY DbUpserted
<1> HIDE DEF index, ids
<1>5. /\ vs'.index = index /\ vs'.metas = Captured(ids) /\ vs'.config = vs.config
      /\ vs'.autoSave = vs.autoSave /\ vs'.db = (IF Late THEN "late" ELSE vs.db)
      /\ vs'.found = (IF Late THEN Indexed(file) ELSE vs.found)
      /\ vs'.left = vs.left \cup part
      /\ vs' \in Object
  <2>1. Upserted(ids) \in Object /\ vs.left \subseteq Id /\ part \subseteq Id
    BY <1>1, UpsertedOK DEF Object
  <2>2. vs' = [Upserted(ids) EXCEPT !.status = "throw", !.left = @ \cup part, !.index = index]
    BY <1>2 DEF index
  <2> QED
    BY <1>1, <1>4, <2>1, <2>2, UpsertedOK DEF Object
<1>6. TypeOK'
  BY <1>1, <1>3, <1>5 DEF TypeOK
<1>7. Saving'
  BY <1>5 DEF IInv, Saving, Late
<1>8. EarlyIndexIsSaved'
  <2> SUFFICES ASSUME vs'.config, vs'.db = "early", NEW i \in Id, index[i] # file[i], i \notin part
               PROVE  i \in vs.left
    BY <1>3, <1>5 DEF EarlyIndexIsSaved
  <2>1. ~Late /\ vs.config /\ vs.db = "early"
    BY <1>5
  <2>2. vs.index[i] # file[i]
    BY <1>4, <2>1 DEF Before
  <2> QED
    BY <2>1, <2>2 DEF IInv, EarlyIndexIsSaved
<1>9. IndexedHasMeta'
  <2>1. \A i \in Id \ ids : index[i] = Before[i]
    BY <1>4
  <2> QED
    BY <1>1, <1>4, <1>5, <2>1, GrownHasMeta DEF IndexedHasMeta
<1>10. OwnVectors'
  BY <1>3, <1>4, <1>5 DEF IInv, OwnVectors
<1> QED
  BY <1>6, <1>7, <1>8, <1>9, <1>10 DEF IInv

LEMMA UpsertIInv ==
  ASSUME IInv, NEW ids \in SUBSET Id, Upsert(ids)
  PROVE  IInv'
<1>1. CASE UpsertThrows(ids)
  <2>1. vs \in Object
    BY DEF IInv, TypeOK
  <2> DEFINE metas == Captured(ids)
  <2> HIDE DEF metas
  <2>2. vs' = [vs EXCEPT !.metas = metas, !.status = "throw"] /\ rows' = <<>> /\ file' = file
    BY <1>1 DEF UpsertThrows, metas
  <2>3. metas \in Metas /\ \A i \in Id : vs.metas[i] = "captured" => metas[i] = "captured"
    BY <2>1 DEF Captured, Object, Metas, metas
  <2>4. vs' = [vs EXCEPT !.metas = metas, !.emb = vs.emb, !.status = "throw"]
    BY <2>1, <2>2 DEF Object
  <2>5. vs.emb \in BOOLEAN /\ rows' \in Seq(Row)
    BY <2>1, <2>2 DEF Object
  <2> QED
    BY <2>2, <2>3, <2>4, <2>5, QuietIInv
<1>2. ASSUME NEW vectors \in Embedded(ids), UpsertReturns(vectors) \/ UpsertStops(vectors)
      PROVE  IInv'
  BY <1>2, EmbeddedLegal, UpsertReturnsIInv, UpsertStopsIInv
<1> QED
  BY <1>1, <1>2 DEF Upsert

LEMMA QueryReturnsIInv ==
  ASSUME IInv, NEW top_k \in Nat, QueryReturns(top_k)
  PROVE  IInv'
<1> DEFINE hit(ids) == {ids[r] : r \in DOMAIN ids}
           metas(ids) == [i \in Id |-> IF i \in hit(ids) /\ vs.metas[i] = "missing" THEN "blank"
                                       ELSE vs.metas[i]]
<1>1. PICK ids \in IF vs.db = "null" THEN {<<>>} ELSE DbQuery(vs.index, top_k) :
        /\ vs' = [vs EXCEPT !.metas = metas(ids), !.status = "ok"]
        /\ rows' = [r \in DOMAIN ids |-> [id |-> ids[r], meta |-> metas(ids)[ids[r]]]]
        /\ file' = file
  BY DEF QueryReturns
<1>2. vs \in Object /\ vs.metas \in Metas /\ vs.emb \in BOOLEAN
  BY DEF IInv, TypeOK, Object
<1>3. \E s \in Nat : ids \in [1..s -> Id]
  <2>1. CASE vs.db = "null"
    <3>1. ids = <<>> /\ <<>> \in [1..0 -> Id] /\ 0 \in Nat
      BY <1>1, <2>1
    <3> QED
      BY <3>1
  <2>2. CASE vs.db # "null"
    <3>1. Cardinality(Indexed(vs.index)) \in Nat
      BY VdbAssumption, FS_Subset, FS_CardinalityType DEF Indexed
    <3> DEFINE size == IF top_k < Cardinality(Indexed(vs.index)) THEN top_k
                       ELSE Cardinality(Indexed(vs.index))
               sizes == IF Threshold THEN 0..size ELSE {size}
    <3>2. sizes \subseteq Nat
      BY <3>1
    <3>3. ids \in UNION {{r \in [1..s -> Indexed(vs.index)] :
                           \A a, b \in 1..s : r[a] = r[b] => a = b} : s \in sizes}
      BY <1>1, <2>2 DEF DbQuery
    <3>4. PICK s \in sizes : ids \in [1..s -> Indexed(vs.index)]
      BY <3>3
    <3>5. Indexed(vs.index) \subseteq Id
      BY DEF Indexed
    <3> QED
      BY <3>2, <3>4, <3>5
  <2> QED
    BY <2>1, <2>2
<1>4. PICK s \in Nat : ids \in [1..s -> Id]
  BY <1>3
<1>5. metas(ids) \in Metas /\ \A i \in Id : vs.metas[i] = "captured" => metas(ids)[i] = "captured"
  BY <1>2 DEF Metas
<1>6. rows' \in Seq(Row)
  <2>1. \A i \in hit(ids) : i \in Id /\ metas(ids)[i] \in {"captured", "blank"}
    BY <1>2, <1>4 DEF Metas
  <2>2. \A r \in 1..s : [id |-> ids[r], meta |-> metas(ids)[ids[r]]] \in Row
    BY <1>4, <2>1 DEF Row
  <2> HIDE DEF metas
  <2>3. rows' = [r \in 1..s |-> [id |-> ids[r], meta |-> metas(ids)[ids[r]]]]
    BY <1>1, <1>4
  <2> QED
    BY <2>2, <2>3
<1> HIDE DEF metas
<1>7. vs' = [vs EXCEPT !.metas = metas(ids), !.emb = vs.emb, !.status = "ok"]
  BY <1>1, <1>2 DEF Object
<1> QED
  BY <1>1, <1>2, <1>5, <1>6, <1>7, QuietIInv

LEMMA NextIInv == IInv /\ [Next]_vars => IInv'
<1> SUFFICES ASSUME IInv, [Next]_vars PROVE IInv'
  OBVIOUS
<1>1. vs \in Object
  BY DEF IInv, TypeOK
<1>2. ASSUME NEW emb \in BOOLEAN, NEW config \in Configs, Construct(emb, config) PROVE IInv'
  BY <1>2, ConstructIInv
<1>3. CASE SetStrategy
  <2>1. vs' = [vs EXCEPT !.metas = vs.metas, !.emb = TRUE, !.status = vs.status]
    BY <1>1, <1>3 DEF SetStrategy, Object
  <2>2. vs.metas \in Metas /\ vs.status \in {"ok", "throw"}
    BY <1>1 DEF Object
  <2>3. file' = file /\ rows' \in Seq(Row)
    BY <1>3 DEF SetStrategy, IInv, TypeOK
  <2> QED
    BY <2>1, <2>2, <2>3, QuietIInv
<1>4. ASSUME NEW ids \in SUBSET Id, Upsert(ids) PROVE IInv'
  BY <1>4, UpsertIInv
<1>5. CASE QueryThrows
  <2>1. vs' = [vs EXCEPT !.metas = vs.metas, !.emb = vs.emb, !.status = "throw"]
    BY <1>1, <1>5 DEF QueryThrows, Object
  <2>2. vs.metas \in Metas /\ vs.emb \in BOOLEAN
    BY <1>1 DEF Object
  <2>3. file' = file /\ rows' \in Seq(Row)
    BY <1>5 DEF QueryThrows
  <2> QED
    BY <2>1, <2>2, <2>3, QuietIInv
<1>6. ASSUME NEW top_k \in 0..Cardinality(Id), QueryReturns(top_k) PROVE IInv'
  <2>1. top_k \in Nat
    BY VdbAssumption, FS_CardinalityType
  <2> QED
    BY <1>6, <2>1, QueryReturnsIInv
<1>7. CASE Destroy
  <2>1. vs' = NoObject /\ rows' = <<>> /\ file' = file
    BY <1>7 DEF Destroy
  <2>2. TypeOK'
    BY <2>1, NoObjectOK DEF IInv, TypeOK
  <2>3. vs'.index = NoVectors /\ vs'.autoSave = FALSE /\ vs'.config = FALSE /\ vs'.db = "null"
    BY <2>1 DEF NoObject
  <2>4. OwnVectors'
    BY <2>1, <2>3, VectorsDiffer DEF IInv, OwnVectors, NoVectors
  <2> QED
    BY <2>2, <2>3, <2>4, NoObjectOK DEF IInv, Saving, EarlyIndexIsSaved, IndexedHasMeta
<1>8. CASE UNCHANGED vars
  BY <1>8 DEF vars, IInv, TypeOK, Saving, EarlyIndexIsSaved, IndexedHasMeta, OwnVectors
<1> QED
  BY <1>2, <1>3, <1>4, <1>5, <1>6, <1>7, <1>8 DEF Next

LEMMA Invariance == Spec => []IInv
  BY InitIInv, NextIInv, PTL DEF Spec
-----------------------------------------------------------------------------
\* The variables of the store have their types.
THEOREM TypeCorrect == Spec => []TypeOK
<1>1. IInv => TypeOK
  BY DEF IInv
<1> QED
  BY <1>1, Invariance, PTL

\* With auto_save an index built by the constructor is in its file between calls, but
\* for what a failed upsert left (NanoVectorDBStorage.hpp:84,155-157).
THEOREM EarlyIsSaved == Spec => []EarlyIndexIsSaved
<1>1. IInv => EarlyIndexIsSaved
  BY DEF IInv
<1> QED
  BY <1>1, Invariance, PTL

\* What was indexed since the index was constructed has its metadata, saved or not
\* (NanoVectorDBStorage.hpp:108-119,155,195).
THEOREM MetaBeforeIndex == Spec => []IndexedHasMeta
<1>1. IInv => IndexedHasMeta
  BY DEF IInv
<1> QED
  BY <1>1, Invariance, PTL

\* No reply of the service puts the vector of one text under the id of another
\* (embedding/openai.hpp:57-79, NanoVectorDBStorage.hpp:127-151).
THEOREM VectorsAreOwn == Spec => []OwnVectors
<1>1. IInv => OwnVectors
  BY DEF IInv
<1> QED
  BY <1>1, Invariance, PTL

\* A late index never reaches the file (NanoVectorDBStorage.hpp:48,84).
THEOREM LateNeverSaved == Spec => LateIndexNeverSaved
<1>1. IInv /\ [Next]_vars => [vs'.db = "late" => UNCHANGED file]_vars
  <2> SUFFICES ASSUME IInv, Next, vs'.db = "late" PROVE file' = file
    BY DEF vars
  <2>1. vs \in Object
    BY DEF IInv, TypeOK
  <2>2. ASSUME NEW vectors, UpsertReturns(vectors) PROVE file' = file
    <3>1. CASE vs.autoSave
      <4>1. vs.db = "early"
        BY <3>1 DEF IInv, Saving
      <4>2. vs'.db = "early"
        BY <2>1, <2>2, <4>1 DEF UpsertReturns, Upserted, Late, Object
      <4> QED
        BY <4>2
    <3>2. CASE ~vs.autoSave
      BY <2>2, <3>2 DEF UpsertReturns
    <3> QED
      BY <3>1, <3>2
  <2> QED
    BY <2>2 DEF Next, Construct, SetStrategy, Upsert, UpsertThrows, UpsertStops, QueryThrows, QueryReturns, Destroy
<1> QED
  BY <1>1, Invariance, PTL DEF Spec, LateIndexNeverSaved
=============================================================================
