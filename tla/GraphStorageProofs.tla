------------------------- MODULE GraphStorageProofs -------------------------
(***************************************************************************)
(* The graph store, for every set of ids and every order in which hash     *)
(* tables are walked.                                                      *)
(***************************************************************************)
EXTENDS GraphStorage, Induction, FiniteSetTheorems

\* The part of the types that the proofs need.
Typed ==
  /\ adjacency \in [Node -> SUBSET Node]
  /\ DOMAIN nodes \subseteq Node
  /\ run \in [pc : {"idle", "scan", "walk"}, todo : SUBSET Node, visited : SUBSET Node,
              queue : SUBSET Node, cluster : Nat]
  /\ fresh \in BOOLEAN /\ clean \in BOOLEAN /\ given \subseteq Node

\* Neighbours are mutual and have their key, and every key is that of neighbours.
Mutual == \A s, t \in Node : t \in adjacency[s] => s \in adjacency[t] /\ HasEdge(s, t)
KeysOfEdges == \A k \in edges : \E s \in Node : \E t \in adjacency[s] : k = EdgeKeyStr(s, t)

\* What a walk has labelled, and the part of the graph that it is in: what it has
\* labelled since it started and what it still has to label.
Done == run.visited \ run.queue
Current == run.queue \cup {n \in Done : nodes[n] = run.cluster}

\* While clustering() runs and has inserted nothing: every node is yet to be met
\* or visited, labels are given in order, the finished parts of the graph have no
\* edge out of them, and the parts are connected.
Walking ==
  (run.pc # "idle" /\ clean) =>
    /\ run.queue \subseteq run.visited
    /\ DOMAIN nodes \subseteq run.todo \cup run.visited
    /\ run.pc = "scan" => run.queue = {}
    /\ \A n \in Done : n \in DOMAIN nodes /\ nodes[n] \in 0..run.cluster
    /\ run.pc = "scan" => \A n \in Done : nodes[n] # run.cluster
Closed ==
  (run.pc # "idle" /\ clean) =>
    /\ \A n \in Done : nodes[n] = run.cluster => adjacency[n] \subseteq Current
    /\ \A n \in Done : nodes[n] # run.cluster
                         => adjacency[n] \subseteq {m \in Done : nodes[m] = nodes[n]}
Joined ==
  (run.pc # "idle" /\ clean) =>
    /\ \A a, b \in Current : Connected(a, b)
    /\ \A a, b \in Done : nodes[a] = nodes[b] => Connected(a, b)

\* After such a clustering, the neighbours of a node are nodes.
Whole == (fresh /\ clean) => \A n \in DOMAIN nodes : adjacency[n] \subseteq DOMAIN nodes

IInv == /\ Typed /\ Mutual /\ KeysOfEdges
        /\ Walking /\ Closed /\ Joined
        /\ ClustersAreComponents /\ SameLabelConnected /\ Whole
        /\ (run.pc # "idle" => ~fresh)
-----------------------------------------------------------------------------
LEMMA PrefixAgrees ==
  ASSUME NEW s \in Seq(Nat), NEW t \in Seq(Nat)
  PROVE  IsPrefix(s, t) <=> Len(s) <= Len(t) /\ \A i \in 1..Len(s) : s[i] = t[i]
<1>1. SubSeq(s, 1, Len(s)) = s
  OBVIOUS
<1>2. ASSUME Len(s) <= Len(t)
      PROVE  SubSeq(t, 1, Len(s)) \in Seq(Nat)
             /\ Len(SubSeq(t, 1, Len(s))) = Len(s)
             /\ \A i \in 1..Len(s) : SubSeq(t, 1, Len(s))[i] = t[i]
  BY <1>2
<1>3. ASSUME Len(s) <= Len(t), \A i \in 1..Len(s) : s[i] = t[i]
      PROVE  s = SubSeq(t, 1, Len(s))
  BY <1>2, <1>3, SeqEqual, Zenon
<1> QED
  BY <1>1, <1>2, <1>3 DEF IsPrefix

\* The order of ids is total and has no cycle of two.
LEMMA LessTotal ==
  ASSUME NEW s \in Seq(Nat), NEW t \in Seq(Nat), s # t
  PROVE  Less(s, t) \/ Less(t, s)
<1> DEFINE D == {i \in DOMAIN s \cap DOMAIN t : s[i] # t[i]}
<1>0. /\ DOMAIN s = 1..Len(s) /\ DOMAIN t = 1..Len(t) /\ Len(s) \in Nat /\ Len(t) \in Nat
      /\ \A i \in DOMAIN s : s[i] \in Nat
      /\ \A i \in DOMAIN t : t[i] \in Nat
  OBVIOUS
<1>1. CASE D = {}
  <2>1. \A i \in 1..Len(s) : i <= Len(t) => s[i] = t[i]
    BY <1>0, <1>1
  <2>2. Len(s) <= Len(t) => IsPrefix(s, t)
    BY <1>0, <2>1, PrefixAgrees
  <2>3. Len(t) <= Len(s) => IsPrefix(t, s)
    BY <1>0, <2>1, PrefixAgrees
  <2> QED
    BY <1>0, <2>2, <2>3 DEF Less
<1>2. CASE D # {}
  <2>1. PICK d \in D : \A e \in D : d <= e
    <3>1. D \in SUBSET Nat
      BY <1>0
    <3> QED
      BY <1>2, <3>1, LeastElement
  <2>2. ASSUME NEW j \in 1..(d - 1) PROVE s[j] = t[j]
    <3>1. d \in Nat /\ d <= Len(s) /\ d <= Len(t)
      BY <1>0
    <3>2. j \in DOMAIN s \cap DOMAIN t /\ j < d
      BY <1>0, <3>1
    <3> QED
      BY <2>1, <3>2
  <2>3. s[d] < t[d] \/ t[d] < s[d]
    BY <1>0, <2>1
  <2> QED
    BY <2>1, <2>2, <2>3 DEF Less
<1> QED
  BY <1>1, <1>2

LEMMA LessAntisymmetric ==
  ASSUME NEW s \in Seq(Nat), NEW t \in Seq(Nat), Less(s, t), Less(t, s)
  PROVE  FALSE
<1>0. /\ DOMAIN s = 1..Len(s) /\ DOMAIN t = 1..Len(t) /\ Len(s) \in Nat /\ Len(t) \in Nat
      /\ \A i \in DOMAIN s : s[i] \in Nat
      /\ \A i \in DOMAIN t : t[i] \in Nat
  OBVIOUS
<1> DEFINE At(u, v) == \E i \in DOMAIN u \cap DOMAIN v :
                         (\A j \in 1..(i - 1) : u[j] = v[j]) /\ u[i] < v[i]
<1>1. ASSUME s # t, IsPrefix(s, t), IsPrefix(t, s) PROVE FALSE
  <2>1. Len(s) <= Len(t) /\ \A i \in 1..Len(s) : s[i] = t[i]
    BY <1>1, PrefixAgrees
  <2>2. Len(t) <= Len(s)
    BY <1>1, PrefixAgrees
  <2>3. Len(s) = Len(t)
    <3>1. Len(s) <= Len(t)
      BY <2>1
    <3> QED
      BY <2>2, <3>1
  <2> QED
    BY <1>1, <2>1, <2>3, SeqEqual, Zenon
<1>2. ASSUME NEW u \in Seq(Nat), NEW v \in Seq(Nat), IsPrefix(u, v), At(u, v) \/ At(v, u)
      PROVE  FALSE
  <2>1. PICK i \in DOMAIN u \cap DOMAIN v : u[i] < v[i] \/ v[i] < u[i]
    BY <1>2
  <2>2. i \in 1..Len(u) /\ u[i] \in Nat
    OBVIOUS
  <2>3. u[i] = v[i]
    BY <1>2, <2>2, PrefixAgrees
  <2> QED
    BY <2>1, <2>2, <2>3
<1>3. ASSUME At(s, t), At(t, s) PROVE FALSE
  <2>1. PICK i \in DOMAIN s \cap DOMAIN t :
          (\A j \in 1..(i - 1) : s[j] = t[j]) /\ s[i] < t[i]
    BY <1>3
  <2>2. PICK k \in DOMAIN s \cap DOMAIN t :
          (\A j \in 1..(k - 1) : t[j] = s[j]) /\ t[k] < s[k]
    BY <1>3
  <2>3. i \in Nat /\ k \in Nat /\ i >= 1 /\ k >= 1
        /\ s[i] \in Nat /\ t[i] \in Nat /\ s[k] \in Nat /\ t[k] \in Nat
    BY <1>0
  <2>4. CASE i < k
    BY <2>1, <2>2, <2>3, <2>4
  <2>5. CASE k < i
    BY <2>1, <2>2, <2>3, <2>5
  <2>6. CASE i = k
    BY <2>1, <2>2, <2>3, <2>6
  <2> QED
    BY <2>3, <2>4, <2>5, <2>6
<1>4. Less(s, t) <=> (s # t /\ IsPrefix(s, t)) \/ At(s, t)
  BY DEF Less
<1>5. Less(t, s) <=> (t # s /\ IsPrefix(t, s)) \/ At(t, s)
  BY DEF Less
<1> HIDE DEF At
<1> QED
  BY <1>1, <1>2, <1>3, <1>4, <1>5

\* So the key of an edge does not depend on its direction.
LEMMA KeySymmetric ==
  ASSUME NEW s \in Seq(Nat), NEW t \in Seq(Nat)
  PROVE  EdgeKeyStr(s, t) = EdgeKeyStr(t, s)
<1>1. CASE s = t
  BY <1>1
<1>2. CASE s # t /\ Less(s, t)
  BY <1>2, LessAntisymmetric DEF EdgeKeyStr, CanonicalEdgeKey
<1>3. CASE s # t /\ ~Less(s, t)
  BY <1>3, LessTotal DEF EdgeKeyStr, CanonicalEdgeKey
<1> QED
  BY <1>1, <1>2, <1>3

\* A text made of two ids that have no separator comes apart in one way only.
LEMMA JoinedAt ==
  ASSUME NEW s \in Seq(Nat), NEW t \in Seq(Nat)
  PROVE  LET k == s \o <<Bar>> \o t IN
         /\ Len(k) = Len(s) + 1 + Len(t)
         /\ \A i \in 1..Len(s) : k[i] = s[i]
         /\ k[Len(s) + 1] = Bar
         /\ \A i \in 1..Len(t) : k[Len(s) + 1 + i] = t[i]
<1> USE GraphAssumption
<1>0. Len(s) \in Nat /\ Len(t) \in Nat /\ <<Bar>> \in Seq(Nat) /\ Len(<<Bar>>) = 1
  OBVIOUS
<1> DEFINE h == s \o <<Bar>>
<1>1. /\ h \in Seq(Nat) /\ Len(h) = Len(s) + 1 /\ h[Len(s) + 1] = Bar
      /\ \A i \in 1..Len(s) : h[i] = s[i]
  BY <1>0
<1> HIDE DEF h
<1>2. /\ Len(h \o t) = Len(h) + Len(t)
      /\ \A i \in 1..Len(h) : (h \o t)[i] = h[i]
      /\ \A i \in 1..Len(t) : (h \o t)[Len(h) + i] = t[i]
  <2>1. h \in Seq(Nat) /\ Len(h) \in Nat
    BY <1>1
  <2>2. /\ Len(h \o t) = Len(h) + Len(t)
        /\ \A i \in 1..Len(h) + Len(t) : (h \o t)[i] = IF i <= Len(h) THEN h[i] ELSE t[i - Len(h)]
    BY <2>1, ConcatProperties, Zenon
  <2>3. \A i \in 1..Len(t) : Len(h) + i \in 1..Len(h) + Len(t) /\ ~(Len(h) + i <= Len(h))
                             /\ (Len(h) + i) - Len(h) = i
    BY <1>0, <2>1
  <2>4. \A i \in 1..Len(h) : i \in 1..Len(h) + Len(t) /\ i <= Len(h)
    BY <1>0, <2>1
  <2> QED
    BY <2>2, <2>3, <2>4, Zenon
<1>3. /\ \A i \in 1..Len(s) : i \in 1..Len(h)
      /\ Len(s) + 1 \in 1..Len(h)
  BY <1>0, <1>1
<1> QED
  BY <1>0, <1>1, <1>2, <1>3 DEF h

LEMMA JoinSplits ==
  ASSUME NEW s \in Seq(Nat), NEW t \in Seq(Nat), NEW u \in Seq(Nat), NEW v \in Seq(Nat),
         Plain(s), Plain(t), s \o <<Bar>> \o t = u \o <<Bar>> \o v
  PROVE  s = u /\ t = v
<1> DEFINE k == s \o <<Bar>> \o t
<1>0. Len(s) \in Nat /\ Len(t) \in Nat /\ Len(u) \in Nat /\ Len(v) \in Nat
  OBVIOUS
<1>1. /\ Len(k) = Len(s) + 1 + Len(t)
      /\ \A i \in 1..Len(s) : k[i] = s[i]
      /\ \A i \in 1..Len(t) : k[Len(s) + 1 + i] = t[i]
  BY JoinedAt
<1>2. /\ Len(k) = Len(u) + 1 + Len(v)
      /\ \A i \in 1..Len(u) : k[i] = u[i]
      /\ k[Len(u) + 1] = Bar
      /\ \A i \in 1..Len(v) : k[Len(u) + 1 + i] = v[i]
  <2>1. k = u \o <<Bar>> \o v
    OBVIOUS
  <2> HIDE DEF k
  <2> QED
    BY <2>1, JoinedAt
<1> HIDE DEF k
<1>3. \A i \in 1..Len(s) : s[i] # Bar
  BY DEF Plain, ToSet
<1>4. \A i \in 1..Len(t) : t[i] # Bar
  BY DEF Plain, ToSet
<1>5. ~(Len(u) < Len(s))
  <2> SUFFICES ASSUME Len(u) < Len(s) PROVE FALSE
    OBVIOUS
  <2>1. Len(u) + 1 \in 1..Len(s)
    BY <1>0
  <2> QED
    BY <1>1, <1>2, <1>3, <2>1
<1>6. ~(Len(u) > Len(s))
  <2> SUFFICES ASSUME Len(u) > Len(s) PROVE FALSE
    OBVIOUS
  <2> DEFINE i == Len(u) - Len(s)
  <2>1. i \in 1..Len(t) /\ Len(s) + 1 + i = Len(u) + 1
    BY <1>0, <1>1, <1>2
  <2> HIDE DEF i
  <2> QED
    BY <1>1, <1>2, <1>4, <2>1
<1>7. Len(u) = Len(s) /\ Len(v) = Len(t)
  BY <1>0, <1>1, <1>2, <1>5, <1>6
<1>8. \A i \in 1..Len(s) : s[i] = u[i]
  BY <1>1, <1>2, <1>7
<1>9. \A i \in 1..Len(t) : t[i] = v[i]
  BY <1>1, <1>2, <1>7
<1>10. s = u
  BY <1>7, <1>8, SeqEqual, Zenon
<1>11. t = v
  BY <1>7, <1>9, SeqEqual, Zenon
<1> QED
  BY <1>10, <1>11

LEMMA KeyOfEnds ==
  ASSUME NEW s \in Seq(Nat), NEW t \in Seq(Nat), NEW u \in Seq(Nat), NEW v \in Seq(Nat),
         Plain(s), Plain(t), EdgeKeyStr(s, t) = EdgeKeyStr(u, v)
  PROVE  (s = u /\ t = v) \/ (s = v /\ t = u)
<1>1. EdgeKeyStr(s, t) \in {s \o <<Bar>> \o t, t \o <<Bar>> \o s}
  BY DEF EdgeKeyStr, CanonicalEdgeKey
<1>2. EdgeKeyStr(u, v) \in {u \o <<Bar>> \o v, v \o <<Bar>> \o u}
  BY DEF EdgeKeyStr, CanonicalEdgeKey
<1>3. CASE s \o <<Bar>> \o t = u \o <<Bar>> \o v
  BY <1>3, JoinSplits
<1>4. CASE s \o <<Bar>> \o t = v \o <<Bar>> \o u
  BY <1>4, JoinSplits
<1>5. CASE t \o <<Bar>> \o s = u \o <<Bar>> \o v
  BY <1>5, JoinSplits
<1>6. CASE t \o <<Bar>> \o s = v \o <<Bar>> \o u
  BY <1>6, JoinSplits
<1> QED
  BY <1>1, <1>2, <1>3, <1>4, <1>5, <1>6

LEMMA RecordsFollow ==
  ASSUME Typed, Mutual, KeysOfEdges
  PROVE  EdgeRecords
<1> SUFFICES ASSUME NEW s \in Node, NEW t \in Node, Plain(s), Plain(t), HasEdge(s, t)
             PROVE  t \in adjacency[s]
  BY DEF EdgeRecords, Mutual
<1>1. PICK u \in Node : \E v \in adjacency[u] : EdgeKeyStr(s, t) = EdgeKeyStr(u, v)
  BY DEF KeysOfEdges, HasEdge
<1>2. PICK v \in adjacency[u] : EdgeKeyStr(s, t) = EdgeKeyStr(u, v)
  BY <1>1
<1>3. v \in Node
  BY DEF Typed
<1>4. s \in Seq(Nat) /\ t \in Seq(Nat) /\ u \in Seq(Nat) /\ v \in Seq(Nat)
  BY <1>3, GraphAssumption
<1>5. (s = u /\ t = v) \/ (s = v /\ t = u)
  BY <1>2, <1>4, KeyOfEnds
<1>6. u \in adjacency[v]
  BY <1>3 DEF Mutual
<1> QED
  BY <1>2, <1>5, <1>6
-----------------------------------------------------------------------------
LEMMA TypedInit == Init => Typed
<1>1. DOMAIN <<>> = {}
  OBVIOUS
<1>2. Init => adjacency \in [Node -> SUBSET Node] /\ DOMAIN nodes \subseteq Node
  BY <1>1 DEF Init
<1>3. Init => run \in [pc : {"idle", "scan", "walk"}, todo : SUBSET Node, visited : SUBSET Node,
                      queue : SUBSET Node, cluster : Nat]
  BY DEF Init, IdleRun
<1> QED
  BY <1>2, <1>3 DEF Init, Typed

LEMMA TypedStep ==
  ASSUME Typed, [Next]_vars
  PROVE  Typed'
<1> USE DEF Typed
<1>1. ASSUME NEW n \in Node, NEW label, UpsertNode(n, label) PROVE Typed'
  BY <1>1 DEF UpsertNode, Put
<1>2. ASSUME NEW s \in Node, NEW t \in Node, UpsertEdge(s, t) PROVE Typed'
  BY <1>2 DEF UpsertEdge
<1>3. CASE Begin
  BY <1>3 DEF Begin, IdleRun
<1>4. ASSUME NEW n \in Node, Start(n) PROVE Typed'
  BY <1>4 DEF Start
<1>5. ASSUME NEW n \in Node, Visit(n) PROVE Typed'
  <2>1. Found(n) \subseteq Node
    BY DEF Found
  <2>2. DOMAIN nodes' \subseteq Node
    BY <1>5 DEF Visit, Put
  <2>3. run' \in [pc : {"idle", "scan", "walk"}, todo : SUBSET Node, visited : SUBSET Node,
                  queue : SUBSET Node, cluster : Nat]
    <3> DEFINE left == (run.queue \ {n}) \cup Found(n)
               pc == IF left = {} THEN "scan" ELSE "walk"
               cluster == IF left = {} THEN run.cluster + 1 ELSE run.cluster
    <3>1. PICK todo \in SUBSET run.todo :
            run' = [run EXCEPT !.visited = run.visited \cup Found(n), !.queue = left,
                               !.todo = todo, !.pc = pc, !.cluster = cluster]
      BY <1>5 DEF Visit
    <3>2. /\ left \in SUBSET Node /\ pc \in {"scan", "walk"} /\ cluster \in Nat
          /\ run.visited \cup Found(n) \in SUBSET Node /\ todo \in SUBSET Node
      BY <2>1
    <3> HIDE DEF left, pc, cluster
    <3> QED
      BY <3>1, <3>2
  <2>4. clean' \in BOOLEAN /\ given' \subseteq Node /\ UNCHANGED <<adjacency, fresh>>
    BY <1>5 DEF Visit
  <2> QED
    BY <2>2, <2>3, <2>4
<1>6. CASE Finish
  BY <1>6 DEF Finish, IdleRun
<1>7. CASE UNCHANGED vars
  BY <1>7 DEF vars
<1> QED
  BY <1>1, <1>2, <1>3, <1>4, <1>5, <1>6, <1>7 DEF Next, Clustering

\* The records of the edges are changed by upsert_edge() only.
LEMMA OnlyUpsertEdge ==
  ASSUME [Next]_vars, ~ \E s, t \in Node : UpsertEdge(s, t)
  PROVE  UNCHANGED <<edges, adjacency>>
  BY DEF Next, Clustering, UpsertNode, Begin, Start, Visit, Finish, vars

LEMMA RecordsStep ==
  ASSUME Typed, Mutual, KeysOfEdges, [Next]_vars
  PROVE  Mutual' /\ KeysOfEdges'
<1>1. CASE ~ \E s, t \in Node : UpsertEdge(s, t)
  BY <1>1, OnlyUpsertEdge DEF Mutual, KeysOfEdges, HasEdge
<1>2. ASSUME NEW s \in Node, NEW t \in Node, UpsertEdge(s, t)
      PROVE  Mutual' /\ KeysOfEdges'
  <2>1. /\ edges' = edges \cup {EdgeKeyStr(s, t)}
        /\ \A n \in Node : adjacency'[n] = adjacency[n]
                             \cup {m \in Node : <<n, m>> \in {<<s, t>>, <<t, s>>}}
    BY <1>2 DEF UpsertEdge
  <2>2. ASSUME NEW a \in Node, NEW b \in Node, b \in adjacency'[a]
        PROVE  a \in adjacency'[b] /\ EdgeKeyStr(a, b) \in edges'
    <3>1. CASE b \in adjacency[a]
      BY <2>1, <3>1 DEF Mutual, HasEdge
    <3>2. CASE b \notin adjacency[a]
      <4>1. (a = s /\ b = t) \/ (a = t /\ b = s)
        BY <2>1, <2>2, <3>2
      <4>2. EdgeKeyStr(a, b) = EdgeKeyStr(s, t)
        BY <4>1, KeySymmetric, GraphAssumption
      <4> QED
        BY <2>1, <4>1, <4>2
    <3> QED
      BY <3>1, <3>2
  <2>3. ASSUME NEW k \in edges'
        PROVE  \E a \in Node : \E b \in adjacency'[a] : k = EdgeKeyStr(a, b)
    <3>1. CASE k \in edges
      <4>1. PICK a \in Node : \E b \in adjacency[a] : k = EdgeKeyStr(a, b)
        BY <3>1 DEF KeysOfEdges
      <4> QED
        BY <2>1, <4>1
    <3>2. CASE k = EdgeKeyStr(s, t)
      BY <2>1, <3>2
    <3> QED
      BY <2>1, <3>1, <3>2
  <2> QED
    BY <2>2, <2>3 DEF Mutual, KeysOfEdges, HasEdge
<1> QED
  BY <1>1, <1>2

\* The two records of an edge agree, for every set of ids and every separator
\* (GraphStorage.hpp:41-45,116-119,231-235).
THEOREM RecordsAgree == Spec => []EdgeRecords
<1> DEFINE Inv == Typed /\ Mutual /\ KeysOfEdges
<1>1. Init => Inv
  BY TypedInit DEF Init, Mutual, KeysOfEdges
<1>2. Inv /\ [Next]_vars => Inv'
  BY TypedStep, RecordsStep
<1>3. Inv => EdgeRecords
  BY RecordsFollow
<1> HIDE DEF Inv
<1> QED
  BY <1>1, <1>2, <1>3, PTL DEF Spec
-----------------------------------------------------------------------------
\* Connected, of any adjacency.
Linked(adj, a, b) ==
  \A s \in SUBSET Node : (a \in s /\ \A n \in s : adj[n] \subseteq s) => b \in s

LEMMA ConnectedIsLinked ==
  ASSUME NEW a, NEW b
  PROVE  Connected(a, b) <=> Linked(adjacency, a, b)
  BY DEF Connected, Linked

LEMMA ConnectedBasics ==
  ASSUME Typed
  PROVE  /\ \A a \in Node : Connected(a, a)
         /\ \A a \in Node : \A b \in adjacency[a] : Connected(a, b)
         /\ \A a, b, c \in Node : Connected(a, b) /\ Connected(b, c) => Connected(a, c)
  BY DEF Connected

\* What is left of a part of the graph without edges out of it has none either.
LEMMA ConnectedSymmetric ==
  ASSUME Typed, Mutual, NEW a \in Node, NEW b \in Node, Connected(a, b)
  PROVE  Connected(b, a)
<1> SUFFICES ASSUME NEW s \in SUBSET Node, b \in s, \A n \in s : adjacency[n] \subseteq s,
                    a \notin s
             PROVE  FALSE
  BY DEF Connected
<1> DEFINE rest == Node \ s
<1>1. ASSUME NEW n \in rest, NEW m \in adjacency[n] PROVE m \in rest
  <2>1. m \in Node /\ n \in adjacency[m]
    BY DEF Typed, Mutual
  <2> QED
    BY <2>1
<1>2. a \in rest /\ b \notin rest /\ rest \in SUBSET Node
  OBVIOUS
<1> HIDE DEF rest
<1> QED
  BY <1>1, <1>2 DEF Connected

\* More edges connect no less.
LEMMA LinkedMonotone ==
  ASSUME NEW f, NEW g, \A n \in Node : f[n] \subseteq g[n], NEW a, NEW b, Linked(f, a, b)
  PROVE  Linked(g, a, b)
  BY DEF Linked
-----------------------------------------------------------------------------
\* The parts of the invariant that are about the clustering.
Labels == /\ Walking /\ Closed /\ Joined
          /\ ClustersAreComponents /\ SameLabelConnected /\ Whole
          /\ (run.pc # "idle" => ~fresh)

LEMMA LabelsInit == Init => Labels
<1>1. DOMAIN <<>> = {}
  OBVIOUS
<1> QED
  BY <1>1 DEF Init, IdleRun, Labels, Walking, Closed, Joined, ClustersAreComponents,
     SameLabelConnected, Whole

LEMMA UpsertNodeLabels ==
  ASSUME Typed, Labels, NEW n \in Node, NEW label, UpsertNode(n, label)
  PROVE  Labels'
<1>1. /\ run.pc = "idle" /\ run' = run /\ fresh' = FALSE /\ clean' = clean
      /\ adjacency' = adjacency
      /\ DOMAIN nodes' = DOMAIN nodes \cup {n}
      /\ nodes'[n] = label
      /\ \A m \in DOMAIN nodes : m # n => nodes'[m] = nodes[m]
      /\ given' = IF label = None THEN given \ {n} ELSE given \cup {n}
  BY DEF UpsertNode, Put
<1>2. ASSUME NEW a \in DOMAIN nodes' \ given', nodes'[a] # None
      PROVE  a \in DOMAIN nodes \ given /\ nodes'[a] = nodes[a]
  BY <1>1, <1>2
<1>3. \A a, b : Connected(a, b)' <=> Connected(a, b)
  BY <1>1 DEF Connected
<1>4. SameLabelConnected'
  BY <1>1, <1>2, <1>3 DEF Labels, SameLabelConnected
<1> QED
  BY <1>1, <1>4 DEF Labels, Walking, Closed, Joined, ClustersAreComponents, Whole

LEMMA UpsertEdgeLabels ==
  ASSUME Typed, Labels, NEW s \in Node, NEW t \in Node, UpsertEdge(s, t)
  PROVE  Labels'
<1>1. /\ run.pc = "idle" /\ run' = run /\ fresh' = FALSE /\ clean' = clean /\ nodes' = nodes
      /\ given' = given
      /\ \A n \in Node : adjacency[n] \subseteq adjacency'[n]
  BY DEF UpsertEdge
<1>2. ASSUME NEW a, NEW b, Connected(a, b) PROVE Connected(a, b)'
  <2>1. Linked(adjacency', a, b)
    BY <1>1, <1>2, ConnectedIsLinked, LinkedMonotone
  <2> QED
    BY <2>1 DEF Linked, Connected
<1>3. SameLabelConnected'
  BY <1>1, <1>2 DEF Labels, SameLabelConnected
<1> QED
  BY <1>1, <1>3 DEF Labels, Walking, Closed, Joined, ClustersAreComponents, Whole

LEMMA BeginLabels ==
  ASSUME Typed, Labels, Begin
  PROVE  Labels'
<1>1. /\ nodes' = nodes /\ adjacency' = adjacency /\ fresh' = FALSE
      /\ run'.pc = "scan" /\ run'.todo = DOMAIN nodes /\ run'.visited = {} /\ run'.queue = {}
      /\ run'.cluster = 0
  BY DEF Begin, IdleRun
<1>2. Done' = {} /\ Current' = {}
  BY <1>1 DEF Done, Current
<1>3. Walking'
  BY <1>1, <1>2 DEF Walking
<1>4. Closed' /\ Joined'
  BY <1>2 DEF Closed, Joined
<1> QED
  BY <1>1, <1>3, <1>4 DEF Labels, ClustersAreComponents, SameLabelConnected, Whole

LEMMA StartLabels ==
  ASSUME Typed, Labels, NEW n \in Node, Start(n)
  PROVE  Labels'
<1>1. /\ run.pc = "scan" /\ n \in run.todo /\ n \notin run.visited
      /\ nodes' = nodes /\ adjacency' = adjacency /\ fresh' = fresh /\ clean' = clean
      /\ run'.pc = "walk" /\ run'.todo = run.todo \ {n} /\ run'.visited = run.visited \cup {n}
      /\ run'.queue = {n} /\ run'.cluster = run.cluster
  BY DEF Start, Typed
<1>2. CASE ~clean
  BY <1>1, <1>2 DEF Labels, Walking, Closed, Joined, ClustersAreComponents,
     SameLabelConnected, Whole
<1>3. CASE clean
  <2>1. run.queue = {} /\ DOMAIN nodes \subseteq run.todo \cup run.visited
    BY <1>1, <1>3 DEF Labels, Walking
  <2>2. Done = run.visited /\ Done' = Done
    BY <1>1, <2>1 DEF Done
  <2>3. \A m \in Done : m \in DOMAIN nodes /\ nodes[m] \in 0..run.cluster /\ nodes[m] # run.cluster
    BY <1>1, <1>3 DEF Labels, Walking
  <2>4. Current' = {n}
    BY <1>1, <2>2, <2>3 DEF Current
  <2>5. Walking'
    BY <1>1, <2>1, <2>2, <2>3 DEF Walking
  <2>6. Closed'
    BY <1>1, <1>3, <2>2, <2>3 DEF Labels, Closed
  <2>7. Joined'
    <3>1. \A a, b : Connected(a, b)' <=> Connected(a, b)
      BY <1>1 DEF Connected
    <3>2. Connected(n, n)
      BY ConnectedBasics
    <3> QED
      BY <1>1, <1>3, <2>2, <2>4, <3>1, <3>2 DEF Labels, Joined
  <2> QED
    BY <1>1, <2>5, <2>6, <2>7 DEF Labels, ClustersAreComponents, SameLabelConnected, Whole
<1> QED
  BY <1>2, <1>3 DEF Typed

\* A round of a walk that inserts nothing: cur gets its label, and what it is next
\* to belongs to the part of the graph that is being labelled.
LEMMA VisitFacts ==
  ASSUME Typed, Mutual, Labels, clean, NEW cur \in Node, Visit(cur), HasNode(cur)
  PROVE  LET left == (run.queue \ {cur}) \cup Found(cur) IN
         /\ Done' = Done \cup {cur} /\ cur \notin Done
         /\ \A m \in Done : nodes'[m] = nodes[m]
         /\ nodes'[cur] = run.cluster
         /\ adjacency[cur] \subseteq Current \cup Found(cur)
         /\ \A a, b \in Current \cup Found(cur) : Connected(a, b)
         /\ run'.todo = run.todo /\ run'.visited = run.visited \cup Found(cur)
         /\ run'.queue = left
         /\ run'.pc = (IF left = {} THEN "scan" ELSE "walk")
         /\ run'.cluster = (IF left = {} THEN run.cluster + 1 ELSE run.cluster)
<1> DEFINE left == (run.queue \ {cur}) \cup Found(cur)
<1>1. /\ run.pc = "walk" /\ cur \in run.queue /\ nodes' = Put(cur, run.cluster)
      /\ run'.todo = run.todo /\ run'.visited = run.visited \cup Found(cur)
      /\ run'.queue = left
      /\ run'.pc = (IF left = {} THEN "scan" ELSE "walk")
      /\ run'.cluster = (IF left = {} THEN run.cluster + 1 ELSE run.cluster)
  BY DEF Visit, Typed
<1>2. run.queue \subseteq run.visited /\ \A n \in Done : n \in DOMAIN nodes
  BY <1>1 DEF Labels, Walking
<1>3. Done' = Done \cup {cur} /\ cur \notin Done
  BY <1>1, <1>2 DEF Done, Found
<1>4. (\A m \in Done : nodes'[m] = nodes[m]) /\ nodes'[cur] = run.cluster
  BY <1>1, <1>2, <1>3 DEF Put
<1>5. ASSUME NEW m \in adjacency[cur], m \notin Found(cur) PROVE m \in Current
  <2>1. m \in run.visited /\ m \in Node /\ cur \in adjacency[m]
    BY <1>5 DEF Found, Typed, Mutual
  <2>2. CASE m \in Done /\ nodes[m] # run.cluster
    <3>1. cur \in Done
      BY <1>1, <2>1, <2>2 DEF Labels, Closed
    <3> QED
      BY <1>3, <3>1
  <2> QED
    BY <2>1, <2>2 DEF Current, Done
<1>6. cur \in Current /\ Current \subseteq Node /\ Found(cur) \subseteq adjacency[cur]
      /\ adjacency[cur] \subseteq Node
  BY <1>1 DEF Current, Done, Found, Typed
<1>7. \A a \in Current \cup Found(cur) : Connected(cur, a)
  <2>1. \A a \in Current : Connected(cur, a)
    BY <1>1, <1>6 DEF Labels, Joined
  <2>2. \A a \in Found(cur) : Connected(cur, a)
    BY <1>6, ConnectedBasics
  <2> QED
    BY <2>1, <2>2
<1>8. ASSUME NEW a \in Current \cup Found(cur), NEW b \in Current \cup Found(cur)
      PROVE  Connected(a, b)
  <2>1. a \in Node /\ b \in Node
    BY <1>6
  <2>2. Connected(a, cur)
    BY <1>7, <2>1, ConnectedSymmetric
  <2> QED
    BY <1>7, <2>1, <2>2, ConnectedBasics
<1> QED
  BY <1>1, <1>3, <1>4, <1>5, <1>8

LEMMA VisitLabels ==
  ASSUME Typed, Mutual, Labels, NEW cur \in Node, Visit(cur)
  PROVE  Labels'
<1> DEFINE left == (run.queue \ {cur}) \cup Found(cur)
<1>1. /\ run.pc = "walk" /\ run'.pc \in {"scan", "walk"} /\ ~fresh /\ fresh' = fresh
      /\ adjacency' = adjacency /\ (clean' <=> clean /\ HasNode(cur))
      /\ DOMAIN nodes' = DOMAIN nodes \cup {cur}
  BY DEF Visit, Typed, Put, Labels
<1>2. CASE ~clean'
  BY <1>1, <1>2 DEF Labels, Walking, Closed, Joined, ClustersAreComponents,
     SameLabelConnected, Whole
<1>3. CASE clean'
  <2>1. /\ Done' = Done \cup {cur} /\ cur \notin Done
        /\ \A m \in Done : nodes'[m] = nodes[m]
        /\ nodes'[cur] = run.cluster
        /\ adjacency[cur] \subseteq Current \cup Found(cur)
        /\ \A a, b \in Current \cup Found(cur) : Connected(a, b)
        /\ run'.todo = run.todo /\ run'.visited = run.visited \cup Found(cur)
        /\ run'.queue = left
        /\ run'.pc = (IF left = {} THEN "scan" ELSE "walk")
        /\ run'.cluster = (IF left = {} THEN run.cluster + 1 ELSE run.cluster)
    BY <1>1, <1>3, VisitFacts DEF Typed
  <2>2. /\ run.queue \subseteq run.visited /\ cur \in run.queue
        /\ DOMAIN nodes \subseteq run.todo \cup run.visited
        /\ \A n \in Done : n \in DOMAIN nodes /\ nodes[n] \in 0..run.cluster
        /\ cur \in DOMAIN nodes /\ run.cluster \in Nat
    BY <1>1, <1>3 DEF Labels, Walking, Visit, HasNode, Typed
  <2>3. /\ \A n \in Done : nodes[n] = run.cluster => adjacency[n] \subseteq Current
        /\ \A n \in Done : nodes[n] # run.cluster
                             => adjacency[n] \subseteq {m \in Done : nodes[m] = nodes[n]}
        /\ \A a, b \in Done : nodes[a] = nodes[b] => Connected(a, b)
    BY <1>1, <1>3 DEF Labels, Closed, Joined
  <2>4. \A n \in Done' : nodes'[n] \in 0..run.cluster
    BY <2>1, <2>2
  <2>5. \A a, b : Connected(a, b)' <=> Connected(a, b)
    BY <1>1 DEF Connected
  <2> DEFINE Alike(n) == {m \in Done' : nodes'[m] = n}
  <2>6. \A a, b \in Done' : nodes'[a] = nodes'[b] => Connected(a, b)'
    <3>1. cur \in Current /\ \A n \in Done : nodes[n] = run.cluster => n \in Current
      BY <2>2 DEF Current
    <3> QED
      BY <2>1, <2>3, <2>5, <3>1
  <2>7. \A n \in Done : nodes[n] # run.cluster
          => adjacency'[n] \subseteq Alike(nodes'[n])
    BY <1>1, <2>1, <2>3
  <2>8. CASE left = {}
    <3>1. run'.cluster = run.cluster + 1 /\ run'.pc = "scan" /\ run'.queue = {}
          /\ Found(cur) = {} /\ run.queue = {cur}
      BY <2>1, <2>2, <2>8
    <3>2. \A n \in Done' : nodes'[n] # run'.cluster /\ nodes'[n] \in 0..run'.cluster
      BY <2>2, <2>4, <3>1
    <3>3. Current' = {} /\ Current \subseteq Alike(run.cluster)
      BY <2>1, <3>1, <3>2 DEF Current
    <3>4. Walking'
      BY <1>1, <2>1, <2>2, <3>1, <3>2 DEF Walking
    <3>5. Closed'
      <4>1. ASSUME NEW n \in Done' PROVE adjacency'[n] \subseteq Alike(nodes'[n])
        <5>1. CASE n \in Done /\ nodes[n] # run.cluster
          BY <2>7, <5>1
        <5>2. CASE n \in Done /\ nodes[n] = run.cluster
          BY <1>1, <2>1, <2>3, <3>3, <5>2
        <5>3. CASE n = cur
          BY <1>1, <2>1, <3>1, <3>3, <5>3
        <5> QED
          BY <2>1, <5>1, <5>2, <5>3
      <4> QED
        BY <3>2, <4>1 DEF Closed
    <3>6. Joined'
      BY <2>6, <3>3 DEF Joined
    <3> QED
      BY <1>1, <3>1, <3>4, <3>5, <3>6
      DEF Labels, ClustersAreComponents, SameLabelConnected, Whole
  <2>9. CASE left # {}
    <3>1. run'.cluster = run.cluster /\ run'.pc = "walk"
      BY <2>1, <2>9
    <3>2. Current' = Current \cup Found(cur)
      BY <2>1, <2>2, <3>1 DEF Current, Done
    <3>3. Walking'
      BY <1>1, <2>1, <2>2, <2>4, <3>1 DEF Walking
    <3>4. Closed'
      <4>1. ASSUME NEW n \in Done', nodes'[n] = run.cluster
            PROVE  adjacency'[n] \subseteq Current'
        BY <1>1, <2>1, <2>3, <3>2, <4>1
      <4>2. ASSUME NEW n \in Done', nodes'[n] # run.cluster
            PROVE  adjacency'[n] \subseteq Alike(nodes'[n])
        BY <2>1, <2>7, <4>2
      <4> QED
        BY <3>1, <4>1, <4>2 DEF Closed
    <3>5. Joined'
      BY <2>1, <2>5, <2>6, <3>2 DEF Joined
    <3> QED
      BY <1>1, <3>1, <3>3, <3>4, <3>5
      DEF Labels, ClustersAreComponents, SameLabelConnected, Whole
  <2> QED
    BY <2>8, <2>9
<1> QED
  BY <1>2, <1>3

LEMMA FinishLabels ==
  ASSUME Typed, Mutual, Labels, Finish
  PROVE  Labels'
<1>1. /\ run.pc = "scan" /\ run.todo \subseteq run.visited
      /\ nodes' = nodes /\ adjacency' = adjacency /\ clean' = clean
      /\ run'.pc = "idle" /\ fresh' = TRUE
  BY DEF Finish, IdleRun
<1>2. Walking' /\ Closed' /\ Joined'
  BY <1>1 DEF Walking, Closed, Joined
<1>3. CASE ~clean
  BY <1>1, <1>2, <1>3 DEF Labels, ClustersAreComponents, SameLabelConnected, Whole
<1>4. CASE clean
  <2>1. /\ DOMAIN nodes = Done /\ run.cluster \in Nat
        /\ \A n \in Done : nodes[n] \in 0..run.cluster /\ nodes[n] # run.cluster
    BY <1>1, <1>4 DEF Labels, Walking, Done, Typed
  <2>2. \A n \in Done : adjacency[n] \subseteq {m \in Done : nodes[m] = nodes[n]}
    BY <1>1, <1>4, <2>1 DEF Labels, Closed
  <2>3. \A n \in DOMAIN nodes : nodes[n] # None
    BY <2>1 DEF None
  <2>4. ASSUME NEW a \in DOMAIN nodes, NEW b \in DOMAIN nodes, Connected(a, b)
        PROVE  nodes[a] = nodes[b]
    <3> DEFINE s == {m \in Done : nodes[m] = nodes[a]}
    <3>1. s \in SUBSET Node /\ a \in s /\ \A n \in s : adjacency[n] \subseteq s
      BY <2>1, <2>2 DEF Typed
    <3>2. b \in s
      BY <2>4, <3>1 DEF Connected
    <3> QED
      BY <3>2
  <2>5. \A a, b \in DOMAIN nodes : nodes[a] = nodes[b] => Connected(a, b)
    BY <1>1, <1>4, <2>1 DEF Labels, Joined
  <2>6. \A a, b : Connected(a, b)' <=> Connected(a, b)
    BY <1>1 DEF Connected
  <2>7. ClustersAreComponents' /\ SameLabelConnected'
    BY <1>1, <2>3, <2>4, <2>5, <2>6 DEF ClustersAreComponents, SameLabelConnected
  <2>8. Whole'
    BY <1>1, <2>1, <2>2 DEF Whole
  <2> QED
    BY <1>1, <1>2, <2>7, <2>8 DEF Labels
<1> QED
  BY <1>3, <1>4 DEF Typed

LEMMA Inductive == IInv /\ [Next]_vars => IInv'
<1> SUFFICES ASSUME IInv, [Next]_vars PROVE IInv'
  OBVIOUS
<1>1. Typed /\ Mutual /\ KeysOfEdges /\ Labels
  BY DEF IInv, Labels
<1>2. Typed' /\ Mutual' /\ KeysOfEdges'
  BY <1>1, TypedStep, RecordsStep
<1>3. Labels'
  <2>1. CASE UNCHANGED vars
    BY <1>1, <2>1 DEF vars, Labels, Walking, Closed, Joined, ClustersAreComponents,
       SameLabelConnected, Whole, Done, Current, Connected
  <2> QED
    BY <1>1, <2>1, UpsertNodeLabels, UpsertEdgeLabels, BeginLabels, StartLabels, VisitLabels,
       FinishLabels DEF Next, Clustering
<1> QED
  BY <1>2, <1>3 DEF IInv, Labels

LEMMA Invariance == Spec => []IInv
<1>1. Init => IInv
  BY TypedInit, LabelsInit DEF IInv, Labels, Init, Mutual, KeysOfEdges
<1> QED
  BY <1>1, Inductive, PTL DEF Spec

\* A clustering that inserts no node finds the connected components of the graph,
\* whatever the graph and the order of its walks (GraphStorage.hpp:143-165).
THEOREM Components == Spec => []ClustersAreComponents
<1>1. IInv => ClustersAreComponents
  BY DEF IInv
<1> QED
  BY <1>1, Invariance, PTL

\* Labels that are read later still join only what is connected, but for the nodes
\* that a caller gave a label to
\* (GraphStorage.hpp:96-119,154-155,178-201).
THEOREM OldLabels == Spec => []SameLabelConnected
<1>1. IInv => SameLabelConnected
  BY DEF IInv
<1> QED
  BY <1>1, Invariance, PTL

LEMMA SchemaSplits == IInv => SchemaSplitsEdges
<1> SUFFICES ASSUME IInv, fresh, clean, NEW s \in DOMAIN nodes, NEW t \in adjacency[s]
             PROVE  \E c \in DOMAIN CommunitySchema :
                      /\ {s, t} \subseteq CommunitySchema[c].nodes
                      /\ {d \in DOMAIN CommunitySchema :
                            CanonicalEdgeKey(s, t) \in CommunitySchema[d].edges} = {c}
  BY DEF SchemaSplitsEdges
<1>1. /\ t \in DOMAIN nodes /\ DOMAIN nodes \subseteq Node
      /\ \A n \in DOMAIN nodes : adjacency[n] \subseteq DOMAIN nodes
      /\ \A n \in DOMAIN nodes : nodes[n] # None
  BY DEF IInv, Whole, Typed, ClustersAreComponents
<1>2. nodes[t] = nodes[s]
  <2>1. Connected(s, t)
    BY <1>1, ConnectedBasics DEF IInv
  <2> QED
    BY <1>1, <2>1 DEF IInv, ClustersAreComponents
<1> DEFINE members(c) == {n \in DOMAIN nodes : nodes[n] = c}
           ends(c) == UNION {GetNodeEdges(n) : n \in members(c)}
<1>3. /\ DOMAIN CommunitySchema = {nodes[n] : n \in DOMAIN nodes} \ {None}
      /\ \A c \in DOMAIN CommunitySchema :
           /\ CommunitySchema[c].nodes = members(c)
           /\ CommunitySchema[c].edges = {CanonicalEdgeKey(e[1], e[2]) : e \in ends(c)}
  BY DEF CommunitySchema
<1> DEFINE c == nodes[s]
<1>4. c \in DOMAIN CommunitySchema /\ {s, t} \subseteq CommunitySchema[c].nodes
  BY <1>1, <1>2, <1>3
<1>5. CanonicalEdgeKey(s, t) \in CommunitySchema[c].edges
  <2>1. <<s, t>> \in ends(c)
    BY <1>1 DEF GetNodeEdges
  <2> HIDE DEF ends
  <2>2. CommunitySchema[c].edges = {CanonicalEdgeKey(e[1], e[2]) : e \in ends(c)}
    BY <1>3, <1>4
  <2>3. CanonicalEdgeKey(s, t) \in {CanonicalEdgeKey(e[1], e[2]) : e \in ends(c)}
    BY <2>1
  <2> QED
    BY <2>2, <2>3
<1>6. ASSUME NEW d \in DOMAIN CommunitySchema, CanonicalEdgeKey(s, t) \in CommunitySchema[d].edges
      PROVE  d = c
  <2>1. PICK e \in ends(d) : CanonicalEdgeKey(s, t) = CanonicalEdgeKey(e[1], e[2])
    BY <1>3, <1>6
  <2>2. PICK n \in members(d) : e \in GetNodeEdges(n)
    OBVIOUS
  <2>3. PICK m \in adjacency[n] : e = <<n, m>>
    BY <2>2 DEF GetNodeEdges
  <2>4. n \in {s, t}
    BY <2>1, <2>3 DEF CanonicalEdgeKey
  <2> QED
    BY <1>2, <2>2, <2>4
<1> QED
  BY <1>4, <1>5, <1>6

\* The schema puts each edge of a node into one community, the one of both its ends
\* (GraphStorage.hpp:178-216).
THEOREM SchemaIsPartition == Spec => []SchemaSplitsEdges
  BY SchemaSplits, Invariance, PTL
-----------------------------------------------------------------------------
\* Each cluster number stands for a node that was visited first.
Counted ==
  /\ run.pc = "idle" => run.cluster = 0
  /\ run.pc # "idle" => run.cluster + (IF run.pc = "walk" THEN 1 ELSE 0)
                          <= Cardinality(run.visited)

LEMMA CountBounds ==
  ASSUME NEW s \in SUBSET Node
  PROVE  /\ Cardinality(s) \in Nat /\ Cardinality(Node) \in Nat
         /\ Cardinality(s) <= Cardinality(Node)
         /\ \A u \in SUBSET s : Cardinality(u) <= Cardinality(s) /\ Cardinality(u) \in Nat
         /\ \A n \in Node \ s : Cardinality(s \cup {n}) = Cardinality(s) + 1
<1>1. IsFiniteSet(s) /\ IsFiniteSet(Node)
  BY GraphAssumption, FS_Subset
<1>2. \A u \in SUBSET s : IsFiniteSet(u)
  BY <1>1, FS_Subset
<1> QED
  BY <1>1, <1>2, FS_CardinalityType, FS_Subset, FS_AddElement

LEMMA CountedStep ==
  ASSUME Typed, Counted, [Next]_vars
  PROVE  Counted'
<1>1. ASSUME NEW n \in Node, NEW label, UpsertNode(n, label) PROVE Counted'
  BY <1>1 DEF UpsertNode, Counted
<1>2. ASSUME NEW s \in Node, NEW t \in Node, UpsertEdge(s, t) PROVE Counted'
  BY <1>2 DEF UpsertEdge, Counted
<1>3. CASE Begin
  <2>1. run'.pc = "scan" /\ run'.cluster = 0 /\ run'.visited = {}
    BY <1>3 DEF Begin, IdleRun
  <2>2. Cardinality({}) = 0
    BY FS_EmptySet
  <2> QED
    BY <2>1, <2>2 DEF Counted
<1>4. ASSUME NEW n \in Node, Start(n) PROVE Counted'
  <2>1. /\ run.pc = "scan" /\ n \in Node \ run.visited /\ run'.pc = "walk"
        /\ run'.visited = run.visited \cup {n} /\ run'.cluster = run.cluster
        /\ run.visited \in SUBSET Node /\ run.cluster \in Nat
    BY <1>4 DEF Start, Typed
  <2>2. Cardinality(run'.visited) = Cardinality(run.visited) + 1
        /\ Cardinality(run.visited) \in Nat
    BY <2>1, CountBounds
  <2>3. run.cluster <= Cardinality(run.visited)
    BY <2>1 DEF Counted
  <2> QED
    BY <2>1, <2>2, <2>3 DEF Counted
<1>5. ASSUME NEW n \in Node, Visit(n) PROVE Counted'
  <2> DEFINE left == (run.queue \ {n}) \cup Found(n)
  <2>1. /\ run.pc = "walk" /\ run.cluster \in Nat
        /\ run'.visited = run.visited \cup Found(n)
        /\ run'.pc = (IF left = {} THEN "scan" ELSE "walk")
        /\ run'.cluster = (IF left = {} THEN run.cluster + 1 ELSE run.cluster)
    BY <1>5 DEF Visit, Typed
  <2>2. run'.visited \in SUBSET Node /\ run.visited \in SUBSET run'.visited
    BY <2>1 DEF Found, Typed
  <2>3. /\ Cardinality(run.visited) <= Cardinality(run'.visited)
        /\ Cardinality(run.visited) \in Nat /\ Cardinality(run'.visited) \in Nat
    BY <2>2, CountBounds
  <2>4. run.cluster + 1 <= Cardinality(run.visited)
    BY <2>1 DEF Counted
  <2> HIDE DEF left
  <2> QED
    BY <2>1, <2>3, <2>4 DEF Counted
<1>6. CASE Finish
  BY <1>6 DEF Finish, IdleRun, Counted
<1>7. CASE UNCHANGED vars
  BY <1>7 DEF vars, Counted
<1> QED
  BY <1>1, <1>2, <1>3, <1>4, <1>5, <1>6, <1>7 DEF Next, Clustering

\* What the type invariant says more than Typed.
Stored ==
  /\ \A n \in DOMAIN nodes : nodes[n] \in Nat \cup {None}
  /\ edges \subseteq {EdgeKeyStr(s, t) : s, t \in Node}

LEMMA StoredStep ==
  ASSUME Typed, Stored, [Next]_vars
  PROVE  Stored'
<1>1. ASSUME NEW n \in Node, NEW c \in Nat \cup {None}, nodes' = Put(n, c), edges' = edges
      PROVE  Stored'
  <2>1. DOMAIN nodes' = DOMAIN nodes \cup {n}
        /\ \A m \in DOMAIN nodes' : nodes'[m] = IF m = n THEN c ELSE nodes[m]
    BY <1>1 DEF Put
  <2>2. \A m \in DOMAIN nodes' : nodes'[m] \in Nat \cup {None}
    BY <2>1 DEF Stored
  <2> QED
    BY <1>1, <2>2 DEF Stored
<1>2. ASSUME NEW n \in Node, NEW label \in ClientLabel \cup {None}, UpsertNode(n, label)
      PROVE  Stored'
  <2>1. nodes' = Put(n, label) /\ edges' = edges
    BY <1>2 DEF UpsertNode
  <2>2. label \in Nat \cup {None}
    BY GraphAssumption
  <2> QED
    BY <1>1, <2>1, <2>2
<1>3. ASSUME NEW s \in Node, NEW t \in Node, UpsertEdge(s, t) PROVE Stored'
  BY <1>3 DEF UpsertEdge, Stored
<1>4. ASSUME NEW n \in Node, Visit(n) PROVE Stored'
  <2>1. nodes' = Put(n, run.cluster) /\ edges' = edges /\ run.cluster \in Nat
    BY <1>4 DEF Visit, Typed
  <2>2. run.cluster \in Nat \cup {None}
    BY <2>1
  <2> QED
    BY <1>1, <2>1, <2>2
<1>5. CASE UNCHANGED <<nodes, edges>>
  BY <1>5 DEF Stored
<1> QED
  BY <1>2, <1>3, <1>4, <1>5 DEF Next, Clustering, Begin, Start, Finish, vars

\* Keys, neighbours and labels have their types, and there are never more clusters
\* than nodes (GraphStorage.hpp:41-45,137-170,231-242).
THEOREM TypeCorrect == Spec => []TypeOK
<1> DEFINE Inv == Typed /\ Counted /\ Stored
<1>1. Init => Inv
  <2>1. DOMAIN <<>> = {}
    OBVIOUS
  <2> QED
    BY <2>1, TypedInit DEF Init, Counted, Stored, IdleRun
<1>2. Inv /\ [Next]_vars => Inv'
  BY TypedStep, CountedStep, StoredStep
<1>3. Inv => TypeOK
  <2> SUFFICES ASSUME Inv PROVE TypeOK
    OBVIOUS
  <2>1. run.cluster \in 0..Cardinality(Node)
    <3>1. Cardinality(run.visited) <= Cardinality(Node) /\ Cardinality(run.visited) \in Nat
          /\ Cardinality(Node) \in Nat /\ run.cluster \in Nat
      BY CountBounds DEF Typed
    <3>2. CASE run.pc = "idle"
      BY <3>1, <3>2 DEF Counted
    <3>3. CASE run.pc # "idle"
      BY <3>1, <3>3 DEF Counted
    <3> QED
      BY <3>2, <3>3
  <2> QED
    BY <2>1 DEF TypeOK, Typed, Stored
<1> HIDE DEF Inv
<1> QED
  BY <1>1, <1>2, <1>3, PTL DEF Spec
=============================================================================
