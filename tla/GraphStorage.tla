---------------------------- MODULE GraphStorage ----------------------------
(***************************************************************************)
(* InMemoryGraphStorage (include/nano_graphrag/storage/GraphStorage.hpp):  *)
(* nodes, undirected edges keyed by the text "s|t", adjacency, and the     *)
(* clustering that walks the adjacency while it writes to the very map it  *)
(* iterates over.                                                          *)
(*                                                                         *)
(* A node id is a sequence of characters, numbers in the order in which    *)
(* std::string compares them.  Properties other than "clusters" are left   *)
(* out.  clustering() is one call; its rounds are steps here because what  *)
(* it does depends on what its own rounds did to the map.                  *)
(***************************************************************************)
EXTENDS Integers, FiniteSets, SequencesExt

CONSTANTS
  Node,         \* the ids in use
  Bar,          \* the character '|'
  ClientLabel   \* the clusters that a caller's own "clusters" may name

ASSUME GraphAssumption ==
  Node \subseteq Seq(Nat) /\ IsFiniteSet(Node) /\ Bar \in Nat /\ ClientLabel \subseteq Nat

VARIABLES
  nodes,      \* nodes_: from the ids present to their cluster
  edges,      \* the keys of edges_
  adjacency,  \* adjacency_, an absent id having no neighbours
  run,        \* the clustering in progress
  fresh,      \* history: nothing changed since the last clustering ...
  clean,      \* ... and it inserted no node
  given       \* history: the nodes whose "clusters" a caller wrote last

vars == <<nodes, edges, adjacency, run, fresh, clean, given>>

None == -1  \* no "clusters" attribute
\* Mutant of IdleRun: clusters are numbered from 1.
IdleRunFromOne == [pc |-> "idle", todo |-> {}, visited |-> {}, queue |-> {}, cluster |-> 1]

IdleRun == [pc |-> "idle", todo |-> {}, visited |-> {}, queue |-> {}, cluster |-> 0]

\* The order of std::string, and the text under which an edge is kept.
Less(s, t) ==
  \/ s # t /\ IsPrefix(s, t)
  \/ \E i \in DOMAIN s \cap DOMAIN t : (\A j \in 1..(i - 1) : s[j] = t[j]) /\ s[i] < t[i]
CanonicalEdgeKey(s, t) == IF Less(s, t) THEN <<s, t>> ELSE <<t, s>>

\* Mutant of EdgeKeyStr: nothing separates the two ids.
EdgeKeyJoined(s, t) == CanonicalEdgeKey(s, t)[1] \o CanonicalEdgeKey(s, t)[2]

EdgeKeyStr(s, t) == CanonicalEdgeKey(s, t)[1] \o <<Bar>> \o CanonicalEdgeKey(s, t)[2]

HasNode(n) == n \in DOMAIN nodes
HasEdge(s, t) == EdgeKeyStr(s, t) \in edges
GetNodeEdges(n) == {<<n, t>> : t \in adjacency[n]}

TypeOK ==
  /\ DOMAIN nodes \subseteq Node /\ \A n \in DOMAIN nodes : nodes[n] \in Nat \cup {None}
  /\ edges \subseteq {EdgeKeyStr(s, t) : s, t \in Node}
  /\ adjacency \in [Node -> SUBSET Node]
  /\ run \in [pc : {"idle", "scan", "walk"}, todo : SUBSET Node, visited : SUBSET Node,
              queue : SUBSET Node, cluster : 0..Cardinality(Node)]
  /\ fresh \in BOOLEAN /\ clean \in BOOLEAN /\ given \subseteq Node

Init ==
  /\ nodes = <<>> /\ edges = {} /\ adjacency = [n \in Node |-> {}]
  /\ run = IdleRun /\ fresh = FALSE /\ clean = TRUE /\ given = {}
-----------------------------------------------------------------------------
\* Mutant of Put: an attribute that is there is not overwritten.
PutOnce(n, cluster) ==
  [m \in DOMAIN nodes \cup {n} |-> IF m = n /\ (~HasNode(n) \/ nodes[n] = None) THEN cluster
                                   ELSE nodes[m]]

\* nodes_[n]["clusters"], with the node put in when it is not there.
Put(n, cluster) == [m \in DOMAIN nodes \cup {n} |-> IF m = n THEN cluster ELSE nodes[m]]

\* upsert_node(): the new properties replace the old ones, "clusters" included,
\* which the new ones may have or not.  The batch calls are repetitions of the
\* single ones.
UpsertNode(n, label) ==
  /\ run.pc = "idle"
  /\ nodes' = Put(n, label)
  /\ given' = IF label = None THEN given \ {n} ELSE given \cup {n}
  /\ fresh' = FALSE
  /\ UNCHANGED <<edges, adjacency, run, clean>>

\* Mutant of UpsertEdge: only s learns of its neighbour.
UpsertArc(s, t) ==
  /\ run.pc = "idle"
  /\ edges' = edges \cup {EdgeKeyStr(s, t)}
  /\ adjacency' = [adjacency EXCEPT ![s] = @ \cup {t}]
  /\ fresh' = FALSE
  /\ UNCHANGED <<nodes, run, clean, given>>

\* upsert_edge(): its ends need not be nodes and do not become nodes.
UpsertEdge(s, t) ==
  /\ run.pc = "idle"
  /\ edges' = edges \cup {EdgeKeyStr(s, t)}
  /\ adjacency' = [n \in Node |-> adjacency[n] \cup {m \in Node : <<n, m>> \in {<<s, t>>, <<t, s>>}}]
  /\ fresh' = FALSE
  /\ UNCHANGED <<nodes, run, clean, given>>

\* clustering(): the loop over nodes_.
Begin ==
  /\ run.pc = "idle"
  /\ run' = [IdleRun EXCEPT !.pc = "scan", !.todo = DOMAIN nodes]
  /\ fresh' = FALSE /\ clean' = TRUE
  /\ UNCHANGED <<nodes, edges, adjacency, given>>

\* The next node of the iteration that was not visited, in the order of a hash map.
Start(n) ==
  /\ run.pc = "scan"
  /\ n \in run.todo \ run.visited
  /\ run' = [run EXCEPT !.pc = "walk", !.todo = @ \ {n}, !.visited = @ \cup {n}, !.queue = {n}]
  /\ UNCHANGED <<nodes, edges, adjacency, fresh, clean, given>>

\* Mutant of Found: visited nodes are queued again.
FoundAgain(cur) == adjacency[cur]

\* The neighbours that the walk puts into its queue.
Found(cur) == adjacency[cur] \ run.visited

\* One round of the walk: which of the queued nodes is at the back depends on the
\* order of hash sets.  nodes_[cur] inserts a cur that was only the end of an edge
\* into the map being iterated.  When that rehashes the map, the iterator goes on
\* in a list in another order and never meets some of the nodes it had before it.
Visit(cur) ==
  LET left == (run.queue \ {cur}) \cup Found(cur)
      inserts == ~HasNode(cur)
  IN  /\ run.pc = "walk"
      /\ cur \in run.queue
      /\ nodes' = Put(cur, run.cluster) /\ given' = given \ {cur}
      /\ \E todo \in IF inserts THEN SUBSET run.todo ELSE {run.todo} :
           run' = [run EXCEPT !.visited = @ \cup Found(cur), !.queue = left, !.todo = todo,
                              !.pc = IF left = {} THEN "scan" ELSE "walk",
                              !.cluster = IF left = {} THEN @ + 1 ELSE @]
      /\ clean' = (clean /\ ~inserts)
      /\ UNCHANGED <<edges, adjacency, fresh>>

\* The iteration meets only visited nodes from here to the end.
Finish ==
  /\ run.pc = "scan"
  /\ run.todo \subseteq run.visited
  /\ run' = IdleRun /\ fresh' = TRUE
  /\ UNCHANGED <<nodes, edges, adjacency, clean, given>>

Clustering == (\E n \in Node : Start(n) \/ Visit(n)) \/ Finish

Next == \/ \E n \in Node, label \in ClientLabel \cup {None} : UpsertNode(n, label)
        \/ \E s, t \in Node : UpsertEdge(s, t)
        \/ Begin \/ Clustering

Spec == Init /\ [][Next]_vars

\* clustering() runs to its end in the thread that called it.
FairSpec == Spec /\ WF_vars(Clustering)
-----------------------------------------------------------------------------
\* Mutant of CommunitySchema: loops are not counted as edges.
SchemaWithoutLoops ==
  LET members(c) == {n \in DOMAIN nodes : nodes[n] = c}
  IN  [c \in {nodes[n] : n \in DOMAIN nodes} \ {None} |->
         [nodes |-> members(c),
          edges |-> {CanonicalEdgeKey(e[1], e[2]) :
                       e \in {e \in UNION {GetNodeEdges(n) : n \in members(c)} : e[1] # e[2]}}]]

\* community_schema(): the nodes of each cluster and the canonical pairs of the
\* edges at those nodes.
CommunitySchema ==
  LET members(c) == {n \in DOMAIN nodes : nodes[n] = c}
  IN  [c \in {nodes[n] : n \in DOMAIN nodes} \ {None} |->
         [nodes |-> members(c),
          edges |-> {CanonicalEdgeKey(e[1], e[2]) :
                       e \in UNION {GetNodeEdges(n) : n \in members(c)}}]]

\* Connected: no set of nodes without an edge out of it keeps the two apart.
Connected(a, b) ==
  \A s \in SUBSET Node : (a \in s /\ \A n \in s : adjacency[n] \subseteq s) => b \in s

\* The two records of an edge agree: neighbours are mutual and have their key in
\* edges_, and has_edge answers yes only for neighbours when the separator occurs
\* in neither id (GraphStorage.hpp:41-45,116-119,231-235).
Plain(n) == Bar \notin ToSet(n)
EdgeRecords ==
  \A s, t \in Node :
    /\ t \in adjacency[s] => s \in adjacency[t] /\ HasEdge(s, t)
    /\ Plain(s) /\ Plain(t) /\ HasEdge(s, t) => t \in adjacency[s]

\* A clustering that inserted no node labels every node, and labels two nodes
\* alike exactly when they are connected (GraphStorage.hpp:143-165).
ClustersAreComponents ==
  (fresh /\ clean) =>
    /\ \A n \in DOMAIN nodes : nodes[n] # None
    /\ \A a, b \in DOMAIN nodes : (nodes[a] = nodes[b]) <=> Connected(a, b)

\* Labels that are read long after such a clustering, with nodes replaced and edges
\* added since, still put only connected nodes into one community, but for the nodes
\* that were given a label by a caller (GraphStorage.hpp:96-119,154-155,178-201).
SameLabelConnected ==
  (run.pc = "idle" /\ clean) =>
    \A a, b \in DOMAIN nodes \ given : nodes[a] = nodes[b] /\ nodes[a] # None => Connected(a, b)

\* Its schema splits the edges: each edge of a node is in exactly one community,
\* which also holds both of its ends (GraphStorage.hpp:178-216).
SchemaSplitsEdges ==
  (fresh /\ clean) =>
    \A s \in DOMAIN nodes : \A t \in adjacency[s] :
      \E c \in DOMAIN CommunitySchema :
        /\ {s, t} \subseteq CommunitySchema[c].nodes
        /\ {d \in DOMAIN CommunitySchema :
              CanonicalEdgeKey(s, t) \in CommunitySchema[d].edges} = {c}

\* Every call of clustering() comes to its end (GraphStorage.hpp:150-163).
ClusteringEnds == run.pc # "idle" ~> run.pc = "idle"

\* "clusters by connected components (BFS) and writes a `clusters` attribute on
\* nodes" (GraphStorage.hpp:134-135): after it, every node has one.
AllNodesClustered == fresh => \A n \in DOMAIN nodes : nodes[n] # None
=============================================================================
