----------------------------- MODULE Retrieval ------------------------------
(***************************************************************************)
(* The part of naive_query, local_query and global_query that comes after  *)
(* the vector index has ranked the ids (include/nano_graphrag/GraphRAG.hpp *)
(* :184-202, 223-259, 280-305), as operators.                              *)
(***************************************************************************)
EXTENDS Chunking, FiniteSets

\* The ids whose chunks a mode looks up, from the ranked ids it was given.
\* "Document prefix": the text of an id up to its first dash, which is "chunk-".
Prefix(id) == id.prefix
Count(ids, p) == Cardinality({r \in DOMAIN ids : Prefix(ids[r]) = p})
Fetched == [naive |-> 1, local |-> 2, global |-> 3]

\* The loops that fill a list: of the ids at some places the first top_k, in order.
Picked(ids, places, top_k) ==
  LET picked[r \in 0..Len(ids)] ==
        IF r = 0 THEN <<>>
        ELSE LET before == picked[r - 1]
             IN  IF r \in places /\ Len(before) < top_k THEN Append(before, ids[r]) ELSE before
  IN  picked[Len(ids)]

\* The most frequent prefix, then the first top_k ids that have it.
LocalIds(ids, top_k) ==
  {Picked(ids, {r \in DOMAIN ids : Prefix(ids[r]) = best}, top_k) :
     best \in {p \in {Prefix(ids[r]) : r \in DOMAIN ids} :
                 \A r \in DOMAIN ids : Count(ids, Prefix(ids[r])) <= Count(ids, p)}}

\* The first id of each prefix, for the first top_k prefixes, in the order of a
\* hash map.
GlobalIds(ids, top_k) ==
  LET tops == {r \in DOMAIN ids : \A q \in 1..(r - 1) : Prefix(ids[q]) # Prefix(ids[r])}
  IN  SetToSeqs(ToSet(Picked(ids, tops, top_k)))

Lookups(mode, ids, top_k) == CASE mode = "naive"  -> {ids}
                               [] mode = "local"  -> LocalIds(ids, top_k)
                               [] mode = "global" -> GlobalIds(ids, top_k)

\* Mutant of Context: the budget itself is already too much.
ContextBelow(ids, data, stored, budget) ==
  LET scan[r \in 0..Len(ids)] ==
        IF r = 0 THEN [section |-> <<>>, tokens |-> 0]
        ELSE LET before == scan[r - 1]
                 tokens == before.tokens + data[ids[r]].tokens
             IN  IF ids[r] \notin stored \/ before.tokens >= budget THEN before
                 ELSE [section |-> IF tokens >= budget THEN before.section
                                   ELSE Append(before.section, ids[r]),
                       tokens |-> tokens]
  IN  scan[Len(ids)].section

\* Mutant of Context: the budget is looked at when the chunk is already in.
ContextPast(ids, data, stored, budget) ==
  LET scan[r \in 0..Len(ids)] ==
        IF r = 0 THEN [section |-> <<>>, tokens |-> 0]
        ELSE LET before == scan[r - 1]
             IN  IF ids[r] \notin stored \/ before.tokens > budget THEN before
                 ELSE [section |-> Append(before.section, ids[r]),
                       tokens |-> before.tokens + data[ids[r]].tokens]
  IN  scan[Len(ids)].section

\* The section put together from the chunks: a chunk that is not stored is
\* skipped, the first one that passes the budget ends the loop.
Context(ids, data, stored, budget) ==
  LET scan[r \in 0..Len(ids)] ==
        IF r = 0 THEN [section |-> <<>>, tokens |-> 0]
        ELSE LET before == scan[r - 1]
                 tokens == before.tokens + data[ids[r]].tokens
             IN  IF ids[r] \notin stored \/ before.tokens > budget THEN before
                 ELSE [section |-> IF tokens > budget THEN before.section
                                   ELSE Append(before.section, ids[r]),
                       tokens |-> tokens]
  IN  scan[Len(ids)].section

\* What the chunks of a list cost together, in tokens.
Cost(ids, data) ==
  LET cost[r \in 0..Len(ids)] == IF r = 0 THEN 0 ELSE cost[r - 1] + data[ids[r]].tokens
  IN  cost[Len(ids)]
=============================================================================
