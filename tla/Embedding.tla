----------------------------- MODULE Embedding ------------------------------
(***************************************************************************)
(* OpenAIEmbeddingStrategy::embed as operators on the reply of the service *)
(* (include/nano_graphrag/embedding/openai.hpp:25-82).  Vectors are known  *)
(* by the text they embed.  A reply without an error status may still have *)
(* no "data" or one that is no array, give its items in any order, leave   *)
(* some out, send one twice, send an index that no text has, items that    *)
(* lack "embedding" or "index", and items that cannot be read at all.      *)
(***************************************************************************)
EXTENDS Naturals, Sequences, FiniteSetsExt

VectorOf(text) == <<"of", text>>
ZeroVector == <<"zero">>
EmptyVector == <<"empty">>
ForeignVector == <<"foreign">>

\* The items of a service that embeds the text an index stands for: one for each
\* text; one of an index beyond the texts, which is also what a negative one is as
\* a size_t; one that lacks a field; one that is no object, or whose embedding is no
\* array of numbers or whose index is no int.
Item(texts, p) == [kind |-> "whole", index |-> p - 1, vector |-> VectorOf(texts[p])]
Items(texts) ==
  {Item(texts, p) : p \in DOMAIN texts}
    \cup {[kind |-> "whole", index |-> Len(texts), vector |-> ForeignVector]}
    \cup [kind : {"partial", "bad"}, index : {0}, vector : {EmptyVector}]
Replies(texts) ==
  [data : {"missing", "bad"}, items : {<<>>}] \cup
  [data : {"array"}, items : UNION {[1..k -> Items(texts)] : k \in 0..Len(texts)}]

\* getArray("data") is null, or an item is bad: using it throws.
EmbedThrows(texts, reply) ==
  texts # <<>> /\ (reply.data = "bad" \/ \E j \in DOMAIN reply.items : reply.items[j].kind = "bad")

\* Mutant of Embed: the vectors in the order in which they arrive.
EmbedAsSent(texts, reply) ==
  IF texts = <<>> \/ reply.data # "array" THEN <<>>
  ELSE [i \in DOMAIN texts |-> IF i \in DOMAIN reply.items THEN reply.items[i].vector
                               ELSE EmptyVector]

\* When nothing throws: one vector per text, in the order of the texts, which is that
\* of the last item with the index of the text, or a vector of length 0 when there is
\* none.  No vector at all for a reply without data.
Embed(texts, reply) ==
  LET sent(i) == {j \in DOMAIN reply.items :
                    reply.items[j].kind = "whole" /\ reply.items[j].index = i - 1}
  IN  IF texts = <<>> \/ reply.data # "array" THEN <<>>
      ELSE [i \in DOMAIN texts |-> IF sent(i) = {} THEN EmptyVector
                                   ELSE reply.items[Max(sent(i))].vector]
=============================================================================
