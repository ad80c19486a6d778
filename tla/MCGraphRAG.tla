----------------------------- MODULE MCGraphRAG -----------------------------
(***************************************************************************)
(* Small instances of GraphRAG.  Four documents: two that share a word, so *)
(* that they share a chunk; one with the same word after a character of    *)
(* two tokens, which windows of one token cut in half (the simple          *)
(* tokenizer keeps it whole); and a text that is not UTF-8 to begin with.  *)
(* A .cfg picks which of them a client inserts.  Of the three sizes one is *)
(* such that the loop over a document never ends.                          *)
(***************************************************************************)
EXTENDS GraphRAG

MCOneDoc == {"doc one"}
MCWords == {"doc one", "doc two"}
MCAll == {"doc one", "doc cjk", "doc raw"}

MCTokens == [d \in {"doc one", "doc two", "doc cjk", "doc raw"} |->
               CASE d = "doc one" -> <<<<"x">>, <<"y">>>>
                 [] d = "doc two" -> <<<<"y">>, <<"z">>>>
                 [] d = "doc cjk" -> <<<<"lead">>, <<"trail">>, <<"y">>>>
                 [] d = "doc raw" -> <<<<"raw">>>>]

MCTiktoken == {"Tiktoken"}
MCTokenizers == {"Tiktoken", "Simple"}
MCEncode == [t \in MCTokenizers |->
               [d \in DOMAIN MCTokens |->
                  IF t = "Simple" /\ d = "doc cjk" THEN <<<<"lead", "trail">>, <<"y">>>> ELSE MCTokens[d]]]

\* A text is valid when it has no raw byte and every lead byte has its trail.
MCValidUtf8(text) ==
  \A i \in DOMAIN text :
    /\ text[i] # "raw"
    /\ text[i] = "lead" => (i < Len(text) /\ text[i + 1] = "trail")
    /\ text[i] = "trail" => (i > 1 /\ text[i - 1] = "lead")

MCSizes == {[max |-> 1, overlap |-> 0], [max |-> 2, overlap |-> 1], [max |-> 1, overlap |-> 1]}
MCOneSize == {[max |-> 1, overlap |-> 0]}
=============================================================================
