--------------------------- MODULE MCSharedCache ----------------------------
(***************************************************************************)
(* Two programs, one with one document and one with two that share a       *)
(* chunk.  Four processes in all: enough for a lost update, for a program  *)
(* that is run again after it was killed, and for a third one to load what *)
(* the race of two others has left.                                        *)
(***************************************************************************)
EXTENDS SharedCache

CONSTANTS demo, carol, d1, d2, d3, c1, c2, c3

MCProgram == {demo, carol}
MCDocument == {d1, d2, d3}
MCChunk == {c1, c2, c3}
MCBatch == [p \in MCProgram |-> IF p = demo THEN {d1} ELSE {d2, d3}]
MCChunked == [d \in MCDocument |-> CASE d = d1 -> {c1} [] d = d2 -> {c2, c3} [] d = d3 -> {c3}]
=============================================================================
