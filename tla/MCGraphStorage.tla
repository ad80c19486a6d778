--------------------------- MODULE MCGraphStorage ---------------------------
(***************************************************************************)
(* GraphStorage with three ids, each the beginning of the next: enough for *)
(* two components that an edge joins, an edge end that is no node, loops,  *)
(* and texts that two pairs would share if nothing separated their ids.    *)
(* A caller's own label is 0, which is also the first one that clustering()*)
(* gives.  There is no counter to bound.                                   *)
(***************************************************************************)
EXTENDS GraphStorage

MCNode == {<<1>>, <<1, 1>>, <<1, 1, 1>>}
MCBar == 9
=============================================================================
