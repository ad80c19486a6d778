----------------------- MODULE MCNanoVectorDBStorage ------------------------
(***************************************************************************)
(* NanoVectorDBStorage with two records; no counter needs a bound.         *)
(***************************************************************************)
EXTENDS NanoVectorDBStorage

CONSTANTS i1, i2
MCId == {i1, i2}
=============================================================================
