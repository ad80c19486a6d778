-------------------------- MODULE MCJsonKVStorage ---------------------------
(***************************************************************************)
(* A small instance of JsonKVStorage: two keys, two good values and one    *)
(* that cannot be dumped, on a file system that may refuse to open the     *)
(* file or cut a write short.  No counter, so no bound is needed.          *)
(***************************************************************************)
EXTENDS JsonKVStorage

CONSTANTS k1, k2, good, other, bad

MCKey == {k1, k2}
MCValue == {good, other, bad}
MCBad == {bad}
MCFaults == {"open", "write"}
=============================================================================
