------------------------------ MODULE JsonFile ------------------------------
(***************************************************************************)
(* What a JsonKVStorage<T> has in memory and in its file, and how load()   *)
(* and upsert() make one map of another                                    *)
(* (include/nano_graphrag/storage/JsonKVStorage.hpp).                      *)
(***************************************************************************)
CONSTANTS
  Key,     \* the string ids
  Value,   \* the values of type T
  Absent   \* "no such key"

Map == [Key -> Value \cup {Absent}]
EmptyMap == [k \in Key |-> Absent]

\* The file: never written, empty or cut short, or the JSON text of a map.
File == [state : {"missing", "torn", "whole"}, map : Map]
NoFile == [state |-> "missing", map |-> EmptyMap]
TornFile == [state |-> "torn", map |-> EmptyMap]
WholeFile(m) == [state |-> "whole", map |-> m]

\* Mutant of Load: a file that cannot be parsed leaves an unusable map.
LoadPartial(f) == IF f.state = "whole" THEN f.map ELSE <<>>

\* load(): a file that cannot be opened or parsed is silently an empty store.
Load(f) == IF f.state = "whole" THEN f.map ELSE EmptyMap

\* Mutant of Merge: upsert() replaces the store.
MergeReplaces(m, batch) == batch

\* The loop of upsert(): the batch wins over what is stored.
Merge(m, batch) == [k \in Key |-> IF batch[k] = Absent THEN m[k] ELSE batch[k]]
=============================================================================
