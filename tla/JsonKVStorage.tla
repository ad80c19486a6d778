--------------------------- MODULE JsonKVStorage ----------------------------
(***************************************************************************)
(* One JsonKVStorage<T> object and the file behind it                      *)
(* (include/nano_graphrag/storage/JsonKVStorage.hpp).                      *)
(*                                                                         *)
(* upsert() and drop() change data_ and call save(), which first opens the *)
(* file (std::ofstream truncates it) and only then evaluates j.dump(2) and *)
(* writes.  A step of the model is what can be told apart from outside     *)
(* when the process dies: memory changed, file truncated, file written.    *)
(* dump() throws on a string that is not valid UTF-8; the exception leaves *)
(* save() with the file truncated and data_ already changed.               *)
(***************************************************************************)
EXTENDS JsonFile

CONSTANTS
  Undumpable,  \* the values whose JSON text nlohmann::json::dump refuses
  Faults       \* what the file system may do: "open" fails, "write" is short

ASSUME KVAssumption == /\ Undumpable \subseteq Value
                       /\ Absent \notin Value
                       /\ Faults \subseteq {"open", "write"}

VARIABLE
  kv  \* data: data_;  file: the JSON file;
      \* pc: where the call in progress is;  status: how the last call ended,
      \* "unsaved" being a normal return after the file system had failed, which
      \* the caller cannot tell from "ok"

Dumpable(m) == \A k \in Key : m[k] \notin Undumpable

\* Mutant of Fresh: the constructor does not load the file.
FreshUnloaded(f) == [data |-> EmptyMap, file |-> f, pc |-> "ready", status |-> "ok"]

\* The constructor: a store on a working directory that has file f.
Fresh(f) == [data |-> Load(f), file |-> f, pc |-> "ready", status |-> "ok"]

TypeOK == kv \in [data : Map, file : File,
                  pc : {"ready", "saving", "opened", "down"},
                  status : {"ok", "unsaved", "throw"}]

Init == kv = Fresh(NoFile)
-----------------------------------------------------------------------------
Upsert(batch) ==
  /\ kv.pc = "ready"
  /\ kv' = [kv EXCEPT !.data = Merge(kv.data, batch), !.pc = "saving"]

\* Mutant of Drop: without save().
DropUnsaved == kv.pc = "ready" /\ kv' = [kv EXCEPT !.data = EmptyMap]

Drop ==
  /\ kv.pc = "ready"
  /\ kv' = [kv EXCEPT !.data = EmptyMap, !.pc = "saving"]

\* std::ofstream f(storage_file_) could not open the file: save() does nothing
\* and tells nobody.
OpenFails ==
  /\ kv.pc = "saving"
  /\ "open" \in Faults
  /\ kv' = [kv EXCEPT !.pc = "ready", !.status = "unsaved"]

\* Mutant of OpenTruncates: the file keeps its text until the new one is written.
OpenKeeps == kv.pc = "saving" /\ kv' = [kv EXCEPT !.pc = "opened"]

\* std::ofstream f(storage_file_) truncates the file.
OpenTruncates ==
  /\ kv.pc = "saving"
  /\ kv' = [kv EXCEPT !.file = TornFile, !.pc = "opened"]

\* j.dump(2) throws through save() and upsert() to the caller.
DumpThrows ==
  /\ kv.pc = "opened"
  /\ ~Dumpable(kv.data)
  /\ kv' = [kv EXCEPT !.pc = "ready", !.status = "throw"]

\* Mutant of WriteWhole: dump(2) lets bytes through that are not UTF-8.
WriteAnything ==
  /\ kv.pc = "opened"
  /\ kv' = [kv EXCEPT !.file = WholeFile(kv.data), !.pc = "ready", !.status = "ok"]

\* f << j.dump(2) and the destructor of f put the whole text into the file.
WriteWhole ==
  /\ kv.pc = "opened"
  /\ Dumpable(kv.data)
  /\ kv' = [kv EXCEPT !.file = WholeFile(kv.data), !.pc = "ready", !.status = "ok"]

\* A short write sets the stream's failbit, which save() never looks at.
WriteShort ==
  /\ kv.pc = "opened"
  /\ "write" \in Faults
  /\ Dumpable(kv.data)
  /\ kv' = [kv EXCEPT !.pc = "ready", !.status = "unsaved"]

Save == OpenFails \/ OpenTruncates \/ DumpThrows \/ WriteWhole \/ WriteShort

\* The process ends, at any point: only the file is left.
Crash ==
  /\ kv.pc # "down"
  /\ kv' = [kv EXCEPT !.data = EmptyMap, !.pc = "down", !.status = "ok"]

\* A new process constructs the store on the same file.
Restart ==
  /\ kv.pc = "down"
  /\ kv' = Fresh(kv.file)

Next == (\E batch \in Map : Upsert(batch)) \/ Drop \/ Save \/ Crash \/ Restart

Spec == Init /\ [][Next]_kv
-----------------------------------------------------------------------------
\* Durability (JsonKVStorage.hpp:88-118): a call that returned normally, and during
\* which the file system neither refused to open nor cut the write short, left a
\* file from which a new process reloads exactly the map in memory, whatever the
\* calls before it came to.
Durable == (kv.pc = "ready" /\ kv.status = "ok") => Load(kv.file) = kv.data

\* One value that cannot be dumped costs the whole file
\* (JsonKVStorage.hpp:115-117: truncate first, dump afterwards): as long as it
\* stays in memory, after every call that could open the file a new process would
\* reload nothing, not even the records that earlier calls had saved.
BadValueLosesFile ==
  (kv.pc = "ready" /\ ~Dumpable(kv.data) /\ kv.status # "unsaved")
     => Load(kv.file) = EmptyMap

\* What is on disk can always be written again: a reload never brings back a
\* value that would make the next save() throw (JsonKVStorage.hpp:117,128-132).
ReloadIsDumpable == Dumpable(Load(kv.file))

\* Whatever the file system does and whenever the process dies, the store
\* implements DurableMap (a reload finds one whole earlier map or nothing).
Abstract == INSTANCE DurableMap
  WITH mem <- kv.data, disk <- Load(kv.file), up <- kv.pc # "down"
RefinesDurableMap == Abstract!Spec
=============================================================================
