------------------------ MODULE JsonKVStorageProofs -------------------------
(***************************************************************************)
(* What JsonKVStorage guarantees for every set of keys and values and      *)
(* every kind of file system: its invariants, and that it implements       *)
(* DurableMap.                                                             *)
(***************************************************************************)
EXTENDS JsonKVStorage, TLAPS

\* The inductive invariant.  The last conjunct is why a save() that is cut short
\* by an exception, a short write or the end of the process leaves nothing that
\* could be mistaken for a map.
OpenedIsTorn == kv.pc = "opened" => kv.file = TornFile
IInv == TypeOK /\ OpenedIsTorn /\ Durable /\ ReloadIsDumpable /\ BadValueLosesFile

\* Types of the pieces that the actions put into the state.
LEMMA EmptyMapOK == EmptyMap \in Map /\ Dumpable(EmptyMap)
  BY KVAssumption DEF EmptyMap, Map, Dumpable

LEMMA FilesOK ==
  /\ TornFile \in File /\ NoFile \in File
  /\ Load(TornFile) = EmptyMap /\ Load(NoFile) = EmptyMap
  /\ \A m \in Map : WholeFile(m) \in File /\ Load(WholeFile(m)) = m
  /\ \A f \in File : Load(f) \in Map
  BY EmptyMapOK DEF TornFile, NoFile, WholeFile, Load, File

LEMMA MergeOK == \A m, b \in Map : Merge(m, b) \in Map
  BY DEF Merge, Map

LEMMA FreshOK ==
  ASSUME NEW f \in File
  PROVE  Fresh(f) \in [data : Map, file : File,
                       pc : {"ready", "saving", "opened", "down"}, status : {"ok", "unsaved", "throw"}]
  BY FilesOK DEF Fresh

LEMMA InitIInv == Init => IInv
<1> SUFFICES ASSUME Init PROVE IInv
  OBVIOUS
<1>1. /\ kv.data = EmptyMap /\ kv.file = NoFile /\ kv.pc = "ready" /\ kv.status = "ok"
  BY FilesOK DEF Init, Fresh
<1>2. TypeOK
  BY FreshOK, FilesOK DEF Init, TypeOK
<1>3. Load(kv.file) = kv.data /\ Dumpable(kv.data)
  BY <1>1, FilesOK, EmptyMapOK
<1> QED
  BY <1>1, <1>2, <1>3 DEF IInv, OpenedIsTorn, Durable, ReloadIsDumpable, BadValueLosesFile

\* Every step preserves it.
LEMMA NextIInv == IInv /\ [Next]_kv => IInv'
<1> SUFFICES ASSUME IInv, [Next]_kv PROVE IInv'
  OBVIOUS
<1> USE DEF IInv, TypeOK, OpenedIsTorn, Durable, ReloadIsDumpable, BadValueLosesFile
<1>1. ASSUME NEW batch \in Map, Upsert(batch) PROVE IInv'
  BY <1>1, MergeOK DEF Upsert
<1>2. CASE Drop
  BY <1>2, EmptyMapOK DEF Drop
<1>3. CASE OpenFails
  BY <1>3 DEF OpenFails
<1>4. CASE OpenTruncates
  BY <1>4, FilesOK, EmptyMapOK DEF OpenTruncates
<1>5. CASE DumpThrows
  BY <1>5, FilesOK DEF DumpThrows
<1>6. CASE WriteWhole
  BY <1>6, FilesOK DEF WriteWhole
<1>7. CASE WriteShort
  BY <1>7, FilesOK DEF WriteShort
<1>8. CASE Crash
  BY <1>8, EmptyMapOK DEF Crash
<1>9. CASE Restart
  <2>1. TypeOK'
    BY <1>9, FreshOK DEF Restart
  <2>2. kv'.data = Load(kv'.file) /\ kv'.file = kv.file /\ kv'.pc = "ready"
    BY <1>9 DEF Restart, Fresh
  <2> QED
    BY <2>1, <2>2
<1>10. CASE UNCHANGED kv
  BY <1>10
<1> QED
  BY <1>1, <1>2, <1>3, <1>4, <1>5, <1>6, <1>7, <1>8, <1>9, <1>10 DEF Next, Save

LEMMA Invariance == Spec => []IInv
  BY InitIInv, NextIInv, PTL DEF Spec

\* The variables always have their types.
THEOREM TypeCorrect == Spec => []TypeOK
<1>1. IInv => TypeOK
  BY DEF IInv
<1> QED
  BY <1>1, Invariance, PTL

\* A call that returned normally, on a file system that did not fail during it, left
\* a file that reloads to the map in memory (JsonKVStorage.hpp:88-118).
THEOREM Durability == Spec => []Durable
<1>1. IInv => Durable
  BY DEF IInv
<1> QED
  BY <1>1, Invariance, PTL

\* A value that cannot be dumped costs the whole file (JsonKVStorage.hpp:115-117).
THEOREM BadValueCostsFile == Spec => []BadValueLosesFile
<1>1. IInv => BadValueLosesFile
  BY DEF IInv
<1> QED
  BY <1>1, Invariance, PTL

\* A reload never brings back a value that cannot be dumped.
THEOREM ReloadsAreDumpable == Spec => []ReloadIsDumpable
<1>1. IInv => ReloadIsDumpable
  BY DEF IInv
<1> QED
  BY <1>1, Invariance, PTL

LEMMA InitRefines == Init => Abstract!Init
  BY FilesOK DEF Init, Fresh, Abstract!Init, Abstract!Nothing, EmptyMap

LEMMA StepRefines == IInv /\ [Next]_kv => [Abstract!Next]_(Abstract!vars)
<1> SUFFICES ASSUME IInv, [Next]_kv PROVE [Abstract!Next]_(Abstract!vars)
  OBVIOUS
<1> USE DEF IInv, TypeOK, OpenedIsTorn
<1>1. ASSUME NEW batch \in Map, Upsert(batch) PROVE Abstract!Next
  <2>1. Abstract!Update(batch)
    BY <1>1 DEF Upsert, Merge, Abstract!Update
  <2> QED
    BY <2>1 DEF Abstract!Next, Abstract!Map, Map
<1>2. CASE Drop
  <2>1. Abstract!Clear
    BY <1>2 DEF Drop, EmptyMap, Abstract!Clear, Abstract!Nothing
  <2> QED
    BY <2>1 DEF Abstract!Next
<1>3. CASE OpenFails
  BY <1>3 DEF OpenFails, Abstract!vars
<1>4. CASE OpenTruncates
  <2>1. Abstract!Lose
    BY <1>4, FilesOK DEF OpenTruncates, EmptyMap, Abstract!Lose, Abstract!Nothing
  <2> QED
    BY <2>1 DEF Abstract!Next
<1>5. CASE DumpThrows
  BY <1>5 DEF DumpThrows, Abstract!vars
<1>6. CASE WriteWhole
  <2>1. Abstract!Sync
    BY <1>6, FilesOK DEF WriteWhole, Abstract!Sync
  <2> QED
    BY <2>1 DEF Abstract!Next
<1>7. CASE WriteShort
  BY <1>7 DEF WriteShort, Abstract!vars
<1>8. CASE Crash
  <2>1. Abstract!Stop
    BY <1>8 DEF Crash, EmptyMap, Abstract!Stop, Abstract!Nothing
  <2> QED
    BY <2>1 DEF Abstract!Next
<1>9. CASE Restart
  <2>1. Abstract!Reload
    BY <1>9 DEF Restart, Fresh, Abstract!Reload
  <2> QED
    BY <2>1 DEF Abstract!Next
<1>10. CASE UNCHANGED kv
  BY <1>10 DEF Abstract!vars
<1> QED
  BY <1>1, <1>2, <1>3, <1>4, <1>5, <1>6, <1>7, <1>8, <1>9, <1>10 DEF Next, Save

\* The store implements DurableMap, whatever the file system does and whenever the
\* process ends.
THEOREM Refinement == Spec => RefinesDurableMap
<1>1. Spec => Abstract!Init /\ [][Abstract!Next]_(Abstract!vars)
  BY InitRefines, StepRefines, Invariance, PTL DEF Spec
<1> QED
  BY <1>1 DEF RefinesDurableMap, Abstract!Spec
=============================================================================
