----------------------------- MODULE DurableMap -----------------------------
(***************************************************************************)
(* What a client of a JSON key-value store may rely on, whatever happens   *)
(* to the process and to the file: a map in memory, a copy on disk, and    *)
(* only whole maps ever pass between the two.  A restart finds either the  *)
(* complete map of some earlier moment or nothing at all, never one half   *)
(* of a batch, and never a value that was not in memory before.            *)
(***************************************************************************)
CONSTANTS Key, Value, Absent

VARIABLES mem,   \* the map the process works on
          disk,  \* the map a restart would find
          up     \* is the process running

vars == <<mem, disk, up>>

Map == [Key -> Value \cup {Absent}]
Nothing == [k \in Key |-> Absent]

Init == mem = Nothing /\ disk = Nothing /\ up = TRUE

Update(batch) ==
  /\ up
  /\ mem' = [k \in Key |-> IF batch[k] = Absent THEN mem[k] ELSE batch[k]]
  /\ UNCHANGED <<disk, up>>

Clear == up /\ mem' = Nothing /\ UNCHANGED <<disk, up>>

\* The whole map reaches the disk at once ...
Sync == up /\ disk' = mem /\ UNCHANGED <<mem, up>>

\* ... or the copy on disk is lost as a whole.
Lose == up /\ disk' = Nothing /\ UNCHANGED <<mem, up>>

Stop == up /\ up' = FALSE /\ mem' = Nothing /\ UNCHANGED disk

Reload == ~up /\ up' = TRUE /\ mem' = disk /\ UNCHANGED disk

Next == (\E batch \in Map : Update(batch)) \/ Clear \/ Sync \/ Lose \/ Stop \/ Reload

Spec == Init /\ [][Next]_vars
=============================================================================
