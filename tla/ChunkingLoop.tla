---------------------------- MODULE ChunkingLoop ----------------------------
(***************************************************************************)
(* The loop of chunking_by_token_size over one document, for every size    *)
(* that set_chunk_params lets through, which is every int:                 *)
(*   for (start = 0; start < n; start += max - overlap)                    *)
(* (include/nano_graphrag/operations/chunking/default.hpp:68-87).  Nothing *)
(* in the code checks 0 <= max or overlap < max.  With overlap = max the   *)
(* loop appends the same window until memory runs out; with overlap > max  *)
(* the second round reads before tokens.begin(), which is undefined: the   *)
(* process dies or the round yields garbage and the loop goes on; with     *)
(* max < 0 the window ends before it begins and std::vector throws.  With  *)
(* overlap < 0 the loop ends, and skips tokens between its windows.  Sums  *)
(* beyond the width of int are left out.                                   *)
(***************************************************************************)
EXTENDS Chunking

CONSTANTS
  Lengths,     \* document lengths, in tokens
  MaxSizes,    \* values of max_token_size
  Overlaps,    \* values of overlap_token_size
  MaxWindows   \* how many windows memory holds before push_back throws

ASSUME LoopAssumption == /\ Lengths \subseteq Nat
                         /\ MaxSizes \subseteq Int
                         /\ Overlaps \subseteq Int
                         /\ MaxWindows \in Nat
                         /\ \A n \in Lengths : n < MaxWindows

VARIABLES
  n, max, overlap,  \* tokens.size(), max_token_size, overlap_token_size
  start,            \* the loop variable
  windows,          \* chunk_token, starts and lengths, one entry per round
  pc                \* "loop", "done", or "dead" (an exception, or the process is gone)

vars == <<n, max, overlap, start, windows, pc>>
params == <<n, max, overlap>>

Window == [start : Int, len : Int]
Valid == Fits(max, overlap)

TypeOK == /\ n \in Lengths /\ max \in MaxSizes /\ overlap \in Overlaps
          /\ start \in Int
          /\ windows \in Seq(Window)
          /\ Valid => start \in Nat /\ \A i \in DOMAIN windows : windows[i].len \in Smaller(1, max)..max
          /\ pc \in {"loop", "done", "dead"}

Init == /\ n \in Lengths /\ max \in MaxSizes /\ overlap \in Overlaps
        /\ start = 0
        /\ windows = <<>>
        /\ pc = "loop"

\* Mutants of Round: the step forgets the overlap, is off by one, is at least 1.
RoundBy(step) ==
  /\ pc = "loop"
  /\ start < n
  /\ max >= 0 /\ Len(windows) < MaxWindows
  /\ windows' = Append(windows, [start |-> start, len |-> Smaller(max, n - start)])
  /\ start' = start + step
  /\ UNCHANGED <<params, pc>>
RoundWithoutOverlap == RoundBy(max)
RoundShort == RoundBy(max - overlap - 1)
RoundAtLeastOne == RoundBy(IF Valid THEN max - overlap ELSE 1)

\* One round: append the window at start, advance.
Round ==
  /\ pc = "loop"
  /\ start < n
  /\ max >= 0 /\ Len(windows) < MaxWindows
  /\ windows' = Append(windows, [start |-> start, len |-> Smaller(max, n - start)])
  /\ start' = start + (max - overlap)
  /\ UNCHANGED <<params, pc>>

\* Mutants of Leave: no more than the overlap is left, at all or after a window.
LeaveOverlap ==
  /\ pc = "loop" /\ start + overlap >= n
  /\ pc' = "done" /\ UNCHANGED <<params, start, windows>>
LeaveCovered == Len(windows) > 0 /\ LeaveOverlap

\* The loop condition fails.
Leave ==
  /\ pc = "loop"
  /\ start >= n
  /\ pc' = "done"
  /\ UNCHANGED <<params, start, windows>>

\* push_back throws std::bad_alloc, the constructor of sub throws
\* std::length_error, or a round that reads at a negative start faults.
Die ==
  /\ pc = "loop"
  /\ start < n
  /\ Len(windows) = MaxWindows \/ max < 0 \/ (start < 0 /\ max > 0)
  /\ pc' = "dead"
  /\ UNCHANGED <<params, start, windows>>

Next == Round \/ Leave \/ Die

Spec == Init /\ [][Next]_vars

\* The loop runs in the thread that called insert() and nothing blocks it.
FairSpec == Spec /\ WF_vars(Next)
-----------------------------------------------------------------------------
Covers(w, t) == w.start <= t /\ t < w.start + w.len

\* When the loop ends a token of the document is in some window, whatever the
\* sizes, unless the overlap is negative and the token lies between two windows:
\* then it is in no chunk (default.hpp:73-80).
NoTokenLost ==
  pc = "done" => \A t \in 0..(n - 1) :
    (\E i \in DOMAIN windows : Covers(windows[i], t))
      <=> (overlap >= 0 \/ t % (max - overlap) < max)

\* Consecutive windows share exactly overlap tokens (a gap when it is negative), or
\* all of the later window when it is shorter than that (default.hpp:73,78 and the sliding window of
\* docs/operations_chunking.md:18).
OverlapExact ==
  Valid => \A i \in 1..(Len(windows) - 1) :
    windows[i].start + windows[i].len - windows[i + 1].start
      = Smaller(overlap, windows[i + 1].len)

\* The loop computes the closed form the other modules use (default.hpp:70-80).
ClosedForm == (pc = "done" /\ Valid) => windows = Windows(n, max, overlap)

\* Sizes with max < 0 or overlap >= max never chunk a non-empty document
\* (default.hpp:73, GraphRAG.hpp:99-108 accepts them).
NoProgressNoEnd == (~Valid /\ n > 0) => pc # "done"

\* Sizes with 0 <= max and overlap < max always end, and not by dying (default.hpp:73).
Terminates == Valid ~> (pc = "done")
=============================================================================
