--------------------------- MODULE MCTextChunking ---------------------------
(***************************************************************************)
(* Every text of up to 5 characters of one letter, a space and a line end, *)
(* and texts of 6 to 9 different words, one of them in two paragraphs.     *)
(* Window sizes -1 to 4 and overlaps -2 to 5, which includes overlap = max *)
(* and overlap > max, windows of no token, gaps between windows, and       *)
(* lengths that are a multiple of the step and one off it.                 *)
(***************************************************************************)
EXTENDS TextChunking

MCLetters == <<"a", "b", "c", "d", "e", "f", "g", "h", "i">>
MCLong(k, gap) == FlattenSeq([j \in 1..k |-> IF j = 4 THEN gap \o <<MCLetters[j]>>
                                              ELSE <<"\t", MCLetters[j]>>])
MCCorpora == UNION {[1..k -> {"a", " ", "\n"}] : k \in 0..5}
               \cup {MCLong(k, <<" ">>) : k \in 6..9} \cup {MCLong(9, <<"\n", "\n">>)}
MCLengths == 0..9
MCMaxSizes == -1..4
MCOverlaps == -2..5
MCMaxWindows == 10
=============================================================================
