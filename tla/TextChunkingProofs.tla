------------------------- MODULE TextChunkingProofs -------------------------
(***************************************************************************)
(* The chunking loop for every document length and every sizes, and what   *)
(* becomes of the words of a corpus on the way to its chunks, for every    *)
(* corpus.  The loops over characters, lines and words are recursive       *)
(* functions of the module; each is first shown to take one step more on a *)
(* sequence that is longer by one element (WordLoopOK and the others), and *)
(* what it computes is then proved by SeqGrows of Induction.               *)
(***************************************************************************)
EXTENDS TextChunking, Induction

\* Each window is where the loop was, cut at the end of the document, and the
\* loop variable is one step beyond the last one.
Stepping ==
  /\ windows = <<>> => start = 0
  /\ windows # <<>> => start = windows[Len(windows)].start + (max - overlap)
  /\ \A i \in 1..(Len(windows) - 1) :
       windows[i + 1].start = windows[i].start + (max - overlap)
Cut == \A i \in DOMAIN windows :
         windows[i].start < n /\ windows[i].len = Smaller(max, n - windows[i].start)

\* When the sizes are legal, every token before the loop variable is covered but
\* those that a negative overlap skips, and every window is a step behind the
\* loop variable; otherwise the loop variable never passes 0.
CoveredSoFar ==
  Valid => \A t \in 0..(n - 1) : t < start =>
    ((\E i \in DOMAIN windows : Covers(windows[i], t)) <=> t % (max - overlap) < max)
Behind == Valid => \A i \in DOMAIN windows : windows[i].start + (max - overlap) <= start
NoProgress == ~Valid => start <= 0

DoneBeyond == pc = "done" => start >= n

\* Where the rounds are, counted from the first.
Position ==
  /\ start = Len(windows) * (max - overlap)
  /\ \A i \in DOMAIN windows : windows[i].start = (i - 1) * (max - overlap)

IInv == Position /\ TypeOK /\ Stepping /\ Cut /\ CoveredSoFar /\ Behind
        /\ NoProgress /\ DoneBeyond

LEMMA SmallerOK ==
  ASSUME NEW a \in Int, NEW b \in Int
  PROVE  Smaller(a, b) \in Int /\ Smaller(a, b) <= a /\ Smaller(a, b) <= b
         /\ (Smaller(a, b) = a \/ Smaller(a, b) = b)
  BY DEF Smaller

LEMMA NextMultiple ==
  ASSUME NEW k \in Int, NEW s \in Int
  PROVE  k * s + s = (k + 1) * s
  OBVIOUS

LEMMA Quotient ==
  ASSUME NEW a \in Int, NEW b \in Nat \ {0}, NEW q \in Int, q * b <= a, a < (q + 1) * b
  PROVE  a \div b = q
  OBVIOUS

LEMMA Remainder ==
  ASSUME NEW a \in Nat, NEW b \in Nat \ {0}, NEW q \in Int, q * b <= a, a < q * b + b
  PROVE  a % b = a - q * b
<1> DEFINE m == q * b
<1>1. a \div b = q
  <2>1. q * b + b = (q + 1) * b
    BY NextMultiple
  <2> QED
    BY <2>1, Quotient
<1>2. a = b * (a \div b) + (a % b)
  OBVIOUS
<1>3. b * q = q * b /\ q * b \in Int /\ a % b \in Int
  OBVIOUS
<1> QED
  BY <1>1, <1>2, <1>3

LEMMA ParamsOK ==
  TypeOK => /\ n \in Nat /\ max \in Int /\ overlap \in Int /\ start \in Int
            /\ Valid => max \in Nat /\ max - overlap \in Nat \ {0}
  BY LoopAssumption DEF TypeOK, Valid, Fits

LEMMA InitIInv == Init => IInv
<1> SUFFICES ASSUME Init PROVE IInv
  OBVIOUS
<1>1. n \in Nat /\ max \in Int /\ overlap \in Int /\ start = 0 /\ windows = <<>> /\ pc = "loop"
  BY LoopAssumption DEF Init
<1>2. TypeOK
  BY <1>1 DEF Init, TypeOK
<1> QED
  BY <1>1, <1>2 DEF IInv, Position, Stepping, Cut, CoveredSoFar, Behind, NoProgress, DoneBeyond

\* The only step that changes anything but pc.
LEMMA RoundIInv == IInv /\ Round => IInv'
<1> SUFFICES ASSUME IInv, Round PROVE IInv'
  OBVIOUS
<1> DEFINE new == [start |-> start, len |-> Smaller(max, n - start)]
<1>1. /\ n \in Nat /\ max \in Int /\ overlap \in Int /\ start \in Int
      /\ windows \in Seq(Window)
      /\ Valid => max \in Nat /\ max - overlap \in Nat \ {0}
  BY ParamsOK DEF IInv, TypeOK
<1>2. /\ max >= 0 /\ n' = n /\ max' = max /\ overlap' = overlap /\ pc' = pc /\ pc = "loop"
      /\ start < n /\ start' = start + (max - overlap)
      /\ windows' = Append(windows, new)
  BY DEF Round, params
<1>3. /\ new \in Window /\ new.start = start /\ new.len = Smaller(max, n - start)
      /\ new.len \in Int /\ new.len <= max /\ new.len <= n - start
      /\ (new.len = max \/ new.len = n - start)
  <2>1. max \in Int /\ n - start \in Int
    BY <1>1
  <2>2. /\ Smaller(max, n - start) \in Int /\ Smaller(max, n - start) <= max
        /\ Smaller(max, n - start) <= n - start
        /\ (Smaller(max, n - start) = max \/ Smaller(max, n - start) = n - start)
    BY <2>1, SmallerOK
  <2> QED
    BY <1>1, <2>2 DEF Window
<1> HIDE DEF new
<1>4. /\ windows' \in Seq(Window) /\ Len(windows') = Len(windows) + 1
      /\ Len(windows) \in Nat
      /\ DOMAIN windows = 1..Len(windows) /\ DOMAIN windows' = 1..(Len(windows) + 1)
      /\ \A i \in 1..Len(windows) : windows'[i] = windows[i]
      /\ windows'[Len(windows) + 1] = new
  BY <1>1, <1>2, <1>3
<1>5. Valid' <=> Valid
  BY <1>2 DEF Valid
<1>6. TypeOK'
  <2>1. ASSUME Valid
        PROVE  start' \in Nat /\ \A i \in DOMAIN windows' : windows'[i].len \in Smaller(1, max)..max
    <3>1. start \in Nat /\ \A i \in DOMAIN windows : windows[i].len \in Smaller(1, max)..max
      BY <2>1 DEF IInv, TypeOK
    <3>2. new.len \in Smaller(1, max)..max
      BY <1>1, <1>2, <1>3 DEF Smaller
    <3>3. start' \in Nat
      BY <1>1, <1>2, <2>1, <3>1
    <3> QED
      BY <1>4, <3>1, <3>2, <3>3
  <2>2. start' \in Int
    BY <1>1, <1>2
  <2>3. n' \in Lengths /\ max' \in MaxSizes /\ overlap' \in Overlaps /\ pc' \in {"loop", "done", "dead"}
    BY <1>2 DEF IInv, TypeOK
  <2> QED
    BY <1>2, <1>4, <1>5, <2>1, <2>2, <2>3 DEF TypeOK
<1>7. Stepping'
  <2>1. windows' # <<>> /\ start' = windows'[Len(windows')].start + (max - overlap)
    BY <1>1, <1>2, <1>3, <1>4
  <2>2. ASSUME NEW i \in 1..Len(windows)
        PROVE  windows'[i + 1].start = windows'[i].start + (max - overlap)
    <3>1. CASE i = Len(windows)
      <4>1. windows # <<>> /\ start = windows[i].start + (max - overlap)
        BY <1>4, <3>1 DEF IInv, Stepping
      <4> QED
        BY <1>3, <1>4, <3>1, <4>1
    <3>2. CASE i # Len(windows)
      <4>0. Len(windows) \in Nat
        BY <1>4
      <4>1. i \in 1..(Len(windows) - 1) /\ i + 1 \in 1..Len(windows)
        BY <3>2, <4>0
      <4>2. windows[i + 1].start = windows[i].start + (max - overlap)
        BY <4>1 DEF IInv, Stepping
      <4> QED
        BY <1>4, <4>1, <4>2
    <3> QED
      BY <3>1, <3>2
  <2>3. Len(windows') - 1 = Len(windows)
    BY <1>4
  <2> QED
    BY <1>2, <2>1, <2>2, <2>3 DEF Stepping
<1>8. Cut'
  BY <1>2, <1>3, <1>4 DEF IInv, Cut
<1>9. CoveredSoFar'
  <2> DEFINE step == max - overlap
  <2> SUFFICES ASSUME Valid, NEW t \in 0..(n - 1), t < start'
               PROVE  (\E i \in DOMAIN windows' : Covers(windows'[i], t)) <=> t % step < max
    BY <1>2, <1>5 DEF CoveredSoFar, Covers
  <2>1. step \in Nat \ {0} /\ max \in Nat /\ t \in Nat /\ start' = start + step
    BY <1>1, <1>2
  <2>2. (\E i \in DOMAIN windows' : Covers(windows'[i], t))
          <=> (\E i \in DOMAIN windows : Covers(windows[i], t)) \/ Covers(new, t)
    BY <1>4 DEF Covers
  <2>3. CASE t < start
    <3>1. ~Covers(new, t)
      BY <1>1, <1>3, <2>1, <2>3 DEF Covers
    <3> QED
      BY <2>2, <2>3, <3>1 DEF IInv, CoveredSoFar
  <2>4. CASE start <= t
    <3>1. t % step = t - start
      <4>1. start = Len(windows) * step
        BY DEF IInv, Position
      <4>2. Len(windows) * step <= t /\ t < Len(windows) * step + step /\ Len(windows) \in Int
        BY <1>4, <2>1, <2>4, <4>1
      <4> HIDE DEF step
      <4> QED
        BY <2>1, <4>1, <4>2, Remainder
    <3>2. Covers(new, t) <=> t - start < max
      BY <1>1, <1>3, <2>1, <2>4 DEF Covers
    <3>3. ASSUME NEW i \in DOMAIN windows, Covers(windows[i], t) PROVE t - start < max
      <4>1. windows[i] \in Window /\ windows[i].start + step <= start
        BY <1>1, <3>3 DEF IInv, Behind
      <4>2. windows[i].len = Smaller(max, n - windows[i].start)
        BY <3>3 DEF IInv, Cut
      <4>3. /\ windows[i].start \in Int /\ windows[i].len \in Int
            /\ windows[i].len <= max /\ t < windows[i].start + windows[i].len
        BY <1>1, <3>3, <4>1, <4>2, SmallerOK DEF Covers, Window
      <4> QED
        BY <1>1, <2>1, <4>1, <4>3
    <3> QED
      BY <2>2, <3>1, <3>2, <3>3
  <2> QED
    BY <1>1, <2>1, <2>3, <2>4
<1>12. Behind'
  <2> SUFFICES ASSUME Valid, NEW i \in DOMAIN windows'
               PROVE  windows'[i].start + (max - overlap) <= start'
    BY <1>2, <1>5 DEF Behind
  <2>1. CASE i = Len(windows) + 1
    BY <1>1, <1>2, <1>3, <1>4, <2>1
  <2>2. CASE i # Len(windows) + 1
    <3>1. i \in DOMAIN windows /\ windows'[i] = windows[i] /\ windows[i] \in Window
      BY <1>1, <1>4, <2>2
    <3>2. windows[i].start + (max - overlap) <= start /\ windows[i].start \in Int
      BY <3>1 DEF IInv, Behind, Window
    <3> QED
      BY <1>1, <1>2, <3>1, <3>2
  <2> QED
    BY <2>1, <2>2
<1>10. Position'
  <2>1. max - overlap \in Int
    BY <1>1
  <2>2. start = Len(windows) * (max - overlap)
    BY DEF IInv, Position
  <2>3. start + (max - overlap) = (Len(windows) + 1) * (max - overlap)
    BY <1>4, <2>1, <2>2, NextMultiple
  <2>4. \A i \in 1..Len(windows) : windows'[i].start = (i - 1) * (max - overlap)
    BY <1>4 DEF IInv, Position
  <2>5. windows'[Len(windows) + 1].start = ((Len(windows) + 1) - 1) * (max - overlap)
    BY <1>3, <1>4, <2>2
  <2>6. \A i \in DOMAIN windows' : i \in 1..Len(windows) \/ i = Len(windows) + 1
    BY <1>4
  <2>7. \A i \in DOMAIN windows' : windows'[i].start = (i - 1) * (max - overlap)
    BY <2>4, <2>5, <2>6
  <2> QED
    BY <1>2, <1>4, <2>3, <2>7 DEF Position
<1>11. NoProgress'
  BY <1>1, <1>2, <1>5 DEF IInv, NoProgress, Valid, Fits
<1> QED
  BY <1>2, <1>6, <1>7, <1>8, <1>9, <1>10, <1>11, <1>12 DEF IInv, DoneBeyond

LEMMA NextIInv == IInv /\ [Next]_vars => IInv'
<1> SUFFICES ASSUME IInv, [Next]_vars PROVE IInv'
  OBVIOUS
<1>1. CASE Round
  BY <1>1, RoundIInv
<1>2. CASE Leave
  BY <1>2 DEF Leave, params, IInv, Position, TypeOK, Stepping, Cut, CoveredSoFar, Behind,
              NoProgress, DoneBeyond, Valid, Covers
<1>3. CASE Die
  BY <1>3 DEF Die, params, IInv, Position, TypeOK, Stepping, Cut, CoveredSoFar, Behind,
              NoProgress, DoneBeyond, Valid, Covers
<1>4. CASE UNCHANGED vars
  BY <1>4 DEF vars, IInv, Position, TypeOK, Stepping, Cut, CoveredSoFar, Behind,
              NoProgress, DoneBeyond, Valid, Covers
<1> QED
  BY <1>1, <1>2, <1>3, <1>4 DEF Next

LEMMA Invariance == Spec => []IInv
  BY InitIInv, NextIInv, PTL DEF Spec

\* Types, and windows of at most max tokens, none of them empty unless max = 0,
\* when the sizes are legal.
THEOREM TypeCorrect == Spec => []TypeOK
<1>1. IInv => TypeOK
  BY DEF IInv
<1> QED
  BY <1>1, Invariance, PTL

\* When the loop has ended the tokens outside all windows are those that a negative
\* overlap skips (default.hpp:73-80).
THEOREM NothingLost == Spec => []NoTokenLost
<1>1. IInv => NoTokenLost
  <2> SUFFICES ASSUME IInv, pc = "done", NEW t \in 0..(n - 1)
               PROVE  (\E i \in DOMAIN windows : Covers(windows[i], t))
                        <=> (overlap >= 0 \/ t % (max - overlap) < max)
    BY DEF NoTokenLost
  <2>1. n \in Nat /\ start \in Int /\ start >= n /\ max \in Int /\ overlap \in Int
    BY ParamsOK DEF IInv, DoneBeyond
  <2>2. Valid
    BY <2>1 DEF IInv, NoProgress
  <2>3. max - overlap \in Nat \ {0}
    BY <2>2, ParamsOK DEF IInv
  <2>4. (\E i \in DOMAIN windows : Covers(windows[i], t)) <=> t % (max - overlap) < max
    BY <2>1, <2>2 DEF IInv, CoveredSoFar
  <2>5. overlap >= 0 => t % (max - overlap) < max
    <3>1. t % (max - overlap) \in 0..(max - overlap - 1)
      BY <2>3
    <3> QED
      BY <2>1, <2>3, <3>1
  <2> QED
    BY <2>4, <2>5
<1> QED
  BY <1>1, Invariance, PTL

\* Neighbouring windows share the overlap and nothing else (default.hpp:73,78).
THEOREM Overlapping == Spec => []OverlapExact
<1>1. IInv => OverlapExact
  <2> SUFFICES ASSUME IInv, Valid, NEW i \in 1..(Len(windows) - 1)
               PROVE  windows[i].start + windows[i].len - windows[i + 1].start
                        = Smaller(overlap, windows[i + 1].len)
    BY DEF OverlapExact
  <2>1. n \in Nat /\ max \in Int /\ overlap \in Int /\ windows \in Seq(Window)
    BY ParamsOK DEF IInv, TypeOK
  <2>2. i \in DOMAIN windows /\ i + 1 \in DOMAIN windows
    BY <2>1
  <2>3. windows[i].start \in Int /\ windows[i + 1].start \in Int
    <3>1. \A j \in DOMAIN windows : windows[j] \in Window
      BY <2>1
    <3>2. windows[i] \in Window /\ windows[i + 1] \in Window
      BY <2>2, <3>1
    <3> QED
      BY <3>2 DEF Window
  <2>4. /\ windows[i + 1].start = windows[i].start + (max - overlap)
        /\ windows[i + 1].start < n
        /\ windows[i].len = Smaller(max, n - windows[i].start)
        /\ windows[i + 1].len = Smaller(max, n - windows[i + 1].start)
    BY <2>2 DEF IInv, Stepping, Cut
  <2> DEFINE a == windows[i].start
             b == windows[i + 1].start
  <2>5. Smaller(max, n - a) + a - b = Smaller(overlap, Smaller(max, n - b))
    <3>1. a \in Int /\ b \in Int /\ b = a + (max - overlap) /\ b < n
      BY <2>3, <2>4
    <3> HIDE DEF a, b
    <3> QED
      BY <2>1, <3>1 DEF Smaller, Valid, Fits
  <2>6. Smaller(max, n - a) \in Int
    BY <2>1, <2>3 DEF Smaller
  <2> QED
    BY <2>3, <2>4, <2>5, <2>6
<1> QED
  BY <1>1, Invariance, PTL

\* Sizes with max < 0 or overlap >= max never finish a non-empty document (default.hpp:73).
THEOREM NeverDone == Spec => []NoProgressNoEnd
<1>1. IInv => NoProgressNoEnd
  BY ParamsOK DEF IInv, NoProgress, DoneBeyond, NoProgressNoEnd
<1> QED
  BY <1>1, Invariance, PTL

\* The loop computes the closed form that GraphRAG's model of get_chunks uses
\* (default.hpp:70-80).
THEOREM LoopIsClosedForm == Spec => []ClosedForm
<1>1. IInv => ClosedForm
  <2> SUFFICES ASSUME IInv, pc = "done", Valid PROVE windows = Windows(n, max, overlap)
    BY DEF ClosedForm
  <2> DEFINE step == max - overlap
             size == Len(windows)
  <2>1. /\ n \in Nat /\ max \in Int /\ overlap \in Int /\ start \in Int
        /\ windows \in Seq(Window)
    BY ParamsOK DEF IInv, TypeOK
  <2>2. step \in Nat \ {0} /\ size \in Nat /\ DOMAIN windows = 1..size
    BY <2>1, ParamsOK DEF IInv
  <2>3. start = size * step /\ start >= n
    BY <2>1 DEF IInv, Position, DoneBeyond
  <2>4. \A i \in 1..size : /\ windows[i] \in Window /\ windows[i].start = (i - 1) * step
                           /\ windows[i].start < n
                           /\ windows[i].len = Smaller(max, n - windows[i].start)
    BY <2>1, <2>2 DEF IInv, Position, Cut
  <2> HIDE DEF step, size
  <2>5. (size - 1) * step < n \/ (n = 0 /\ size = 0)
    <3>1. CASE size = 0
      BY <2>1, <2>2, <2>3, <3>1
    <3>2. CASE size # 0
      <4>1. size \in 1..size
        BY <2>2, <3>2
      <4> QED
        BY <2>4, <4>1
    <3> QED
      BY <3>1, <3>2
  <2>6. (n + step - 1) \div step = size
    <3>1. (size - 1) * step + step = size * step /\ size * step + step = (size + 1) * step
      <4>1. size - 1 \in Int /\ step \in Int /\ size \in Int /\ (size - 1) + 1 = size
        BY <2>2
      <4> QED
        BY <4>1, NextMultiple
    <3>2. /\ size * step \in Int /\ (size - 1) * step \in Int /\ (size + 1) * step \in Int
          /\ n + step - 1 \in Int
      BY <2>1, <2>2
    <3>3. size * step <= n + step - 1
      BY <2>1, <2>2, <2>5, <3>1, <3>2
    <3>4. n + step - 1 < (size + 1) * step
      BY <2>1, <2>2, <2>3, <3>1, <3>2
    <3> QED
      BY <2>2, <3>2, <3>3, <3>4, Quotient
  <2>7. Windows(n, max, overlap)
          = [i \in 1..size |-> [start |-> (i - 1) * step, len |-> Smaller(max, n - (i - 1) * step)]]
    BY <2>6 DEF Windows, NumWindows, step
  <2>8. \A i \in 1..size :
          windows[i] = [start |-> (i - 1) * step, len |-> Smaller(max, n - (i - 1) * step)]
    BY <2>4 DEF Window
  <2>9. windows = [i \in 1..size |-> windows[i]]
    BY <2>1, <2>2
  <2> QED
    BY <2>7, <2>8, <2>9
<1> QED
  BY <1>1, Invariance, PTL
-----------------------------------------------------------------------------
\* What the loops over the characters of a text do with one more of them.
Char == STRING \cup Separator
Letter == Char \ Separator
Word == Seq(Letter) \ {<<>>}
WordState == [words : Seq(Word), current : Seq(Letter)]
NoWords == [words |-> <<>>, current |-> <<>>]

LEMMA PushOK ==
  ASSUME NEW S, NEW seq \in Seq(S), NEW x, x = <<>> \/ x \in S
  PROVE  Push(seq, x) \in Seq(S)
  BY DEF Push

LEMMA WordLoopOK ==
  /\ WordLoop(<<>>) = NoWords
  /\ \A t \in Seq(Char) : WordLoop(t) \in WordState
  /\ \A t \in Seq(Char), c \in Char : WordLoop(Append(t, c)) = WordChar(WordLoop(t), c)
<1> DEFINE step == [p \in WordState \X Char |-> WordChar(p[1], p[2])]
<1>1. NoWords \in WordState
  BY DEF NoWords, WordState
<1>2. ASSUME NEW s \in WordState, NEW c \in Char PROVE WordChar(s, c) \in WordState
  <2>1. CASE c \in Separator
    <3>1. Push(s.words, s.current) \in Seq(Word)
      <4>1. s.words \in Seq(Word) /\ (s.current = <<>> \/ s.current \in Word)
        BY DEF WordState, Word
      <4> QED
        BY <4>1, PushOK
    <3> QED
      BY <2>1, <3>1 DEF WordChar, WordState
  <2>2. CASE c \notin Separator
    <3>1. c \in Letter /\ s.words \in Seq(Word) /\ s.current \in Seq(Letter)
      BY <2>2 DEF Letter, WordState
    <3>2. Append(s.current, c) \in Seq(Letter)
      BY <3>1
    <3> QED
      BY <2>2, <3>1, <3>2 DEF WordChar, WordState
  <2> QED
    BY <2>1, <2>2
<1>3. step \in [WordState \X Char -> WordState]
  BY <1>2
<1>4. \A s \in WordState, c \in Char : step[<<s, c>>] = WordChar(s, c)
  OBVIOUS
<1> HIDE DEF step
<1>5. PICK F : IsLoop(F, WordState, Char, NoWords, step)
  BY <1>1, <1>3, Loop, Zenon
<1>6. ASSUME NEW t \in Seq(Char) PROVE WordLoop(t) = F[t]
  <2> DEFINE body(h) == [i \in 0..Len(t) |-> IF i = 0 THEN [words |-> <<>>, current |-> <<>>]
                                             ELSE WordChar(h[i - 1], t[i])]
             after == CHOOSE h : h = body(h)
  <2>1. PICK f \in [0..Len(t) -> WordState] :
          f[0] = NoWords /\ \A i \in 1..Len(t) : f[i] = step[<<f[i - 1], t[i]>>]
    BY <1>5 DEF IsLoop
  <2>2. \A i \in 1..Len(t) : f[i] = WordChar(f[i - 1], t[i])
    BY <1>4, <2>1
  <2>3. f = body(f)
    BY <2>1, <2>2 DEF NoWords
  <2>4. after = body(after)
    <3> HIDE DEF body
    <3> QED
      BY <2>3
  <2>5. WordLoop(t) = after[Len(t)]
    BY DEF WordLoop
  <2> HIDE DEF after
  <2>6. after[0] = NoWords /\ \A i \in 1..Len(t) : after[i] = WordChar(after[i - 1], t[i])
    BY <2>4 DEF NoWords
  <2>7. \A i \in 1..Len(t) : after[i - 1] \in WordState => after[i] = step[<<after[i - 1], t[i]>>]
    BY <1>4, <2>6
  <2> QED
    BY <1>5, <2>5, <2>6, <2>7 DEF IsLoop
<1>7. /\ F \in [Seq(Char) -> WordState] /\ F[<<>>] = NoWords
      /\ \A t \in Seq(Char), c \in Char : F[Append(t, c)] = step[<<F[t], c>>]
  BY <1>5 DEF IsLoop
<1>8. WordLoop(<<>>) = NoWords
  <2>1. <<>> \in Seq(Char)
    OBVIOUS
  <2> QED
    BY <1>6, <1>7, <2>1
<1>9. \A t \in Seq(Char) : WordLoop(t) \in WordState
  BY <1>6, <1>7
<1>10. ASSUME NEW t \in Seq(Char), NEW c \in Char
       PROVE  WordLoop(Append(t, c)) = WordChar(WordLoop(t), c)
  <2>1. Append(t, c) \in Seq(Char)
    OBVIOUS
  <2>2. F[t] \in WordState /\ F[Append(t, c)] = step[<<F[t], c>>]
    BY <1>7
  <2> QED
    BY <1>4, <1>6, <2>1, <2>2
<1> QED
  BY <1>8, <1>9, <1>10
EncodeState == [in_word : BOOLEAN, tokens : Nat]
NotInWord == [in_word |-> FALSE, tokens |-> 0]

LEMMA EncodeLoopOK ==
  /\ EncodeLoop(<<>>) = NotInWord
  /\ \A t \in Seq(Char) : EncodeLoop(t) \in EncodeState
  /\ \A t \in Seq(Char), c \in Char : EncodeLoop(Append(t, c)) = EncodeChar(EncodeLoop(t), c)
<1> DEFINE step == [p \in EncodeState \X Char |-> EncodeChar(p[1], p[2])]
<1>1. NotInWord \in EncodeState
  BY DEF EncodeState, NotInWord
<1>2. ASSUME NEW s \in EncodeState, NEW c \in Char PROVE EncodeChar(s, c) \in EncodeState
  <2>1. s = [in_word |-> s.in_word, tokens |-> s.tokens] /\ s.in_word \in BOOLEAN /\ s.tokens \in Nat
    BY DEF EncodeState
  <2>2. CASE c \notin Separator
    <3>1. EncodeChar(s, c) = [in_word |-> TRUE, tokens |-> s.tokens]
      BY <2>1, <2>2 DEF EncodeChar
    <3> QED
      BY <2>1, <3>1 DEF EncodeState
  <2>3. CASE c \in Separator
    <3> DEFINE k == IF s.in_word THEN s.tokens + 1 ELSE s.tokens
    <3>1. k \in Nat
      BY <2>1
    <3>2. EncodeChar(s, c) = [in_word |-> FALSE, tokens |-> k]
      BY <2>3 DEF EncodeChar
    <3> HIDE DEF k
    <3> QED
      BY <3>1, <3>2 DEF EncodeState
  <2> QED
    BY <2>2, <2>3
<1>3. step \in [EncodeState \X Char -> EncodeState]
  BY <1>2
<1>4. \A s \in EncodeState, c \in Char : step[<<s, c>>] = EncodeChar(s, c)
  OBVIOUS
<1> HIDE DEF step
<1>5. PICK F : IsLoop(F, EncodeState, Char, NotInWord, step)
  BY <1>1, <1>3, Loop, Zenon
<1>6. ASSUME NEW t \in Seq(Char) PROVE EncodeLoop(t) = F[t]
  <2> DEFINE body(h) == [i \in 0..Len(t) |-> IF i = 0 THEN NotInWord
                                             ELSE EncodeChar(h[i - 1], t[i])]
             after == CHOOSE h : h = body(h)
  <2>1. PICK f \in [0..Len(t) -> EncodeState] :
          f[0] = NotInWord /\ \A i \in 1..Len(t) : f[i] = step[<<f[i - 1], t[i]>>]
    BY <1>5 DEF IsLoop
  <2>2. \A i \in 1..Len(t) : f[i - 1] \in EncodeState /\ t[i] \in Char
    OBVIOUS
  <2>3. \A i \in 1..Len(t) : f[i] = EncodeChar(f[i - 1], t[i])
    BY <1>4, <2>1, <2>2
  <2>4. f = body(f)
    BY <2>1, <2>3
  <2>5. after = body(after)
    <3> HIDE DEF body
    <3> QED
      BY <2>4
  <2>6. EncodeLoop(t) = after[Len(t)]
    BY DEF EncodeLoop, NotInWord
  <2> HIDE DEF after
  <2>7. after[0] = NotInWord /\ \A i \in 1..Len(t) : after[i] = EncodeChar(after[i - 1], t[i])
    BY <2>5
  <2>8. \A i \in 1..Len(t) : after[i - 1] \in EncodeState => after[i] = step[<<after[i - 1], t[i]>>]
    BY <1>4, <2>2, <2>7
  <2> QED
    BY <1>5, <2>6, <2>7, <2>8 DEF IsLoop
<1>7. /\ F \in [Seq(Char) -> EncodeState] /\ F[<<>>] = NotInWord
      /\ \A t \in Seq(Char), c \in Char : F[Append(t, c)] = step[<<F[t], c>>]
  BY <1>5 DEF IsLoop
<1>8. EncodeLoop(<<>>) = NotInWord
  <2>1. <<>> \in Seq(Char)
    OBVIOUS
  <2> QED
    BY <1>6, <1>7, <2>1
<1>9. \A t \in Seq(Char) : EncodeLoop(t) \in EncodeState
  BY <1>6, <1>7
<1>10. ASSUME NEW t \in Seq(Char), NEW c \in Char
       PROVE  EncodeLoop(Append(t, c)) = EncodeChar(EncodeLoop(t), c)
  <2>1. Append(t, c) \in Seq(Char)
    OBVIOUS
  <2>2. F[t] \in EncodeState /\ F[Append(t, c)] = step[<<F[t], c>>]
    BY <1>7
  <2> QED
    BY <1>4, <1>6, <2>1, <2>2
<1> QED
  BY <1>8, <1>9, <1>10

\* The loop that puts words together.
JoinStep(text, word) == IF text = <<>> THEN word ELSE text \o <<" ">> \o word
Texts == Seq(Char)

LEMMA CharsOK ==
  /\ " " \in Char /\ "\n" \in Char /\ "\t" \in Char
  /\ Seq(Letter) \subseteq Texts /\ Word \subseteq Texts
<1>1. " " \in Char /\ "\n" \in Char /\ "\t" \in Char
  BY DEF Char, Separator
<1>2. Letter \subseteq Char
  BY DEF Letter
<1>3. ASSUME NEW t \in Seq(Letter) PROVE t \in Seq(Char)
  BY <1>2
<1> QED
  BY <1>1, <1>3 DEF Texts, Word

LEMMA JoinedOK ==
  /\ Joined(<<>>) = <<>>
  /\ \A t \in Seq(Word) : Joined(t) \in Texts
  /\ \A t \in Seq(Word), c \in Word : Joined(Append(t, c)) = JoinStep(Joined(t), c)
<1> DEFINE step == [p \in Texts \X Word |-> JoinStep(p[1], p[2])]
<1>1. <<>> \in Texts
  BY DEF Texts
<1>2. ASSUME NEW s \in Texts, NEW c \in Word PROVE JoinStep(s, c) \in Texts
  <2>1. s \in Seq(Char) /\ c \in Seq(Char) /\ " " \in Char
    <3>1. c \in Texts
      BY CharsOK
    <3> QED
      BY <3>1, CharsOK DEF Texts
  <2>2. s \o <<" ">> \o c \in Seq(Char)
    <3> DEFINE u == s \o <<" ">>
    <3>1. <<" ">> \in Seq(Char)
      <4>1. \A x \in Char : <<x>> \in Seq(Char)
        OBVIOUS
      <4> QED
        BY <2>1, <4>1
    <3>2. u \in Seq(Char)
      BY <2>1, <3>1, ConcatProperties
    <3> HIDE DEF u
    <3>3. u \o c \in Seq(Char)
      BY <2>1, <3>2, ConcatProperties
    <3> QED
      BY <3>3 DEF u
  <2> QED
    BY <2>1, <2>2 DEF JoinStep, Texts
<1>3. step \in [Texts \X Word -> Texts]
  BY <1>2
<1>4. \A s \in Texts, c \in Word : step[<<s, c>>] = JoinStep(s, c)
  OBVIOUS
<1> HIDE DEF step
<1>5. PICK F : IsLoop(F, Texts, Word, <<>>, step)
  BY <1>1, <1>3, Loop, Zenon
<1>6. ASSUME NEW t \in Seq(Word) PROVE Joined(t) = F[t]
  <2> DEFINE body(h) == [i \in 0..Len(t) |-> IF i = 0 THEN <<>>
                                             ELSE JoinStep(h[i - 1], t[i])]
             after == CHOOSE h : h = body(h)
  <2>1. PICK f \in [0..Len(t) -> Texts] :
          f[0] = <<>> /\ \A i \in 1..Len(t) : f[i] = step[<<f[i - 1], t[i]>>]
    BY <1>5 DEF IsLoop
  <2>2. \A i \in 1..Len(t) : f[i - 1] \in Texts /\ t[i] \in Word
    OBVIOUS
  <2>3. \A i \in 1..Len(t) : f[i] = JoinStep(f[i - 1], t[i])
    BY <1>4, <2>1, <2>2
  <2>4. f = body(f)
    BY <2>1, <2>3
  <2>5. after = body(after)
    <3> HIDE DEF body
    <3> QED
      BY <2>4
  <2>6. Joined(t) = after[Len(t)]
    BY DEF Joined, JoinStep
  <2> HIDE DEF after
  <2>7. after[0] = <<>> /\ \A i \in 1..Len(t) : after[i] = JoinStep(after[i - 1], t[i])
    BY <2>5
  <2>8. \A i \in 1..Len(t) : after[i - 1] \in Texts => after[i] = step[<<after[i - 1], t[i]>>]
    BY <1>4, <2>2, <2>7
  <2> QED
    BY <1>5, <2>6, <2>7, <2>8 DEF IsLoop
<1>7. /\ F \in [Seq(Word) -> Texts] /\ F[<<>>] = <<>>
      /\ \A t \in Seq(Word), c \in Word : F[Append(t, c)] = step[<<F[t], c>>]
  BY <1>5 DEF IsLoop
<1>8. Joined(<<>>) = <<>>
  <2>1. <<>> \in Seq(Word)
    OBVIOUS
  <2> QED
    BY <1>6, <1>7, <2>1
<1>9. \A t \in Seq(Word) : Joined(t) \in Texts
  BY <1>6, <1>7
<1>10. ASSUME NEW t \in Seq(Word), NEW c \in Word
       PROVE  Joined(Append(t, c)) = JoinStep(Joined(t), c)
  <2>1. Append(t, c) \in Seq(Word)
    OBVIOUS
  <2>2. F[t] \in Texts /\ F[Append(t, c)] = step[<<F[t], c>>]
    BY <1>7
  <2> QED
    BY <1>4, <1>6, <2>1, <2>2
<1> QED
  BY <1>8, <1>9, <1>10

\* The lines of a file and its paragraphs.
Line == Seq(Char \ {"\n"})
LineState == [lines : Seq(Line), line : Line]
NoLines == [lines |-> <<>>, line |-> <<>>]
Paragraph == Texts \ {<<>>}
ParagraphState == [docs : Seq(Paragraph), para : Texts]
NoDocs == [docs |-> <<>>, para |-> <<>>]

LEMMA LineLoopOK ==
  /\ LineLoop(<<>>) = NoLines
  /\ \A t \in Seq(Char) : LineLoop(t) \in LineState
  /\ \A t \in Seq(Char), c \in Char : LineLoop(Append(t, c)) = LineChar(LineLoop(t), c)
<1> DEFINE step == [p \in LineState \X Char |-> LineChar(p[1], p[2])]
<1>1. NoLines \in LineState
  BY DEF LineState, NoLines, Line
<1>2. ASSUME NEW s \in LineState, NEW c \in Char PROVE LineChar(s, c) \in LineState
  <2>1. s.lines \in Seq(Line) /\ s.line \in Line /\ s.line \in Seq(Char \ {"\n"})
    BY DEF LineState, Line
  <2>2. Append(s.lines, s.line) \in Seq(Line)
    BY <2>1
  <2>3. <<>> \in Line
    BY DEF Line
  <2>4. c # "\n" => Append(s.line, c) \in Line
    BY <2>1 DEF Line
  <2> QED
    BY <2>1, <2>2, <2>3, <2>4 DEF LineChar, LineState
<1>3. step \in [LineState \X Char -> LineState]
  BY <1>2
<1>4. \A s \in LineState, c \in Char : step[<<s, c>>] = LineChar(s, c)
  OBVIOUS
<1> HIDE DEF step
<1>5. PICK F : IsLoop(F, LineState, Char, NoLines, step)
  BY <1>1, <1>3, Loop, Zenon
<1>6. ASSUME NEW t \in Seq(Char) PROVE LineLoop(t) = F[t]
  <2> DEFINE body(h) == [i \in 0..Len(t) |-> IF i = 0 THEN NoLines
                                             ELSE LineChar(h[i - 1], t[i])]
             after == CHOOSE h : h = body(h)
  <2>1. PICK f \in [0..Len(t) -> LineState] :
          f[0] = NoLines /\ \A i \in 1..Len(t) : f[i] = step[<<f[i - 1], t[i]>>]
    BY <1>5 DEF IsLoop
  <2>2. \A i \in 1..Len(t) : f[i - 1] \in LineState /\ t[i] \in Char
    OBVIOUS
  <2>3. \A i \in 1..Len(t) : f[i] = LineChar(f[i - 1], t[i])
    BY <1>4, <2>1, <2>2
  <2>4. f = body(f)
    BY <2>1, <2>3
  <2>5. after = body(after)
    <3> HIDE DEF body
    <3> QED
      BY <2>4
  <2>6. LineLoop(t) = after[Len(t)]
    BY DEF LineLoop, NoLines
  <2> HIDE DEF after
  <2>7. after[0] = NoLines /\ \A i \in 1..Len(t) : after[i] = LineChar(after[i - 1], t[i])
    BY <2>5
  <2>8. \A i \in 1..Len(t) : after[i - 1] \in LineState => after[i] = step[<<after[i - 1], t[i]>>]
    BY <1>4, <2>2, <2>7
  <2> QED
    BY <1>5, <2>6, <2>7, <2>8 DEF IsLoop
<1>7. /\ F \in [Seq(Char) -> LineState] /\ F[<<>>] = NoLines
      /\ \A t \in Seq(Char), c \in Char : F[Append(t, c)] = step[<<F[t], c>>]
  BY <1>5 DEF IsLoop
<1>8. LineLoop(<<>>) = NoLines
  <2>1. <<>> \in Seq(Char)
    OBVIOUS
  <2> QED
    BY <1>6, <1>7, <2>1
<1>9. \A t \in Seq(Char) : LineLoop(t) \in LineState
  BY <1>6, <1>7
<1>10. ASSUME NEW t \in Seq(Char), NEW c \in Char
       PROVE  LineLoop(Append(t, c)) = LineChar(LineLoop(t), c)
  <2>1. Append(t, c) \in Seq(Char)
    OBVIOUS
  <2>2. F[t] \in LineState /\ F[Append(t, c)] = step[<<F[t], c>>]
    BY <1>7
  <2> QED
    BY <1>4, <1>6, <2>1, <2>2
<1> QED
  BY <1>8, <1>9, <1>10

LEMMA ParagraphLoopOK ==
  /\ ParagraphLoop(<<>>) = NoDocs
  /\ \A t \in Seq(Line) : ParagraphLoop(t) \in ParagraphState
  /\ \A t \in Seq(Line), c \in Line : ParagraphLoop(Append(t, c)) = ParagraphLine(ParagraphLoop(t), c)
<1> DEFINE step == [p \in ParagraphState \X Line |-> ParagraphLine(p[1], p[2])]
<1>1. NoDocs \in ParagraphState
  BY DEF ParagraphState, NoDocs, Paragraph, Texts
<1>2. ASSUME NEW s \in ParagraphState, NEW c \in Line PROVE ParagraphLine(s, c) \in ParagraphState
  <2>1. s.docs \in Seq(Paragraph) /\ s.para \in Texts
    BY DEF ParagraphState
  <2>2. Push(s.docs, s.para) \in Seq(Paragraph)
    BY <2>1, PushOK DEF Paragraph
  <2>3. c \in Texts
    BY DEF Texts, Line
  <2>4. (IF s.para = <<>> THEN <<>> ELSE Append(s.para, "\n")) \o c \in Texts /\ <<>> \in Texts
    <3> DEFINE u == IF s.para = <<>> THEN <<>> ELSE Append(s.para, "\n")
    <3>1. u \in Seq(Char)
      <4>1. \A x \in Char : Append(s.para, x) \in Seq(Char)
        BY <2>1 DEF Texts
      <4>2. <<>> \in Seq(Char)
        OBVIOUS
      <4>3. u = <<>> \/ u = Append(s.para, "\n")
        OBVIOUS
      <4> HIDE DEF u
      <4> QED
        BY <4>1, <4>2, <4>3, CharsOK
    <3> HIDE DEF u
    <3>2. u \o c \in Seq(Char) /\ <<>> \in Seq(Char)
      BY <2>3, <3>1, ConcatProperties DEF Texts
    <3> QED
      BY <3>2 DEF Texts, u
  <2> QED
    BY <2>1, <2>2, <2>4 DEF ParagraphLine, ParagraphState
<1>3. step \in [ParagraphState \X Line -> ParagraphState]
  BY <1>2
<1>4. \A s \in ParagraphState, c \in Line : step[<<s, c>>] = ParagraphLine(s, c)
  OBVIOUS
<1> HIDE DEF step
<1>5. PICK F : IsLoop(F, ParagraphState, Line, NoDocs, step)
  BY <1>1, <1>3, Loop, Zenon
<1>6. ASSUME NEW t \in Seq(Line) PROVE ParagraphLoop(t) = F[t]
  <2> DEFINE body(h) == [i \in 0..Len(t) |-> IF i = 0 THEN NoDocs
                                             ELSE ParagraphLine(h[i - 1], t[i])]
             after == CHOOSE h : h = body(h)
  <2>1. PICK f \in [0..Len(t) -> ParagraphState] :
          f[0] = NoDocs /\ \A i \in 1..Len(t) : f[i] = step[<<f[i - 1], t[i]>>]
    BY <1>5 DEF IsLoop
  <2>2. \A i \in 1..Len(t) : f[i - 1] \in ParagraphState /\ t[i] \in Line
    OBVIOUS
  <2>3. \A i \in 1..Len(t) : f[i] = ParagraphLine(f[i - 1], t[i])
    BY <1>4, <2>1, <2>2
  <2>4. f = body(f)
    BY <2>1, <2>3
  <2>5. after = body(after)
    <3> HIDE DEF body
    <3> QED
      BY <2>4
  <2>6. ParagraphLoop(t) = after[Len(t)]
    BY DEF ParagraphLoop, NoDocs
  <2> HIDE DEF after
  <2>7. after[0] = NoDocs /\ \A i \in 1..Len(t) : after[i] = ParagraphLine(after[i - 1], t[i])
    BY <2>5
  <2>8. \A i \in 1..Len(t) : after[i - 1] \in ParagraphState => after[i] = step[<<after[i - 1], t[i]>>]
    BY <1>4, <2>2, <2>7
  <2> QED
    BY <1>5, <2>6, <2>7, <2>8 DEF IsLoop
<1>7. /\ F \in [Seq(Line) -> ParagraphState] /\ F[<<>>] = NoDocs
      /\ \A t \in Seq(Line), c \in Line : F[Append(t, c)] = step[<<F[t], c>>]
  BY <1>5 DEF IsLoop
<1>8. ParagraphLoop(<<>>) = NoDocs
  <2>1. <<>> \in Seq(Line)
    OBVIOUS
  <2> QED
    BY <1>6, <1>7, <2>1
<1>9. \A t \in Seq(Line) : ParagraphLoop(t) \in ParagraphState
  BY <1>6, <1>7
<1>10. ASSUME NEW t \in Seq(Line), NEW c \in Line
       PROVE  ParagraphLoop(Append(t, c)) = ParagraphLine(ParagraphLoop(t), c)
  <2>1. Append(t, c) \in Seq(Line)
    OBVIOUS
  <2>2. F[t] \in ParagraphState /\ F[Append(t, c)] = step[<<F[t], c>>]
    BY <1>7
  <2> QED
    BY <1>4, <1>6, <2>1, <2>2
<1> QED
  BY <1>8, <1>9, <1>10

\* A state of the word loop after words found before.
Shifted(a, s) == [words |-> a \o s.words, current |-> s.current]
Words(s) == Push(s.words, s.current)

LEMMA WordsOK ==
  ASSUME NEW s \in WordState PROVE Words(s) \in Seq(Word)
<1>1. s.words \in Seq(Word) /\ (s.current = <<>> \/ s.current \in Word)
  BY DEF WordState, Word
<1> QED
  BY <1>1, PushOK DEF Words

LEMMA PushShifted ==
  ASSUME NEW a \in Seq(Word), NEW b \in Seq(Word), NEW x, x = <<>> \/ x \in Word
  PROVE  Push(a \o b, x) = a \o Push(b, x)
<1>1. CASE x = <<>>
  BY <1>1 DEF Push
<1>2. CASE x # <<>>
  <2>1. /\ x \in Word /\ a \o b \in Seq(Word) /\ <<x>> \in Seq(Word)
        /\ Append(a \o b, x) = (a \o b) \o <<x>> /\ Append(b, x) = b \o <<x>>
    BY <1>2, ConcatProperties, AppendIsConcat
  <2>2. (a \o b) \o <<x>> = a \o (b \o <<x>>)
    BY <2>1, ConcatAssociative
  <2> QED
    BY <1>2, <2>1, <2>2 DEF Push
<1> QED
  BY <1>1, <1>2

LEMMA ShiftedOK ==
  ASSUME NEW a \in Seq(Word), NEW s \in WordState
  PROVE  /\ Shifted(a, s) \in WordState
         /\ Words(Shifted(a, s)) = a \o Words(s)
         /\ \A c \in Char : WordChar(Shifted(a, s), c) = Shifted(a, WordChar(s, c))
<1>1. /\ s.words \in Seq(Word) /\ s.current \in Seq(Letter)
      /\ (s.current = <<>> \/ s.current \in Word)
      /\ s = [words |-> s.words, current |-> s.current]
  BY DEF WordState, Word
<1>2. a \o s.words \in Seq(Word)
  BY <1>1, ConcatProperties
<1>3. Push(a \o s.words, s.current) = a \o Push(s.words, s.current)
  BY <1>1, PushShifted
<1>4. ASSUME NEW c \in Char PROVE WordChar(Shifted(a, s), c) = Shifted(a, WordChar(s, c))
  <2>1. CASE c \in Separator
    BY <1>3, <2>1 DEF WordChar, Shifted
  <2>2. CASE c \notin Separator
    BY <1>1, <2>2 DEF WordChar, Shifted
  <2> QED
    BY <2>1, <2>2
<1> QED
  BY <1>1, <1>2, <1>3, <1>4 DEF Shifted, Words, WordState

\* The words of a text whose first part ends with a separator.
LEMMA WordsOfParts ==
  ASSUME NEW a \in Texts, NEW c \in Separator, NEW b \in Texts
  PROVE  SimpleWords((a \o <<c>>) \o b) = SimpleWords(a) \o SimpleWords(b)
<1> DEFINE w == SimpleWords(a)
           u == a \o <<c>>
           P == {t \in Texts : WordLoop(u \o t) = Shifted(w, WordLoop(t))}
<1>1. c \in Char /\ a \in Seq(Char) /\ b \in Seq(Char)
  BY DEF Char, Texts
<1>2. \A t \in Seq(Char) : SimpleWords(t) = Words(WordLoop(t)) /\ SimpleWords(t) \in Seq(Word)
  BY WordLoopOK, WordsOK DEF SimpleWords, Words
<1>3. u = Append(a, c) /\ u \in Seq(Char)
  BY <1>1, AppendIsConcat, AppendProperties
<1>4. w \in Seq(Word)
  BY <1>1, <1>2
<1>5. <<>> \in P
  <2>1. WordLoop(u) = [words |-> w, current |-> <<>>]
    <3>1. WordLoop(u) = WordChar(WordLoop(a), c)
      BY <1>1, <1>3, WordLoopOK
    <3> QED
      BY <3>1 DEF WordChar, SimpleWords
  <2>2. Shifted(w, WordLoop(<<>>)) = [words |-> w \o <<>>, current |-> <<>>]
    <3>1. WordLoop(<<>>) = NoWords
      BY WordLoopOK
    <3>2. NoWords.words = <<>> /\ NoWords.current = <<>>
      BY DEF NoWords
    <3> HIDE DEF w
    <3> QED
      BY <3>1, <3>2 DEF Shifted
  <2>3. w \o <<>> = w /\ u \o <<>> = u
    BY <1>3, <1>4, ConcatEmptySeq
  <2>4. <<>> \in Texts
    BY DEF Texts
  <2> HIDE DEF w, u
  <2> QED
    BY <2>1, <2>2, <2>3, <2>4
<1>6. ASSUME NEW t \in Seq(Char), NEW d \in Char, t \in P PROVE Append(t, d) \in P
  <2> HIDE DEF w, u
  <2>1. u \o Append(t, d) = Append(u \o t, d) /\ u \o t \in Seq(Char) /\ Append(t, d) \in Seq(Char)
    <3>1. /\ u \o t \in Seq(Char) /\ <<d>> \in Seq(Char) /\ Append(t, d) \in Seq(Char)
          /\ Append(u \o t, d) = (u \o t) \o <<d>> /\ Append(t, d) = t \o <<d>>
      BY <1>3, ConcatProperties, AppendIsConcat
    <3> QED
      BY <1>3, <3>1, ConcatAssociative
  <2>2. WordLoop(Append(u \o t, d)) = WordChar(WordLoop(u \o t), d)
    BY <2>1, WordLoopOK
  <2>3. WordLoop(Append(t, d)) = WordChar(WordLoop(t), d) /\ WordLoop(t) \in WordState
    BY WordLoopOK
  <2>4. WordLoop(u \o t) = Shifted(w, WordLoop(t))
    BY <1>6
  <2>5. WordChar(Shifted(w, WordLoop(t)), d) = Shifted(w, WordChar(WordLoop(t), d))
    BY <1>4, <2>3, ShiftedOK
  <2>6. Append(t, d) \in Texts
    BY <2>1 DEF Texts
  <2> QED
    BY <2>1, <2>2, <2>3, <2>4, <2>5, <2>6
<1>7. \A t \in Seq(Char) : t \in P
  <2> HIDE DEF P
  <2> QED
    BY <1>5, <1>6, SeqGrows
<1>8. WordLoop(u \o b) = Shifted(w, WordLoop(b)) /\ u \o b \in Seq(Char) /\ WordLoop(b) \in WordState
  <2>1. u \o b \in Seq(Char) /\ WordLoop(b) \in WordState
    <3> HIDE DEF u
    <3> QED
      BY <1>1, <1>3, WordLoopOK, ConcatProperties
  <2> QED
    BY <1>1, <1>7, <2>1
<1> HIDE DEF w, u, P
<1>9. SimpleWords(u \o b) = Words(Shifted(w, WordLoop(b)))
  BY <1>2, <1>8
<1>10. Words(Shifted(w, WordLoop(b))) = w \o Words(WordLoop(b))
  BY <1>4, <1>8, ShiftedOK
<1>11. SimpleWords(b) = Words(WordLoop(b))
  BY <1>1, <1>2
<1> QED
  BY <1>9, <1>10, <1>11 DEF u, w
LEMMA SimpleWordsOK ==
  /\ SimpleWords(<<>>) = <<>>
  /\ \A t \in Texts : SimpleWords(t) = Words(WordLoop(t)) /\ SimpleWords(t) \in Seq(Word)
<1>1. \A t \in Seq(Char) : SimpleWords(t) = Words(WordLoop(t)) /\ SimpleWords(t) \in Seq(Word)
  BY WordLoopOK, WordsOK DEF SimpleWords, Words
<1>2. SimpleWords(<<>>) = <<>>
  BY WordLoopOK DEF SimpleWords, NoWords, Push
<1> QED
  BY <1>1, <1>2 DEF Texts

\* A word is its own only word.
LEMMA WordsOfWord ==
  ASSUME NEW w \in Word PROVE SimpleWords(w) = <<w>>
<1> DEFINE P == {t \in Seq(Letter) : WordLoop(t) = [words |-> <<>>, current |-> t]}
<1>1. <<>> \in P
  BY WordLoopOK DEF NoWords
<1>2. ASSUME NEW t \in Seq(Letter), NEW c \in Letter, t \in P PROVE Append(t, c) \in P
  <2>1. t \in Seq(Char) /\ c \in Char /\ c \notin Separator /\ Append(t, c) \in Seq(Letter)
    <3>1. Seq(Letter) \subseteq Seq(Char) /\ c \in Char /\ c \notin Separator
      BY CharsOK DEF Letter, Texts
    <3> QED
      BY <3>1
  <2>2. WordLoop(Append(t, c)) = WordChar(WordLoop(t), c)
    BY <2>1, WordLoopOK
  <2>3. WordLoop(t) = [words |-> <<>>, current |-> t]
    BY <1>2
  <2>4. WordChar([words |-> <<>>, current |-> t], c) = [words |-> <<>>, current |-> Append(t, c)]
    BY <2>1 DEF WordChar
  <2> QED
    BY <2>1, <2>2, <2>3, <2>4
<1>3. \A t \in Seq(Letter) : t \in P
  <2> HIDE DEF P
  <2> QED
    BY <1>1, <1>2, SeqGrows
<1>4. w \in Seq(Letter) /\ w # <<>>
  BY DEF Word
<1>5. WordLoop(w) = [words |-> <<>>, current |-> w]
  BY <1>3, <1>4
<1>6. SimpleWords(w) = Push(<<>>, w)
  BY <1>5 DEF SimpleWords
<1>7. Push(<<>>, w) = Append(<<>>, w)
  BY <1>4 DEF Push
<1> QED
  BY <1>6, <1>7

\* What was put together falls apart into the same words.
LEMMA WordsOfJoined ==
  ASSUME NEW ws \in Seq(Word) PROVE SimpleWords(Joined(ws)) = ws
<1> DEFINE P == {t \in Seq(Word) : SimpleWords(Joined(t)) = t}
<1>1. <<>> \in P
  BY JoinedOK, SimpleWordsOK
<1>2. ASSUME NEW t \in Seq(Word), NEW w \in Word, t \in P PROVE Append(t, w) \in P
  <2> DEFINE J == Joined(t)
             x == <<w>>
  <2>1. J \in Texts /\ w \in Texts /\ SimpleWords(J) = t /\ SimpleWords(w) = x
    BY <1>2, JoinedOK, CharsOK, WordsOfWord
  <2>2. Joined(Append(t, w)) = JoinStep(J, w)
    BY JoinedOK
  <2>3. Append(t, w) \in Seq(Word) /\ Append(t, w) = t \o x /\ x \in Seq(Word)
    BY AppendIsConcat
  <2> HIDE DEF J, x
  <2>4. CASE J = <<>>
    <3>1. t = <<>>
      BY <2>1, <2>4, SimpleWordsOK
    <3>2. JoinStep(J, w) = w
      BY <2>4 DEF JoinStep
    <3>3. <<>> \o x = x
      BY <2>3, ConcatEmptySeq
    <3>4. Append(t, w) = x
      BY <2>3, <3>1, <3>3
    <3> QED
      BY <2>1, <2>2, <2>3, <3>2, <3>4
  <2>5. CASE J # <<>>
    <3>1. JoinStep(J, w) = (J \o <<" ">>) \o w
      BY <2>5 DEF JoinStep
    <3>2. " " \in Separator
      BY DEF Separator
    <3>3. SimpleWords((J \o <<" ">>) \o w) = SimpleWords(J) \o SimpleWords(w)
      BY <2>1, <3>2, WordsOfParts, Zenon
    <3> QED
      BY <2>1, <2>2, <2>3, <3>1, <3>3
  <2> QED
    BY <2>4, <2>5
<1>3. \A t \in Seq(Word) : t \in P
  <2> HIDE DEF P
  <2> QED
    BY <1>1, <1>2, SeqGrows
<1> QED
  BY <1>3

\* encode() counts the words that decode() finds.
Agree(e, s) == (e.in_word <=> s.current # <<>>) /\ e.tokens = Len(s.words)

LEMMA AgreeChar ==
  ASSUME NEW e \in EncodeState, NEW s \in WordState, NEW c \in Char, Agree(e, s)
  PROVE  Agree(EncodeChar(e, c), WordChar(s, c))
<1>1. /\ s.words \in Seq(Word) /\ s.current \in Seq(Letter)
      /\ s = [words |-> s.words, current |-> s.current]
      /\ (s.current # <<>> => s.current \in Word)
      /\ e = [in_word |-> e.in_word, tokens |-> e.tokens]
      /\ e.in_word \in BOOLEAN /\ e.tokens \in Nat
  BY DEF WordState, Word, EncodeState
<1>2. CASE c \notin Separator
  <2>1. c \in Letter
    BY <1>2 DEF Letter
  <2>2. Append(s.current, c) # <<>>
    BY <1>1, <2>1, AppendProperties
  <2>3. WordChar(s, c) = [words |-> s.words, current |-> Append(s.current, c)]
    BY <1>1, <1>2 DEF WordChar
  <2>4. EncodeChar(e, c) = [in_word |-> TRUE, tokens |-> e.tokens]
    BY <1>1, <1>2 DEF EncodeChar
  <2> QED
    BY <2>2, <2>3, <2>4 DEF Agree
<1>3. CASE c \in Separator
  <2>1. Len(Push(s.words, s.current)) = IF s.current # <<>> THEN Len(s.words) + 1 ELSE Len(s.words)
    BY <1>1 DEF Push
  <2>2. WordChar(s, c) = [words |-> Push(s.words, s.current), current |-> <<>>]
    BY <1>3 DEF WordChar
  <2>3. EncodeChar(e, c) = [in_word |-> FALSE,
                            tokens |-> IF e.in_word THEN e.tokens + 1 ELSE e.tokens]
    BY <1>3 DEF EncodeChar
  <2> QED
    BY <2>1, <2>2, <2>3 DEF Agree
<1> QED
  BY <1>2, <1>3

LEMMA CountsWords ==
  ASSUME NEW t \in Texts PROVE SimpleEncode(t) = Len(SimpleWords(t))
<1> DEFINE P == {u \in Texts : Agree(EncodeLoop(u), WordLoop(u))}
<1>1. <<>> \in P
  <2>1. Agree(NotInWord, NoWords)
    BY DEF NoWords, NotInWord, Agree
  <2>2. <<>> \in Texts
    BY DEF Texts
  <2> QED
    BY <2>1, <2>2, EncodeLoopOK, WordLoopOK
<1>2. ASSUME NEW u \in Seq(Char), NEW c \in Char, u \in P PROVE Append(u, c) \in P
  <2>1. /\ WordLoop(Append(u, c)) = WordChar(WordLoop(u), c) /\ WordLoop(u) \in WordState
        /\ EncodeLoop(Append(u, c)) = EncodeChar(EncodeLoop(u), c) /\ EncodeLoop(u) \in EncodeState
        /\ Agree(EncodeLoop(u), WordLoop(u))
    BY <1>2, WordLoopOK, EncodeLoopOK
  <2>2. Append(u, c) \in Texts
    BY DEF Texts
  <2> QED
    BY <2>1, <2>2, AgreeChar
<1>3. \A u \in Seq(Char) : u \in P
  <2> HIDE DEF P
  <2> QED
    BY <1>1, <1>2, SeqGrows
<1> DEFINE s == WordLoop(t)
           e == EncodeLoop(t)
<1>4. Agree(e, s) /\ s \in WordState /\ e \in EncodeState
  <2>1. t \in Seq(Char)
    BY DEF Texts
  <2>2. s \in WordState /\ e \in EncodeState
    BY <2>1, WordLoopOK, EncodeLoopOK
  <2> QED
    BY <1>3, <2>1, <2>2
<1>5. SimpleEncode(t) = (IF e.in_word THEN e.tokens + 1 ELSE e.tokens)
      /\ SimpleWords(t) = Push(s.words, s.current)
  BY DEF SimpleEncode, SimpleWords
<1> HIDE DEF s, e
<1>6. s.words \in Seq(Word) /\ (s.current = <<>> \/ s.current \in Word)
  BY <1>4 DEF WordState, Word
<1>7. Len(Push(s.words, s.current)) = IF s.current # <<>> THEN Len(s.words) + 1 ELSE Len(s.words)
  BY <1>6 DEF Push
<1> QED
  BY <1>4, <1>5, <1>7 DEF Agree
\* The words of some texts after one another.
LEMMA AllWordsOK ==
  /\ AllWords(<<>>) = <<>>
  /\ \A d \in Seq(Texts) : AllWords(d) \in Seq(Word)
  /\ \A d \in Seq(Texts), t \in Texts :
       AllWords(Append(d, t)) = AllWords(d) \o SimpleWords(t)
<1> DEFINE each(d) == [i \in DOMAIN d |-> SimpleWords(d[i])]
<1>1. \A d \in Seq(Texts) : each(d) \in Seq(Seq(Word))
  BY SimpleWordsOK
<1>2. each(<<>>) = <<>>
  OBVIOUS
<1>3. ASSUME NEW d \in Seq(Texts), NEW t \in Texts
      PROVE  each(Append(d, t)) = Append(each(d), SimpleWords(t))
  OBVIOUS
<1>4. \A d : AllWords(d) = FlattenSeq(each(d))
  BY DEF AllWords
<1> HIDE DEF each
<1>5. \A d \in Seq(Texts) : AllWords(d) \in Seq(Word)
  BY <1>1, <1>4, FlattenOK
<1>6. ASSUME NEW d \in Seq(Texts), NEW t \in Texts
      PROVE  AllWords(Append(d, t)) = AllWords(d) \o SimpleWords(t)
  <2>1. SimpleWords(t) \in Seq(Word) /\ each(d) \in Seq(Seq(Word))
    BY <1>1, SimpleWordsOK
  <2>2. FlattenSeq(Append(each(d), SimpleWords(t))) = FlattenSeq(each(d)) \o SimpleWords(t)
    BY <2>1, FlattenOK
  <2> QED
    BY <1>3, <1>4, <2>2
<1>7. AllWords(<<>>) = <<>>
  BY <1>2, <1>4, FlattenOK
<1> QED
  BY <1>5, <1>6, <1>7

LEMMA AllWordsPush ==
  ASSUME NEW d \in Seq(Texts), NEW t \in Texts
  PROVE  AllWords(Push(d, t)) = AllWords(d) \o SimpleWords(t)
<1>1. CASE t = <<>>
  <2>1. AllWords(d) \o <<>> = AllWords(d)
    BY AllWordsOK, ConcatEmptySeq
  <2> QED
    BY <1>1, <2>1, SimpleWordsOK DEF Push
<1>2. CASE t # <<>>
  BY <1>2, AllWordsOK DEF Push
<1> QED
  BY <1>1, <1>2

LEMMA AllWordsConcat ==
  ASSUME NEW a \in Seq(Texts), NEW b \in Seq(Texts)
  PROVE  AllWords(a \o b) = AllWords(a) \o AllWords(b)
<1> DEFINE x == AllWords(a)
           P == {d \in Seq(Texts) : AllWords(a \o d) = x \o AllWords(d)}
<1>0. x \in Seq(Word)
  BY AllWordsOK
<1> HIDE DEF x
<1>1. <<>> \in P
  <2>1. a \o <<>> = a /\ x \o <<>> = x
    BY <1>0, ConcatEmptySeq
  <2> QED
    BY <2>1, AllWordsOK DEF x
<1>2. ASSUME NEW d \in Seq(Texts), NEW t \in Texts, d \in P PROVE Append(d, t) \in P
  <2> DEFINE e == <<t>>
             y == AllWords(d)
             z == SimpleWords(t)
  <2>1. a \o d \in Seq(Texts) /\ e \in Seq(Texts) /\ Append(d, t) \in Seq(Texts)
        /\ Append(d, t) = d \o e
    BY ConcatProperties, AppendIsConcat
  <2>2. Append(a \o d, t) = (a \o d) \o e
    BY <2>1, AppendIsConcat
  <2>3. a \o Append(d, t) = Append(a \o d, t)
    <3> HIDE DEF P, e
    <3>1. (a \o d) \o e = a \o (d \o e)
      BY <2>1, ConcatAssociative
    <3> QED
      BY <2>1, <2>2, <3>1
  <2>4. AllWords(Append(a \o d, t)) = AllWords(a \o d) \o z /\ AllWords(Append(d, t)) = y \o z
    BY <2>1, AllWordsOK
  <2>5. AllWords(a \o d) = x \o y
    BY <1>2
  <2>6. (x \o y) \o z = x \o (y \o z)
    <3>1. y \in Seq(Word) /\ z \in Seq(Word)
      BY AllWordsOK, SimpleWordsOK
    <3> HIDE DEF P, y, z
    <3> QED
      BY <1>0, <3>1, ConcatAssociative
  <2> QED
    BY <2>1, <2>3, <2>4, <2>5, <2>6
<1>3. \A d \in Seq(Texts) : d \in P
  <2> HIDE DEF P
  <2> QED
    BY <1>1, <1>2, SeqGrows
<1> QED
  BY <1>3 DEF x

LEMMA LinesAreTexts ==
  /\ Line \subseteq Texts /\ Seq(Line) \subseteq Seq(Texts)
  /\ Paragraph \subseteq Texts /\ Seq(Paragraph) \subseteq Seq(Texts)
<1>1. Line \subseteq Texts
  BY DEF Line, Texts
<1>2. Paragraph \subseteq Texts
  BY DEF Paragraph
<1> HIDE DEF Paragraph
<1> QED
  BY <1>1, <1>2

\* A text has the words of its lines: a line end is a separator.
LEMMA WordsOfLines ==
  ASSUME NEW t \in Texts
  PROVE  Lines(t) \in Seq(Line) /\ AllWords(Lines(t)) = SimpleWords(t)
<1> DEFINE P == {u \in Texts : WordLoop(u) = Shifted(AllWords(LineLoop(u).lines),
                                                     WordLoop(LineLoop(u).line))}
<1>1. <<>> \in P
  <2>1. Shifted(<<>>, NoWords) = NoWords
    BY DEF Shifted, NoWords
  <2>2. NoLines.lines = <<>> /\ NoLines.line = <<>>
    BY DEF NoLines
  <2>3. <<>> \in Texts
    BY DEF Texts
  <2> QED
    BY <2>1, <2>2, <2>3, WordLoopOK, LineLoopOK, AllWordsOK
<1>2. ASSUME NEW u \in Seq(Char), NEW c \in Char, u \in P PROVE Append(u, c) \in P
  <2> DEFINE s == LineLoop(u)
             a == AllWords(s.lines)
  <2>1. s \in LineState /\ LineLoop(Append(u, c)) = LineChar(s, c)
    BY LineLoopOK
  <2>2. /\ s.lines \in Seq(Line) /\ s.line \in Line /\ s = [lines |-> s.lines, line |-> s.line]
        /\ s.lines \in Seq(Texts) /\ s.line \in Texts
    BY <2>1, LinesAreTexts DEF LineState
  <2>3. a \in Seq(Word) /\ WordLoop(s.line) \in WordState
    BY <2>2, AllWordsOK, WordLoopOK DEF Texts
  <2>4. WordLoop(Append(u, c)) = WordChar(WordLoop(u), c)
    BY WordLoopOK
  <2>5. WordLoop(u) = Shifted(a, WordLoop(s.line))
    BY <1>2
  <2>6. Append(u, c) \in Texts
    BY DEF Texts
  <2> DEFINE r == LineLoop(Append(u, c))
  <2>10. ASSUME WordLoop(Append(u, c)) = Shifted(AllWords(r.lines), WordLoop(r.line))
        PROVE  Append(u, c) \in P
    BY <2>6, <2>10
  <2>11. r = LineChar(s, c)
    BY <2>1
  <2> HIDE DEF s, P, r
  <2>7. WordLoop(Append(u, c)) = Shifted(a, WordChar(WordLoop(s.line), c))
    BY <2>3, <2>4, <2>5, ShiftedOK
  <2>8. CASE c # "\n"
    <3>1. LineChar(s, c) = [lines |-> s.lines, line |-> Append(s.line, c)]
      BY <2>2, <2>8 DEF LineChar
    <3>2. WordLoop(Append(s.line, c)) = WordChar(WordLoop(s.line), c)
      BY <2>2, WordLoopOK DEF Texts
    <3>3. r.lines = s.lines /\ r.line = Append(s.line, c)
      BY <2>11, <3>1
    <3> QED
      BY <2>7, <2>10, <3>2, <3>3
  <2>9. CASE c = "\n"
    <3>1. LineChar(s, c) = [lines |-> Append(s.lines, s.line), line |-> <<>>]
      BY <2>9 DEF LineChar
    <3>2. AllWords(Append(s.lines, s.line)) = a \o SimpleWords(s.line)
      BY <2>2, AllWordsOK
    <3>3. WordChar(WordLoop(s.line), c) = [words |-> SimpleWords(s.line), current |-> <<>>]
      BY <2>9 DEF WordChar, Separator, SimpleWords
    <3> DEFINE w == SimpleWords(s.line)
    <3>4. w \in Seq(Word)
      BY <2>2, SimpleWordsOK
    <3> HIDE DEF w, a
    <3>5. Shifted(a, [words |-> w, current |-> <<>>]) = [words |-> a \o w, current |-> <<>>]
      BY DEF Shifted
    <3>6. Shifted(a \o w, NoWords) = [words |-> a \o w, current |-> <<>>]
      <4> DEFINE b == a \o w
      <4>1. b \in Seq(Word)
        BY <2>3, <3>4, ConcatProperties
      <4> HIDE DEF b
      <4>2. b \o <<>> = b
        BY <4>1, ConcatEmptySeq
      <4>3. Shifted(b, NoWords) = [words |-> b, current |-> <<>>]
        BY <4>2 DEF Shifted, NoWords
      <4> QED
        BY <4>3 DEF b
    <3>7. WordLoop(<<>>) = NoWords
      BY WordLoopOK
    <3>8. r.lines = Append(s.lines, s.line) /\ r.line = <<>>
      BY <2>11, <3>1
    <3> QED
      BY <2>7, <2>10, <3>2, <3>3, <3>5, <3>6, <3>7, <3>8 DEF a, w
  <2> QED
    BY <2>8, <2>9
<1>3. \A u \in Seq(Char) : u \in P
  <2> HIDE DEF P
  <2> QED
    BY <1>1, <1>2, SeqGrows
<1> DEFINE s == LineLoop(t)
<1>4. /\ WordLoop(t) = Shifted(AllWords(s.lines), WordLoop(s.line)) /\ s \in LineState
      /\ SimpleWords(t) = Words(WordLoop(t))
  BY <1>3, LineLoopOK, SimpleWordsOK DEF Texts
<1>5. Lines(t) = Push(s.lines, s.line)
  BY DEF Lines
<1> HIDE DEF s
<1>6. s.lines \in Seq(Line) /\ s.line \in Line /\ s.lines \in Seq(Texts) /\ s.line \in Texts
  BY <1>4, LinesAreTexts DEF LineState
<1>7. Lines(t) \in Seq(Line)
  BY <1>5, <1>6, PushOK
<1>8. AllWords(Lines(t)) = AllWords(s.lines) \o SimpleWords(s.line)
  BY <1>5, <1>6, AllWordsPush
<1>9. Words(Shifted(AllWords(s.lines), WordLoop(s.line))) = AllWords(s.lines) \o Words(WordLoop(s.line))
  <2>1. AllWords(s.lines) \in Seq(Word) /\ WordLoop(s.line) \in WordState
    BY <1>6, AllWordsOK, WordLoopOK DEF Texts
  <2> QED
    BY <2>1, ShiftedOK
<1>10. SimpleWords(s.line) = Words(WordLoop(s.line))
  BY <1>6, SimpleWordsOK
<1> QED
  BY <1>4, <1>7, <1>8, <1>9, <1>10
\* A paragraph and one more line have the words of both.
LEMMA WordsOfNextLine ==
  ASSUME NEW para \in Texts, NEW line \in Texts
  PROVE  SimpleWords((IF para = <<>> THEN <<>> ELSE Append(para, "\n")) \o line)
           = SimpleWords(para) \o SimpleWords(line)
<1> DEFINE w == SimpleWords(line)
<1>1. w \in Seq(Word) /\ para \in Seq(Char) /\ line \in Seq(Char)
  BY SimpleWordsOK DEF Texts
<1> HIDE DEF w
<1>2. CASE para = <<>>
  <2>1. <<>> \o line = line /\ <<>> \o w = w
    BY <1>1, ConcatEmptySeq
  <2> QED
    BY <1>2, <2>1, SimpleWordsOK DEF w
<1>3. CASE para # <<>>
  <2>1. "\n" \in Separator /\ "\n" \in Char
    BY DEF Separator, Char
  <2>2. Append(para, "\n") = para \o <<"\n">>
    BY <1>1, <2>1, AppendIsConcat
  <2>3. SimpleWords((para \o <<"\n">>) \o line) = SimpleWords(para) \o SimpleWords(line)
    BY <2>1, WordsOfParts, Zenon
  <2> QED
    BY <1>3, <2>2, <2>3
<1> QED
  BY <1>2, <1>3

\* The paragraphs of some lines have the words of the lines.
LEMMA WordsOfParagraphs ==
  ASSUME NEW ls \in Seq(Line)
  PROVE  AllWords(ParagraphLoop(ls).docs) \o SimpleWords(ParagraphLoop(ls).para) = AllWords(ls)
<1> DEFINE P == {u \in Seq(Line) :
                   AllWords(ParagraphLoop(u).docs) \o SimpleWords(ParagraphLoop(u).para) = AllWords(u)}
<1>1. <<>> \in P
  <2>1. NoDocs.docs = <<>> /\ NoDocs.para = <<>> /\ <<>> \o <<>> = <<>>
    BY DEF NoDocs
  <2>2. ParagraphLoop(<<>>).docs = <<>> /\ ParagraphLoop(<<>>).para = <<>>
    BY <2>1, ParagraphLoopOK
  <2>3. <<>> \in Seq(Line)
    OBVIOUS
  <2> QED
    BY <2>1, <2>2, <2>3, AllWordsOK, SimpleWordsOK
<1>2. ASSUME NEW u \in Seq(Line), NEW line \in Line, u \in P PROVE Append(u, line) \in P
  <2> DEFINE s == ParagraphLoop(u)
             r == ParagraphLoop(Append(u, line))
             a == AllWords(s.docs)
             b == SimpleWords(s.para)
             w == SimpleWords(line)
  <2>1. s \in ParagraphState /\ r = ParagraphLine(s, line)
    BY ParagraphLoopOK
  <2>2. a \o b = AllWords(u)
    BY <1>2
  <2>3. Append(u, line) \in Seq(Line)
    OBVIOUS
  <2>4. ASSUME AllWords(r.docs) \o SimpleWords(r.para) = AllWords(Append(u, line))
        PROVE  Append(u, line) \in P
    BY <2>3, <2>4
  <2> HIDE DEF P, s, r
  <2>5. s.docs \in Seq(Texts) /\ s.para \in Texts /\ s = [docs |-> s.docs, para |-> s.para]
    BY <2>1, LinesAreTexts DEF ParagraphState
  <2>6. AllWords(Append(u, line)) = AllWords(u) \o w /\ line \in Texts
    BY LinesAreTexts, AllWordsOK
  <2>7. a \in Seq(Word) /\ b \in Seq(Word) /\ w \in Seq(Word)
    BY <2>5, <2>6, AllWordsOK, SimpleWordsOK
  <2>8. CASE line = <<>>
    <3>1. r.docs = Push(s.docs, s.para) /\ r.para = <<>>
      BY <2>1, <2>8 DEF ParagraphLine
    <3>2. AllWords(r.docs) = a \o b
      BY <2>5, <3>1, AllWordsPush
    <3>3. w = <<>> /\ SimpleWords(r.para) = <<>>
      BY <2>8, <3>1, SimpleWordsOK
    <3> QED
      BY <2>2, <2>4, <2>6, <3>2, <3>3
  <2>9. CASE line # <<>>
    <3> DEFINE para == (IF s.para = <<>> THEN <<>> ELSE Append(s.para, "\n")) \o line
    <3>1. r.docs = s.docs /\ r.para = para
      BY <2>1, <2>5, <2>9 DEF ParagraphLine
    <3>2. SimpleWords(para) = b \o w
      BY <2>5, <2>6, WordsOfNextLine
    <3>3. AllWords(r.docs) \o SimpleWords(r.para) = a \o (b \o w)
      BY <3>1, <3>2
    <3> HIDE DEF a, b, w, para
    <3>4. (a \o b) \o w = a \o (b \o w)
      BY <2>7, ConcatAssociative
    <3> QED
      BY <2>2, <2>4, <2>6, <3>3, <3>4
  <2> QED
    BY <2>8, <2>9
<1>3. \A u \in Seq(Line) : u \in P
  <2> HIDE DEF P
  <2> QED
    BY <1>1, <1>2, SeqGrows
<1> QED
  BY <1>3

\* Cutting a file into paragraphs loses no word.
LEMMA WordsOfFile ==
  ASSUME NEW t \in Texts
  PROVE  Paragraphs(t) \in Seq(Texts) /\ AllWords(Paragraphs(t)) = SimpleWords(t)
<1> DEFINE s == ParagraphLoop(Lines(t))
<1>1. Lines(t) \in Seq(Line) /\ AllWords(Lines(t)) = SimpleWords(t)
  BY WordsOfLines
<1>2. s \in ParagraphState /\ AllWords(s.docs) \o SimpleWords(s.para) = AllWords(Lines(t))
  BY <1>1, ParagraphLoopOK, WordsOfParagraphs
<1>3. Paragraphs(t) = Push(s.docs, s.para)
  BY DEF Paragraphs
<1> HIDE DEF s
<1>4. s.docs \in Seq(Texts) /\ s.para \in Texts
  BY <1>2, LinesAreTexts DEF ParagraphState
<1> QED
  BY <1>1, <1>2, <1>3, <1>4, PushOK, AllWordsPush

-----------------------------------------------------------------------------
\* The windows cut a sequence of words.
Piece(words, w) == SubSeq(words, w.start + 1, w.start + w.len)

LEMMA WindowOK ==
  ASSUME IInv, Valid, NEW i \in DOMAIN windows
  PROVE  /\ windows[i] \in Window /\ windows[i].start \in Nat /\ windows[i].len \in 0..max
         /\ windows[i].start + windows[i].len <= n
         /\ (windows[i].len = max \/ windows[i].start + windows[i].len = n)
<1>1. /\ n \in Nat /\ max \in Nat /\ overlap \in Int /\ windows \in Seq(Window)
      /\ overlap < max /\ i \in 1..Len(windows)
  BY ParamsOK DEF IInv, TypeOK, Valid, Fits
<1>2. windows[i] \in Window /\ windows[i].len \in 0..max
  BY <1>1 DEF IInv, TypeOK, Smaller
<1>3. windows[i].len = Smaller(max, n - windows[i].start) /\ windows[i].start < n
  BY DEF IInv, Cut
<1>4. windows[i].start = (i - 1) * (max - overlap)
  BY DEF IInv, Position
<1>5. (i - 1) * (max - overlap) \in Nat
  <2>1. i - 1 \in Nat /\ max - overlap \in Nat
    BY <1>1
  <2> QED
    BY <2>1
<1> DEFINE a == windows[i].start
           b == windows[i].len
<1>6. a \in Nat /\ b \in 0..max /\ b = Smaller(max, n - a) /\ a < n
  BY <1>2, <1>3, <1>4, <1>5
<1>7. windows[i] \in Window
  BY <1>2
<1> HIDE DEF a, b
<1>8. a + b <= n /\ (b = max \/ a + b = n)
  BY <1>1, <1>6 DEF Smaller
<1> QED
  BY <1>6, <1>7, <1>8 DEF a, b

LEMMA ContentsOK ==
  ASSUME IInv, Valid, NEW doc \in Texts, n = SimpleEncode(doc), NEW i \in DOMAIN windows
  PROVE  /\ SimpleWords(SimpleDecode(SimpleWords(doc), windows[i])) = Piece(SimpleWords(doc), windows[i])
         /\ SimpleDecode(SimpleWords(doc), windows[i]) \in Texts
         /\ Len(Piece(SimpleWords(doc), windows[i])) = windows[i].len
<1> DEFINE ws == SimpleWords(doc)
           w == windows[i]
<1>1. ws \in Seq(Word) /\ n = Len(ws)
  BY SimpleWordsOK, CountsWords
<1>2. w.start \in Nat /\ w.len \in Nat /\ w.start + w.len <= n /\ n \in Nat
  BY <1>1, WindowOK
<1> HIDE DEF ws, w
<1>3. Smaller(w.start + w.len, Len(ws)) = w.start + w.len
  BY <1>1, <1>2 DEF Smaller
<1>4. SimpleDecode(ws, w) = Joined(Piece(ws, w))
  BY <1>3 DEF SimpleDecode, Piece
<1>5. Piece(ws, w) \in Seq(Word) /\ Len(Piece(ws, w)) = w.len
  BY <1>1, <1>2, SubSeqProperties DEF Piece
<1> QED
  BY <1>4, <1>5, JoinedOK, WordsOfJoined DEF ws, w

\* What the first k windows add to one another.
NewOf(words, i) ==
  LET piece == Piece(words, windows[i])
  IN  IF i = 1 THEN piece ELSE SubSeq(piece, overlap + 1, Len(piece))
Reached(k) == IF k = 0 THEN 0 ELSE windows[k].start + windows[k].len

LEMMA NewOfOK ==
  ASSUME IInv, Valid, overlap >= 0, NEW words \in Seq(Word), n = Len(words),
         NEW k \in DOMAIN windows
  PROVE  /\ Reached(k - 1) \in 0..n /\ Reached(k) \in Reached(k - 1)..n
         /\ NewOf(words, k) = SubSeq(words, Reached(k - 1) + 1, Reached(k))
<1> DEFINE a == windows[k].start
           b == windows[k].len
           piece == Piece(words, windows[k])
<1>1. /\ n \in Nat /\ max \in Nat \ {0} /\ overlap \in Nat /\ overlap < max /\ Len(windows) \in Nat
      /\ k \in 1..Len(windows)
  BY ParamsOK DEF IInv, TypeOK, Valid, Fits
<1>2. a \in Nat /\ b \in 0..max /\ a + b <= n /\ (b = max \/ a + b = n)
  BY WindowOK
<1>3. a < n
  BY DEF IInv, Cut
<1>4. piece = SubSeq(words, a + 1, a + b)
  BY DEF Piece
<1>5. Reached(k) = a + b
  BY <1>1 DEF Reached
<1>6. CASE k = 1
  <2>1. a = 0
    BY <1>1, <1>6 DEF IInv, Position
  <2>2. Reached(k - 1) = 0
    BY <1>6 DEF Reached
  <2>3. NewOf(words, k) = piece
    BY <1>6 DEF NewOf
  <2> HIDE DEF a, b, piece
  <2> QED
    BY <1>1, <1>2, <1>4, <1>5, <2>1, <2>2, <2>3
<1>7. CASE k # 1
  <2> DEFINE c == windows[k - 1].start
             d == windows[k - 1].len
  <2>1. k - 1 \in DOMAIN windows /\ k - 1 \in 1..(Len(windows) - 1) /\ (k - 1) + 1 = k
    BY <1>1, <1>7 DEF IInv, TypeOK
  <2>2. c \in Nat /\ d \in 0..max /\ c + d <= n /\ (d = max \/ c + d = n)
    BY <2>1, WindowOK
  <2>3. a = c + (max - overlap)
    BY <2>1 DEF IInv, Stepping
  <2>4. Reached(k - 1) = c + d
    BY <1>1, <1>7 DEF Reached
  <2>5. NewOf(words, k) = SubSeq(piece, overlap + 1, Len(piece))
    BY <1>7 DEF NewOf
  <2> HIDE DEF a, b, c, d, piece
  <2>6. Len(piece) = b
    BY <1>1, <1>2, <1>4, SubSeqProperties
  <2>7. NewOf(words, k) = SubSeq(words, (a + overlap) + 1, a + b)
    BY <1>1, <1>2, <1>4, <2>5, <2>6, PieceOfPiece
  <2>8. CASE overlap <= b
    <3>1. c + d = a + overlap
      BY <1>1, <1>2, <2>2, <2>3, <2>8
    <3>2. c + d \in 0..n /\ a + b \in (c + d)..n
      BY <1>1, <1>2, <2>2, <2>8, <3>1
    <3> QED
      BY <1>5, <2>4, <2>7, <3>1, <3>2
  <2>9. CASE b < overlap
    <3>1. a + b = n /\ c + d = n
      BY <1>1, <1>2, <1>3, <2>2, <2>3, <2>9
    <3>2. SubSeq(words, (a + overlap) + 1, a + b) = <<>> /\ SubSeq(words, n + 1, n) = <<>>
      BY <1>1, <1>2, <2>9, SubSeqEmpty
    <3>3. n \in 0..n /\ n \in n..n
      BY <1>1
    <3> QED
      BY <1>5, <2>4, <2>7, <3>1, <3>2, <3>3
  <2>10. b \in Int /\ overlap \in Int
    BY <1>1, <1>2
  <2> QED
    BY <2>8, <2>9, <2>10
<1> QED
  BY <1>6, <1>7

LEMMA PiecesTogether ==
  ASSUME IInv, Valid, overlap >= 0, pc = "done", NEW words \in Seq(Word), n = Len(words)
  PROVE  FlattenSeq([i \in DOMAIN windows |-> NewOf(words, i)]) = words
<1> DEFINE N == Len(windows)
           news == [i \in DOMAIN windows |-> NewOf(words, i)]
           front(k) == SubSeq(news, 1, k)
           P == {k \in 0..N : FlattenSeq(front(k)) = SubSeq(words, 1, Reached(k))}
<1>1. /\ n \in Nat /\ max \in Nat \ {0} /\ overlap \in Nat /\ overlap < max /\ N \in Nat
      /\ DOMAIN windows = 1..N
  BY ParamsOK DEF IInv, TypeOK, Valid, Fits
<1>2. \A k \in 1..N : /\ Reached(k - 1) \in 0..n /\ Reached(k) \in Reached(k - 1)..n
                      /\ NewOf(words, k) = SubSeq(words, Reached(k - 1) + 1, Reached(k))
  BY <1>1, NewOfOK
<1>3. \A k \in 1..N : NewOf(words, k) \in Seq(Word)
  <2> SUFFICES ASSUME NEW k \in 1..N PROVE NewOf(words, k) \in Seq(Word)
    OBVIOUS
  <2> DEFINE p == Reached(k - 1)
             q == Reached(k)
  <2>1. p \in 0..n /\ q \in p..n /\ NewOf(words, k) = SubSeq(words, p + 1, q)
    BY <1>2
  <2> HIDE DEF p, q
  <2>2. SubSeq(words, p + 1, q) \in Seq(Word)
    <3>1. \A i \in (p + 1)..q : words[i] \in Word
      BY <1>1, <2>1
    <3> QED
      BY <1>1, <2>1, <3>1, SubSeqProperties
  <2> QED
    BY <2>1, <2>2
<1>4. news \in Seq(Seq(Word)) /\ Len(news) = N /\ \A i \in 1..N : news[i] = NewOf(words, i)
  BY <1>1, <1>3
<1> HIDE DEF N, news
<1>5. 0 \in P
  <2>1. front(0) = <<>> /\ Reached(0) = 0 /\ SubSeq(words, 1, 0) = <<>> /\ 0 \in 0..N
    BY <1>1, SubSeqEmpty DEF Reached
  <2> QED
    BY <2>1, FlattenOK
<1>6. ASSUME NEW k \in 0..(N - 1), k \in P PROVE k + 1 \in P
  <2> DEFINE p == Reached(k)
             q == Reached(k + 1)
  <2>1. /\ k + 1 \in 1..N /\ (k + 1) - 1 = k /\ k + 1 \in 0..N
    BY <1>1
  <2>2. p \in 0..n /\ q \in p..n /\ news[k + 1] = SubSeq(words, p + 1, q)
    BY <1>2, <1>4, <2>1
  <2>3. front(k) \in Seq(Seq(Word)) /\ front(k + 1) = Append(front(k), news[k + 1])
        /\ news[k + 1] \in Seq(Word)
    BY <1>1, <1>4, <2>1
  <2>4. FlattenSeq(front(k + 1)) = FlattenSeq(front(k)) \o news[k + 1]
    <3> HIDE DEF front
    <3> QED
      BY <2>3, FlattenOK
  <2>5. FlattenSeq(front(k)) = SubSeq(words, 1, p)
    BY <1>6
  <2> HIDE DEF p, q
  <2>6. SubSeq(words, 1, p) \o SubSeq(words, p + 1, q) = SubSeq(words, 1, q)
    <3>1. 1 \in 1..(Len(words) + 1) /\ p \in (1 - 1)..Len(words) /\ q \in p..Len(words)
      BY <1>1, <2>2
    <3> QED
      BY <3>1, ConcatAdjacentSubSeq
  <2> QED
    BY <2>1, <2>2, <2>4, <2>5, <2>6 DEF p, q
<1>7. \A k \in 0..N : k \in P
  <2> HIDE DEF P
  <2> QED
    BY <1>1, <1>5, <1>6, UpTo
<1>8. FlattenSeq(front(N)) = SubSeq(words, 1, Reached(N)) /\ front(N) = news
  <2>1. N \in 0..N
    BY <1>1
  <2>2. N \in P
    BY <1>7, <2>1
  <2>3. front(N) = news
    BY <1>4
  <2> QED
    BY <2>2, <2>3
<1>9. Reached(N) = n
  <2>0. start \in Nat /\ start >= n
    BY DEF IInv, TypeOK, DoneBeyond
  <2>1. CASE N = 0
    <3>1. start = 0
      BY <1>1, <2>1 DEF IInv, Stepping, TypeOK, N
    <3> QED
      BY <1>1, <2>0, <2>1, <3>1 DEF Reached
  <2>2. CASE N # 0
    <3> DEFINE a == windows[N].start
               b == windows[N].len
    <3>1. N \in DOMAIN windows /\ windows # <<>>
      BY <1>1, <2>2
    <3>2. a \in Nat /\ b \in 0..max /\ a + b <= n /\ (b = max \/ a + b = n)
      BY <3>1, WindowOK
    <3>3. start = a + (max - overlap)
      BY <3>1 DEF IInv, Stepping, N
    <3>4. Reached(N) = a + b
      BY <2>2 DEF Reached
    <3> HIDE DEF a, b
    <3> QED
      BY <1>1, <2>0, <3>2, <3>3, <3>4
  <2> QED
    BY <2>1, <2>2
<1>10. SubSeq(words, 1, n) = words
  OBVIOUS
<1> QED
  BY <1>8, <1>9, <1>10 DEF news

-----------------------------------------------------------------------------
\* What is chunked is a paragraph of a corpus, and the loop is that of its tokens.
TextIInv ==
  /\ corpus \in Corpora /\ part \in DOMAIN Paragraphs(corpus)
  /\ n = SimpleEncode(Doc)
  /\ IInv

LEMMA TextInvariance == TextSpec => []TextIInv
<1>1. TextInit => TextIInv
  BY InitIInv DEF TextInit, TextIInv
<1>2. TextIInv /\ [TextNext]_textVars => TextIInv'
  <2> SUFFICES ASSUME TextIInv, [TextNext]_textVars PROVE TextIInv'
    OBVIOUS
  <2>1. [Next]_vars /\ corpus' = corpus /\ part' = part
    BY DEF TextNext, textVars
  <2>2. IInv'
    BY <2>1, NextIInv DEF TextIInv
  <2>3. n' = n
    BY <2>1 DEF Next, Round, Leave, Die, params, vars
  <2> QED
    BY <2>1, <2>2, <2>3 DEF TextIInv, Doc
<1> QED
  BY <1>1, <1>2, PTL DEF TextSpec

LEMMA CorpusOK ==
  ASSUME TextIInv
  PROVE  /\ corpus \in Texts /\ Paragraphs(corpus) \in Seq(Texts)
         /\ part \in 1..Len(Paragraphs(corpus)) /\ Doc \in Texts
         /\ AllWords(Paragraphs(corpus)) = SimpleWords(corpus)
<1>1. corpus \in Seq(STRING)
  BY CorpusAssumption DEF TextIInv
<1>2. STRING \subseteq Char
  BY DEF Char
<1>3. corpus \in Texts
  <2>1. corpus \in Seq(Char)
    BY <1>1, <1>2, SeqMonotonic, Zenon
  <2> QED
    BY <2>1 DEF Texts
<1>4. Paragraphs(corpus) \in Seq(Texts) /\ AllWords(Paragraphs(corpus)) = SimpleWords(corpus)
  BY <1>3, WordsOfFile
<1>5. part \in 1..Len(Paragraphs(corpus))
  BY <1>4 DEF TextIInv
<1>6. Doc \in Texts
  BY <1>4, <1>5 DEF Doc
<1> QED
  BY <1>3, <1>4, <1>5, <1>6

\* The words of the chunks of a paragraph, each without what it repeats.
LEMMA ChunksKeepDoc ==
  ASSUME TextIInv, pc = "done", Valid, overlap >= 0
  PROVE  FlattenSeq([i \in DOMAIN windows |-> NewWords(i)]) = SimpleWords(Doc)
<1> DEFINE ws == SimpleWords(Doc)
<1>1. Doc \in Texts /\ IInv /\ n = SimpleEncode(Doc)
  BY CorpusOK DEF TextIInv
<1>2. ws \in Seq(Word) /\ n = Len(ws)
  BY <1>1, SimpleWordsOK, CountsWords
<1>3. ASSUME NEW i \in DOMAIN windows PROVE NewWords(i) = NewOf(ws, i)
  <2>1. Contents[i] = SimpleDecode(ws, windows[i])
    BY DEF Contents
  <2>2. SimpleWords(SimpleDecode(ws, windows[i])) = Piece(ws, windows[i])
    BY <1>1, ContentsOK
  <2> HIDE DEF ws
  <2> QED
    BY <2>1, <2>2 DEF NewWords, NewOf
<1> HIDE DEF ws
<1>4. [i \in DOMAIN windows |-> NewWords(i)] = [i \in DOMAIN windows |-> NewOf(ws, i)]
  BY <1>3
<1>5. FlattenSeq([i \in DOMAIN windows |-> NewOf(ws, i)]) = ws
  BY <1>1, <1>2, PiecesTogether
<1> QED
  BY <1>4, <1>5 DEF ws

\* No word of a corpus is lost, split, repeated or out of order on the way to its
\* chunks, for every corpus and all sizes with 0 <= overlap < max (test_christmas_carol.cpp:57-82,
\* simple.hpp:20-43,71-116, default.hpp:70-86).
THEOREM NoWordLost == TextSpec => []CorpusKept
<1>1. TextIInv => CorpusKept
  <2> SUFFICES ASSUME TextIInv, pc = "done", Valid, overlap >= 0 PROVE CorpusKept
    BY DEF CorpusKept
  <2> DEFINE docs == Paragraphs(corpus)
             a == SubSeq(docs, 1, part - 1)
             b == <<docs[part]>>
             c == SubSeq(docs, part + 1, Len(docs))
             f == FlattenSeq([i \in DOMAIN windows |-> NewWords(i)])
  <2>1. docs \in Seq(Texts) /\ part \in 1..Len(docs) /\ AllWords(docs) = SimpleWords(corpus)
    BY CorpusOK
  <2>2. f = SimpleWords(docs[part])
    BY ChunksKeepDoc DEF Doc
  <2> HIDE DEF f, docs
  <2>3. a \in Seq(Texts) /\ b \in Seq(Texts) /\ c \in Seq(Texts) /\ docs[part] \in Texts
        /\ a \o b \in Seq(Texts)
    <3>1. docs[part] \in Texts
      BY <2>1
    <3>2. a \in Seq(Texts)
      BY <2>1
    <3>3. c \in Seq(Texts)
      BY <2>1
    <3>4. b \in Seq(Texts)
      BY <3>1
    <3> HIDE DEF a, b, c
    <3> QED
      BY <3>1, <3>2, <3>3, <3>4, ConcatProperties
  <2>4. (a \o b) \o c = docs
    <3>1. a \o b = SubSeq(docs, 1, part)
      <4>1. 1 \in 1..Len(docs) /\ part \in 1..Len(docs)
        BY <2>1
      <4> QED
        BY <2>1, <4>1, SubSeqRecursiveSecond
    <3>2. SubSeq(docs, 1, part) \o c = SubSeq(docs, 1, Len(docs))
      <4>1. 1 \in 1..(Len(docs) + 1) /\ part \in (1 - 1)..Len(docs) /\ Len(docs) \in part..Len(docs)
        BY <2>1
      <4> QED
        BY <2>1, <4>1, ConcatAdjacentSubSeq
    <3>3. SubSeq(docs, 1, Len(docs)) = docs
      BY <2>1
    <3> QED
      BY <3>1, <3>2, <3>3
  <2>5. AllWords(b) = f
    <3>1. b = Append(<<>>, docs[part]) /\ <<>> \in Seq(Texts)
      OBVIOUS
    <3>2. AllWords(b) = AllWords(<<>>) \o SimpleWords(docs[part])
      BY <2>3, <3>1, AllWordsOK
    <3>3. SimpleWords(docs[part]) \in Seq(Word) /\ AllWords(<<>>) = <<>>
      BY <2>3, SimpleWordsOK, AllWordsOK
    <3>4. \A w \in Seq(Word) : <<>> \o w = w
      BY ConcatEmptySeq
    <3> QED
      BY <2>2, <3>2, <3>3, <3>4
  <2> HIDE DEF a, b, c
  <2>6. AllWords(docs) = AllWords(a \o b) \o AllWords(c)
    BY <2>3, <2>4, AllWordsConcat
  <2>7. AllWords(a \o b) = AllWords(a) \o f
    BY <2>3, <2>5, AllWordsConcat
  <2>8. SimpleWords(corpus) = (AllWords(a) \o f) \o AllWords(c)
    BY <2>1, <2>6, <2>7
  <2> QED
    BY <2>8 DEF CorpusKept, a, c, f, docs
<1> QED
  BY <1>1, TextInvariance, PTL

\* A chunk is charged with the words of its content (default.hpp:82,
\* GraphRAG.hpp:195-198, simple.hpp:20-43,82-98).
THEOREM ChargedByWords == TextSpec => []TokensAreWords
<1>1. TextIInv => TokensAreWords
  <2> SUFFICES ASSUME TextIInv, Valid, NEW i \in DOMAIN windows
               PROVE  /\ SimpleEncode(Contents[i]) = windows[i].len
                      /\ Len(SimpleWords(Contents[i])) = windows[i].len
    BY DEF TokensAreWords
  <2>1. Doc \in Texts /\ IInv /\ n = SimpleEncode(Doc)
    BY CorpusOK DEF TextIInv
  <2>2. Contents[i] = SimpleDecode(SimpleWords(Doc), windows[i])
    BY DEF Contents
  <2>3. Contents[i] \in Texts /\ Len(SimpleWords(Contents[i])) = windows[i].len
    BY <2>1, <2>2, ContentsOK
  <2>4. SimpleEncode(Contents[i]) = Len(SimpleWords(Contents[i]))
    BY <2>3, CountsWords
  <2> QED
    BY <2>3, <2>4
<1> QED
  BY <1>1, TextInvariance, PTL
=============================================================================
