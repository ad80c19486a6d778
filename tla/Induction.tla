------------------------------ MODULE Induction ------------------------------
(***************************************************************************)
(* Induction and recursion as facts about sets and functions, from which   *)
(* the other proof modules reason about loops written as recursive         *)
(* functions.  A property to be proved by induction is given as the set of *)
(* what has it, and a step of a recursion as a function, so that no fact   *)
(* has an operator as a parameter.                                         *)
(***************************************************************************)
EXTENDS SequencesExt, SequenceTheorems, WellFoundedInduction, TLAPS

LEMMA LeastElement ==
  ASSUME NEW T \in SUBSET Nat, T # {}
  PROVE  \E x \in T : \A y \in T : x <= y
<1> DEFINE R == {p \in Nat \X Nat : p[1] < p[2]}
<1>1. IsWellFoundedOn(R, Nat)
  BY NatLessThanWellFounded DEF OpToRel
<1>2. PICK x \in T : \A y \in T : ~(<<y, x>> \in R)
  <2> HIDE DEF R
  <2> QED
    BY <1>1, WFMin
<1>3. ASSUME NEW y \in T, ~(x <= y) PROVE FALSE
  <2>1. x \in Nat /\ y \in Nat /\ y < x
    BY <1>3
  <2>2. <<y, x>> \in R
    BY <2>1
  <2> QED
    BY <1>2, <2>2
<1> QED
  BY <1>3

\* Max of FiniteSetsExt is what its name says for a set of positions.
LEMMA MaxIsMember ==
  ASSUME NEW k \in Nat, NEW T \in SUBSET (1..k), T # {}
  PROVE  Max(T) \in T
<1> DEFINE U == {k - t : t \in T}
<1>1. \A t \in T : t \in Nat /\ k - t \in Nat
  OBVIOUS
<1>2. U \in SUBSET Nat /\ U # {}
  BY <1>1
<1>3. PICK x \in U : \A y \in U : x <= y
  <2> HIDE DEF U
  <2> QED
    BY <1>2, LeastElement
<1>4. PICK m \in T : x = k - m
  OBVIOUS
<1>5. ASSUME NEW t \in T PROVE m >= t
  <2>1. k - t \in U
    OBVIOUS
  <2>2. k - m <= k - t /\ t \in Nat /\ m \in Nat
    BY <1>1, <1>3, <1>4, <2>1
  <2> QED
    BY <2>2
<1> QED
  BY <1>5 DEF Max

\* What holds at 0 and with each number at the next one, up to N, holds up to N.
LEMMA UpTo ==
  ASSUME NEW N \in Nat, NEW P, 0 \in P, \A i \in 0..(N - 1) : i \in P => i + 1 \in P
  PROVE  \A i \in 0..N : i \in P
<1> DEFINE T == (0..N) \ P
<1> SUFFICES ASSUME T # {} PROVE FALSE
  OBVIOUS
<1>1. PICK m \in T : \A k \in T : m <= k
  <2>1. T \in SUBSET Nat
    OBVIOUS
  <2> HIDE DEF T
  <2> QED
    BY <2>1, LeastElement
<1>2. m \in 1..N
  OBVIOUS
<1>3. m - 1 \in 0..(N - 1) /\ ~(m <= m - 1)
  BY <1>2
<1>4. m - 1 \notin T
  BY <1>1, <1>3
<1>5. (m - 1) + 1 \in P
  BY <1>3, <1>4
<1> QED
  BY <1>2, <1>5

\* As UpTo, from a number on.
LEMMA UpFrom ==
  ASSUME NEW M \in Nat, NEW N \in Nat, NEW P, M \in P,
         \A i \in M..(N - 1) : i \in P => i + 1 \in P
  PROVE  \A i \in M..N : i \in P
<1> DEFINE Q == {j \in 0..N : j >= M => j \in P}
<1>1. 0 \in Q
  OBVIOUS
<1>2. ASSUME NEW j \in 0..(N - 1), j \in Q PROVE j + 1 \in Q
  <2>1. CASE j + 1 < M
    BY <2>1
  <2>2. CASE j + 1 = M
    BY <2>2
  <2>3. CASE j >= M
    <3>1. j \in M..(N - 1) /\ j \in P
      BY <1>2, <2>3
    <3> QED
      BY <3>1
  <2> QED
    BY <2>1, <2>2, <2>3
<1>3. \A j \in 0..N : j \in Q
  <2> HIDE DEF Q
  <2> QED
    BY <1>1, <1>2, UpTo
<1> QED
  BY <1>3

\* What the empty sequence has, and a sequence longer by one element whenever the
\* shorter one has it, all sequences have.
LEMMA SeqGrows ==
  ASSUME NEW S, NEW P, <<>> \in P, \A s \in Seq(S), c \in S : s \in P => Append(s, c) \in P
  PROVE  \A s \in Seq(S) : s \in P
<1> SUFFICES ASSUME NEW s \in Seq(S) PROVE s \in P
  OBVIOUS
<1> DEFINE N == Len(s)
           front(k) == SubSeq(s, 1, k)
           Q == {k \in 0..N : front(k) \in P}
<1>1. N \in Nat
  OBVIOUS
<1>2. 0 \in Q
  <2>1. front(0) = <<>>
    OBVIOUS
  <2>2. 0 \in 0..N
    BY <1>1
  <2> HIDE DEF front, N
  <2> QED
    BY <2>1, <2>2
<1>3. ASSUME NEW k \in 0..(N - 1), k \in Q PROVE k + 1 \in Q
  <2>1. front(k) \in Seq(S) /\ s[k + 1] \in S
    OBVIOUS
  <2>2. front(k + 1) = Append(front(k), s[k + 1])
    OBVIOUS
  <2>3. k + 1 \in 0..N
    BY <1>1
  <2> QED
    BY <1>3, <2>1, <2>2, <2>3
<1>4. \A k \in 0..N : k \in Q
  <2> HIDE DEF Q, N
  <2> QED
    BY <1>1, <1>2, <1>3, UpTo
<1>5. front(N) = s
  OBVIOUS
<1>6. N \in Q
  <2> HIDE DEF Q
  <2> QED
    BY <1>1, <1>4
<1> QED
  BY <1>5, <1>6

\* A recursion over 0..N whose steps stay in S defines a function.
IsRecursive(f, N, S, base, step) ==
  f \in [0..N -> S] /\ f[0] = base /\ \A i \in 1..N : f[i] = step[<<i, f[i - 1]>>]

LEMMA Recursion ==
  ASSUME NEW N \in Nat, NEW S, NEW base \in S, NEW step \in [(1..N) \X S -> S]
  PROVE  \E f : IsRecursive(f, N, S, base, step)
<1> DEFINE Ok(k, f) == f[0] = base /\ \A i \in 1..k : f[i] = step[<<i, f[i - 1]>>]
           P == {k \in 0..N : \E f \in [0..k -> S] : Ok(k, f)}
<1>1. 0 \in P
  <2> DEFINE f == [i \in 0..0 |-> base]
  <2>1. f \in [0..0 -> S] /\ f[0] = base
    OBVIOUS
  <2>2. Ok(0, f)
    BY <2>1
  <2>3. 0 \in 0..N
    OBVIOUS
  <2> HIDE DEF f, Ok
  <2> QED
    BY <2>1, <2>2, <2>3
<1>2. ASSUME NEW k \in 0..(N - 1), k \in P PROVE k + 1 \in P
  <2>1. PICK f \in [0..k -> S] : Ok(k, f)
    BY <1>2
  <2> DEFINE g == [i \in 0..(k + 1) |-> IF i = k + 1 THEN step[<<k + 1, f[k]>>] ELSE f[i]]
  <2>2. k + 1 \in 1..N /\ k \in 0..k /\ f[k] \in S
    OBVIOUS
  <2>3. step[<<k + 1, f[k]>>] \in S
    BY <2>2
  <2>4. g \in [0..(k + 1) -> S]
    BY <2>3
  <2>5. \A i \in 0..k : g[i] = f[i]
    OBVIOUS
  <2>6. g[0] = base
    BY <2>1, <2>5
  <2>7. ASSUME NEW i \in 1..(k + 1) PROVE g[i] = step[<<i, g[i - 1]>>]
    <3>1. CASE i = k + 1
      <4>1. g[k + 1] = step[<<k + 1, f[k]>>] /\ g[k] = f[k]
        OBVIOUS
      <4>2. i - 1 = k
        BY <3>1
      <4> HIDE DEF g
      <4> QED
        BY <3>1, <4>1, <4>2
    <3>2. CASE i # k + 1
      <4>1. i \in 1..k /\ i \in 0..k /\ i - 1 \in 0..k
        BY <3>2
      <4>2. f[i] = step[<<i, f[i - 1]>>]
        BY <2>1, <4>1
      <4>3. g[i] = f[i] /\ g[i - 1] = f[i - 1]
        BY <2>5, <4>1
      <4> QED
        BY <4>2, <4>3
    <3> QED
      BY <3>1, <3>2
  <2>8. k + 1 \in 0..N
    OBVIOUS
  <2> HIDE DEF g
  <2> QED
    BY <2>4, <2>6, <2>7, <2>8
<1>3. \A k \in 0..N : k \in P
  <2> HIDE DEF P
  <2> QED
    BY <1>1, <1>2, UpTo
<1>4. N \in P
  <2> HIDE DEF P
  <2> QED
    BY <1>3
<1> QED
  BY <1>4 DEF IsRecursive

\* A recursion has one value at each number.
LEMMA RecursionUnique ==
  ASSUME NEW N \in Nat, NEW S, NEW base, NEW step, NEW f, IsRecursive(f, N, S, base, step), NEW g,
         g[0] = base, \A i \in 1..N : g[i - 1] \in S => g[i] = step[<<i, g[i - 1]>>]
  PROVE  \A i \in 0..N : g[i] = f[i]
<1>0. f \in [0..N -> S] /\ f[0] = base /\ \A i \in 1..N : f[i] = step[<<i, f[i - 1]>>]
  BY DEF IsRecursive
<1> DEFINE P == {i \in 0..N : g[i] = f[i]}
<1>1. 0 \in P
  BY <1>0
<1>2. ASSUME NEW i \in 0..(N - 1), i \in P PROVE i + 1 \in P
  <2>1. i + 1 \in 1..N /\ (i + 1) - 1 = i /\ g[i] = f[i] /\ f[i] \in S
    BY <1>0, <1>2
  <2>2. f[i + 1] = step[<<i + 1, f[i]>>]
    BY <1>0, <2>1
  <2>3. g[i + 1] = step[<<i + 1, g[i]>>]
    BY <2>1
  <2> QED
    BY <2>1, <2>2, <2>3
<1>3. \A i \in 0..N : i \in P
  <2> HIDE DEF P
  <2> QED
    BY <1>1, <1>2, UpTo
<1> QED
  BY <1>3

\* A loop over the elements of a sequence, its state being in S: what it ends with
\* is a function of the sequence, which one more element takes one step on; every
\* recursion over the positions that makes the steps of the loop ends with it.
IsLoop(F, S, C, base, step) ==
  /\ F \in [Seq(C) -> S]
  /\ F[<<>>] = base
  /\ \A t \in Seq(C), c \in C : F[Append(t, c)] = step[<<F[t], c>>]
  /\ \A t \in Seq(C) :
       \E f \in [0..Len(t) -> S] :
         /\ f[0] = base /\ \A i \in 1..Len(t) : f[i] = step[<<f[i - 1], t[i]>>]
         /\ f[Len(t)] = F[t]
  /\ \A t \in Seq(C) : \A g :
       (g[0] = base /\ \A i \in 1..Len(t) : g[i - 1] \in S => g[i] = step[<<g[i - 1], t[i]>>])
         => g[Len(t)] = F[t]

LEMMA Loop ==
  ASSUME NEW S, NEW C, NEW base \in S, NEW step \in [S \X C -> S]
  PROVE  \E F : IsLoop(F, S, C, base, step)
<1> DEFINE Ok(t, f) == f[0] = base /\ \A i \in 1..Len(t) : f[i] = step[<<f[i - 1], t[i]>>]
           trace(t) == CHOOSE f \in [0..Len(t) -> S] : Ok(t, f)
           F == [t \in Seq(C) |-> trace(t)[Len(t)]]
<1>1. ASSUME NEW t \in Seq(C) PROVE \E f \in [0..Len(t) -> S] : Ok(t, f)
  <2> DEFINE N == Len(t)
             stp == [p \in (1..N) \X S |-> step[<<p[2], t[p[1]]>>]]
  <2>1. N \in Nat /\ \A i \in 1..N : t[i] \in C
    OBVIOUS
  <2>2. stp \in [(1..N) \X S -> S]
    BY <2>1
  <2>3. \A i \in 1..N, s \in S : stp[<<i, s>>] = step[<<s, t[i]>>]
    OBVIOUS
  <2> HIDE DEF stp, N
  <2>4. PICK f : IsRecursive(f, N, S, base, stp)
    BY <2>1, <2>2, Recursion, Zenon
  <2>5. f \in [0..N -> S] /\ f[0] = base /\ \A i \in 1..N : f[i] = stp[<<i, f[i - 1]>>]
    BY <2>4 DEF IsRecursive
  <2>6. \A i \in 1..N : f[i - 1] \in S
    BY <2>1, <2>5
  <2>7. \A i \in 1..N : f[i] = step[<<f[i - 1], t[i]>>]
    BY <2>3, <2>5, <2>6
  <2> QED
    BY <2>5, <2>7 DEF N
<1>2. ASSUME NEW t \in Seq(C), NEW f \in [0..Len(t) -> S], NEW g, NEW N \in 0..Len(t), Ok(t, f),
             g[0] = base, \A i \in 1..N : g[i - 1] \in S => g[i] = step[<<g[i - 1], t[i]>>]
      PROVE  \A i \in 0..N : g[i] = f[i]
  <2> DEFINE P == {i \in 0..N : g[i] = f[i]}
  <2>1. N \in Nat
    OBVIOUS
  <2>2. 0 \in P
    BY <1>2
  <2>3. ASSUME NEW i \in 0..(N - 1), i \in P PROVE i + 1 \in P
    <3>1. /\ i + 1 \in 1..N /\ i + 1 \in 0..N /\ (i + 1) - 1 = i /\ i + 1 \in 1..Len(t)
          /\ g[i] = f[i] /\ f[i] \in S
      BY <2>3
    <3>2. f[i + 1] = step[<<f[i], t[i + 1]>>]
      BY <1>2, <3>1
    <3>3. g[i + 1] = step[<<g[i], t[i + 1]>>]
      BY <1>2, <3>1
    <3> QED
      BY <3>1, <3>2, <3>3
  <2>4. \A i \in 0..N : i \in P
    <3> HIDE DEF P
    <3> QED
      BY <2>1, <2>2, <2>3, UpTo
  <2> QED
    BY <2>4
<1>3. ASSUME NEW t \in Seq(C)
      PROVE  trace(t) \in [0..Len(t) -> S] /\ Ok(t, trace(t)) /\ F[t] = trace(t)[Len(t)]
  <2>1. trace(t) \in [0..Len(t) -> S] /\ Ok(t, trace(t))
    <3> HIDE DEF Ok
    <3> QED
      BY <1>1
  <2> QED
    BY <2>1
<1> HIDE DEF trace, F
<1>4. F \in [Seq(C) -> S]
  <2>1. \A t \in Seq(C) : trace(t)[Len(t)] \in S
    BY <1>3
  <2> QED
    BY <2>1 DEF F
<1>5. F[<<>>] = base
  <2>1. <<>> \in Seq(C) /\ Len(<<>>) = 0
    OBVIOUS
  <2> QED
    BY <1>3, <2>1
<1>6. ASSUME NEW t \in Seq(C), NEW c \in C PROVE F[Append(t, c)] = step[<<F[t], c>>]
  <2> DEFINE u == Append(t, c)
             N == Len(t)
  <2>1. /\ u \in Seq(C) /\ N \in Nat /\ Len(u) = N + 1 /\ u[N + 1] = c
        /\ \A i \in 1..N : u[i] = t[i]
    OBVIOUS
  <2> HIDE DEF u
  <2>2. /\ trace(u)[0] = base
        /\ \A i \in 1..(N + 1) : trace(u)[i] = step[<<trace(u)[i - 1], u[i]>>]
    BY <1>3, <2>1
  <2>3. \A i \in 1..N : trace(u)[i] = step[<<trace(u)[i - 1], t[i]>>]
    BY <2>1, <2>2
  <2>4. \A i \in 0..N : trace(u)[i] = trace(t)[i]
    <3>1. N \in 0..Len(t) /\ Ok(t, trace(t)) /\ trace(t) \in [0..Len(t) -> S]
      BY <1>3, <2>1
    <3> HIDE DEF N, Ok
    <3> QED
      BY <1>2, <2>2, <2>3, <3>1
  <2>5. trace(u)[N] = F[t] /\ N + 1 \in 1..(N + 1) /\ (N + 1) - 1 = N
    BY <1>3, <2>1, <2>4
  <2>6. trace(u)[N + 1] = step[<<F[t], c>>]
    BY <2>1, <2>2, <2>5
  <2> QED
    BY <1>3, <2>1, <2>6 DEF u
<1>7. ASSUME NEW t \in Seq(C)
      PROVE  \E f \in [0..Len(t) -> S] :
               /\ f[0] = base /\ \A i \in 1..Len(t) : f[i] = step[<<f[i - 1], t[i]>>]
               /\ f[Len(t)] = F[t]
  BY <1>3
<1>8. ASSUME NEW t \in Seq(C), NEW g, g[0] = base,
             \A i \in 1..Len(t) : g[i - 1] \in S => g[i] = step[<<g[i - 1], t[i]>>]
      PROVE  g[Len(t)] = F[t]
  <2>1. Len(t) \in 0..Len(t) /\ Ok(t, trace(t)) /\ trace(t) \in [0..Len(t) -> S]
    BY <1>3
  <2>2. \A i \in 0..Len(t) : g[i] = trace(t)[i]
    <3> HIDE DEF Ok
    <3> QED
      BY <1>2, <1>8, <2>1
  <2> QED
    BY <1>3, <2>1, <2>2
<1>9. IsLoop(F, S, C, base, step)
  BY <1>4, <1>5, <1>6, <1>7, <1>8 DEF IsLoop
<1> QED
  BY <1>9

\* A sequence of sequences put together.
LEMMA FlattenOK ==
  ASSUME NEW S
  PROVE  /\ FlattenSeq(<<>>) = <<>>
         /\ \A t \in Seq(Seq(S)) : FlattenSeq(t) \in Seq(S)
         /\ \A t \in Seq(Seq(S)), c \in Seq(S) : FlattenSeq(Append(t, c)) = FlattenSeq(t) \o c
<1> DEFINE Q == Seq(S)
           step == [p \in Q \X Q |-> p[1] \o p[2]]
<1>1. <<>> \in Q /\ \A s, c \in Q : s \o c \in Q
  BY ConcatProperties
<1>2. step \in [Q \X Q -> Q] /\ \A s, c \in Q : step[<<s, c>>] = s \o c
  <2> HIDE DEF Q
  <2> QED
    BY <1>1
<1>3. \A c \in Q : <<>> \o c = c
  BY ConcatEmptySeq
<1> HIDE DEF step, Q
<1>4. PICK F : IsLoop(F, Q, Q, <<>>, step)
  BY <1>1, <1>2, Loop, Zenon
<1>5. ASSUME NEW t \in Seq(Q) PROVE FlattenSeq(t) = F[t]
  <2>1. CASE t = <<>>
    <3>1. FlattenSeq(t) = <<>>
      BY <2>1 DEF FlattenSeq
    <3> QED
      BY <1>4, <2>1, <3>1 DEF IsLoop
  <2>2. CASE t # <<>>
    <3> DEFINE N == Len(t)
               body(h) == [i \in 1..N |-> IF i = 1 THEN t[i] ELSE h[i - 1] \o t[i]]
               flatten == CHOOSE h : h = body(h)
               g == [i \in 0..N |-> IF i = 0 THEN <<>> ELSE flatten[i]]
    <3>1. N \in Nat \ {0} /\ \A i \in 1..N : t[i] \in Q
      BY <2>2
    <3>2. PICK f \in [0..N -> Q] :
            f[0] = <<>> /\ \A i \in 1..N : f[i] = step[<<f[i - 1], t[i]>>]
      BY <1>4 DEF IsLoop
    <3>3. FlattenSeq(t) = flatten[N]
      BY <3>1 DEF FlattenSeq
    <3> HIDE DEF N
    <3>4. ASSUME NEW i \in 1..N PROVE f[i - 1] \in Q /\ f[i] = f[i - 1] \o t[i]
      <4>1. f[i - 1] \in Q /\ t[i] \in Q /\ f[i] = step[<<f[i - 1], t[i]>>]
        BY <3>1, <3>2
      <4> QED
        BY <1>2, <4>1
    <3>5. f[1] = t[1]
      <4>1. 1 \in 1..N /\ 1 - 1 = 0
        BY <3>1
      <4>2. f[1] = f[0] \o t[1] /\ t[1] \in Q
        BY <3>1, <3>4, <4>1
      <4> QED
        BY <1>3, <3>2, <4>2
    <3>6. [i \in 1..N |-> f[i]] = body([i \in 1..N |-> f[i]])
      <4>1. ASSUME NEW i \in 1..N
            PROVE  f[i] = IF i = 1 THEN t[i] ELSE [j \in 1..N |-> f[j]][i - 1] \o t[i]
        <5>1. CASE i = 1
          BY <3>5, <5>1
        <5>2. CASE i # 1
          <6>1. i - 1 \in 1..N
            BY <3>1, <5>2
          <6>2. [j \in 1..N |-> f[j]][i - 1] = f[i - 1]
            BY <6>1
          <6> QED
            BY <3>4, <5>2, <6>2
        <5> QED
          BY <5>1, <5>2
      <4> QED
        BY <4>1
    <3>7. flatten = body(flatten)
      <4> HIDE DEF body
      <4> QED
        BY <3>6
    <3> HIDE DEF flatten
    <3>8. \A i \in 1..N : flatten[i] = IF i = 1 THEN t[i] ELSE flatten[i - 1] \o t[i]
      BY <3>7
    <3>9. g[0] = <<>> /\ g[N] = flatten[N]
      BY <3>1
    <3>10. ASSUME NEW i \in 1..N, g[i - 1] \in Q PROVE g[i] = step[<<g[i - 1], t[i]>>]
      <4>1. step[<<g[i - 1], t[i]>>] = g[i - 1] \o t[i] /\ t[i] \in Q
        BY <1>2, <3>1, <3>10
      <4>2. CASE i = 1
        <5>1. g[i] = t[i] /\ g[i - 1] = <<>>
          BY <3>1, <3>8, <4>2
        <5> QED
          BY <1>3, <4>1, <5>1
      <4>3. CASE i # 1
        <5>1. i - 1 \in 1..N /\ i - 1 # 0 /\ i # 0
          BY <3>1, <4>3
        <5>2. g[i] = flatten[i] /\ g[i - 1] = flatten[i - 1]
          BY <3>1, <5>1
        <5>3. flatten[i] = flatten[i - 1] \o t[i]
          BY <3>8, <4>3
        <5> QED
          BY <4>1, <5>2, <5>3
      <4> QED
        BY <4>2, <4>3
    <3> HIDE DEF g
    <3> QED
      BY <1>4, <3>3, <3>9, <3>10 DEF IsLoop, N
  <2> QED
    BY <2>1, <2>2
<1>6. /\ F \in [Seq(Q) -> Q] /\ F[<<>>] = <<>>
      /\ \A t \in Seq(Q), c \in Q : F[Append(t, c)] = step[<<F[t], c>>]
  BY <1>4 DEF IsLoop
<1>7. ASSUME NEW t \in Seq(Q), NEW c \in Q
      PROVE  FlattenSeq(t) \in Q /\ FlattenSeq(Append(t, c)) = FlattenSeq(t) \o c
  <2>1. Append(t, c) \in Seq(Q)
    OBVIOUS
  <2>2. F[t] \in Q /\ F[Append(t, c)] = F[t] \o c
    BY <1>2, <1>6
  <2> QED
    BY <1>5, <2>1, <2>2
<1>8. FlattenSeq(<<>>) = <<>>
  <2>1. <<>> \in Seq(Q)
    OBVIOUS
  <2> QED
    BY <1>5, <1>6, <2>1
<1>9. \A t \in Seq(Q) : FlattenSeq(t) \in Q
  BY <1>5, <1>6
<1> QED
  BY <1>7, <1>8, <1>9 DEF Q

LEMMA FlattenConcat ==
  ASSUME NEW S, NEW a \in Seq(Seq(S)), NEW b \in Seq(Seq(S))
  PROVE  FlattenSeq(a \o b) = FlattenSeq(a) \o FlattenSeq(b)
<1> DEFINE Q == Seq(S)
           P == {t \in Seq(Q) : FlattenSeq(a \o t) = FlattenSeq(a) \o FlattenSeq(t)}
<1>0. FlattenSeq(a) \in Q
  BY FlattenOK
<1>1. <<>> \in P
  <2>1. a \o <<>> = a /\ <<>> \in Seq(Q)
    BY ConcatEmptySeq
  <2>2. FlattenSeq(a) \o <<>> = FlattenSeq(a)
    BY <1>0, ConcatEmptySeq
  <2> QED
    BY <2>1, <2>2, FlattenOK
<1>2. ASSUME NEW t \in Seq(Q), NEW c \in Q, t \in P PROVE Append(t, c) \in P
  <2>1. Append(a \o t, c) = a \o Append(t, c) /\ a \o t \in Seq(Q) /\ Append(t, c) \in Seq(Q)
    <3> DEFINE e == <<c>>
    <3>1. a \in Seq(Q)
      OBVIOUS
    <3> HIDE DEF P, Q
    <3>2. Append(t, c) \in Seq(Q) /\ a \o t \in Seq(Q)
      BY <3>1, ConcatProperties, AppendProperties
    <3>3. Append(a \o t, c) = (a \o t) \o e /\ Append(t, c) = t \o e /\ e \in Seq(Q)
      BY <3>1, <3>2, AppendIsConcat
    <3> HIDE DEF e
    <3>4. (a \o t) \o e = a \o (t \o e)
      BY <3>1, <3>3, ConcatAssociative
    <3> QED
      BY <3>2, <3>3, <3>4
  <2>2. /\ FlattenSeq(Append(a \o t, c)) = FlattenSeq(a \o t) \o c
        /\ FlattenSeq(Append(t, c)) = FlattenSeq(t) \o c /\ FlattenSeq(t) \in Q
    BY <2>1, FlattenOK
  <2>3. FlattenSeq(a \o t) = FlattenSeq(a) \o FlattenSeq(t)
    BY <1>2
  <2>4. (FlattenSeq(a) \o FlattenSeq(t)) \o c = FlattenSeq(a) \o (FlattenSeq(t) \o c)
    <3> DEFINE x == FlattenSeq(a)
               y == FlattenSeq(t)
    <3>1. x \in Seq(S) /\ y \in Seq(S) /\ c \in Seq(S)
      BY <1>0, <2>2
    <3> HIDE DEF P, Q, x, y
    <3>2. (x \o y) \o c = x \o (y \o c)
      BY <3>1, ConcatAssociative
    <3> QED
      BY <3>2 DEF x, y
  <2> QED
    BY <2>1, <2>2, <2>3, <2>4
<1>3. \A t \in Seq(Q) : t \in P
  <2> HIDE DEF P, Q
  <2> QED
    BY <1>1, <1>2, SeqGrows
<1> QED
  BY <1>3

\* A part of a part of a sequence.
LEMMA PieceOfPiece ==
  ASSUME NEW S, NEW s \in Seq(S), NEW a \in Nat, NEW b \in Nat, NEW o \in Nat, a + b <= Len(s)
  PROVE  SubSeq(SubSeq(s, a + 1, a + b), o + 1, b) = SubSeq(s, (a + o) + 1, a + b)
<1> DEFINE p == SubSeq(s, a + 1, a + b)
<1>1. /\ p \in Seq(S) /\ Len(p) = b /\ \A i \in 1..b : p[i] = s[a + i]
  <2>1. \A i \in (a + 1)..(a + b) : s[i] \in S
    OBVIOUS
  <2>2. a + 1 \in Int /\ a + b \in Int
    OBVIOUS
  <2>3. p \in Seq(S) /\ Len(p) = IF a + 1 <= a + b THEN (a + b) - (a + 1) + 1 ELSE 0
    BY <2>1, <2>2, SubSeqProperties
  <2>4. \A i \in 1..((a + b) - (a + 1) + 1) : p[i] = s[(a + 1) + i - 1]
    BY <2>1, <2>2, SubSeqProperties
  <2>5. (a + b) - (a + 1) + 1 = b /\ \A i \in Int : (a + 1) + i - 1 = a + i
    OBVIOUS
  <2> HIDE DEF p
  <2> QED
    BY <2>3, <2>4, <2>5
<1> HIDE DEF p
<1>2. CASE b <= o
  BY <1>2, SubSeqEmpty
<1>3. CASE o < b
  <2> DEFINE x == SubSeq(p, o + 1, b)
             y == SubSeq(s, (a + o) + 1, a + b)
  <2>1. x \in Seq(S) /\ Len(x) = b - o /\ \A i \in 1..(b - o) : x[i] = p[o + i]
    <3>1. \A i \in (o + 1)..b : p[i] \in S
      BY <1>1
    <3>2. x \in Seq(S) /\ Len(x) = IF o + 1 <= b THEN b - (o + 1) + 1 ELSE 0
      BY <3>1, SubSeqProperties
    <3>3. \A i \in 1..(b - (o + 1) + 1) : x[i] = p[(o + 1) + i - 1]
      BY <3>1, SubSeqProperties
    <3>4. b - (o + 1) + 1 = b - o /\ \A i \in Int : (o + 1) + i - 1 = o + i
      OBVIOUS
    <3> HIDE DEF x
    <3> QED
      BY <1>3, <3>2, <3>3, <3>4
  <2>2. y \in Seq(S) /\ Len(y) = b - o /\ \A i \in 1..(b - o) : y[i] = s[a + (o + i)]
    <3>1. \A i \in ((a + o) + 1)..(a + b) : s[i] \in S
      OBVIOUS
    <3>2. y \in Seq(S) /\ Len(y) = IF (a + o) + 1 <= a + b THEN (a + b) - ((a + o) + 1) + 1 ELSE 0
      BY <3>1, SubSeqProperties
    <3>3. \A i \in 1..((a + b) - ((a + o) + 1) + 1) : y[i] = s[((a + o) + 1) + i - 1]
      BY <3>1, SubSeqProperties
    <3>4. (a + b) - ((a + o) + 1) + 1 = b - o /\ \A i \in Int : ((a + o) + 1) + i - 1 = a + (o + i)
      OBVIOUS
    <3> HIDE DEF y
    <3> QED
      BY <1>3, <3>2, <3>3, <3>4
  <2> HIDE DEF x, y
  <2>3. \A i \in 1..Len(x) : x[i] = y[i]
    <3>1. \A i \in 1..(b - o) : o + i \in 1..b
      OBVIOUS
    <3> QED
      BY <1>1, <2>1, <2>2, <3>1
  <2>4. x = y
    BY <2>1, <2>2, <2>3, SeqEqual
  <2> QED
    BY <2>4 DEF x, y
<1> QED
  BY <1>2, <1>3 DEF p
=============================================================================
