----------------------------- MODULE Inductions -----------------------------
(***************************************************************************)
(* What a fold over a sequence computes, for the proofs of the modules that *)
(* fold: the functions of SequencesExt and Functions choose a recursion over *)
(* sets of indices, which is defined, as its least counterexample shows, and *)
(* whose values are those along the sequence.                              *)
(***************************************************************************)
EXTENDS WellFoundedInduction, SequenceTheorems, SequencesExt, TLAPS

\* A set of naturals has a least member.
LEMMA Least ==
  ASSUME NEW T \in SUBSET Nat, T # {}
  PROVE  \E n \in T : \A m \in T : n <= m
  <1>1. IsWellFoundedOn(OpToRel(<, Nat), Nat)
    BY NatLessThanWellFounded
  <1>2. PICK n \in T : \A m \in T : ~(<<m, n>> \in OpToRel(<, Nat))
    BY <1>1, WFMin
  <1>3. \A m \in T : ~(m < n)
    BY <1>2 DEF OpToRel
  <1> QED BY <1>3

\* What holds of 0, and of n + 1 if of n, holds up to any bound
LEMMA Reaches ==
  ASSUME NEW S, NEW N \in Nat, 0 \in S, \A n \in 0..N : n \in S /\ n < N => n + 1 \in S
  PROVE  \A n \in 0..N : n \in S
  <1> DEFINE left == (0..N) \ S
  <1>1. SUFFICES ASSUME left # {} PROVE FALSE
    OBVIOUS
  <1>2. left \in SUBSET Nat
    OBVIOUS
  <1>3. PICK n \in left : \A m \in left : n <= m
    <2> HIDE DEF left
    <2> QED BY <1>1, <1>2, Least
  <1>4. n \in 0..N /\ n # 0 /\ n \notin S
    BY <1>3
  <1>5. n - 1 \in 0..N /\ n - 1 < N /\ (n - 1) + 1 = n
    BY <1>4
  <1>6. n - 1 \notin S
    BY <1>4, <1>5
  <1>7. n - 1 \in left
    BY <1>5, <1>6
  <1>8. n <= n - 1
    <2> HIDE DEF left
    <2> QED BY <1>3, <1>7
  <1> QED BY <1>4, <1>8

\* Max is a greatest member,
LEMMA MaxIs ==
  ASSUME NEW n \in Nat, NEW s \in SUBSET (1..n), NEW m \in s, \A x \in s : m >= x
  PROVE  Max(s) = m
  <1>1. \E x \in s : \A y \in s : x >= y
    OBVIOUS
  <1>2. Max(s) \in s /\ \A y \in s : Max(s) >= y
    BY <1>1 DEF Max
  <1> DEFINE x == Max(s)
  <1>3. x \in s /\ x >= m /\ m >= x
    BY <1>2
  <1> HIDE DEF x
  <1>4. x = m
    BY <1>3
  <1> QED BY <1>4 DEF x

\* and a set of indices that is not empty has one.
LEMMA MaxBelow ==
  ASSUME NEW n \in Nat, NEW s \in SUBSET (1..n), s # {}
  PROVE  Max(s) \in s /\ \A x \in s : Max(s) >= x
  <1> DEFINE S == {k \in 0..n : \A t \in SUBSET (1..k) : t # {} => \E x \in t : \A y \in t : x >= y}
  <1>1. 0 \in S
    <2>1. \A t \in SUBSET (1..0) : t = {}
      OBVIOUS
    <2>2. 0 \in 0..n
      OBVIOUS
    <2> QED BY <2>1, <2>2
  <1>2. ASSUME NEW k \in 0..n, k \in S, k < n PROVE k + 1 \in S
    <2>1. ASSUME NEW t \in SUBSET (1..(k+1)), t # {} PROVE \E x \in t : \A y \in t : x >= y
      <3>1. CASE k + 1 \in t
        BY <3>1
      <3>2. CASE k + 1 \notin t
        <4>1. t \in SUBSET (1..k)
          BY <3>2
        <4>2. \A u \in SUBSET (1..k) : u # {} => \E x \in u : \A y \in u : x >= y
          BY <1>2
        <4> QED BY <4>1, <4>2, <2>1
      <3> QED BY <3>1, <3>2
    <2>2. k + 1 \in 0..n
      BY <1>2
    <2> QED BY <2>1, <2>2
  <1>3. n \in S
    <2> HIDE DEF S
    <2>1. \A k \in 0..n : k \in S
      BY <1>1, <1>2, Reaches
    <2> QED BY <2>1
  <1>4. \E x \in s : \A y \in s : x >= y
    BY <1>3
  <1> QED BY <1>4 DEF Max

-----------------------------------------------------------------------------
(* A fold over a sequence of length N, from b, with values in V: the steps *)
(* as a function of the value so far and the index, the recursion of       *)
(* FoldLeft over sets of indices, and its values along the sequence.       *)

StepsOf(V, N) == [V \X (1..N) -> V]
Recurs(V, b, N, step, g) ==
  /\ g \in [SUBSET (1..N) -> V]
  /\ \A s \in SUBSET (1..N) :
       g[s] = IF s = {} THEN b ELSE step[<<g[s \ {Max(s)}], Max(s)>>]
StepsAlong(V, b, N, step, g) ==
  /\ g[{}] = b
  /\ \A i \in 1..N : g[1..(i - 1)] \in V => g[1..i] = step[<<g[1..(i - 1)], i>>]
Passes(V, b, N, step, p) ==
  /\ p \in [0..N -> V] /\ p[0] = b
  /\ \A i \in 1..N : p[i] = step[<<p[i - 1], i>>]

\* A recursion along a sequence defines a function
LEMMA FoldIsDefined ==
  ASSUME NEW V, NEW b \in V, NEW N \in Nat, NEW step \in StepsOf(V, N)
  PROVE  \E g : Recurs(V, b, N, step, g)
  <1> USE DEF StepsOf
  <1> DEFINE Folds(g, n) ==
               \A s \in SUBSET (1..n) :
                 g[s] = IF s = {} THEN b ELSE step[<<g[s \ {Max(s)}], Max(s)>>]
             S == {n \in 0..N : \E g \in [SUBSET (1..n) -> V] : Folds(g, n)}
  <1>1. 0 \in S
    <2> DEFINE g == [s \in SUBSET (1..0) |-> b]
    <2>1. g \in [SUBSET (1..0) -> V]
      OBVIOUS
    <2>2. \A s \in SUBSET (1..0) : s = {} /\ g[s] = b
      OBVIOUS
    <2> HIDE DEF g
    <2>3. Folds(g, 0)
      BY <2>2
    <2>4. 0 \in 0..N
      OBVIOUS
    <2> QED BY <2>1, <2>3, <2>4
  <1>2. ASSUME NEW n \in 0..N, n \in S, n < N PROVE n + 1 \in S
    <2>1. PICK g \in [SUBSET (1..n) -> V] : Folds(g, n)
      BY <1>2
    <2> DEFINE h == [s \in SUBSET (1..(n + 1)) |->
                      IF n + 1 \in s THEN step[<<g[s \ {n + 1}], n + 1>>] ELSE g[s]]
    <2>2. \A s \in SUBSET (1..(n + 1)) : s \ {n + 1} \in SUBSET (1..n)
      OBVIOUS
    <2>3. h \in [SUBSET (1..(n + 1)) -> V]
      <3>1. \A s \in SUBSET (1..(n + 1)) : n + 1 \notin s => s \in SUBSET (1..n)
        OBVIOUS
      <3>0. n + 1 \in 1..N
        BY <1>2
      <3>2. \A s \in SUBSET (1..(n + 1)) : <<g[s \ {n + 1}], n + 1>> \in V \X (1..N)
        BY <2>2, <3>0
      <3>3. \A s \in SUBSET (1..(n + 1)) : step[<<g[s \ {n + 1}], n + 1>>] \in V
        BY <3>2
      <3>4. \A s \in SUBSET (1..(n + 1)) : n + 1 \notin s => g[s] \in V
        BY <3>1
      <3> QED BY <3>3, <3>4
    <2>4. ASSUME NEW s \in SUBSET (1..(n + 1))
          PROVE  h[s] = IF s = {} THEN b ELSE step[<<h[s \ {Max(s)}], Max(s)>>]
      <3>1. CASE n + 1 \in s
        <4>0. n + 1 \in Nat
          OBVIOUS
        <4>5. \A x \in s : n + 1 >= x
          OBVIOUS
        <4>1. Max(s) = n + 1
          BY <3>1, <4>0, <4>5, MaxIs
        <4>2. s \ {n + 1} \in SUBSET (1..(n + 1)) /\ n + 1 \notin s \ {n + 1}
          OBVIOUS
        <4>3. h[s \ {n + 1}] = g[s \ {n + 1}]
          BY <4>2
        <4>4. h[s] = step[<<g[s \ {n + 1}], n + 1>>]
          BY <3>1
        <4> HIDE DEF h
        <4> QED BY <3>1, <4>1, <4>3, <4>4
      <3>2. CASE n + 1 \notin s
        <4>1. s \in SUBSET (1..n)
          BY <3>2
        <4>4. g[s] = IF s = {} THEN b ELSE step[<<g[s \ {Max(s)}], Max(s)>>]
          BY <2>1, <4>1
        <4>5. h[s] = g[s]
          BY <3>2
        <4>6. CASE s = {}
          <5> HIDE DEF h
          <5> QED BY <4>4, <4>5, <4>6
        <4>7. CASE s # {}
          <5>1. n + 1 \notin s \ {Max(s)} /\ s \ {Max(s)} \in SUBSET (1..(n + 1))
            BY <3>2
          <5>2. h[s \ {Max(s)}] = g[s \ {Max(s)}]
            BY <5>1
          <5> HIDE DEF h
          <5> QED BY <4>4, <4>5, <4>7, <5>2
        <4> QED BY <4>6, <4>7
      <3> QED BY <3>1, <3>2
    <2>6. n + 1 \in 0..N
      BY <1>2
    <2> HIDE DEF h
    <2>5. Folds(h, n + 1)
      BY <2>4
    <2>7. \E f \in [SUBSET (1..(n + 1)) -> V] : Folds(f, n + 1)
      <3> HIDE DEF Folds
      <3> QED BY <2>3, <2>5
    <2> QED BY <2>6, <2>7
  <1>3. N \in S
    <2> HIDE DEF S
    <2>1. \A k \in 0..N : k \in S
      BY <1>1, <1>2, Reaches
    <2> QED BY <2>1
  <1>4. PICK g \in [SUBSET (1..N) -> V] : Folds(g, N)
    BY <1>3
  <1>5. Recurs(V, b, N, step, g)
    BY <1>4 DEF Recurs
  <1> QED BY <1>5

\* and its values along the sequence are the fold of each prefix.
LEMMA FoldPasses ==
  ASSUME NEW V, NEW b \in V, NEW N \in Nat, NEW step \in StepsOf(V, N), NEW iter,
         StepsAlong(V, b, N, step, iter)
  PROVE  \E p : Passes(V, b, N, step, p) /\ p[N] = iter[1..N]
  <1> USE DEF StepsOf
  <1>0. iter[{}] = b
    BY DEF StepsAlong
  <1> DEFINE S == {i \in 0..N : iter[1..i] \in V}
  <1>1. 0 \in S
    <2>1. 1..0 = {}
      OBVIOUS
    <2> QED BY <1>0, <2>1
  <1>2. ASSUME NEW n \in 0..N, n \in S, n < N PROVE n + 1 \in S
    <2>1. iter[1..n] \in V /\ n + 1 \in 1..N /\ (n + 1) - 1 = n
      BY <1>2
    <2>2. iter[1..(n + 1)] = step[<<iter[1..n], n + 1>>]
      BY <2>1 DEF StepsAlong
    <2>3. <<iter[1..n], n + 1>> \in V \X (1..N)
      BY <2>1
    <2> QED BY <2>1, <2>2, <2>3
  <1>3. \A i \in 0..N : i \in S
    <2> HIDE DEF S
    <2> QED BY <1>1, <1>2, Reaches
  <1> DEFINE p == [i \in 0..N |-> iter[1..i]]
  <1>4. p \in [0..N -> V]
    BY <1>3
  <1>5. p[0] = b
    <2>1. 1..0 = {} /\ 0 \in 0..N
      OBVIOUS
    <2> QED BY <1>0, <2>1
  <1>6. p[N] = iter[1..N]
    OBVIOUS
  <1>7. ASSUME NEW i \in 1..N PROVE p[i] = step[<<p[i - 1], i>>]
    <2>1. i - 1 \in 0..N /\ i \in 0..N
      OBVIOUS
    <2>2. iter[1..(i - 1)] \in V
      BY <2>1, <1>3
    <2>3. iter[1..i] = step[<<iter[1..(i - 1)], i>>]
      BY <2>2 DEF StepsAlong
    <2> QED BY <2>1, <2>3
  <1> HIDE DEF p
  <1>8. Passes(V, b, N, step, p)
    BY <1>4, <1>5, <1>7 DEF Passes
  <1> QED BY <1>6, <1>8

\* A prefix without its last
LEMMA PrefixIs ==
  ASSUME NEW N \in Nat, NEW i \in 1..N
  PROVE  /\ 1..i \in SUBSET (1..N) /\ 1..i # {} /\ Max(1..i) = i
         /\ (1..i) \ {i} = 1..(i - 1)
  <1>1. Max(1..i) = i
    <2>1. i \in Nat /\ i \in 1..i /\ 1..i \in SUBSET (1..i) /\ \A x \in 1..i : i >= x
      OBVIOUS
    <2> QED BY <2>1, MaxIs
  <1> QED BY <1>1

\* Joining the sequences of a sequence, from the first to the last
Joins(S, seqs, p) ==
  /\ p \in [0..Len(seqs) -> Seq(S)] /\ p[0] = <<>>
  /\ \A i \in 1..Len(seqs) : p[i] = p[i - 1] \o seqs[i]

\* FlattenSeq is their join.
LEMMA FlattenJoins ==
  ASSUME NEW S, NEW seqs \in Seq(Seq(S))
  PROVE  \E p : Joins(S, seqs, p) /\ FlattenSeq(seqs) = p[Len(seqs)]
  <1> DEFINE N == Len(seqs)
             step == [q \in Seq(S) \X (1..N) |-> q[1] \o seqs[q[2]]]
             Is(f) == f = [i \in 1..N |-> IF i = 1 THEN seqs[i] ELSE f[i - 1] \o seqs[i]]
  <1>1. N \in Nat /\ \A i \in 1..N : seqs[i] \in Seq(S)
    OBVIOUS
  <1>2. <<>> \in Seq(S)
    OBVIOUS
  <1>3. step \in StepsOf(Seq(S), N)
    BY <1>1 DEF StepsOf
  <1>4. \A s \in Seq(S), i \in 1..N : step[<<s, i>>] = s \o seqs[i]
    OBVIOUS
  <1>5. FlattenSeq(seqs) = IF N = 0 THEN seqs ELSE (CHOOSE f : Is(f))[N]
    BY DEF FlattenSeq
  <1> HIDE DEF N, step, Is
  <1>6. PICK g : Recurs(Seq(S), <<>>, N, step, g)
    BY <1>1, <1>2, <1>3, FoldIsDefined
  <1>7. \A s \in SUBSET (1..N) : g[s] \in Seq(S) /\ g[s] = IF s = {} THEN <<>> ELSE step[<<g[s \ {Max(s)}], Max(s)>>]
    BY <1>6 DEF Recurs
  <1>8. ASSUME NEW i \in 1..N
        PROVE  /\ g[1..i] = g[1..(i - 1)] \o seqs[i]
               /\ g[1..(i - 1)] \in Seq(S)
    <2>1. /\ 1..i \in SUBSET (1..N) /\ 1..i # {} /\ Max(1..i) = i
          /\ (1..i) \ {i} = 1..(i - 1)
      BY <1>1, PrefixIs
    <2>2. g[1..i] = step[<<g[1..(i - 1)], i>>]
      BY <1>7, <2>1
    <2>3. g[1..(i - 1)] \in Seq(S)
      BY <1>7, <2>1
    <2> QED BY <1>4, <2>2, <2>3
  <1>9. g[1..0] = <<>> /\ 1..0 \in SUBSET (1..N)
    <2>1. 1..0 = {}
      OBVIOUS
    <2> QED BY <1>7, <2>1
  <1> DEFINE p == [i \in 0..N |-> g[1..i]]
  <1>10. p \in [0..N -> Seq(S)]
    <2>1. \A i \in 0..N : 1..i \in SUBSET (1..N)
      BY <1>1
    <2> QED BY <1>7, <2>1
  <1>11. \A i \in 1..N : p[i] = p[i - 1] \o seqs[i]
    <2>1. \A i \in 1..N : i \in 0..N /\ i - 1 \in 0..N
      BY <1>1
    <2> QED BY <1>8, <2>1
  <1>12. p[0] = <<>>
    BY <1>1, <1>9
  <1> HIDE DEF p
  <1>13. Joins(S, seqs, p)
    BY <1>10, <1>11, <1>12 DEF Joins, N
  <1>14. CASE N = 0
    <2>1. seqs = <<>>
      BY <1>14 DEF N
    <2> QED BY <1>5, <1>12, <1>13, <1>14, <2>1 DEF N
  <1>15. CASE N # 0
    <2> DEFINE h == [i \in 1..N |-> p[i]]
               iter == CHOOSE f : Is(f)
    <2>1. Is(h)
      <3>1. ASSUME NEW i \in 1..N
            PROVE  p[i] = IF i = 1 THEN seqs[i] ELSE h[i - 1] \o seqs[i]
        <4>1. CASE i = 1
          <5>1. seqs[i] \in Seq(S) /\ p[i] = p[i - 1] \o seqs[i]
            BY <1>1, <1>11
          <5>0. i - 1 = 0
            BY <4>1
          <5>2. p[i] = seqs[i]
            BY <1>12, <5>0, <5>1, ConcatEmptySeq
          <5> QED BY <4>1, <5>2
        <4>2. CASE i # 1
          <5>1. i - 1 \in 1..N
            BY <1>1, <4>2
          <5> QED BY <1>11, <4>2, <5>1
        <4> QED BY <4>1, <4>2
      <3>2. h = [i \in 1..N |-> IF i = 1 THEN seqs[i] ELSE h[i - 1] \o seqs[i]]
        BY <3>1
      <3> HIDE DEF h
      <3> QED BY <3>2 DEF Is
    <2>2. Is(iter)
      <3> HIDE DEF h
      <3> QED BY <2>1
    <2> HIDE DEF h, iter
    <2> DEFINE T == {i \in 0..N : i = 0 \/ iter[i] = p[i]}
    <2>3. 0 \in T
      BY <1>1
    <2>4. ASSUME NEW n \in 0..N, n \in T, n < N PROVE n + 1 \in T
      <3>1. n + 1 \in 1..N /\ (n + 1) - 1 = n
        BY <1>1, <2>4
      <3>2. iter[n + 1] = IF n + 1 = 1 THEN seqs[n + 1] ELSE iter[n] \o seqs[n + 1]
        BY <2>2, <3>1 DEF Is
      <3>3. p[n + 1] = p[n] \o seqs[n + 1]
        BY <1>11, <3>1
      <3>4. CASE n = 0
        <4>0. n + 1 = 1 /\ 1 \in 1..N
          BY <3>1, <3>4
        <4>1. seqs[1] \in Seq(S) /\ p[1] = p[0] \o seqs[1]
          BY <1>1, <3>3, <3>4, <4>0
        <4>2. p[1] = seqs[1]
          BY <1>12, <4>1, ConcatEmptySeq
        <4>3. iter[1] = p[1]
          BY <3>2, <3>4, <4>2
        <4>4. 1 \in 0..N
          BY <1>1, <3>1, <3>4
        <4> QED BY <3>4, <4>3, <4>4
      <3>5. CASE n # 0
        <4>1. iter[n] = p[n]
          BY <2>4, <3>5
        <4>2. n + 1 # 1 /\ n + 1 \in 0..N
          BY <1>1, <2>4, <3>5
        <4>3. iter[n + 1] = p[n + 1]
          BY <3>2, <3>3, <4>1, <4>2
        <4> QED BY <4>2, <4>3
      <3> QED BY <3>4, <3>5
    <2>5. \A n \in 0..N : n \in T
      <3> HIDE DEF T
      <3> QED BY <1>1, <2>3, <2>4, Reaches
    <2>6. iter[N] = p[N]
      BY <1>1, <1>15, <2>5
    <2> QED BY <1>5, <1>13, <1>15, <2>6 DEF N, iter
  <1> QED BY <1>14, <1>15

\* Joining sequences of one element, then empty ones
LEMMA FlattenOnes ==
  ASSUME NEW S, NEW out \in Seq(S), NEW seqs, DOMAIN seqs = 1..Len(seqs), Len(seqs) \in Nat,
         seqs = [i \in DOMAIN seqs |-> IF i <= Len(out) THEN <<out[i]>> ELSE <<>>],
         Len(out) <= Len(seqs)
  PROVE  FlattenSeq(seqs) = out
  <1> DEFINE N == Len(seqs)
             M == Len(out)
  <1>1. /\ N \in Nat /\ M \in Nat /\ M <= N
        /\ \A i \in 1..M : out[i] \in S
        /\ \A i \in 1..N : seqs[i] = IF i <= M THEN <<out[i]>> ELSE <<>>
    OBVIOUS
  <1>2. seqs \in Seq(Seq(S))
    <2>1. \A i \in 1..N : seqs[i] \in Seq(S)
      <3>1. \A e \in S : <<e>> \in Seq(S)
        OBVIOUS
      <3>2. <<>> \in Seq(S)
        OBVIOUS
      <3>3. ASSUME NEW i \in 1..N, i <= M PROVE seqs[i] \in Seq(S)
        <4>1. i \in 1..M /\ seqs[i] = <<out[i]>>
          BY <1>1, <3>3
        <4> QED BY <1>1, <3>1, <4>1
      <3>4. ASSUME NEW i \in 1..N, ~(i <= M) PROVE seqs[i] \in Seq(S)
        BY <1>1, <3>2, <3>4
      <3> QED BY <3>3, <3>4
    <2>2. seqs \in [1..N -> Seq(S)]
      BY <2>1
    <2> QED BY <1>1, <2>2
  <1>3. PICK p : Joins(S, seqs, p) /\ FlattenSeq(seqs) = p[N]
    BY <1>2, FlattenJoins
  <1> HIDE DEF N, M
  <1>4. /\ p \in [0..N -> Seq(S)] /\ p[0] = <<>>
        /\ \A i \in 1..N : p[i] = p[i - 1] \o seqs[i]
    BY <1>3 DEF Joins, N
  <1> DEFINE T == {n \in 0..N : /\ Len(p[n]) = IF n <= M THEN n ELSE M
                                /\ \A j \in 1..Len(p[n]) : p[n][j] = out[j]}
  <1>5. 0 \in T
    BY <1>1, <1>4
  <1>6. ASSUME NEW n \in 0..N, n \in T, n < N PROVE n + 1 \in T
    <2>1. n + 1 \in 1..N /\ (n + 1) - 1 = n
      BY <1>1, <1>6
    <2>2. p[n + 1] = p[n] \o seqs[n + 1] /\ p[n] \in Seq(S)
      BY <1>4, <2>1
    <2>3. CASE n + 1 <= M
      <3>0. n + 1 \in 1..M
        BY <1>1, <2>1, <2>3
      <3>1. PICK e \in S : e = out[n + 1] /\ seqs[n + 1] = <<e>>
        BY <1>1, <2>1, <2>3, <3>0
      <3>2. p[n + 1] = Append(p[n], e)
        BY <2>2, <3>1, AppendIsConcat
      <3>3. Len(p[n]) = n
        BY <1>1, <1>6, <2>3
      <3>4. Len(p[n + 1]) = n + 1 /\ p[n + 1][n + 1] = out[n + 1]
            /\ \A j \in 1..n : p[n + 1][j] = p[n][j]
        <4>1. /\ Len(Append(p[n], e)) = Len(p[n]) + 1
              /\ \A j \in 1..Len(p[n]) : Append(p[n], e)[j] = p[n][j]
              /\ Append(p[n], e)[Len(p[n]) + 1] = e
          BY <2>2, AppendProperties
        <4> QED BY <3>1, <3>2, <3>3, <4>1
      <3>5. \A j \in 1..(n + 1) : p[n + 1][j] = out[j]
        <4>1. ASSUME NEW j \in 1..(n + 1) PROVE p[n + 1][j] = out[j]
          <5>1. CASE j = n + 1
            BY <3>4, <5>1
          <5>2. CASE j # n + 1
            <6>1. j \in 1..n
              BY <5>2
            <6> QED BY <1>6, <3>3, <3>4, <6>1
          <5> QED BY <5>1, <5>2
        <4> QED BY <4>1
      <3> QED BY <2>1, <2>3, <3>4, <3>5
    <2>4. CASE ~(n + 1 <= M)
      <3>1. seqs[n + 1] = <<>>
        BY <1>1, <2>1, <2>4
      <3>2. p[n + 1] = p[n]
        BY <2>2, <3>1, ConcatEmptySeq
      <3>3. Len(p[n]) = M
        BY <1>1, <1>6, <2>4
      <3> QED BY <1>6, <2>1, <2>4, <3>2, <3>3
    <2> QED BY <2>3, <2>4
  <1>7. \A n \in 0..N : n \in T
    <2> HIDE DEF T
    <2> QED BY <1>1, <1>5, <1>6, Reaches
  <1>8. p[N] \in Seq(S) /\ Len(p[N]) = M /\ \A j \in 1..M : p[N][j] = out[j]
    BY <1>1, <1>4, <1>7
  <1>9. p[N] = out
    <2>1. Len(out) = Len(p[N]) /\ \A j \in 1..Len(p[N]) : p[N][j] = out[j]
      BY <1>8 DEF M
    <2> QED BY <1>8, <2>1, SeqEqual
  <1> QED BY <1>3, <1>9
=============================================================================
