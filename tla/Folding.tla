------------------------------ MODULE Folding ------------------------------
(***************************************************************************)
(* What FoldLeft computes, for any operator and any sequence: the lists of *)
(* actions that solvers apply, undo and replay are folds.  Induction over  *)
(* their length goes through the least counterexample, which               *)
(* well-foundedness of the finite subsets of Nat provides.                 *)
(***************************************************************************)
EXTENDS Integers, SequencesExt, FiniteSetTheorems, WellFoundedInduction, TLAPS

CONSTANT Op(_, _)

Folded(base, seq) == FoldLeft(Op, base, seq)

\* A nonempty set of natural numbers has a least element.
LEMMA LeastNumber ==
    ASSUME NEW T \in SUBSET Nat, T # {}
    PROVE  \E n \in T : \A m \in T : n <= m
<1> DEFINE F == {0..n : n \in T}
<1>1. F \subseteq FiniteSubsetsOf(Nat) /\ F # {}
  <2>1. ASSUME NEW n \in T PROVE 0..n \in SUBSET Nat /\ IsFiniteSet(0..n)
    BY FS_Interval
  <2> QED
    BY <2>1 DEF FiniteSubsetsOf
<1>2. IsWellFoundedOn(StrictSubsetOrdering(Nat), FiniteSubsetsOf(Nat))
  BY FS_StrictSubsetOrderingWellFounded
<1> HIDE DEF F
<1>3. PICK x \in F : \A y \in F : ~(<<y, x>> \in StrictSubsetOrdering(Nat))
  BY <1>1, <1>2, WFMin
<1>4. PICK n \in T : x = 0..n
  BY <1>3 DEF F
<1>5. ASSUME NEW m \in T, ~(n <= m) PROVE FALSE
  <2>1. 0..m \in F /\ 0..m \subseteq Nat /\ 0..n \subseteq Nat
    BY DEF F
  <2>2. 0..m \subseteq 0..n /\ 0..m # 0..n
    <3>1. n \in 0..n /\ n \notin 0..m /\ m < n
      BY <1>5
    <3> QED
      BY <3>1
  <2> QED
    BY <1>3, <1>4, <2>1, <2>2 DEF StrictSubsetOrdering
<1> QED
  BY <1>5

\* Induction, for a property given as the set of its numbers.
LEMMA Induction ==
    ASSUME NEW P, 0 \in P, \A n \in Nat : n \in P => n + 1 \in P
    PROVE  \A n \in Nat : n \in P
<1> SUFFICES ASSUME NEW k \in Nat, k \notin P PROVE FALSE
  OBVIOUS
<1> DEFINE T == {n \in Nat : n \notin P}
<1>1. PICK n \in T : \A m \in T : n <= m
  <2>1. T \in SUBSET Nat /\ T # {}
    OBVIOUS
  <2> HIDE DEF T
  <2> QED
    BY <2>1, LeastNumber
<1>2. n # 0 /\ n - 1 \in Nat
  OBVIOUS
<1>3. n - 1 \in P
  BY <1>1, <1>2
<1> QED
  BY <1>2, <1>3

-----------------------------------------------------------------------------
(* The trace of a fold *)

\* The intermediate results of a fold, from base on.
IsTrace(g, base, seq) ==
    /\ g[0] = base
    /\ \A k \in 1..Len(seq) : g[k] = Op(g[k - 1], seq[k])

\* The function by which Folds defines a fold, on the subsets of D.
IsIter(f, base, seq, D) ==
    f = [t \in SUBSET D |->
            IF t = {} THEN base ELSE Op(f[t \ {Max(t)}], seq[Max(t)])]

\* The greatest element of a set of numbers.
LEMMA MaxFacts ==
    ASSUME NEW t, NEW m \in t, t \subseteq Nat, \A k \in t : k <= m
    PROVE  Max(t) = m
<1>1. \A k \in t : m >= k
  OBVIOUS
<1>2. PICK x \in t : x = Max(t) /\ \A k \in t : x >= k
  BY <1>1 DEF Max
<1> QED
  BY <1>1, <1>2

\* A nonempty set of numbers up to n has a greatest element.
LEMMA MaxBelow ==
    ASSUME NEW n \in Nat, NEW t \in SUBSET (1..n), t # {}
    PROVE  Max(t) \in t
<1> DEFINE U == {n - k : k \in t}
<1>1. U \in SUBSET Nat /\ U # {}
  <2>1. \A k \in t : n - k \in Nat
    OBVIOUS
  <2>2. U \in SUBSET Nat
    BY <2>1
  <2> QED
    BY <2>2
<1> HIDE DEF U
<1>2. PICK u \in U : \A w \in U : u <= w
  BY <1>1, LeastNumber
<1>3. PICK m \in t : u = n - m
  BY <1>2 DEF U
<1>4. \A k \in t : k <= m
  <2> TAKE k \in t
  <2>1. n - k \in U
    BY DEF U
  <2> QED
    BY <1>2, <1>3, <2>1
<1>5. t \subseteq Nat /\ m \in t
  OBVIOUS
<1>6. Max(t) = m
  BY <1>4, <1>5, MaxFacts
<1> QED
  BY <1>6

\* The recursion of Folds has a solution on the subsets of every 1..n.
LEMMA IterExists ==
    ASSUME NEW base, NEW seq
    PROVE  \A n \in Nat : \E f : IsIter(f, base, seq, 1..n)
<1> DEFINE P == {n \in Nat : \E f : IsIter(f, base, seq, 1..n)}
<1>1. 0 \in P
  <2> DEFINE f == [t \in {{}} |-> base]
  <2>1. SUBSET (1..0) = {{}}
    OBVIOUS
  <2>2. IsIter(f, base, seq, 1..0)
    BY <2>1 DEF IsIter
  <2> QED
    BY <2>2
<1>2. ASSUME NEW n \in Nat, n \in P PROVE n + 1 \in P
  <2>1. PICK f : IsIter(f, base, seq, 1..n)
    BY <1>2
  <2> DEFINE g == [t \in SUBSET (1..(n + 1)) |->
                      IF t \in SUBSET (1..n) THEN f[t]
                      ELSE Op(f[t \ {n + 1}], seq[n + 1])]
             step(t) == IF t = {} THEN base ELSE Op(g[t \ {Max(t)}], seq[Max(t)])
  <2>2. ASSUME NEW t \in SUBSET (1..(n + 1)) PROVE g[t] = step(t)
    <3>1. CASE t \in SUBSET (1..n)
      <4>1. CASE t = {}
        BY <2>1, <4>1 DEF IsIter
      <4>2. CASE t # {}
        <5>1. Max(t) \in t
          BY <3>1, <4>2, MaxBelow
        <5>2. t \ {Max(t)} \in SUBSET (1..n) /\ t \ {Max(t)} \in SUBSET (1..(n + 1))
          BY <3>1
        <5>3. g[t \ {Max(t)}] = f[t \ {Max(t)}]
          BY <5>2
        <5>4. f[t] = Op(f[t \ {Max(t)}], seq[Max(t)])
          BY <2>1, <3>1, <4>2 DEF IsIter
        <5> QED
          BY <3>1, <4>2, <5>3, <5>4
      <4> QED
        BY <4>1, <4>2
    <3>2. CASE t \notin SUBSET (1..n)
      <4>1. n + 1 \in t /\ t # {}
        BY <3>2
      <4>2. t \subseteq Nat /\ \A k \in t : k <= n + 1
        OBVIOUS
      <4>3. Max(t) = n + 1
        BY <4>1, <4>2, MaxFacts
      <4>4. t \ {n + 1} \in SUBSET (1..n) /\ t \ {n + 1} \in SUBSET (1..(n + 1))
        OBVIOUS
      <4>5. g[t \ {n + 1}] = f[t \ {n + 1}]
        BY <4>4
      <4>6. g[t] = Op(f[t \ {n + 1}], seq[n + 1])
        BY <3>2
      <4> QED
        BY <4>1, <4>3, <4>5, <4>6
    <3> QED
      BY <3>1, <3>2
  <2>3. g = [t \in SUBSET (1..(n + 1)) |-> step(t)]
    <3>1. DOMAIN g = SUBSET (1..(n + 1)) /\ g = [t \in SUBSET (1..(n + 1)) |-> g[t]]
      OBVIOUS
    <3> HIDE DEF g
    <3> QED
      BY <2>2, <3>1
  <2>4. IsIter(g, base, seq, 1..(n + 1))
    BY <2>3 DEF IsIter
  <2> QED
    BY <2>4
<1> HIDE DEF P
<1>3. \A n \in Nat : n \in P
  BY <1>1, <1>2, Induction
<1> QED
  BY <1>3 DEF P

\* A fold is the last entry of its trace.
LEMMA FoldHasTrace ==
    ASSUME NEW S, NEW seq \in Seq(S), NEW base
    PROVE  \E g : IsTrace(g, base, seq) /\ Folded(base, seq) = g[Len(seq)]
<1> DEFINE f == CHOOSE f : IsIter(f, base, seq, 1..Len(seq))
           g == [k \in 0..Len(seq) |-> f[1..k]]
<1>1. Len(seq) \in Nat /\ DOMAIN seq = 1..Len(seq)
  OBVIOUS
<1>2. IsIter(f, base, seq, 1..Len(seq))
  BY <1>1, IterExists
<1>3. Folded(base, seq) = f[1..Len(seq)]
  BY <1>1 DEF Folded, FoldLeft, MapThenFoldSet, IsIter
<1> HIDE DEF f
<1>4. g[0] = base
  <2>1. 1..0 = {} /\ 0 \in 0..Len(seq)
    BY <1>1
  <2> QED
    BY <1>2, <2>1 DEF IsIter
<1>5. ASSUME NEW k \in 1..Len(seq) PROVE g[k] = Op(g[k - 1], seq[k])
  <2>1. /\ 1..k \in SUBSET (1..Len(seq)) /\ 1..k # {} /\ 1..k \subseteq Nat
        /\ k \in 1..k /\ k - 1 \in 0..Len(seq) /\ k \in 0..Len(seq)
    BY <1>1
  <2>2. Max(1..k) = k
    <3>1. \A j \in 1..k : j <= k
      OBVIOUS
    <3> QED
      BY <2>1, <3>1, MaxFacts
  <2>3. (1..k) \ {k} = 1..(k - 1)
    BY <1>1
  <2> QED
    BY <1>2, <2>1, <2>2, <2>3 DEF IsIter
<1>6. g[Len(seq)] = f[1..Len(seq)]
  BY <1>1
<1> HIDE DEF g
<1> QED
  BY <1>3, <1>4, <1>5, <1>6 DEF IsTrace

\* A fold has one trace.
LEMMA TraceIsUnique ==
    ASSUME NEW S, NEW seq \in Seq(S), NEW base, NEW g, NEW h,
           IsTrace(g, base, seq), IsTrace(h, base, seq)
    PROVE  g[Len(seq)] = h[Len(seq)]
<1> DEFINE P == {n \in Nat : n <= Len(seq) => g[n] = h[n]}
<1>1. 0 \in P
  BY DEF IsTrace
<1>2. ASSUME NEW n \in Nat, n \in P PROVE n + 1 \in P
  <2>1. CASE n + 1 <= Len(seq)
    <3>1. n + 1 \in 1..Len(seq) /\ (n + 1) - 1 = n /\ n <= Len(seq)
      BY <2>1
    <3>2. g[n] = h[n]
      BY <1>2, <3>1
    <3> QED
      BY <3>1, <3>2 DEF IsTrace
  <2>2. CASE ~(n + 1 <= Len(seq))
    BY <2>2
  <2> QED
    BY <2>1, <2>2
<1> HIDE DEF P
<1>3. \A n \in Nat : n \in P
  BY <1>1, <1>2, Induction
<1> QED
  BY <1>3 DEF P

\* Whatever is a trace tells the value of the fold.
LEMMA TraceIsFold ==
    ASSUME NEW S, NEW seq \in Seq(S), NEW base, NEW g, IsTrace(g, base, seq)
    PROVE  Folded(base, seq) = g[Len(seq)]
BY FoldHasTrace, TraceIsUnique

\* A loop of n rounds, which is a fold over their numbers: its recursion has a
\* solution.
IsLoop(f, base, n) ==
    f = [k \in 0..n |-> IF k = 0 THEN base ELSE Op(f[k - 1], k)]

LEMMA LoopExists ==
    ASSUME NEW base, NEW n \in Nat
    PROVE  \E f : IsLoop(f, base, n)
<1> DEFINE rounds == [k \in 1..n |-> k]
<1>1. rounds \in Seq(Nat) /\ Len(rounds) = n
  OBVIOUS
<1>2. PICK g : IsTrace(g, base, rounds)
  BY <1>1, FoldHasTrace
<1> DEFINE f == [k \in 0..n |-> g[k]]
<1>3. ASSUME NEW k \in 0..n PROVE f[k] = IF k = 0 THEN base ELSE Op(f[k - 1], k)
  <2>1. CASE k = 0
    BY <1>2, <2>1 DEF IsTrace
  <2>2. CASE k # 0
    <3>1. k \in 1..Len(rounds) /\ k - 1 \in 0..n /\ rounds[k] = k
      BY <1>1, <2>2
    <3>2. g[k] = Op(g[k - 1], k)
      BY <1>2, <3>1 DEF IsTrace
    <3> QED
      BY <2>2, <3>1, <3>2
  <2> QED
    BY <2>1, <2>2
<1>4. f = [k \in 0..n |-> f[k]]
  OBVIOUS
<1> HIDE DEF f
<1>5. f = [k \in 0..n |-> IF k = 0 THEN base ELSE Op(f[k - 1], k)]
  BY <1>3, <1>4
<1> QED
  BY <1>5 DEF IsLoop

\* What every round preserves holds at the end.
LEMMA LoopPreserves ==
    ASSUME NEW base, NEW n \in Nat, NEW f, IsLoop(f, base, n), NEW P,
           <<base, 0>> \in P,
           \A k \in 1..n : \A x : <<x, k - 1>> \in P => <<Op(x, k), k>> \in P
    PROVE  <<f[n], n>> \in P
<1> DEFINE Q == {k \in Nat : k <= n => <<f[k], k>> \in P}
<1>1. 0 \in Q
  BY DEF IsLoop
<1>2. ASSUME NEW k \in Nat, k \in Q PROVE k + 1 \in Q
  <2>1. CASE k + 1 <= n
    <3>1. k + 1 \in 1..n /\ k \in 0..n /\ k + 1 \in 0..n /\ (k + 1) - 1 = k
      BY <2>1
    <3>2. f[k + 1] = Op(f[k], k + 1)
      BY <3>1 DEF IsLoop
    <3> QED
      BY <1>2, <3>1, <3>2
  <2>2. CASE ~(k + 1 <= n)
    BY <2>2
  <2> QED
    BY <2>1, <2>2
<1> HIDE DEF Q
<1>3. \A k \in Nat : k \in Q
  BY <1>1, <1>2, Induction
<1> QED
  BY <1>3 DEF Q

-----------------------------------------------------------------------------
(* What a fold computes *)

\* Over no element and over one.
THEOREM FoldShort ==
    /\ \A base : Folded(base, <<>>) = base
    /\ \A base, e : Folded(base, <<e>>) = Op(base, e)
<1>1. ASSUME NEW base PROVE Folded(base, <<>>) = base
  <2> DEFINE g == [k \in {0} |-> base]
  <2>1. <<>> \in Seq({}) /\ Len(<<>>) = 0 /\ IsTrace(g, base, <<>>)
    BY DEF IsTrace
  <2> QED
    BY <2>1, TraceIsFold
<1>2. ASSUME NEW base, NEW e PROVE Folded(base, <<e>>) = Op(base, e)
  <2> DEFINE g == [k \in 0..1 |-> IF k = 0 THEN base ELSE Op(base, e)]
  <2>1. <<e>> \in Seq({e}) /\ Len(<<e>>) = 1 /\ IsTrace(g, base, <<e>>)
    BY DEF IsTrace
  <2>2. Folded(base, <<e>>) = g[Len(<<e>>)]
    BY <2>1, TraceIsFold
  <2> QED
    BY <2>1, <2>2
<1> QED
  BY <1>1, <1>2

\* Over two sequences, one after the other.
THEOREM FoldConcat ==
    ASSUME NEW S, NEW s \in Seq(S), NEW t \in Seq(S), NEW base
    PROVE  Folded(base, s \o t) = Folded(Folded(base, s), t)
<1>1. PICK g : IsTrace(g, base, s) /\ Folded(base, s) = g[Len(s)]
  BY FoldHasTrace
<1>2. PICK h : IsTrace(h, Folded(base, s), t) /\ Folded(Folded(base, s), t) = h[Len(t)]
  BY FoldHasTrace
<1> DEFINE both == [k \in 0..(Len(s) + Len(t)) |->
                       IF k <= Len(s) THEN g[k] ELSE h[k - Len(s)]]
<1>3. /\ s \o t \in Seq(S) /\ Len(s \o t) = Len(s) + Len(t)
      /\ Len(s) \in Nat /\ Len(t) \in Nat
      /\ \A k \in 1..Len(s) : (s \o t)[k] = s[k]
      /\ \A k \in 1..Len(t) : (s \o t)[Len(s) + k] = t[k]
  OBVIOUS
<1>4. ASSUME NEW k \in 1..Len(s \o t) PROVE both[k] = Op(both[k - 1], (s \o t)[k])
  <2>1. CASE k <= Len(s)
    <3>1. k \in 1..Len(s) /\ k \in 0..(Len(s) + Len(t)) /\ k - 1 \in 0..(Len(s) + Len(t))
          /\ k - 1 <= Len(s)
      BY <1>3, <2>1
    <3>2. both[k] = g[k] /\ both[k - 1] = g[k - 1]
      BY <2>1, <3>1
    <3> QED
      BY <1>1, <1>3, <3>1, <3>2 DEF IsTrace
  <2>2. CASE k > Len(s)
    <3> DEFINE j == k - Len(s)
    <3>1. j \in 1..Len(t) /\ k = Len(s) + j /\ k \in 0..(Len(s) + Len(t))
          /\ k - 1 \in 0..(Len(s) + Len(t)) /\ (k - 1) - Len(s) = j - 1
      BY <1>3, <2>2
    <3>2. both[k] = h[j]
      BY <1>3, <2>2, <3>1
    <3>3. both[k - 1] = h[j - 1]
      <4>1. CASE j = 1
        <5>1. k - 1 = Len(s) /\ k - 1 <= Len(s) /\ j - 1 = 0
          BY <1>3, <3>1, <4>1
        <5>2. both[k - 1] = g[Len(s)]
          BY <3>1, <5>1
        <5> QED
          BY <1>1, <1>2, <5>1, <5>2 DEF IsTrace
      <4>2. CASE j # 1
        <5>1. ~(k - 1 <= Len(s))
          BY <1>3, <3>1, <4>2
        <5> QED
          BY <3>1, <5>1
      <4> QED
        BY <4>1, <4>2
    <3>4. (s \o t)[k] = t[j]
      BY <1>3, <3>1
    <3> HIDE DEF j, both
    <3> QED
      BY <1>2, <3>1, <3>2, <3>3, <3>4 DEF IsTrace
  <2> QED
    BY <1>3, <2>1, <2>2
<1>5. both[0] = base
  BY <1>1, <1>3 DEF IsTrace
<1>6. both[Len(s \o t)] = h[Len(t)]
  <2>1. CASE Len(t) = 0
    BY <1>1, <1>2, <1>3, <2>1 DEF IsTrace
  <2>2. CASE Len(t) # 0
    BY <1>3, <2>2
  <2> QED
    BY <2>1, <2>2
<1> HIDE DEF both
<1>7. IsTrace(both, base, s \o t)
  BY <1>4, <1>5 DEF IsTrace
<1> QED
  BY <1>2, <1>3, <1>6, <1>7, TraceIsFold

\* What holds at the beginning and carries over each element, told by their
\* numbers, holds of the result.
LEMMA FoldCarries ==
    ASSUME NEW S, NEW seq \in Seq(S), NEW base, NEW P, <<base, 0>> \in P,
           \A k \in 1..Len(seq) : \A x : <<x, k - 1>> \in P => <<Op(x, seq[k]), k>> \in P
    PROVE  <<Folded(base, seq), Len(seq)>> \in P
<1>1. PICK g : IsTrace(g, base, seq) /\ Folded(base, seq) = g[Len(seq)]
  BY FoldHasTrace
<1> DEFINE Q == {n \in Nat : n <= Len(seq) => <<g[n], n>> \in P}
<1>2. 0 \in Q
  BY <1>1 DEF IsTrace
<1>3. ASSUME NEW n \in Nat, n \in Q PROVE n + 1 \in Q
  <2>1. CASE n + 1 <= Len(seq)
    <3>1. n + 1 \in 1..Len(seq) /\ (n + 1) - 1 = n /\ n <= Len(seq)
      BY <2>1
    <3>2. g[n + 1] = Op(g[n], seq[n + 1]) /\ <<g[n], n>> \in P
      BY <1>1, <1>3, <3>1 DEF IsTrace
    <3> QED
      BY <3>1, <3>2
  <2>2. CASE ~(n + 1 <= Len(seq))
    BY <2>2
  <2> QED
    BY <2>1, <2>2
<1> HIDE DEF Q
<1>4. \A n \in Nat : n \in Q
  BY <1>2, <1>3, Induction
<1>5. Len(seq) \in Nat
  OBVIOUS
<1> QED
  BY <1>1, <1>4, <1>5 DEF Q

\* What every element preserves holds of the result.
THEOREM FoldPreserves ==
    ASSUME NEW S, NEW seq \in Seq(S), NEW base, NEW P, base \in P,
           \A x \in P, e \in S : Op(x, e) \in P
    PROVE  Folded(base, seq) \in P
<1>1. PICK g : IsTrace(g, base, seq) /\ Folded(base, seq) = g[Len(seq)]
  BY FoldHasTrace
<1> DEFINE Q == {n \in Nat : n <= Len(seq) => g[n] \in P}
<1>2. 0 \in Q
  BY <1>1 DEF IsTrace
<1>3. ASSUME NEW n \in Nat, n \in Q PROVE n + 1 \in Q
  <2>1. CASE n + 1 <= Len(seq)
    <3>1. n + 1 \in 1..Len(seq) /\ (n + 1) - 1 = n /\ n <= Len(seq) /\ seq[n + 1] \in S
      BY <2>1
    <3>2. g[n] \in P
      BY <1>3, <3>1
    <3> QED
      BY <1>1, <3>1, <3>2 DEF IsTrace
  <2>2. CASE ~(n + 1 <= Len(seq))
    BY <2>2
  <2> QED
    BY <2>1, <2>2
<1> HIDE DEF Q
<1>4. \A n \in Nat : n \in Q
  BY <1>2, <1>3, Induction
<1> QED
  BY <1>1, <1>4 DEF Q
=============================================================================
