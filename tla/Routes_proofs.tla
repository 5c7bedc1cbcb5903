--------------------------- MODULE Routes_proofs ---------------------------
(***************************************************************************)
(* Proofs about Routes and Exchange: what rotations of a route have in     *)
(* common, that every recorded action has an inverse, and that the moves   *)
(* of the local search consist of such actions.                            *)
(***************************************************************************)
EXTENDS Exchange, SequenceTheorems, FiniteSetTheorems, TLAPS

AddDemand(sum, v) == sum + (IF v = depot THEN 0 ELSE Demand[v])

Loading == INSTANCE Folding WITH Op <- AddDemand

-----------------------------------------------------------------------------
(* Paths: sequences of different vertices                                  *)

IsPath(t) == t \in Seq(vertices) /\ IsInjective(t)

LEMMA Numbers ==
    /\ CustomersNum \in Nat \ {0} /\ vertices \subseteq Int /\ customers \subseteq Int
    /\ vertices = customers \cup {depot} /\ depot \notin customers
    /\ depot = 0 /\ \A v \in vertices : depot <= v
    /\ NoVertex \notin vertices
<1>1. CustomersNum \in Nat \ {0}
  BY RoutesAssumption
<1>2. /\ vertices \subseteq Int /\ customers \subseteq Int
      /\ depot \notin customers /\ depot = 0 /\ \A v \in vertices : depot <= v
      /\ NoVertex \notin vertices
  BY <1>1 DEF vertices, customers, depot, NoVertex
<1>3. vertices = customers \cup {depot}
  BY <1>1 DEF vertices, customers, depot
<1> QED
  BY <1>1, <1>2, <1>3

LEMMA FiniteCustomers == IsFiniteSet(customers)
BY Numbers, FS_Interval DEF customers

\* What a path has as a sequence.
LEMMA PathFacts ==
    ASSUME NEW t, IsPath(t)
    PROVE  /\ t \in Seq(vertices) /\ Len(t) \in Nat /\ DOMAIN t = 1..Len(t)
           /\ \A k \in 1..Len(t) : t[k] \in vertices
           /\ \A j, k \in 1..Len(t) : t[j] = t[k] => j = k
<1>1. t \in Seq(vertices) /\ \A a, b \in DOMAIN t : t[a] = t[b] => a = b
  BY DEF IsPath, IsInjective
<1>2. Len(t) \in Nat /\ DOMAIN t = 1..Len(t)
  BY <1>1
<1>3. \A k \in 1..Len(t) : t[k] \in vertices
  BY <1>1, ElementOfSeq
<1> QED
  BY <1>1, <1>2, <1>3

\* The vertices of a path as a set.
LEMMA PathSet ==
    ASSUME NEW t, IsPath(t)
    PROVE  /\ ToSet(t) = {t[k] : k \in 1..Len(t)}
           /\ ToSet(t) \subseteq vertices
           /\ \A v : Contains(t, v) <=> v \in ToSet(t)
           /\ \A k \in 1..Len(t) : t[k] \in ToSet(t)
<1>1. ToSet(t) = {t[k] : k \in 1..Len(t)}
  BY PathFacts DEF ToSet
<1>2. ToSet(t) \subseteq vertices /\ \A k \in 1..Len(t) : t[k] \in ToSet(t)
  BY <1>1, PathFacts
<1>3. \A v : Contains(t, v) <=> v \in ToSet(t)
  BY <1>1 DEF Contains
<1> QED
  BY <1>1, <1>2, <1>3

\* A sequence of n vertices that are all different is a path.
LEMMA IsAPath ==
    ASSUME NEW t \in Seq(vertices),
           \A j, k \in 1..Len(t) : t[j] = t[k] => j = k
    PROVE  IsPath(t)
<1>1. DOMAIN t = 1..Len(t)
  OBVIOUS
<1> QED
  BY <1>1 DEF IsPath, IsInjective

\* Two paths are equal when their vertices are, one by one.
LEMMA PathEqual ==
    ASSUME NEW s, IsPath(s), NEW t, IsPath(t), Len(s) = Len(t),
           \A k \in 1..Len(s) : s[k] = t[k]
    PROVE  s = t
<1>1. s \in Seq(vertices) /\ t \in Seq(vertices)
  BY DEF IsPath
<1> QED
  BY <1>1, SeqEqual

LEMMA PositionIs ==
    ASSUME NEW t, IsPath(t), NEW k \in 1..Len(t)
    PROVE  Position(t, t[k]) = k
<1>1. DOMAIN t = 1..Len(t) /\ \A j \in 1..Len(t) : t[j] = t[k] => j = k
  BY PathFacts
<1> QED
  BY <1>1 DEF Position

\* Where a vertex of a path is.
LEMMA PositionOf ==
    ASSUME NEW t, IsPath(t), NEW v \in ToSet(t)
    PROVE  Position(t, v) \in 1..Len(t) /\ t[Position(t, v)] = v
<1>1. PICK k \in 1..Len(t) : t[k] = v
  BY PathSet
<1> QED
  BY <1>1, PositionIs

\* A rotation of a path.
LEMMA FromFacts ==
    ASSUME NEW t, IsPath(t), NEW k \in 1..Len(t)
    PROVE  /\ IsPath(From(t, k)) /\ Len(From(t, k)) = Len(t)
           /\ \A j \in 1..Len(t) :
                 From(t, k)[j] = IF j <= Len(t) - k + 1 THEN t[k + j - 1]
                                 ELSE t[j - (Len(t) - k + 1)]
           /\ ToSet(From(t, k)) = ToSet(t)
<1> DEFINE n == Len(t)
           a == SubSeq(t, k, n)
           b == SubSeq(t, 1, k - 1)
           f == a \o b
           at(j) == IF j <= n - k + 1 THEN k + j - 1 ELSE j - (n - k + 1)
<1>1. /\ n \in Nat /\ t \in Seq(vertices) /\ \A j \in 1..n : t[j] \in vertices
      /\ k \in 1..n /\ k \in Int
  BY PathFacts
<1>2. /\ a \in Seq(vertices) /\ Len(a) = n - k + 1
      /\ \A j \in 1..(n - k + 1) : a[j] = t[k + j - 1]
  <2> HIDE DEF n
  <2>1. \A j \in k..n : t[j] \in vertices
    BY <1>1
  <2>2. n \in Int /\ k <= n
    BY <1>1
  <2> QED
    BY <1>1, <2>1, <2>2, SubSeqProperties
<1>3. /\ b \in Seq(vertices) /\ Len(b) = k - 1
      /\ \A j \in 1..(k - 1) : b[j] = t[j]
  <2> HIDE DEF n
  <2>1. (\A j \in 1..(k - 1) : t[j] \in vertices) /\ k - 1 \in Int
    BY <1>1
  <2>2. /\ b \in Seq(vertices) /\ Len(b) = IF 1 <= k - 1 THEN (k - 1) - 1 + 1 ELSE 0
        /\ \A j \in 1..((k - 1) - 1 + 1) : b[j] = t[1 + j - 1]
    BY <1>1, <2>1, SubSeqProperties
  <2>3. (k - 1) - 1 + 1 = k - 1 /\ \A j \in 1..(k - 1) : 1 + j - 1 = j
    BY <1>1
  <2> HIDE DEF b
  <2> QED
    BY <1>1, <2>2, <2>3
<1> HIDE DEF a, b, n
<1>4. /\ f \in Seq(vertices) /\ Len(f) = n
      /\ \A j \in 1..n : f[j] = IF j <= n - k + 1 THEN a[j] ELSE b[j - (n - k + 1)]
  <2>1. Len(a) + Len(b) = n
    BY <1>1, <1>2, <1>3
  <2>2. /\ a \o b \in Seq(vertices) /\ Len(a \o b) = Len(a) + Len(b)
        /\ \A j \in 1..(Len(a) + Len(b)) :
              (a \o b)[j] = IF j <= Len(a) THEN a[j] ELSE b[j - Len(a)]
    BY <1>2, <1>3, ConcatProperties
  <2> QED
    BY <1>2, <2>1, <2>2
<1>5. \A j \in 1..n : at(j) \in 1..n /\ f[j] = t[at(j)]
  <2> TAKE j \in 1..n
  <2>1. CASE j <= n - k + 1
    <3>1. j \in 1..(n - k + 1) /\ k + j - 1 \in 1..n
      BY <1>1, <2>1
    <3> QED
      BY <1>2, <1>4, <2>1, <3>1
  <2>2. CASE ~(j <= n - k + 1)
    <3>1. j - (n - k + 1) \in 1..(k - 1) /\ j - (n - k + 1) \in 1..n
      BY <1>1, <2>2
    <3> QED
      BY <1>3, <1>4, <2>2, <3>1
  <2> QED
    BY <2>1, <2>2
<1> HIDE DEF f
<1>6. \A i, j \in 1..n : t[i] = t[j] => i = j
  BY PathFacts DEF n
<1>7. ASSUME NEW i \in 1..n, NEW j \in 1..n, f[i] = f[j] PROVE i = j
  <2>1. at(i) = at(j)
    <3> HIDE DEF at
    <3> QED
      BY <1>5, <1>6, <1>7
  <2> QED
    BY <1>1, <2>1
<1>8. IsPath(f)
  BY <1>4, <1>7, IsAPath
<1>9. ToSet(f) = ToSet(t)
  <2>1. ASSUME NEW i \in 1..n PROVE \E j \in 1..n : f[j] = t[i]
    <3> DEFINE j == IF i >= k THEN i - k + 1 ELSE i + (n - k + 1)
    <3>1. j \in 1..n /\ at(j) = i
      BY <1>1
    <3> HIDE DEF at, j
    <3> QED
      BY <1>5, <3>1
  <2>2. ToSet(f) = {f[j] : j \in 1..n} /\ ToSet(t) = {t[j] : j \in 1..n}
    BY <1>4, <1>8, PathSet DEF n
  <2> HIDE DEF at
  <2>3. \A x \in ToSet(f) : x \in ToSet(t)
    BY <1>5, <2>2
  <2>4. \A x \in ToSet(t) : x \in ToSet(f)
    BY <2>1, <2>2
  <2> QED
    BY <2>3, <2>4
<1>10. f = From(t, k)
  BY DEF f, a, b, n, From
<1> QED
  BY <1>4, <1>5, <1>8, <1>9, <1>10 DEF n

\* Rotations are composed to rotations, and the first vertex tells which one.
LEMMA FromStart ==
    ASSUME NEW t, IsPath(t), NEW k \in 1..Len(t)
    PROVE  From(t, k)[1] = t[k] /\ From(t, 1) = t
<1>1. Len(t) \in Nat /\ 1 \in 1..Len(t) /\ 1 <= Len(t) - k + 1 /\ k + 1 - 1 = k
  BY PathFacts
<1>2. From(t, k)[1] = t[k]
  BY <1>1, FromFacts
<1>3. \A j \in 1..Len(t) : From(t, 1)[j] = t[j]
  <2> TAKE j \in 1..Len(t)
  <2>1. j <= Len(t) - 1 + 1 /\ 1 + j - 1 = j
    BY <1>1
  <2> QED
    BY <1>1, <2>1, FromFacts
<1>4. From(t, 1) = t
  BY <1>1, <1>3, FromFacts, PathEqual
<1> QED
  BY <1>2, <1>4

LEMMA FromFrom ==
    ASSUME NEW t, IsPath(t), NEW k \in 1..Len(t), NEW j \in 1..Len(t)
    PROVE  \E i \in 1..Len(t) : From(From(t, k), j) = From(t, i)
<1> DEFINE n == Len(t)
           u == From(t, k)
           i == IF j <= n - k + 1 THEN k + j - 1 ELSE j - (n - k + 1)
<1>1. n \in Nat /\ k \in 1..n /\ j \in 1..n /\ i \in 1..n
  BY PathFacts
<1>2. /\ IsPath(u) /\ Len(u) = n
      /\ \A m \in 1..n : u[m] = IF m <= n - k + 1 THEN t[k + m - 1] ELSE t[m - (n - k + 1)]
  BY FromFacts
<1>3. /\ IsPath(From(u, j)) /\ Len(From(u, j)) = n
      /\ \A m \in 1..n : From(u, j)[m] = IF m <= n - j + 1 THEN u[j + m - 1] ELSE u[m - (n - j + 1)]
  BY <1>1, <1>2, FromFacts
<1>4. /\ IsPath(From(t, i)) /\ Len(From(t, i)) = n
      /\ \A m \in 1..n : From(t, i)[m] = IF m <= n - i + 1 THEN t[i + m - 1] ELSE t[m - (n - i + 1)]
  BY <1>1, FromFacts
<1> HIDE DEF n, u
<1>5. ASSUME NEW m \in 1..n PROVE From(u, j)[m] = From(t, i)[m]
  <2>1. CASE m <= n - j + 1
    <3>1. j + m - 1 \in 1..n /\ From(u, j)[m] = u[j + m - 1]
      <4>1. j + m - 1 \in 1..n
        BY <1>1, <2>1
      <4>2. From(u, j)[m] = u[j + m - 1]
        BY <1>3, <2>1
      <4> QED
        BY <4>1, <4>2
    <3>2. CASE j + m - 1 <= n - k + 1
      <4>1. i = k + j - 1 /\ m <= n - i + 1 /\ k + (j + m - 1) - 1 = i + m - 1
        BY <1>1, <3>2
      <4>2. From(t, i)[m] = t[i + m - 1]
        BY <1>4, <4>1
      <4> HIDE DEF i
      <4>3. u[j + m - 1] = t[k + (j + m - 1) - 1]
        BY <1>2, <3>1, <3>2
      <4> QED
        BY <3>1, <4>1, <4>2, <4>3
    <3>3. CASE ~(j + m - 1 <= n - k + 1) /\ j <= n - k + 1
      <4>1. /\ i = k + j - 1 /\ ~(m <= n - i + 1)
            /\ j + m - 1 - (n - k + 1) = m - (n - i + 1)
        BY <1>1, <3>3
      <4>2. From(t, i)[m] = t[m - (n - i + 1)]
        BY <1>4, <4>1
      <4> HIDE DEF i
      <4>3. u[j + m - 1] = t[j + m - 1 - (n - k + 1)]
        BY <1>2, <3>1, <3>3
      <4> QED
        BY <3>1, <4>1, <4>2, <4>3
    <3>4. CASE ~(j + m - 1 <= n - k + 1) /\ ~(j <= n - k + 1)
      <4>1. /\ i = j - (n - k + 1) /\ m <= n - i + 1
            /\ j + m - 1 - (n - k + 1) = i + m - 1
        BY <1>1, <2>1, <3>4
      <4>2. From(t, i)[m] = t[i + m - 1]
        BY <1>4, <4>1
      <4> HIDE DEF i
      <4>3. u[j + m - 1] = t[j + m - 1 - (n - k + 1)]
        BY <1>2, <3>1, <3>4
      <4> QED
        BY <3>1, <4>1, <4>2, <4>3
    <3> QED
      BY <3>2, <3>3, <3>4
  <2>2. CASE ~(m <= n - j + 1)
    <3>1. m - (n - j + 1) \in 1..n /\ From(u, j)[m] = u[m - (n - j + 1)]
      BY <1>1, <1>3, <2>2
    <3>2. CASE j <= n - k + 1
      <4>1. /\ i = k + j - 1 /\ ~(m <= n - i + 1) /\ m - (n - j + 1) <= n - k + 1
            /\ k + (m - (n - j + 1)) - 1 = m - (n - i + 1)
        BY <1>1, <2>2, <3>2
      <4>2. From(t, i)[m] = t[m - (n - i + 1)]
        BY <1>4, <4>1
      <4> HIDE DEF i
      <4>3. u[m - (n - j + 1)] = t[k + (m - (n - j + 1)) - 1]
        BY <1>2, <3>1, <4>1
      <4> QED
        BY <3>1, <4>1, <4>2, <4>3
    <3>3. CASE ~(j <= n - k + 1) /\ m - (n - j + 1) <= n - k + 1
      <4>1. /\ i = j - (n - k + 1) /\ m <= n - i + 1
            /\ k + (m - (n - j + 1)) - 1 = i + m - 1
        BY <1>1, <2>2, <3>3
      <4>2. From(t, i)[m] = t[i + m - 1]
        BY <1>4, <4>1
      <4> HIDE DEF i
      <4>3. u[m - (n - j + 1)] = t[k + (m - (n - j + 1)) - 1]
        BY <1>2, <3>1, <3>3
      <4> QED
        BY <3>1, <4>1, <4>2, <4>3
    <3>4. CASE ~(j <= n - k + 1) /\ ~(m - (n - j + 1) <= n - k + 1)
      <4>1. /\ i = j - (n - k + 1) /\ ~(m <= n - i + 1)
            /\ m - (n - j + 1) - (n - k + 1) = m - (n - i + 1)
        BY <1>1, <2>2, <3>4
      <4>2. From(t, i)[m] = t[m - (n - i + 1)]
        BY <1>4, <4>1
      <4> HIDE DEF i
      <4>3. u[m - (n - j + 1)] = t[m - (n - j + 1) - (n - k + 1)]
        BY <1>2, <3>1, <3>4
      <4> QED
        BY <3>1, <4>1, <4>2, <4>3
    <3> QED
      BY <3>2, <3>3, <3>4
  <2> QED
    BY <2>1, <2>2
<1>6. From(u, j) = From(t, i)
  BY <1>3, <1>4, <1>5, PathEqual
<1> QED
  BY <1>1, <1>6 DEF n, u

-----------------------------------------------------------------------------
(* Routes: a route is opened at a vertex, changed, and closed again        *)

Opened(r, v) == From(r, Position(r, v))

IsRoute(r) == IsPath(r) /\ r # <<>> /\ Cycle(r) = r

LEMMA OpenedFacts ==
    ASSUME NEW t, IsPath(t), NEW v \in ToSet(t)
    PROVE  /\ IsPath(Opened(t, v)) /\ Len(Opened(t, v)) = Len(t)
           /\ ToSet(Opened(t, v)) = ToSet(t)
           /\ Opened(t, v)[1] = v /\ Opened(t, v) # <<>>
           /\ Len(t) >= 1
<1>1. Position(t, v) \in 1..Len(t) /\ t[Position(t, v)] = v
  BY PositionOf
<1>2. Len(t) \in Nat /\ Len(t) >= 1
  BY <1>1, PathFacts
<1>3. Len(Opened(t, v)) = Len(t)
  BY <1>1, FromFacts DEF Opened
<1>4. Opened(t, v) # <<>>
  BY <1>2, <1>3
<1> QED
  BY <1>1, <1>2, <1>3, <1>4, FromFacts, FromStart DEF Opened

\* A path opened at its first vertex is itself.
LEMMA OpenedFirst ==
    ASSUME NEW t, IsPath(t), t # <<>>
    PROVE  t[1] \in ToSet(t) /\ Opened(t, t[1]) = t /\ 1 \in 1..Len(t)
<1>1. 1 \in 1..Len(t)
  BY PathFacts, EmptySeq
<1> QED
  BY <1>1, PositionIs, FromStart, PathSet DEF Opened

\* It does not matter from where a cycle is written.
LEMMA OpenedRotation ==
    ASSUME NEW t, IsPath(t), NEW k \in 1..Len(t), NEW v \in ToSet(t)
    PROVE  Opened(From(t, k), v) = Opened(t, v)
<1> DEFINE u == From(t, k)
<1>1. IsPath(u) /\ Len(u) = Len(t) /\ ToSet(u) = ToSet(t)
  BY FromFacts
<1>2. Position(u, v) \in 1..Len(t) /\ u[Position(u, v)] = v
  BY <1>1, PositionOf
<1>3. PICK i \in 1..Len(t) : Opened(u, v) = From(t, i)
  BY <1>2, FromFrom DEF Opened
<1>4. Opened(u, v)[1] = v
  BY <1>1, OpenedFacts
<1>5. t[i] = v
  BY <1>3, <1>4, FromStart
<1> QED
  BY <1>3, <1>5, PositionIs DEF Opened

\* A cycle is written from its smallest vertex.
LEMMA CycleFacts ==
    ASSUME NEW t, IsPath(t), t # <<>>
    PROVE  /\ IsPath(Cycle(t)) /\ Cycle(t) # <<>> /\ Len(Cycle(t)) = Len(t)
           /\ ToSet(Cycle(t)) = ToSet(t)
           /\ \E k \in 1..Len(t) : Cycle(t) = From(t, k) /\ \A v \in ToSet(t) : t[k] <= v
<1> DEFINE least(k) == \A j \in DOMAIN t : t[k] <= t[j]
           k == CHOOSE k \in DOMAIN t : least(k)
<1>1. DOMAIN t = 1..Len(t) /\ 1 \in 1..Len(t) /\ Len(t) \in Nat
  BY OpenedFirst, PathFacts
<1>2. ToSet(t) \in SUBSET Nat /\ ToSet(t) # {}
  <2>1. vertices \subseteq Nat
    BY RoutesAssumption DEF vertices
  <2> QED
    BY <1>1, <2>1, PathSet
<1>3. PICK v \in ToSet(t) : \A w \in ToSet(t) : v <= w
  BY <1>2, Loading!LeastNumber
<1>4. PICK i \in DOMAIN t : t[i] = v
  BY <1>1, PathSet
<1>5. least(i)
  BY <1>1, <1>3, <1>4, PathSet
<1>6. k \in DOMAIN t /\ least(k)
  BY <1>5
<1> HIDE DEF k
<1>7. \A w \in ToSet(t) : t[k] <= w
  BY <1>1, <1>6, PathSet
<1>8. Cycle(t) = From(t, k)
  BY DEF k, Cycle
<1>9. IsPath(From(t, k)) /\ Len(From(t, k)) = Len(t) /\ ToSet(From(t, k)) = ToSet(t)
  BY <1>1, <1>6, FromFacts
<1>10. From(t, k) # <<>>
  BY <1>1, <1>9
<1> QED
  BY <1>1, <1>6, <1>7, <1>8, <1>9, <1>10

LEMMA CycleOfRotation ==
    ASSUME NEW t, IsPath(t), t # <<>>, NEW k \in 1..Len(t)
    PROVE  Cycle(From(t, k)) = Cycle(t)
<1> DEFINE u == From(t, k)
<1>1. IsPath(u) /\ Len(u) = Len(t) /\ ToSet(u) = ToSet(t)
  BY FromFacts
<1>2. u # <<>>
  BY <1>1, PathFacts
<1>3. PICK i \in 1..Len(t) : Cycle(t) = From(t, i) /\ \A v \in ToSet(t) : t[i] <= v
  BY CycleFacts
<1>4. PICK j \in 1..Len(t) : Cycle(u) = From(u, j) /\ \A v \in ToSet(t) : u[j] <= v
  BY <1>1, <1>2, CycleFacts
<1>5. t[i] \in ToSet(t) /\ u[j] \in ToSet(t)
  BY <1>1, PathSet
<1>6. t[i] = u[j]
  <2>1. t[i] \in Int /\ u[j] \in Int
    BY <1>5, PathSet, Numbers
  <2>2. t[i] <= u[j] /\ u[j] <= t[i]
    BY <1>3, <1>4, <1>5
  <2> QED
    BY <2>1, <2>2
<1>7. Cycle(u) = Opened(u, u[j]) /\ Cycle(t) = Opened(t, t[i])
  BY <1>1, <1>3, <1>4, PositionIs DEF Opened
<1> QED
  BY <1>5, <1>6, <1>7, OpenedRotation

LEMMA CycleIsRoute ==
    ASSUME NEW t, IsPath(t), t # <<>>
    PROVE  /\ IsRoute(Cycle(t)) /\ ToSet(Cycle(t)) = ToSet(t) /\ Len(Cycle(t)) = Len(t)
           /\ \A v \in ToSet(t) : Opened(Cycle(t), v) = Opened(t, v)
           /\ \A v \in ToSet(t) : Cycle(Opened(t, v)) = Cycle(t)
<1>1. PICK k \in 1..Len(t) : Cycle(t) = From(t, k)
  BY CycleFacts
<1>2. Cycle(Cycle(t)) = Cycle(t)
  BY <1>1, CycleOfRotation
<1>3. \A v \in ToSet(t) : Opened(Cycle(t), v) = Opened(t, v)
  BY <1>1, OpenedRotation
<1>4. \A v \in ToSet(t) : Cycle(Opened(t, v)) = Cycle(t)
  BY PositionOf, CycleOfRotation DEF Opened
<1> QED
  BY <1>2, <1>3, <1>4, CycleFacts DEF IsRoute

\* A path that begins with its smallest vertex is a route.
LEMMA StartsSmallest ==
    ASSUME NEW t, IsPath(t), t # <<>>, \A v \in ToSet(t) : t[1] <= v
    PROVE  IsRoute(t)
<1>1. PICK k \in 1..Len(t) : Cycle(t) = From(t, k) /\ \A v \in ToSet(t) : t[k] <= v
  BY CycleFacts
<1>2. 1 \in 1..Len(t) /\ t[1] \in ToSet(t) /\ t[k] \in ToSet(t)
  BY OpenedFirst, PathSet
<1>3. t[1] \in Int /\ t[k] \in Int /\ t[1] <= t[k] /\ t[k] <= t[1]
  BY <1>1, <1>2, PathSet, Numbers
<1>4. k = 1
  <2>1. t[1] = t[k]
    BY <1>3
  <2> QED
    BY <1>2, <2>1, PathFacts
<1> QED
  BY <1>1, <1>4, FromStart DEF IsRoute

-----------------------------------------------------------------------------
(* The vertices around a vertex                                            *)

LEMMA Modulo ==
    ASSUME NEW n \in Nat, n > 0, NEW a \in Int, 0 <= a, a < n
    PROVE  a % n = a /\ (a + n) % n = a /\ (a - n) % n = a
OBVIOUS

\* A step from a vertex, on the route as it is written from its k-th vertex.
LEMMA StepFrom ==
    ASSUME NEW r, IsPath(r), NEW k \in 1..Len(r),
           NEW p \in 1..Len(r), NEW d \in (0 - Len(r))..Len(r), NEW q \in 1..Len(r),
           \/ q = p + d
           \/ q = p + d - Len(r)
           \/ q = p + d + Len(r)
    PROVE  Step(r, From(r, k)[p], d) = From(r, k)[q]
<1> DEFINE n == Len(r)
           at(j) == IF j <= n - k + 1 THEN k + j - 1 ELSE j - (n - k + 1)
<1>1. /\ n \in Nat /\ n > 0 /\ k \in 1..n /\ p \in 1..n /\ q \in 1..n
      /\ at(p) \in 1..n /\ at(q) \in 1..n /\ d \in (0 - n)..n
  BY PathFacts
<1>2. From(r, k)[p] = r[at(p)] /\ From(r, k)[q] = r[at(q)]
  BY FromFacts
<1>3. q = p + d \/ q = p + d - n \/ q = p + d + n
  OBVIOUS
<1> HIDE DEF n
<1>4. \/ at(p) - 1 + d = at(q) - 1
      \/ at(p) - 1 + d = at(q) - 1 + n
      \/ at(p) - 1 + d = at(q) - 1 - n
  <2>1. CASE p <= n - k + 1
    <3>1. CASE q <= n - k + 1
      BY <1>1, <1>3, <2>1, <3>1
    <3>2. CASE ~(q <= n - k + 1)
      BY <1>1, <1>3, <2>1, <3>2
    <3> QED
      BY <3>1, <3>2
  <2>2. CASE ~(p <= n - k + 1)
    <3>1. CASE q <= n - k + 1
      BY <1>1, <1>3, <2>2, <3>1
    <3>2. CASE ~(q <= n - k + 1)
      BY <1>1, <1>3, <2>2, <3>2
    <3> QED
      BY <3>1, <3>2
  <2> QED
    BY <2>1, <2>2
<1> HIDE DEF at
<1>5. at(q) - 1 \in Int /\ 0 <= at(q) - 1 /\ at(q) - 1 < n /\ at(q) = 1 + (at(q) - 1)
  BY <1>1
<1>6. (at(p) - 1 + d) % n = at(q) - 1
  BY <1>1, <1>4, <1>5, Modulo
<1>7. Position(r, r[at(p)]) = at(p)
  BY <1>1, PositionIs DEF n
<1> QED
  BY <1>2, <1>5, <1>6, <1>7 DEF Step, n

LEMMA StepIs ==
    ASSUME NEW r, IsPath(r), NEW w \in ToSet(r),
           NEW p \in 1..Len(r), NEW d \in (0 - Len(r))..Len(r), NEW q \in 1..Len(r),
           \/ q = p + d
           \/ q = p + d - Len(r)
           \/ q = p + d + Len(r)
    PROVE  Step(r, Opened(r, w)[p], d) = Opened(r, w)[q]
BY PositionOf, StepFrom DEF Opened

\* The successor is the second vertex of the route opened at the vertex.
LEMMA SuccIs ==
    ASSUME NEW r, IsPath(r), NEW v \in ToSet(r)
    PROVE  /\ Succ(r, v) \in ToSet(r)
           /\ Len(r) = 1 => Succ(r, v) = v
           /\ Len(r) > 1 => Succ(r, v) = Opened(r, v)[2]
           /\ Succ(r, v) = Step(r, v, 1)
<1> DEFINE o == Opened(r, v)
           n == Len(r)
<1>1. /\ n \in Nat /\ n >= 1 /\ Len(o) = n /\ IsPath(o) /\ o[1] = v
      /\ ToSet(o) = ToSet(r)
  BY PathFacts, OpenedFacts
<1>2. Succ(r, v) = Step(r, v, 1)
  <2>1. Position(r, v) \in Int
    BY PositionOf
  <2>2. Position(r, v) = Position(r, v) - 1 + 1
    BY <2>1
  <2> QED
    BY <2>2 DEF Succ, Step
<1> HIDE DEF o, n
<1>3. CASE n = 1
  <2>1. Step(r, o[1], 1) = o[1]
    <3>1. 1 \in 1..n /\ 1 = 1 + 1 - n /\ 1 \in (0 - n)..n
      BY <1>1, <1>3
    <3> QED
      BY <3>1, StepIs DEF n, o
  <2> QED
    BY <1>1, <1>2, <1>3, <2>1 DEF n
<1>4. CASE n > 1
  <2>1. Step(r, o[1], 1) = o[2]
    <3>1. 1 \in 1..n /\ 2 \in 1..n /\ 2 = 1 + 1 /\ 1 \in (0 - n)..n
      BY <1>1, <1>4
    <3> QED
      BY <3>1, StepIs DEF n, o
  <2>2. o[2] \in ToSet(r)
    <3>1. 2 \in 1..Len(o)
      BY <1>1, <1>4
    <3> QED
      BY <1>1, <3>1, PathSet
  <2> QED
    BY <1>1, <1>2, <1>4, <2>1, <2>2 DEF n, o
<1> QED
  BY <1>1, <1>3, <1>4

-----------------------------------------------------------------------------
(* Parts of a path                                                         *)

\* A path without its first vertex.
LEMMA TailFacts ==
    ASSUME NEW p, IsPath(p), p # <<>>
    PROVE  /\ IsPath(Tail(p)) /\ Len(Tail(p)) = Len(p) - 1
           /\ \A k \in 1..(Len(p) - 1) : Tail(p)[k] = p[k + 1]
           /\ p[1] \notin ToSet(Tail(p)) /\ ToSet(p) = ToSet(Tail(p)) \cup {p[1]}
           /\ p = <<p[1]>> \o Tail(p)
<1> DEFINE t == Tail(p)
           n == Len(p)
<1>1. n \in Nat /\ p \in Seq(vertices) /\ n >= 1 /\ 1 \in 1..n
  BY OpenedFirst, PathFacts
<1>2. /\ t \in Seq(vertices) /\ Len(t) = n - 1
      /\ \A k \in 1..(n - 1) : t[k] = p[k + 1]
  BY <1>1, HeadTailProperties
<1>3. \A j, k \in 1..n : p[j] = p[k] => j = k
  BY PathFacts
<1> HIDE DEF t, n
<1>4. IsPath(t)
  <2>1. ASSUME NEW j \in 1..(n - 1), NEW k \in 1..(n - 1), t[j] = t[k] PROVE j = k
    <3>1. j + 1 \in 1..n /\ k + 1 \in 1..n
      BY <1>1
    <3>2. j + 1 = k + 1
      BY <1>2, <1>3, <2>1, <3>1
    <3> QED
      BY <3>2
  <2> QED
    BY <1>2, <2>1, IsAPath
<1>5. ToSet(t) = {t[k] : k \in 1..(n - 1)} /\ ToSet(p) = {p[k] : k \in 1..n}
  BY <1>2, <1>4, PathSet DEF n
<1>6. p[1] \notin ToSet(t)
  <2>1. ASSUME NEW k \in 1..(n - 1), t[k] = p[1] PROVE FALSE
    <3>1. k + 1 \in 1..n /\ k + 1 # 1
      BY <1>1
    <3> QED
      BY <1>1, <1>2, <1>3, <2>1, <3>1
  <2> QED
    BY <1>5, <2>1
<1>7. ToSet(p) = ToSet(t) \cup {p[1]}
  <2>1. ASSUME NEW k \in 1..n PROVE p[k] \in ToSet(t) \cup {p[1]}
    <3>1. CASE k = 1
      BY <3>1
    <3>2. CASE k # 1
      <4>1. k - 1 \in 1..(n - 1) /\ k = (k - 1) + 1
        BY <1>1, <3>2
      <4>2. t[k - 1] = p[k]
        BY <1>2, <4>1
      <4> QED
        BY <1>5, <4>1, <4>2
    <3> QED
      BY <3>1, <3>2
  <2>2. ASSUME NEW k \in 1..(n - 1) PROVE t[k] \in ToSet(p)
    <3>1. k + 1 \in 1..n
      BY <1>1
    <3> QED
      BY <1>2, <1>5, <3>1
  <2>3. p[1] \in ToSet(p)
    BY <1>1, <1>5
  <2> QED
    BY <1>5, <2>1, <2>2, <2>3
<1>8. p = <<p[1]>> \o t
  <2>1. p # <<>> => p = <<Head(p)>> \o t
    BY <1>1, HeadTailProperties DEF t
  <2>2. Head(p) = p[1]
    OBVIOUS
  <2> QED
    BY <2>1, <2>2
<1> QED
  BY <1>2, <1>4, <1>6, <1>7, <1>8 DEF n, t

\* Two paths without a common vertex, one after the other.
LEMMA ConcatFacts ==
    ASSUME NEW s, IsPath(s), NEW t, IsPath(t), ToSet(s) \cap ToSet(t) = {}
    PROVE  /\ IsPath(s \o t) /\ Len(s \o t) = Len(s) + Len(t)
           /\ \A k \in 1..Len(s) : (s \o t)[k] = s[k]
           /\ \A k \in 1..Len(t) : (s \o t)[Len(s) + k] = t[k]
           /\ ToSet(s \o t) = ToSet(s) \cup ToSet(t)
<1> DEFINE u == s \o t
           m == Len(s)
           n == Len(t)
<1>1. m \in Nat /\ n \in Nat /\ s \in Seq(vertices) /\ t \in Seq(vertices)
  BY PathFacts
<1>2. /\ u \in Seq(vertices) /\ Len(u) = m + n
      /\ \A k \in 1..(m + n) : u[k] = IF k <= m THEN s[k] ELSE t[k - m]
  BY <1>1, ConcatProperties
<1>3. /\ \A j, k \in 1..m : s[j] = s[k] => j = k
      /\ \A j, k \in 1..n : t[j] = t[k] => j = k
  BY PathFacts
<1>4. \A j \in 1..m, k \in 1..n : s[j] # t[k]
  BY PathSet
<1>5. ToSet(s) = {s[k] : k \in 1..m} /\ ToSet(t) = {t[k] : k \in 1..n}
  BY PathSet
<1> HIDE DEF u, m, n
<1>6. \A k \in 1..m : u[k] = s[k] /\ k \in 1..(m + n)
  BY <1>1, <1>2
<1>7. \A k \in 1..n : u[m + k] = t[k] /\ m + k \in 1..(m + n)
  <2> TAKE k \in 1..n
  <2>1. m + k \in 1..(m + n) /\ ~(m + k <= m) /\ (m + k) - m = k
    BY <1>1
  <2> QED
    BY <1>2, <2>1
<1>8. \A k \in 1..(m + n) : k \in 1..m \/ (k - m \in 1..n /\ k = m + (k - m))
  BY <1>1
<1>9. ASSUME NEW j \in 1..(m + n), NEW k \in 1..(m + n), u[j] = u[k] PROVE j = k
  <2>1. CASE j \in 1..m /\ k \in 1..m
    BY <1>3, <1>6, <1>9, <2>1
  <2>2. CASE j \in 1..m /\ k \notin 1..m
    <3>1. k - m \in 1..n /\ u[k] = t[k - m]
      BY <1>7, <1>8, <2>2
    <3> QED
      BY <1>4, <1>6, <1>9, <2>2, <3>1
  <2>3. CASE j \notin 1..m /\ k \in 1..m
    <3>1. j - m \in 1..n /\ u[j] = t[j - m]
      BY <1>7, <1>8, <2>3
    <3> QED
      BY <1>4, <1>6, <1>9, <2>3, <3>1
  <2>4. CASE j \notin 1..m /\ k \notin 1..m
    <3>1. j - m \in 1..n /\ u[j] = t[j - m] /\ k - m \in 1..n /\ u[k] = t[k - m]
      BY <1>7, <1>8, <2>4
    <3>2. j - m = k - m
      BY <1>3, <1>9, <3>1
    <3> QED
      BY <1>1, <3>2
  <2> QED
    BY <2>1, <2>2, <2>3, <2>4
<1>10. IsPath(u)
  BY <1>2, <1>9, IsAPath
<1>11. ToSet(u) = {u[k] : k \in 1..(m + n)}
  BY <1>2, <1>10, PathSet
<1>12. ToSet(u) = ToSet(s) \cup ToSet(t)
  <2>1. \A k \in 1..(m + n) : u[k] \in ToSet(s) \cup ToSet(t)
    <3> TAKE k \in 1..(m + n)
    <3>1. CASE k \in 1..m
      BY <1>5, <1>6, <3>1
    <3>2. CASE k \notin 1..m
      <4>1. k - m \in 1..n /\ u[k] = t[k - m]
        BY <1>7, <1>8, <3>2
      <4> QED
        BY <1>5, <4>1
    <3> QED
      BY <3>1, <3>2
  <2>2. \A k \in 1..m : s[k] \in ToSet(u)
    BY <1>6, <1>11
  <2>3. \A k \in 1..n : t[k] \in ToSet(u)
    BY <1>7, <1>11
  <2> QED
    BY <1>5, <1>11, <2>1, <2>2, <2>3
<1> QED
  BY <1>2, <1>6, <1>7, <1>10, <1>12 DEF u, m, n

LEMMA SingleFacts ==
    ASSUME NEW v \in vertices
    PROVE  IsPath(<<v>>) /\ ToSet(<<v>>) = {v} /\ Len(<<v>>) = 1
<1>1. <<v>> \in Seq(vertices) /\ Len(<<v>>) = 1 /\ \A k \in 1..1 : k = 1
  OBVIOUS
<1>2. IsPath(<<v>>)
  BY <1>1, IsAPath
<1>3. ToSet(<<v>>) = {v}
  BY <1>1, <1>2, PathSet
<1> QED
  BY <1>1, <1>2, <1>3

\* A path with another vertex in front of it.
LEMMA PrefixedFacts ==
    ASSUME NEW t, IsPath(t), NEW v \in vertices, v \notin ToSet(t)
    PROVE  /\ IsPath(<<v>> \o t) /\ <<v>> \o t # <<>> /\ (<<v>> \o t)[1] = v
           /\ ToSet(<<v>> \o t) = ToSet(t) \cup {v} /\ Len(<<v>> \o t) = Len(t) + 1
           /\ Tail(<<v>> \o t) = t
<1> DEFINE u == <<v>> \o t
<1>1. IsPath(<<v>>) /\ ToSet(<<v>>) = {v} /\ Len(<<v>>) = 1 /\ <<v>>[1] = v
  BY SingleFacts
<1>2. /\ IsPath(u) /\ Len(u) = 1 + Len(t) /\ Len(t) \in Nat
      /\ \A k \in 1..1 : u[k] = <<v>>[k]
      /\ \A k \in 1..Len(t) : u[1 + k] = t[k]
      /\ ToSet(u) = {v} \cup ToSet(t)
  BY <1>1, ConcatFacts, PathFacts
<1>3. Len(u) = Len(t) + 1 /\ u # <<>>
  BY <1>2
<1>4. u[1] = v
  BY <1>1, <1>2
<1> HIDE DEF u
<1>5. /\ IsPath(Tail(u)) /\ Len(Tail(u)) = Len(u) - 1
      /\ \A k \in 1..(Len(u) - 1) : Tail(u)[k] = u[k + 1]
  BY <1>2, <1>3, TailFacts
<1>6. \A k \in 1..Len(t) : Tail(u)[k] = t[k]
  BY <1>2, <1>3, <1>5
<1>7. Len(Tail(u)) = Len(t)
  BY <1>2, <1>5
<1>8. Tail(u) = t
  BY <1>5, <1>6, <1>7, PathEqual
<1> QED
  BY <1>2, <1>3, <1>4, <1>8 DEF u

\* A stretch of a path.
LEMMA PartFacts ==
    ASSUME NEW t, IsPath(t), NEW a \in 1..(Len(t) + 1), NEW b \in 0..Len(t), a <= b + 1
    PROVE  /\ IsPath(SubSeq(t, a, b)) /\ Len(SubSeq(t, a, b)) = b - a + 1
           /\ \A k \in 1..(b - a + 1) : SubSeq(t, a, b)[k] = t[a + k - 1]
           /\ ToSet(SubSeq(t, a, b)) = {t[k] : k \in a..b}
<1> DEFINE u == SubSeq(t, a, b)
           n == Len(t)
           m == b - a + 1
<1>1. /\ n \in Nat /\ a \in 1..(n + 1) /\ b \in 0..n /\ m \in Nat /\ a <= b + 1
      /\ t \in Seq(vertices) /\ \A k \in 1..n : t[k] \in vertices
      /\ \A j, k \in 1..n : t[j] = t[k] => j = k
  BY PathFacts
<1> HIDE DEF n
<1>2. u \in Seq(vertices) /\ Len(u) = m /\ \A k \in 1..m : u[k] = t[a + k - 1]
  <2>1. \A k \in a..b : t[k] \in vertices
    BY <1>1
  <2>2. a \in Int /\ b \in Int /\ (IF a <= b THEN b - a + 1 ELSE 0) = m
    BY <1>1
  <2>3. /\ u \in Seq(vertices) /\ Len(u) = (IF a <= b THEN b - a + 1 ELSE 0)
        /\ \A k \in 1..(b - a + 1) : u[k] = t[a + k - 1]
    BY <1>1, <2>1, <2>2, SubSeqProperties
  <2> QED
    BY <2>2, <2>3
<1> HIDE DEF u
<1>3. ASSUME NEW j \in 1..m, NEW k \in 1..m, u[j] = u[k] PROVE j = k
  <2>1. a + j - 1 \in 1..n /\ a + k - 1 \in 1..n
    BY <1>1
  <2>2. a + j - 1 = a + k - 1
    BY <1>1, <1>2, <1>3, <2>1
  <2> QED
    BY <1>1, <2>2
<1>4. IsPath(u)
  BY <1>2, <1>3, IsAPath
<1>5. ToSet(u) = {t[k] : k \in a..b}
  <2>1. ToSet(u) = {u[k] : k \in 1..m}
    BY <1>2, <1>4, PathSet
  <2>2. \A k \in 1..m : a + k - 1 \in a..b
    BY <1>1
  <2>3. \A k \in a..b : k - a + 1 \in 1..m /\ a + (k - a + 1) - 1 = k
    BY <1>1
  <2>4. \A k \in a..b : u[k - a + 1] = t[k]
    BY <1>2, <2>3
  <2> HIDE DEF m
  <2>5. \A k \in 1..m : u[k] \in {t[j] : j \in a..b}
    BY <1>2, <2>2
  <2>6. \A k \in a..b : t[k] \in {u[j] : j \in 1..m}
    BY <2>3, <2>4
  <2> QED
    BY <2>1, <2>5, <2>6
<1> QED
  BY <1>2, <1>4, <1>5 DEF u

\* A path is made of what is before a place and what is after it.
LEMMA CutFacts ==
    ASSUME NEW t, IsPath(t), NEW k \in 0..Len(t)
    PROVE  /\ t = SubSeq(t, 1, k) \o SubSeq(t, k + 1, Len(t))
           /\ IsPath(SubSeq(t, 1, k)) /\ Len(SubSeq(t, 1, k)) = k
           /\ IsPath(SubSeq(t, k + 1, Len(t))) /\ Len(SubSeq(t, k + 1, Len(t))) = Len(t) - k
           /\ ToSet(SubSeq(t, 1, k)) \cap ToSet(SubSeq(t, k + 1, Len(t))) = {}
           /\ ToSet(t) = ToSet(SubSeq(t, 1, k)) \cup ToSet(SubSeq(t, k + 1, Len(t)))
<1> DEFINE n == Len(t)
           a == SubSeq(t, 1, k)
           c == SubSeq(t, k + 1, n)
<1>1. n \in Nat /\ k \in 0..n /\ \A i, j \in 1..n : t[i] = t[j] => i = j
  BY PathFacts
<1>2. /\ IsPath(a) /\ Len(a) = k /\ \A j \in 1..k : a[j] = t[j]
      /\ ToSet(a) = {t[j] : j \in 1..k}
  <2>1. 1 \in 1..(n + 1) /\ k \in 0..n /\ 1 <= k + 1 /\ k - 1 + 1 = k
    BY <1>1
  <2>2. /\ IsPath(a) /\ Len(a) = k - 1 + 1 /\ ToSet(a) = {t[j] : j \in 1..k}
        /\ \A j \in 1..(k - 1 + 1) : a[j] = t[1 + j - 1]
    BY <2>1, PartFacts
  <2>3. \A j \in 1..k : 1 + j - 1 = j
    BY <1>1
  <2> QED
    BY <2>1, <2>2, <2>3
<1>3. /\ IsPath(c) /\ Len(c) = n - k /\ \A j \in 1..(n - k) : c[j] = t[k + j]
      /\ ToSet(c) = {t[j] : j \in (k + 1)..n}
  <2>1. k + 1 \in 1..(n + 1) /\ n \in 0..n /\ k + 1 <= n + 1 /\ n - (k + 1) + 1 = n - k
    BY <1>1
  <2>2. /\ IsPath(c) /\ Len(c) = n - (k + 1) + 1 /\ ToSet(c) = {t[j] : j \in (k + 1)..n}
        /\ \A j \in 1..(n - (k + 1) + 1) : c[j] = t[(k + 1) + j - 1]
    <3> DEFINE l == k + 1
    <3>1. l \in 1..(Len(t) + 1) /\ n \in 0..Len(t) /\ l <= n + 1
      BY <2>1
    <3> HIDE DEF l, n
    <3>2. /\ IsPath(SubSeq(t, l, n)) /\ Len(SubSeq(t, l, n)) = n - l + 1
          /\ \A j \in 1..(n - l + 1) : SubSeq(t, l, n)[j] = t[l + j - 1]
          /\ ToSet(SubSeq(t, l, n)) = {t[j] : j \in l..n}
      BY <3>1, PartFacts
    <3> QED
      BY <3>2 DEF l
  <2>3. \A j \in 1..(n - k) : (k + 1) + j - 1 = k + j
    BY <1>1
  <2> QED
    BY <2>1, <2>2, <2>3
<1> HIDE DEF a, c, n
<1>4. ToSet(a) \cap ToSet(c) = {}
  <2>1. \A i \in 1..k, j \in (k + 1)..n : i \in 1..n /\ j \in 1..n /\ i # j
    BY <1>1
  <2> QED
    BY <1>1, <1>2, <1>3, <2>1
<1>5. /\ IsPath(a \o c) /\ Len(a \o c) = k + (n - k)
      /\ \A j \in 1..k : (a \o c)[j] = a[j]
      /\ \A j \in 1..(n - k) : (a \o c)[k + j] = c[j]
      /\ ToSet(a \o c) = ToSet(a) \cup ToSet(c)
  <2>1. /\ IsPath(a \o c) /\ Len(a \o c) = Len(a) + Len(c)
        /\ \A j \in 1..Len(a) : (a \o c)[j] = a[j]
        /\ \A j \in 1..Len(c) : (a \o c)[Len(a) + j] = c[j]
        /\ ToSet(a \o c) = ToSet(a) \cup ToSet(c)
    BY <1>2, <1>3, <1>4, ConcatFacts
  <2>2. Len(a) = k /\ Len(c) = n - k
    BY <1>2, <1>3
  <2> QED
    BY <2>1, <2>2
<1>6. ASSUME NEW j \in 1..n PROVE (a \o c)[j] = t[j]
  <2>1. CASE j <= k
    <3>1. j \in 1..k
      BY <1>1, <2>1
    <3> QED
      BY <1>2, <1>5, <3>1
  <2>2. CASE ~(j <= k)
    <3>1. j - k \in 1..(n - k) /\ k + (j - k) = j
      BY <1>1, <2>2
    <3> QED
      BY <1>3, <1>5, <3>1
  <2> QED
    BY <2>1, <2>2
<1>7. a \o c = t
  <2>1. Len(a \o c) = n
    BY <1>1, <1>5
  <2> QED
    BY <1>5, <1>6, <2>1, PathEqual DEF n
<1> QED
  BY <1>2, <1>3, <1>4, <1>5, <1>7 DEF a, c, n

\* A path backwards.
LEMMA ReverseFacts ==
    ASSUME NEW t, IsPath(t)
    PROVE  /\ IsPath(Reverse(t)) /\ Len(Reverse(t)) = Len(t) /\ ToSet(Reverse(t)) = ToSet(t)
           /\ \A k \in 1..Len(t) : Reverse(t)[k] = t[Len(t) - k + 1]
           /\ Reverse(Reverse(t)) = t
<1> DEFINE n == Len(t)
           u == Reverse(t)
<1>1. /\ n \in Nat /\ \A k \in 1..n : t[k] \in vertices
      /\ \A j, k \in 1..n : t[j] = t[k] => j = k
  BY PathFacts
<1>2. u = [k \in 1..n |-> t[(n - k) + 1]]
  BY DEF Reverse
<1> HIDE DEF n, u
<1>3. \A k \in 1..n : n - k + 1 \in 1..n /\ n - (n - k + 1) + 1 = k
  BY <1>1
<1>4. u \in Seq(vertices) /\ Len(u) = n /\ \A k \in 1..n : u[k] = t[n - k + 1]
  BY <1>1, <1>2, <1>3
<1>5. \A j, k \in 1..n : u[j] = u[k] => j = k
  <2> SUFFICES ASSUME NEW j \in 1..n, NEW k \in 1..n, u[j] = u[k] PROVE j = k
    OBVIOUS
  <2>1. n - j + 1 = n - k + 1
    BY <1>1, <1>3, <1>4
  <2> QED
    BY <1>1, <2>1
<1>6. IsPath(u)
  BY <1>4, <1>5, IsAPath
<1>7. ToSet(u) = ToSet(t)
  <2>1. ToSet(u) = {u[k] : k \in 1..n} /\ ToSet(t) = {t[k] : k \in 1..n}
    BY <1>4, <1>6, PathSet DEF n
  <2>2. \A k \in 1..n : u[n - k + 1] = t[k]
    BY <1>3, <1>4
  <2>3. \A k \in 1..n : u[k] \in {t[j] : j \in 1..n}
    BY <1>3, <1>4
  <2>4. \A k \in 1..n : t[k] \in {u[j] : j \in 1..n}
    BY <1>3, <2>2
  <2> QED
    BY <2>1, <2>3, <2>4
<1>8. Reverse(u) = t
  <2>1. Reverse(u) = [k \in 1..n |-> u[(n - k) + 1]]
    BY <1>4 DEF Reverse
  <2>2. \A k \in 1..n : Reverse(u)[k] = t[k]
    <3> SUFFICES ASSUME NEW k \in 1..n PROVE Reverse(u)[k] = t[k]
      OBVIOUS
    <3>1. Reverse(u)[k] = u[(n - k) + 1]
      BY <2>1
    <3>2. (n - k) + 1 \in 1..n /\ n - ((n - k) + 1) + 1 = k
      BY <1>3
    <3>3. u[(n - k) + 1] = t[n - ((n - k) + 1) + 1]
      BY <1>4, <3>2
    <3> QED
      BY <3>1, <3>2, <3>3
  <2>3. \A k \in 1..n : u[(n - k) + 1] \in vertices
    BY <1>1, <1>3, <1>4
  <2>4. Reverse(u) \in Seq(vertices) /\ Len(Reverse(u)) = n
    <3> DEFINE b[k \in 1..n] == u[(n - k) + 1]
    <3>1. b \in [1..n -> vertices]
      BY <2>3
    <3>2. Reverse(u) = b
      BY <2>1
    <3> HIDE DEF b
    <3>3. b \in Seq(vertices) /\ Len(b) = n
      BY <1>1, <3>1
    <3> QED
      BY <3>2, <3>3
  <2> QED
    BY <2>2, <2>4, PathFacts, SeqEqual DEF n
<1> QED
  BY <1>4, <1>6, <1>7, <1>8 DEF n, u

-----------------------------------------------------------------------------
(* Loads                                                                   *)

Weight(v) == IF v = depot THEN 0 ELSE Demand[v]

LEMMA WeightFacts ==
    /\ \A v \in vertices : Weight(v) \in Nat
    /\ \A c \in customers : Weight(c) = Demand[c] /\ Weight(c) > 0 /\ Weight(c) <= Capacity
    /\ Weight(depot) = 0 /\ Capacity \in Nat
<1>1. Capacity \in Nat /\ \A c \in customers : Demand[c] \in 1..Capacity
  BY RoutesAssumption DEF customers
<1>2. Weight(depot) = 0
  BY DEF Weight
<1>3. \A c \in customers : Weight(c) = Demand[c] /\ Weight(c) > 0 /\ Weight(c) <= Capacity
  BY <1>1, Numbers DEF Weight
<1>4. \A v \in vertices : Weight(v) \in Nat
  <2>1. \A v \in vertices : v = depot \/ v \in customers
    BY Numbers
  <2>2. \A c \in customers : Weight(c) \in Nat
    BY <1>1, <1>3
  <2> QED
    BY <1>2, <2>1, <2>2
<1> QED
  BY <1>1, <1>2, <1>3, <1>4

\* The recursive sum of Load is a fold.
LEMMA LoadIsFold ==
    ASSUME NEW t \in Seq(vertices)
    PROVE  Load(t) = Loading!Folded(0, t) /\ Load(t) \in Nat
<1> DEFINE n == Len(t)
           Sums(f) == f = [k \in 0..n |-> IF k = 0 THEN 0
                                ELSE f[k - 1] + (IF t[k] = depot THEN 0 ELSE Demand[t[k]])]
           sum == CHOOSE f : Sums(f)
<1>1. n \in Nat /\ \A k \in 1..n : t[k] \in vertices
  OBVIOUS
<1>2. PICK g : Loading!IsTrace(g, 0, t) /\ Loading!Folded(0, t) = g[n]
  BY Loading!FoldHasTrace
<1>3. g[0] = 0 /\ \A k \in 1..n : g[k] = g[k - 1] + (IF t[k] = depot THEN 0 ELSE Demand[t[k]])
  BY <1>2 DEF Loading!IsTrace, AddDemand
<1> HIDE DEF n
<1>4. Sums([k \in 0..n |-> g[k]])
  <2> DEFINE h == [k \in 0..n |-> g[k]]
             rhs == [k \in 0..n |-> IF k = 0 THEN 0
                                ELSE h[k - 1] + (IF t[k] = depot THEN 0 ELSE Demand[t[k]])]
  <2>1. ASSUME NEW k \in 0..n PROVE h[k] = rhs[k]
    <3>1. CASE k = 0
      BY <1>3, <3>1
    <3>2. CASE k # 0
      <4>1. k \in 1..n /\ k - 1 \in 0..n
        BY <1>1, <3>2
      <4>2. h[k - 1] = g[k - 1] /\ h[k] = g[k]
        BY <4>1
      <4> QED
        BY <1>3, <3>2, <4>1, <4>2
    <3> QED
      BY <3>1, <3>2
  <2>2. h = [k \in 0..n |-> h[k]] /\ rhs = [k \in 0..n |-> rhs[k]]
    OBVIOUS
  <2> HIDE DEF h, rhs
  <2>3. h = rhs
    BY <2>1, <2>2
  <2> QED
    BY <2>3 DEF h, rhs
<1>5. Sums(sum)
  <2> HIDE DEF Sums
  <2> QED
    BY <1>4
<1>6. Load(t) = sum[n]
  BY DEF Load, Total, n
<1> HIDE DEF sum
<1>7. Loading!IsTrace(sum, 0, t)
  <2>1. sum[0] = 0
    BY <1>1, <1>5
  <2>2. ASSUME NEW k \in 1..n
        PROVE sum[k] = sum[k - 1] + (IF t[k] = depot THEN 0 ELSE Demand[t[k]])
    <3>1. k \in 0..n /\ k # 0
      BY <1>1
    <3> QED
      BY <1>5, <3>1
  <2> QED
    BY <2>1, <2>2 DEF Loading!IsTrace, AddDemand, n
<1>8. Loading!Folded(0, t) = sum[n]
  BY <1>7, Loading!TraceIsFold DEF n
<1>9. Loading!Folded(0, t) \in Nat
  <2>1. ASSUME NEW x \in Nat, NEW v \in vertices PROVE AddDemand(x, v) \in Nat
    BY WeightFacts DEF AddDemand, Weight
  <2>2. 0 \in Nat
    OBVIOUS
  <2> QED
    BY <2>1, <2>2, Loading!FoldPreserves
<1> QED
  BY <1>6, <1>8, <1>9

LEMMA LoadShort ==
    /\ Load(<<>>) = 0
    /\ \A v \in vertices : Load(<<v>>) = Weight(v)
<1>1. <<>> \in Seq(vertices) /\ \A v \in vertices : <<v>> \in Seq(vertices)
  OBVIOUS
<1>2. Load(<<>>) = 0
  BY <1>1, LoadIsFold, Loading!FoldShort
<1>3. ASSUME NEW v \in vertices PROVE Load(<<v>>) = Weight(v)
  <2>1. Load(<<v>>) = AddDemand(0, v)
    BY <1>1, LoadIsFold, Loading!FoldShort
  <2> QED
    BY <2>1, WeightFacts DEF AddDemand, Weight
<1> QED
  BY <1>2, <1>3

LEMMA LoadConcat ==
    ASSUME NEW s \in Seq(vertices), NEW t \in Seq(vertices)
    PROVE  Load(s \o t) = Load(s) + Load(t)
<1> DEFINE b == Loading!Folded(0, s)
           n == Len(t)
<1>1. /\ Load(s) = b /\ b \in Nat /\ Load(t) = Loading!Folded(0, t)
      /\ Load(s \o t) = Loading!Folded(0, s \o t)
  <2>1. s \o t \in Seq(vertices)
    OBVIOUS
  <2> QED
    BY <2>1, LoadIsFold
<1>2. Loading!Folded(0, s \o t) = Loading!Folded(b, t)
  BY Loading!FoldConcat
<1>3. PICK g : Loading!IsTrace(g, 0, t) /\ Loading!Folded(0, t) = g[n]
  BY Loading!FoldHasTrace
<1>4. n \in Nat /\ \A k \in 1..n : t[k] \in vertices
  OBVIOUS
<1> HIDE DEF b, n
<1>5. g[0] = 0 /\ \A k \in 1..n : g[k] = g[k - 1] + Weight(t[k])
  BY <1>3 DEF Loading!IsTrace, AddDemand, Weight, n
<1>6. \A k \in Nat : k \in {j \in Nat : j <= n => g[j] \in Nat}
  <2> DEFINE P == {j \in Nat : j <= n => g[j] \in Nat}
  <2>1. 0 \in P
    BY <1>5
  <2>2. ASSUME NEW j \in Nat, j \in P PROVE j + 1 \in P
    <3>1. CASE j + 1 <= n
      <4>1. j + 1 \in 1..n /\ (j + 1) - 1 = j /\ j <= n
        BY <1>4, <3>1
      <4>2. g[j + 1] = g[j] + Weight(t[j + 1]) /\ Weight(t[j + 1]) \in Nat
        BY <1>4, <1>5, <4>1, WeightFacts
      <4> QED
        BY <2>2, <4>1, <4>2
    <3>2. CASE ~(j + 1 <= n)
      BY <3>2
    <3> QED
      BY <3>1, <3>2
  <2> HIDE DEF P
  <2>3. \A k \in Nat : k \in P
    BY <2>1, <2>2, Loading!Induction
  <2> QED
    BY <2>3 DEF P
<1> DEFINE h == [k \in 0..n |-> b + g[k]]
<1>7. Loading!IsTrace(h, b, t)
  <2>1. h[0] = b
    BY <1>1, <1>4, <1>5
  <2>2. ASSUME NEW k \in 1..n PROVE h[k] = h[k - 1] + Weight(t[k])
    <3>1. k \in 0..n /\ k - 1 \in 0..n /\ k - 1 \in Nat /\ k - 1 <= n
      BY <1>4
    <3>2. g[k - 1] \in Nat /\ Weight(t[k]) \in Nat /\ g[k] = g[k - 1] + Weight(t[k])
      BY <1>4, <1>5, <1>6, <3>1, WeightFacts
    <3> QED
      BY <1>1, <3>1, <3>2
  <2> HIDE DEF h
  <2> QED
    BY <2>1, <2>2 DEF Loading!IsTrace, AddDemand, Weight, n
<1>8. Loading!Folded(b, t) = h[n]
  BY <1>7, Loading!TraceIsFold DEF n
<1>9. h[n] = b + g[n]
  BY <1>4
<1> QED
  BY <1>1, <1>2, <1>3, <1>8, <1>9

\* The load does not depend on where a route begins.
LEMMA LoadOpened ==
    ASSUME NEW t, IsPath(t), NEW v \in ToSet(t)
    PROVE  Load(Opened(t, v)) = Load(t)
<1> DEFINE k == Position(t, v)
           n == Len(t)
           a == SubSeq(t, 1, k - 1)
           c == SubSeq(t, k, n)
<1>1. k \in 1..n /\ k - 1 \in 0..n /\ (k - 1) + 1 = k
  BY PositionOf, PathFacts
<1> HIDE DEF k
<1>2. t = a \o c /\ IsPath(a) /\ IsPath(c)
  <2> DEFINE j == k - 1
  <2>1. j \in 0..Len(t) /\ j + 1 = k
    BY <1>1
  <2> HIDE DEF j
  <2>2. t = SubSeq(t, 1, j) \o SubSeq(t, j + 1, Len(t)) /\ IsPath(SubSeq(t, 1, j))
        /\ IsPath(SubSeq(t, j + 1, Len(t)))
    BY <2>1, CutFacts
  <2> QED
    BY <2>1, <2>2 DEF j
<1>3. Opened(t, v) = c \o a
  BY DEF Opened, From, k
<1> HIDE DEF a, c
<1>4. a \in Seq(vertices) /\ c \in Seq(vertices) /\ Load(a) \in Nat /\ Load(c) \in Nat
  BY <1>2, PathFacts, LoadIsFold
<1>5. Load(t) = Load(a) + Load(c) /\ Load(Opened(t, v)) = Load(c) + Load(a)
  BY <1>2, <1>3, <1>4, LoadConcat
<1> QED
  BY <1>4, <1>5

\* Nor on the order of its vertices.
LEMMA SameLoad ==
    ASSUME NEW s, IsPath(s), NEW t, IsPath(t), ToSet(s) = ToSet(t)
    PROVE  Load(s) = Load(t)
<1> DEFINE same(a, b) == IsPath(a) /\ IsPath(b) /\ ToSet(a) = ToSet(b) => Load(a) = Load(b)
           P == {n \in Nat : \A a, b : Len(a) = n => same(a, b)}
<1>1. 0 \in P
  <2> SUFFICES ASSUME NEW a, NEW b, Len(a) = 0, IsPath(a), IsPath(b), ToSet(a) = ToSet(b)
               PROVE  Load(a) = Load(b)
    OBVIOUS
  <2>1. a = <<>> /\ ToSet(a) = {}
    <3>1. a \in Seq(vertices) /\ ToSet(a) = {a[k] : k \in 1..Len(a)}
      BY PathFacts, PathSet
    <3>2. a = <<>>
      BY <3>1, EmptySeq
    <3>3. 1..Len(a) = {}
      OBVIOUS
    <3> QED
      BY <3>1, <3>2, <3>3
  <2>2. b = <<>>
    BY <2>1, OpenedFirst
  <2> QED
    BY <2>1, <2>2
<1>2. ASSUME NEW n \in Nat, n \in P PROVE n + 1 \in P
  <2> SUFFICES ASSUME NEW a, NEW b, Len(a) = n + 1, IsPath(a), IsPath(b), ToSet(a) = ToSet(b)
               PROVE  Load(a) = Load(b)
    OBVIOUS
  <2> DEFINE v == a[1]
             o == Opened(b, v)
  <2>1. a # <<>> /\ v \in ToSet(a) /\ v \in ToSet(b) /\ v \in vertices
    <3>1. a # <<>>
      BY EmptySeq
    <3> QED
      BY <3>1, OpenedFirst, PathSet
  <2>2. IsPath(o) /\ ToSet(o) = ToSet(b) /\ o[1] = v /\ o # <<>> /\ Load(o) = Load(b)
    BY <2>1, OpenedFacts, LoadOpened
  <2> HIDE DEF v, o
  <2>3. /\ IsPath(Tail(a)) /\ Len(Tail(a)) = n /\ ToSet(Tail(a)) = ToSet(a) \ {v}
        /\ a = <<v>> \o Tail(a)
    <3>1. /\ IsPath(Tail(a)) /\ Len(Tail(a)) = Len(a) - 1
          /\ v \notin ToSet(Tail(a)) /\ ToSet(a) = ToSet(Tail(a)) \cup {v}
          /\ a = <<v>> \o Tail(a)
      BY <2>1, TailFacts DEF v
    <3> QED
      BY <3>1
  <2>4. IsPath(Tail(o)) /\ ToSet(Tail(o)) = ToSet(b) \ {v} /\ o = <<v>> \o Tail(o)
    <3>1. /\ IsPath(Tail(o)) /\ o[1] \notin ToSet(Tail(o))
          /\ ToSet(o) = ToSet(Tail(o)) \cup {o[1]} /\ o = <<o[1]>> \o Tail(o)
      BY <2>2, TailFacts
    <3> QED
      BY <2>2, <3>1
  <2>5. Load(Tail(a)) = Load(Tail(o))
    <3>1. \A x, y : Len(x) = n /\ IsPath(x) /\ IsPath(y) /\ ToSet(x) = ToSet(y) => Load(x) = Load(y)
      BY <1>2
    <3> QED
      BY <2>3, <2>4, <3>1
  <2>6. <<v>> \in Seq(vertices) /\ Tail(a) \in Seq(vertices) /\ Tail(o) \in Seq(vertices)
    BY <2>1, <2>3, <2>4, SingleFacts, PathFacts
  <2>7. Load(<<v>> \o Tail(a)) = Load(<<v>>) + Load(Tail(a))
    BY <2>6, LoadConcat
  <2>8. Load(<<v>> \o Tail(o)) = Load(<<v>>) + Load(Tail(o))
    BY <2>6, LoadConcat
  <2> QED
    BY <2>2, <2>3, <2>4, <2>5, <2>7, <2>8
<1> HIDE DEF P
<1>3. \A n \in Nat : n \in P
  BY <1>1, <1>2, Loading!Induction
<1>4. Len(s) \in P
  BY <1>3, PathFacts
<1> QED
  BY <1>4 DEF P

\* The load of a set of vertices is that of any path through them.
LoadOf(V) == Load(CHOOSE p : IsPath(p) /\ ToSet(p) = V)

LEMMA PathExists ==
    ASSUME NEW V \in SUBSET vertices
    PROVE  \E p : IsPath(p) /\ ToSet(p) = V
<1>1. IsFiniteSet(V)
  <2>1. IsFiniteSet(vertices)
    BY Numbers, FS_Interval DEF vertices
  <2> QED
    BY <2>1, FS_Subset
<1>2. Cardinality(V) \in Nat /\ \E f : f \in Bijection(1..Cardinality(V), V)
  BY <1>1, FS_CardinalityType DEF ExistsBijection
<1> DEFINE n == Cardinality(V)
<1>3. PICK f \in [1..n -> V] :
          (\A j, k \in 1..n : f[j] = f[k] => j = k) /\ \A v \in V : \E k \in 1..n : f[k] = v
  BY <1>2 DEF Bijection, Injection, Surjection, IsInjective
<1>4. f \in Seq(vertices) /\ Len(f) = n
  <2>1. n \in Nat /\ f \in [1..n -> vertices]
    BY <1>2
  <2> HIDE DEF n
  <2> QED
    BY <2>1
<1>5. IsPath(f)
  BY <1>3, <1>4, IsAPath
<1>6. ToSet(f) = V
  <2>1. ToSet(f) = {f[k] : k \in 1..n}
    BY <1>4, <1>5, PathSet
  <2> QED
    BY <1>3, <2>1
<1> QED
  BY <1>5, <1>6

LEMMA LoadOfPath ==
    ASSUME NEW p, IsPath(p)
    PROVE  Load(p) = LoadOf(ToSet(p))
<1> DEFINE q == CHOOSE q : IsPath(q) /\ ToSet(q) = ToSet(p)
<1>1. IsPath(q) /\ ToSet(q) = ToSet(p)
  OBVIOUS
<1> HIDE DEF q
<1>2. Load(q) = Load(p)
  BY <1>1, SameLoad
<1> QED
  BY <1>2 DEF LoadOf, q

LEMMA LoadOfUnion ==
    ASSUME NEW A \in SUBSET vertices, NEW B \in SUBSET vertices, A \cap B = {}
    PROVE  /\ LoadOf(A \cup B) = LoadOf(A) + LoadOf(B)
           /\ LoadOf(A) \in Nat /\ LoadOf(B) \in Nat
<1>1. PICK p : IsPath(p) /\ ToSet(p) = A
  BY PathExists
<1>2. PICK q : IsPath(q) /\ ToSet(q) = B
  BY PathExists
<1>3. IsPath(p \o q) /\ ToSet(p \o q) = A \cup B
  BY <1>1, <1>2, ConcatFacts
<1>4. p \in Seq(vertices) /\ q \in Seq(vertices)
  BY <1>1, <1>2, PathFacts
<1>5. Load(p \o q) = Load(p) + Load(q) /\ Load(p) \in Nat /\ Load(q) \in Nat
  BY <1>4, LoadConcat, LoadIsFold
<1>6. Load(p) = LoadOf(A) /\ Load(q) = LoadOf(B) /\ Load(p \o q) = LoadOf(A \cup B)
  BY <1>1, <1>2, <1>3, LoadOfPath
<1> QED
  BY <1>5, <1>6

LEMMA LoadOfSingle ==
    /\ LoadOf({}) = 0
    /\ \A v \in vertices : LoadOf({v}) = Weight(v)
<1>1. IsPath(<<>>) /\ ToSet(<<>>) = {}
  <2>1. <<>> \in Seq(vertices) /\ \A k \in 1..Len(<<>>) : FALSE
    OBVIOUS
  <2>2. IsPath(<<>>)
    BY <2>1, IsAPath
  <2> QED
    BY <2>1, <2>2, PathSet
<1>2. LoadOf({}) = 0
  BY <1>1, LoadOfPath, LoadShort
<1> QED
  BY <1>2, SingleFacts, LoadOfPath, LoadShort

LEMMA LoadOfSubset ==
    ASSUME NEW A \in SUBSET vertices, NEW B \in SUBSET A
    PROVE  /\ LoadOf(B) <= LoadOf(A) /\ LoadOf(A) \in Nat /\ LoadOf(B) \in Nat
           /\ LoadOf(A \ B) = LoadOf(A) - LoadOf(B)
<1>1. A = B \cup (A \ B) /\ B \in SUBSET vertices /\ A \ B \in SUBSET vertices
      /\ B \cap (A \ B) = {}
  OBVIOUS
<1>2. LoadOf(B \cup (A \ B)) = LoadOf(B) + LoadOf(A \ B)
      /\ LoadOf(B) \in Nat /\ LoadOf(A \ B) \in Nat
  BY <1>1, LoadOfUnion
<1>3. LoadOf(A) = LoadOf(B) + LoadOf(A \ B)
  BY <1>1, <1>2
<1> QED
  BY <1>2, <1>3

\* Customers have demands: a load is zero when there is no customer.
LEMMA LoadOfZero ==
    ASSUME NEW A \in SUBSET vertices
    PROVE  LoadOf(A) = 0 <=> A \ {depot} = {}
<1>1. ASSUME NEW c \in A, c # depot PROVE LoadOf(A) # 0
  <2>1. c \in customers /\ c \in vertices /\ {c} \in SUBSET A
    BY <1>1, Numbers
  <2>2. LoadOf({c}) <= LoadOf(A) /\ LoadOf(A) \in Nat /\ LoadOf({c}) = Weight(c)
    BY <2>1, LoadOfSubset, LoadOfSingle
  <2>3. Weight(c) > 0 /\ Weight(c) \in Nat
    BY <2>1, WeightFacts
  <2> QED
    BY <2>2, <2>3
<1>2. ASSUME A \ {depot} = {} PROVE LoadOf(A) = 0
  <2>1. A = {} \/ A = {depot}
    BY <1>2
  <2>2. depot \in vertices
    BY Numbers
  <2> QED
    BY <2>1, <2>2, LoadOfSingle, WeightFacts
<1> QED
  BY <1>1, <1>2

\* The customers of a path and its load.
LEMMA PathLoad ==
    ASSUME NEW p, IsPath(p)
    PROVE  /\ Load(p) = LoadOf(ToSet(p)) /\ Load(p) \in Nat
           /\ Load(p) = 0 <=> ServedBy(p) = {}
<1>1. ToSet(p) \in SUBSET vertices /\ Load(p) = LoadOf(ToSet(p))
  BY PathSet, LoadOfPath
<1>2. Load(p) \in Nat
  BY PathFacts, LoadIsFold
<1> QED
  BY <1>1, <1>2, LoadOfZero DEF ServedBy

-----------------------------------------------------------------------------
(* The three ways to change a route, and that they revert each other       *)

\* Two routes are the same when they are opened to the same path.
LEMMA RouteOpened ==
    ASSUME NEW r, IsRoute(r), NEW v \in ToSet(r)
    PROVE  /\ IsPath(r) /\ Cycle(Opened(r, v)) = r
           /\ IsPath(Opened(r, v)) /\ Opened(r, v) # <<>> /\ Opened(r, v)[1] = v
           /\ ToSet(Opened(r, v)) = ToSet(r) /\ Len(Opened(r, v)) = Len(r)
BY OpenedFacts, CycleIsRoute DEF IsRoute

LEMMA InsertFacts ==
    ASSUME NEW r, IsRoute(r), NEW w \in ToSet(r), NEW v \in vertices, v \notin ToSet(r)
    PROVE  /\ IsRoute(InsertBefore(r, w, v))
           /\ ToSet(InsertBefore(r, w, v)) = ToSet(r) \cup {v}
           /\ RemoveFrom(InsertBefore(r, w, v), v) = r
           /\ Succ(InsertBefore(r, w, v), v) = w
<1> DEFINE p == Opened(r, w)
           q == <<v>> \o p
           s == InsertBefore(r, w, v)
<1>1. IsPath(p) /\ p # <<>> /\ p[1] = w /\ ToSet(p) = ToSet(r) /\ Cycle(p) = r
  BY RouteOpened
<1>2. /\ IsPath(q) /\ q # <<>> /\ q[1] = v /\ Tail(q) = p /\ ToSet(q) = ToSet(r) \cup {v}
      /\ Len(q) = Len(p) + 1
  BY <1>1, PrefixedFacts
<1>3. s = Cycle(q)
  BY DEF InsertBefore, Opened
<1>4. q[2] = w /\ Len(q) > 1
  <2>1. Len(p) \in Nat /\ 1 \in 1..Len(p)
    BY <1>1, PathFacts, OpenedFirst
  <2>2. \A k \in 1..(Len(q) - 1) : Tail(q)[k] = q[k + 1]
    BY <1>2, TailFacts
  <2> HIDE DEF p, q
  <2>3. 1 \in 1..(Len(q) - 1) /\ 1 + 1 = 2 /\ Len(q) > 1
    BY <1>2, <2>1
  <2> QED
    BY <1>1, <1>2, <2>2, <2>3
<1> HIDE DEF p, q, s
<1>5. IsRoute(s) /\ ToSet(s) = ToSet(q) /\ Len(s) = Len(q) /\ Opened(s, v) = Opened(q, v)
  BY <1>2, <1>3, CycleIsRoute
<1>6. Opened(s, v) = q
  BY <1>2, <1>5, OpenedFirst
<1>7. RemoveFrom(s, v) = Cycle(Tail(Opened(s, v)))
  BY DEF RemoveFrom, Opened
<1>8. Succ(s, v) = w
  BY <1>2, <1>4, <1>5, <1>6, SuccIs DEF IsRoute
<1> QED
  BY <1>1, <1>2, <1>5, <1>6, <1>7, <1>8 DEF s

LEMMA RemoveFacts ==
    ASSUME NEW r, IsRoute(r), NEW v \in ToSet(r), ToSet(r) # {v}
    PROVE  /\ IsRoute(RemoveFrom(r, v))
           /\ ToSet(RemoveFrom(r, v)) = ToSet(r) \ {v}
           /\ Succ(r, v) \in ToSet(r) \ {v}
           /\ InsertBefore(RemoveFrom(r, v), Succ(r, v), v) = r
<1> DEFINE p == Opened(r, v)
           t == Tail(p)
           s == RemoveFrom(r, v)
           w == Succ(r, v)
<1>1. /\ IsPath(p) /\ p # <<>> /\ p[1] = v /\ ToSet(p) = ToSet(r) /\ Cycle(p) = r
      /\ Len(p) = Len(r) /\ IsPath(r)
  BY RouteOpened
<1>2. /\ IsPath(t) /\ Len(t) = Len(p) - 1 /\ \A k \in 1..(Len(p) - 1) : t[k] = p[k + 1]
      /\ ToSet(t) = ToSet(r) \ {v} /\ p = <<v>> \o t
  <2>1. /\ IsPath(t) /\ Len(t) = Len(p) - 1 /\ \A k \in 1..(Len(p) - 1) : t[k] = p[k + 1]
        /\ p[1] \notin ToSet(t) /\ ToSet(p) = ToSet(t) \cup {p[1]} /\ p = <<p[1]>> \o t
    BY <1>1, TailFacts
  <2> QED
    BY <1>1, <2>1
<1>3. s = Cycle(t)
  BY DEF RemoveFrom, Opened
<1> HIDE DEF p, t, s
<1>4. t # <<>>
  <2>1. ToSet(t) # {}
    BY <1>2
  <2>2. ToSet(t) = {t[k] : k \in 1..Len(t)}
    BY <1>2, PathSet
  <2>3. 1..Len(t) # {}
    BY <2>1, <2>2
  <2> QED
    BY <2>3
<1>5. t[1] = p[2] /\ Len(p) > 1 /\ t[1] \in ToSet(t)
  <2>1. 1 \in 1..Len(t) /\ Len(t) \in Nat /\ Len(p) \in Nat /\ t[1] \in ToSet(t)
    BY <1>1, <1>2, <1>4, OpenedFirst, PathFacts
  <2>2. 1 \in 1..(Len(p) - 1) /\ 1 + 1 = 2 /\ Len(p) > 1
    BY <1>2, <2>1
  <2> QED
    BY <1>2, <2>1, <2>2
<1>6. w = t[1] /\ w \in ToSet(t)
  BY <1>1, <1>5, SuccIs DEF p
<1> HIDE DEF w
<1>7. IsRoute(s) /\ ToSet(s) = ToSet(t) /\ Opened(s, w) = Opened(t, w)
  BY <1>2, <1>3, <1>4, <1>6, CycleIsRoute
<1>8. Opened(s, w) = t
  BY <1>2, <1>4, <1>6, <1>7, OpenedFirst
<1>9. InsertBefore(s, w, v) = Cycle(<<v>> \o Opened(s, w))
  BY DEF InsertBefore, Opened
<1> QED
  BY <1>1, <1>2, <1>6, <1>7, <1>8, <1>9 DEF s, w

\* The path from b to e backwards, which is nothing when it is the whole route.
LEMMA ReversePathFacts ==
    ASSUME NEW r, IsRoute(r), NEW b \in ToSet(r), NEW e \in ToSet(r)
    PROVE  /\ IsRoute(ReversePath(r, b, e))
           /\ ToSet(ReversePath(r, b, e)) = ToSet(r)
           /\ Succ(r, e) = b => ReversePath(r, b, e) = r
           /\ Succ(r, e) # b => ReversePath(ReversePath(r, b, e), e, b) = r
           /\ b = e => ReversePath(r, b, e) = r
<1> DEFINE p == Opened(r, b)
           n == Position(p, e)
           m == Len(r)
           a == SubSeq(p, 1, n)
           c == SubSeq(p, n + 1, m)
           q == Reverse(a) \o c
           s == ReversePath(r, b, e)
<1>1. /\ IsPath(p) /\ p # <<>> /\ p[1] = b /\ ToSet(p) = ToSet(r) /\ Cycle(p) = r
      /\ Len(p) = m /\ IsPath(r) /\ m \in Nat
  BY RouteOpened, PathFacts
<1>2. n \in 1..m /\ p[n] = e /\ 1 \in 1..m
  BY <1>1, PositionOf, OpenedFirst
<1>3. s = IF n = m THEN r ELSE Cycle(q)
  BY <1>1 DEF ReversePath, Opened
<1>4. /\ p = a \o c /\ IsPath(a) /\ Len(a) = n /\ IsPath(c) /\ Len(c) = m - n
      /\ ToSet(a) \cap ToSet(c) = {} /\ ToSet(p) = ToSet(a) \cup ToSet(c)
  <2>1. n \in 0..Len(p)
    BY <1>1, <1>2
  <2> HIDE DEF p, n, m
  <2> QED
    BY <1>1, <2>1, CutFacts
<1>5. \A k \in 1..n : a[k] = p[k]
  <2> HIDE DEF p, n, m, a, c
  <2>1. \A k \in 1..n : (a \o c)[k] = a[k]
    BY <1>4, ConcatFacts
  <2> QED
    BY <1>4, <2>1
<1>6. /\ IsPath(Reverse(a)) /\ Len(Reverse(a)) = n /\ ToSet(Reverse(a)) = ToSet(a)
      /\ \A k \in 1..n : Reverse(a)[k] = a[n - k + 1]
      /\ Reverse(Reverse(a)) = a
  <2> HIDE DEF a, n
  <2> QED
    BY <1>4, ReverseFacts
<1>7. /\ IsPath(q) /\ Len(q) = m /\ ToSet(q) = ToSet(r) /\ \A k \in 1..n : q[k] = Reverse(a)[k]
  <2> DEFINE ra == Reverse(a)
  <2> HIDE DEF p, n, m, a, c, ra
  <2>1. /\ IsPath(ra \o c) /\ Len(ra \o c) = Len(ra) + Len(c)
        /\ \A k \in 1..Len(ra) : (ra \o c)[k] = ra[k]
        /\ ToSet(ra \o c) = ToSet(ra) \cup ToSet(c)
    BY <1>4, <1>6, ConcatFacts DEF ra
  <2>2. Len(ra) + Len(c) = m
    BY <1>1, <1>2, <1>4, <1>6 DEF ra
  <2> QED
    BY <1>1, <1>4, <1>6, <2>1, <2>2 DEF ra
<1>8. q[1] = e /\ q[n] = b /\ q # <<>>
  <2> HIDE DEF p, n, m, a, c, q
  <2>1. 1 \in 1..n /\ n \in 1..n /\ n - 1 + 1 = n /\ n - n + 1 = 1
    BY <1>1, <1>2
  <2>2. q[1] = a[n] /\ q[n] = a[1]
    BY <1>6, <1>7, <2>1
  <2>3. q # <<>>
    BY <1>1, <1>2, <1>7
  <2> QED
    BY <1>1, <1>2, <1>5, <2>1, <2>2, <2>3
<1>9. SubSeq(q, 1, n) = Reverse(a) /\ SubSeq(q, n + 1, m) = c
  <2> DEFINE ra == Reverse(a)
  <2>1. ra \in Seq(vertices) /\ c \in Seq(vertices) /\ Len(ra) = n /\ q = ra \o c
        /\ Len(c) = m - n
    BY <1>4, <1>6, PathFacts
  <2> HIDE DEF p, n, m, a, c, q, ra
  <2>2. n \in Nat /\ m \in Nat /\ n <= m
    BY <1>1, <1>2
  <2>3. /\ IsPath(q) /\ Len(q) = m /\ n \in 0..Len(q)
    BY <1>7, <2>2
  <2>4. /\ IsPath(SubSeq(q, 1, n)) /\ Len(SubSeq(q, 1, n)) = n
        /\ \A k \in 1..n : SubSeq(q, 1, n)[k] = q[k]
    <3>1. 1 \in 1..(Len(q) + 1) /\ n \in 0..Len(q) /\ 1 <= n + 1 /\ n - 1 + 1 = n
      BY <2>2, <2>3
    <3>2. \A k \in 1..n : 1 + k - 1 = k
      BY <2>2
    <3>3. /\ IsPath(SubSeq(q, 1, n)) /\ Len(SubSeq(q, 1, n)) = n - 1 + 1
          /\ \A k \in 1..(n - 1 + 1) : SubSeq(q, 1, n)[k] = q[1 + k - 1]
      BY <2>3, <3>1, PartFacts
    <3> QED
      BY <3>1, <3>2, <3>3
  <2>5. SubSeq(q, 1, n) = ra
    <3>1. \A k \in 1..n : SubSeq(q, 1, n)[k] = ra[k]
      BY <1>7, <2>4 DEF ra
    <3> QED
      BY <1>6, <2>1, <2>4, <3>1, PathEqual DEF ra
  <2>6. /\ IsPath(SubSeq(q, n + 1, m)) /\ Len(SubSeq(q, n + 1, m)) = m - n
        /\ \A k \in 1..(m - n) : SubSeq(q, n + 1, m)[k] = q[n + k]
    <3> DEFINE l == n + 1
    <3>1. l \in 1..(Len(q) + 1) /\ m \in 0..Len(q) /\ l <= m + 1 /\ m - l + 1 = m - n
      BY <2>2, <2>3
    <3>2. \A k \in 1..(m - n) : l + k - 1 = n + k
      BY <2>2
    <3> HIDE DEF l
    <3>3. /\ IsPath(SubSeq(q, l, m)) /\ Len(SubSeq(q, l, m)) = m - l + 1
          /\ \A k \in 1..(m - l + 1) : SubSeq(q, l, m)[k] = q[l + k - 1]
      BY <2>3, <3>1, PartFacts
    <3>4. /\ IsPath(SubSeq(q, l, m)) /\ Len(SubSeq(q, l, m)) = m - n
          /\ \A k \in 1..(m - n) : SubSeq(q, l, m)[k] = q[n + k]
      BY <3>1, <3>2, <3>3
    <3> QED
      BY <3>4 DEF l
  <2>7. \A k \in 1..(m - n) : q[n + k] = c[k]
    <3>1. \A k \in 1..Len(c) : (ra \o c)[Len(ra) + k] = c[k]
      BY <1>4, <1>6, ConcatFacts DEF ra
    <3> QED
      BY <2>1, <3>1
  <2>8. SubSeq(q, n + 1, m) = c
    <3>1. \A k \in 1..(m - n) : SubSeq(q, n + 1, m)[k] = c[k]
      BY <2>6, <2>7
    <3> QED
      BY <1>4, <2>1, <2>6, <3>1, PathEqual
  <2> QED
    BY <2>5, <2>8 DEF ra
<1>10. Succ(r, e) = IF n = m THEN b ELSE p[n + 1]
  <2>1. Succ(r, e) = Step(r, p[n], 1)
    BY <1>2, SuccIs, <1>1
  <2>2. CASE n = m
    <3>1. n \in 1..Len(r) /\ 1 \in 1..Len(r) /\ 1 = n + 1 - Len(r) /\ 1 \in (0 - Len(r))..Len(r)
      BY <1>1, <1>2, <2>2
    <3> HIDE DEF n
    <3>2. Step(r, p[n], 1) = p[1]
      BY <1>1, <3>1, StepIs
    <3> QED
      BY <1>1, <2>1, <2>2, <3>2
  <2>3. CASE n # m
    <3>1. n \in 1..Len(r) /\ n + 1 \in 1..Len(r) /\ 1 \in (0 - Len(r))..Len(r)
      BY <1>1, <1>2, <2>3
    <3> HIDE DEF n
    <3>2. Step(r, p[n], 1) = p[n + 1]
      BY <1>1, <3>1, StepIs
    <3> QED
      BY <2>1, <2>3, <3>2
  <2> QED
    BY <2>2, <2>3
<1> HIDE DEF p, n, m, a, c, q, s
<1>11. Succ(r, e) = b <=> n = m
  <2>1. CASE n # m
    <3>1. n + 1 \in 1..m /\ n + 1 # 1
      BY <1>1, <1>2, <2>1
    <3>2. p[n + 1] # p[1]
      BY <1>1, <1>2, <3>1, PathFacts
    <3> QED
      BY <1>1, <1>10, <2>1, <3>2
  <2> QED
    BY <1>10, <2>1
<1>12. CASE n = m
  <2>1. s = r
    BY <1>3, <1>12
  <2> QED
    BY <1>11, <1>12, <2>1 DEF s
<1>13. CASE n # m
  <2>1. s = Cycle(q)
    BY <1>3, <1>13
  <2>2. IsRoute(s) /\ ToSet(s) = ToSet(q) /\ Len(s) = m
        /\ \A v \in ToSet(q) : Opened(s, v) = Opened(q, v)
    BY <1>7, <1>8, <2>1, CycleIsRoute
  <2>3. Opened(s, e) = q
    BY <1>7, <1>8, <2>2, OpenedFirst
  <2>4. Position(q, b) = n
    BY <1>2, <1>7, <1>8, PositionIs
  <2>5. ReversePath(s, e, b) = Cycle(Reverse(SubSeq(q, 1, n)) \o SubSeq(q, n + 1, m))
    BY <1>13, <2>2, <2>3, <2>4 DEF ReversePath, Opened
  <2>6. ReversePath(s, e, b) = r
    BY <1>1, <1>4, <1>6, <1>9, <2>5
  <2>7. b = e => s = r
    <3> SUFFICES ASSUME b = e PROVE s = r
      OBVIOUS
    <3>1. n = 1
      <4>1. p[n] = p[1]
        BY <1>1, <1>2
      <4> QED
        BY <1>1, <1>2, <4>1, PathFacts
    <3>2. Reverse(a) = a
      <4>1. \A k \in 1..n : Reverse(a)[k] = a[k]
        <5>1. \A k \in 1..n : n - k + 1 = k
          BY <3>1
        <5> QED
          BY <1>6, <5>1
      <4> QED
        BY <1>4, <1>6, <4>1, PathEqual
    <3> QED
      BY <1>1, <1>4, <2>1, <3>2 DEF q
  <2> QED
    BY <1>7, <1>11, <1>13, <2>2, <2>6, <2>7 DEF s
<1> QED
  BY <1>12, <1>13

-----------------------------------------------------------------------------
(* The smallest routes                                                     *)

LEMMA NotEmpty ==
    ASSUME NEW t, IsPath(t), ToSet(t) # {}
    PROVE  t # <<>>
<1>1. PICK x \in ToSet(t) : TRUE
  OBVIOUS
<1>2. PICK k \in 1..Len(t) : t[k] = x
  BY <1>1, PathSet
<1> QED
  BY <1>2

LEMMA SingleIs ==
    ASSUME NEW t, IsPath(t), NEW v, ToSet(t) = {v}
    PROVE  t = <<v>>
<1>1. v \in vertices /\ t # <<>>
  BY PathSet, NotEmpty
<1>2. Len(t) \in Nat /\ 1 \in 1..Len(t) /\ \A k \in 1..Len(t) : t[k] = v
  BY <1>1, PathFacts, PathSet, OpenedFirst
<1>3. Len(t) = 1
  <2>1. ASSUME Len(t) # 1 PROVE FALSE
    <3>1. 2 \in 1..Len(t)
      <4> DEFINE n == Len(t)
      <4>1. n \in Nat /\ 1 \in 1..n /\ n # 1
        BY <1>2, <2>1
      <4> HIDE DEF n
      <4>2. 2 \in 1..n
        BY <4>1
      <4> QED
        BY <4>2 DEF n
    <3>2. t[1] = t[2]
      BY <1>2, <3>1
    <3> QED
      BY <1>2, <3>1, <3>2, PathFacts
  <2> QED
    BY <2>1
<1>4. IsPath(<<v>>) /\ Len(<<v>>) = 1 /\ <<v>>[1] = v
  BY <1>1, SingleFacts
<1>5. \A k \in 1..1 : t[k] = <<v>>[k]
  BY <1>2, <1>3, <1>4
<1> QED
  BY <1>3, <1>4, <1>5, PathEqual

\* A route that has only the depot.
LEMMA DepotRoute ==
    /\ IsRoute(<<depot>>) /\ ToSet(<<depot>>) = {depot} /\ ServedBy(<<depot>>) = {}
    /\ \A r : IsRoute(r) /\ ToSet(r) = {depot} => r = <<depot>>
<1>1. IsPath(<<depot>>) /\ ToSet(<<depot>>) = {depot}
  BY SingleFacts, Numbers
<1>2. IsRoute(<<depot>>)
  <2>1. <<depot>>[1] = depot /\ depot <= depot /\ <<depot>> # <<>>
    BY Numbers
  <2> QED
    BY <1>1, <2>1, StartsSmallest
<1>3. ServedBy(<<depot>>) = {}
  BY <1>1 DEF ServedBy
<1> QED
  BY <1>1, <1>2, <1>3, SingleIs DEF IsRoute

\* A route of one customer.
LEMMA OneCustomerFacts ==
    ASSUME NEW c \in customers
    PROVE  /\ IsRoute(OneCustomerRoute(c)) /\ ToSet(OneCustomerRoute(c)) = {depot, c}
           /\ ServedBy(OneCustomerRoute(c)) = {c}
           /\ RemoveFrom(OneCustomerRoute(c), c) = <<depot>>
           /\ \A r : IsRoute(r) /\ ToSet(r) = {depot, c} => r = OneCustomerRoute(c)
<1> DEFINE o == <<depot, c>>
<1>1. c \in vertices /\ depot \in vertices /\ c # depot /\ depot <= c /\ depot <= depot
  BY Numbers
<1>2. o \in Seq(vertices) /\ Len(o) = 2 /\ o[1] = depot /\ o[2] = c /\ o # <<>>
  BY <1>1
<1> HIDE DEF o
<1>3. 1..2 = {1, 2}
  OBVIOUS
<1>4. IsPath(o) /\ ToSet(o) = {depot, c}
  <2>1. IsPath(o)
    BY <1>1, <1>2, <1>3, IsAPath
  <2>2. ToSet(o) = {o[k] : k \in 1..2}
    BY <1>2, <2>1, PathSet
  <2> QED
    BY <1>2, <1>3, <2>1, <2>2
<1>5. IsRoute(o)
  BY <1>1, <1>2, <1>4, StartsSmallest
<1>6. ServedBy(o) = {c}
  BY <1>1, <1>4 DEF ServedBy
<1>7. ASSUME NEW r, IsRoute(r), ToSet(r) = {depot, c} PROVE r = o
  <2> DEFINE p == Opened(r, depot)
  <2>1. IsPath(p) /\ p[1] = depot /\ ToSet(p) = {depot, c} /\ p # <<>> /\ Cycle(p) = r
    BY <1>7, RouteOpened
  <2> HIDE DEF p
  <2>2. IsPath(Tail(p)) /\ ToSet(Tail(p)) = {c} /\ Len(Tail(p)) = Len(p) - 1
        /\ \A k \in 1..(Len(p) - 1) : Tail(p)[k] = p[k + 1]
    <3>1. /\ IsPath(Tail(p)) /\ p[1] \notin ToSet(Tail(p)) /\ Len(Tail(p)) = Len(p) - 1
          /\ ToSet(p) = ToSet(Tail(p)) \cup {p[1]}
          /\ \A k \in 1..(Len(p) - 1) : Tail(p)[k] = p[k + 1]
      BY <2>1, TailFacts
    <3> QED
      BY <1>1, <2>1, <3>1
  <2>3. Tail(p) = <<c>>
    BY <2>2, SingleIs
  <2>4. Len(<<c>>) = 1 /\ <<c>>[1] = c /\ Len(p) \in Nat
    BY <2>1, PathFacts
  <2>5. Len(p) = 2
    <3>1. Len(Tail(p)) = Len(p) - 1 /\ Len(Tail(p)) = 1 /\ Len(p) \in Nat
      BY <2>2, <2>3, <2>4
    <3> QED
      BY <3>1
  <2>6. 1 \in 1..(Len(p) - 1) /\ 1 + 1 = 2
    BY <2>5
  <2>7. p[2] = c
    BY <2>2, <2>3, <2>4, <2>6
  <2>8. p = o
    BY <1>2, <1>3, <1>4, <2>1, <2>5, <2>7, PathEqual
  <2> QED
    BY <1>5, <2>1, <2>8 DEF IsRoute
<1>8. RemoveFrom(o, c) = <<depot>>
  <2>1. c \in ToSet(o) /\ ToSet(o) # {c} /\ ToSet(o) \ {c} = {depot}
    BY <1>1, <1>4
  <2>2. IsRoute(RemoveFrom(o, c)) /\ ToSet(RemoveFrom(o, c)) = {depot}
    BY <1>5, <2>1, RemoveFacts
  <2> QED
    BY <2>2, DepotRoute
<1>9. o = OneCustomerRoute(c)
  BY DEF o, OneCustomerRoute
<1> QED
  BY <1>4, <1>5, <1>6, <1>7, <1>8, <1>9

-----------------------------------------------------------------------------
(* Solutions                                                               *)

\* Routes that serve somebody, and nobody is served by two of them.
WellFormed(sol) ==
    /\ \A r \in sol : IsRoute(r) /\ ServedBy(r) # {}
    /\ \A p, q \in sol : p # q => ServedBy(p) \cap ServedBy(q) = {}

\* The customers of a solution.
CustomersOf(sol) == UNION {ServedBy(r) : r \in sol}

LEMMA ServedByFacts ==
    ASSUME NEW r, IsPath(r)
    PROVE  /\ ServedBy(r) \subseteq customers /\ ServedBy(r) = ToSet(r) \cap customers
           /\ \A v : Contains(r, v) <=> v \in ToSet(r)
           /\ MissingDepot(r) <=> depot \notin ToSet(r)
BY PathSet, Numbers DEF ServedBy, MissingDepot

\* A vertex and a fallback tell the route, unless both are the depot.
LEMMA RouteViaIs ==
    ASSUME NEW sol, WellFormed(sol), NEW r \in sol, NEW v \in ToSet(r), NEW f \in ToSet(r),
           v # depot \/ f # depot
    PROVE  /\ RouteVia(sol, v, f) = r /\ RouteVia(sol, f, v) = r
           /\ IsServed(sol, v) /\ IsServed(sol, f)
<1>1. \A q \in sol : IsPath(q)
  BY DEF WellFormed, IsRoute
<1>2. \A q \in sol : \A c : Contains(q, c) <=> c \in ToSet(q)
  BY <1>1, ServedByFacts
<1>3. ASSUME NEW c \in ToSet(r), c # depot PROVE RouteOf(sol, c) = r
  <2>1. ASSUME NEW q \in sol, Contains(q, c) PROVE q = r
    <3>1. c \in ServedBy(q) /\ c \in ServedBy(r)
      BY <1>2, <1>3, <2>1 DEF ServedBy
    <3> QED
      BY <3>1 DEF WellFormed
  <2>2. Contains(r, c)
    BY <1>2
  <2> QED
    BY <2>1, <2>2 DEF RouteOf
<1>4. IsServed(sol, v) /\ IsServed(sol, f)
  BY <1>2 DEF IsServed
<1> QED
  BY <1>3, <1>4 DEF RouteVia

\* Who is served is served by a route.
LEMMA RouteOfFacts ==
    ASSUME NEW sol, WellFormed(sol), NEW c \in CustomersOf(sol)
    PROVE  /\ RouteOf(sol, c) \in sol /\ c \in ToSet(RouteOf(sol, c)) /\ c \in customers
           /\ c \in ServedBy(RouteOf(sol, c))
<1>1. PICK r \in sol : c \in ServedBy(r)
  BY DEF CustomersOf
<1>2. IsPath(r)
  BY DEF WellFormed, IsRoute
<1>3. c \in ToSet(r) /\ c # depot /\ c \in customers
  BY <1>1, <1>2, ServedByFacts, Numbers DEF ServedBy
<1>4. RouteVia(sol, c, c) = r
  BY <1>3, RouteViaIs
<1> QED
  BY <1>1, <1>3, <1>4 DEF RouteVia

LEMMA ServedIs ==
    ASSUME NEW sol, WellFormed(sol), NEW v, v # depot
    PROVE  IsServed(sol, v) <=> v \in CustomersOf(sol)
<1>1. \A q \in sol : Contains(q, v) <=> v \in ServedBy(q)
  <2> TAKE q \in sol
  <2>1. IsPath(q)
    BY DEF WellFormed, IsRoute
  <2> QED
    BY <2>1, ServedByFacts DEF ServedBy
<1> QED
  BY <1>1 DEF IsServed, CustomersOf

\* The route, if it serves somebody.
IfServing(s) == IF ServedBy(s) = {} THEN {} ELSE {s}

\* A route is replaced by one that takes no customer from another route.
LEMMA ReplaceFacts ==
    ASSUME NEW sol, WellFormed(sol), NEW r \in sol, NEW s, IsRoute(s),
           \A q \in sol \ {r} : ServedBy(s) \cap ServedBy(q) = {}
    PROVE  /\ WellFormed(Replace(sol, r, s))
           /\ Replace(sol, r, s) = (sol \ {r}) \cup IfServing(s)
           /\ CustomersOf(Replace(sol, r, s)) = (CustomersOf(sol) \ ServedBy(r)) \cup ServedBy(s)
           /\ ServedBy(s) # {} => s \notin sol \ {r}
<1>1. Load(s) = 0 <=> ServedBy(s) = {}
  BY PathLoad DEF IsRoute
<1>2. Replace(sol, r, s) = (sol \ {r}) \cup IfServing(s)
  BY <1>1 DEF Replace, IfServing
<1>3. ServedBy(s) # {} => s \notin sol \ {r}
  OBVIOUS
<1>4. WellFormed((sol \ {r}) \cup IfServing(s))
  BY DEF WellFormed, IfServing
<1>5. CustomersOf((sol \ {r}) \cup IfServing(s))
         = (CustomersOf(sol) \ ServedBy(r)) \cup ServedBy(s)
  BY DEF WellFormed, CustomersOf, IfServing
<1> QED
  BY <1>2, <1>3, <1>4, <1>5

-----------------------------------------------------------------------------
(* Lists of actions                                                        *)

Replaying == INSTANCE Folding WITH Op <- StepOn

Leads(from, actions, to) == Steps(from, actions) = [ok |-> TRUE, sol |-> to]

LEMMA StepsIsFold ==
    \A sol, actions :
        Steps(sol, actions) = Replaying!Folded([ok |-> TRUE, sol |-> sol], actions)
BY DEF Steps, FoldLeft, MapThenFoldSet, Max, Replaying!Folded, Replaying!FoldLeft,
       Replaying!MapThenFoldSet, Replaying!Max

LEMMA LeadsOne ==
    ASSUME NEW sol, NEW a, Applicable(sol, a)
    PROVE  Leads(sol, <<a>>, ApplyAction(sol, a))
<1>1. Steps(sol, <<a>>) = StepOn([ok |-> TRUE, sol |-> sol], a)
  BY StepsIsFold, Replaying!FoldShort
<1> DEFINE x == [ok |-> TRUE, sol |-> sol]
           to == ApplyAction(sol, a)
<1>2. x.ok = TRUE /\ x.sol = sol
  OBVIOUS
<1>3. [x EXCEPT !.sol = to] = [ok |-> TRUE, sol |-> to]
  <2> DEFINE yes == TRUE
  <2> HIDE DEF to, yes
  <2>1. [[ok |-> yes, sol |-> sol] EXCEPT !.sol = to] = [ok |-> yes, sol |-> to]
    OBVIOUS
  <2> QED
    BY <2>1 DEF yes
<1>4. [x EXCEPT !.sol = ApplyAction(@, a)] = [x EXCEPT !.sol = to]
  <2>1. \A v : v = x.sol => [x EXCEPT !.sol = ApplyAction(@, a)] = [x EXCEPT !.sol = ApplyAction(v, a)]
    OBVIOUS
  <2> QED
    BY <1>2, <2>1
<1> HIDE DEF x
<1>5. StepOn(x, a) = [x EXCEPT !.sol = ApplyAction(@, a)]
  BY <1>2 DEF StepOn
<1> QED
  BY <1>1, <1>3, <1>4, <1>5 DEF Leads, x

LEMMA LeadsNowhere == \A sol : Leads(sol, <<>>, sol)
BY StepsIsFold, Replaying!FoldShort DEF Leads

LEMMA LeadsConcat ==
    ASSUME NEW A, NEW s \in Seq(A), NEW t \in Seq(A), NEW x, NEW y, NEW z,
           Leads(x, s, y), Leads(y, t, z)
    PROVE  Leads(x, s \o t, z)
<1> DEFINE start == [ok |-> TRUE, sol |-> x]
<1>1. /\ Replaying!Folded(start, s) = [ok |-> TRUE, sol |-> y]
      /\ Replaying!Folded([ok |-> TRUE, sol |-> y], t) = [ok |-> TRUE, sol |-> z]
  BY StepsIsFold DEF Leads
<1> HIDE DEF start
<1>2. Replaying!Folded(start, s \o t) = Replaying!Folded(Replaying!Folded(start, s), t)
  BY Replaying!FoldConcat
<1> QED
  BY <1>1, <1>2, StepsIsFold DEF Leads, start

LEMMA ReverseConcat ==
    ASSUME NEW A, NEW s \in Seq(A), NEW t \in Seq(A)
    PROVE  /\ Reverse(s \o t) = Reverse(t) \o Reverse(s)
           /\ Reverse(s) \in Seq(A) /\ Reverse(t) \in Seq(A) /\ s \o t \in Seq(A)
<1> DEFINE m == Len(s)
           n == Len(t)
           rs == Reverse(s)
           rt == Reverse(t)
           u == s \o t
           ru == Reverse(u)
<1>1. /\ m \in Nat /\ n \in Nat /\ \A k \in 1..m : s[k] \in A
      /\ \A k \in 1..n : t[k] \in A
  OBVIOUS
<1>2. /\ u \in Seq(A) /\ Len(u) = m + n
      /\ \A k \in 1..(m + n) : u[k] = IF k <= m THEN s[k] ELSE t[k - m]
  BY ConcatProperties
<1>3. /\ rs = [k \in 1..m |-> s[(m - k) + 1]] /\ rt = [k \in 1..n |-> t[(n - k) + 1]]
      /\ ru = [k \in 1..Len(u) |-> u[(Len(u) - k) + 1]]
  BY DEF Reverse
<1> HIDE DEF m, n, rs, rt, u, ru
<1>4. \A k \in 1..m : (m - k) + 1 \in 1..m
  BY <1>1
<1>5. rs \in Seq(A) /\ Len(rs) = m
  BY <1>1, <1>3, <1>4
<1>6. \A k \in 1..n : (n - k) + 1 \in 1..n
  BY <1>1
<1>7. rt \in Seq(A) /\ Len(rt) = n
  BY <1>1, <1>3, <1>6
<1>8. /\ rt \o rs \in Seq(A) /\ Len(rt \o rs) = n + m
      /\ \A k \in 1..(n + m) : (rt \o rs)[k] = IF k <= n THEN rt[k] ELSE rs[k - n]
  BY <1>5, <1>7, ConcatProperties
<1>9. \A k \in 1..(m + n) : ((m + n) - k) + 1 \in 1..(m + n)
  BY <1>1
<1>10. ru \in Seq(A) /\ Len(ru) = m + n /\ \A k \in 1..(m + n) : ru[k] = u[((m + n) - k) + 1]
  <2>1. \A k \in 1..(m + n) : u[((m + n) - k) + 1] \in A
    BY <1>2, <1>9
  <2>2. ru = [k \in 1..(m + n) |-> u[((m + n) - k) + 1]] /\ m + n \in Nat
    BY <1>1, <1>2, <1>3
  <2> QED
    BY <2>1, <2>2
<1>11. ASSUME NEW k \in 1..(m + n) PROVE ru[k] = (rt \o rs)[k]
  <2>1. CASE k <= n
    <3>1. k \in 1..n /\ ~(((m + n) - k) + 1 <= m) /\ (((m + n) - k) + 1) - m = (n - k) + 1
          /\ k \in 1..(n + m)
      BY <1>1, <2>1
    <3>2. ru[k] = t[(n - k) + 1]
      BY <1>2, <1>9, <1>10, <3>1
    <3>3. (rt \o rs)[k] = rt[k]
      BY <1>8, <2>1, <3>1
    <3> QED
      BY <1>3, <3>1, <3>2, <3>3
  <2>2. CASE ~(k <= n)
    <3>1. k - n \in 1..m /\ ((m + n) - k) + 1 <= m /\ (m - (k - n)) + 1 = ((m + n) - k) + 1
          /\ k \in 1..(n + m)
      BY <1>1, <2>2
    <3>2. ru[k] = s[((m + n) - k) + 1]
      BY <1>2, <1>9, <1>10, <3>1
    <3>3. (rt \o rs)[k] = rs[k - n]
      BY <1>8, <2>2, <3>1
    <3>4. rs[k - n] = s[(m - (k - n)) + 1]
      BY <1>3, <3>1
    <3> QED
      BY <3>1, <3>2, <3>3, <3>4
  <2> QED
    BY <2>1, <2>2
<1>12. ru = rt \o rs
  <2>1. m + n = n + m
    BY <1>1
  <2> QED
    BY <1>8, <1>10, <1>11, <2>1, SeqEqual
<1> QED
  BY <1>2, <1>5, <1>7, <1>12 DEF rs, rt, u, ru

\* The lists of x lead from a solution to that of x, and back.
Linked(from, x) ==
    /\ x.do \in Seq(AllActions) /\ x.undo \in Seq(AllActions)
    /\ Leads(from, x.do, x.sol)
    /\ Leads(x.sol, Reverse(x.undo), from)

\* What an operation records leads from one solution to another, and back.
Revertible(sol, entry, to) ==
    /\ entry.do \in Seq(AllActions) /\ entry.undo \in Seq(AllActions)
    /\ Leads(sol, entry.do, to)
    /\ Leads(to, Reverse(entry.undo), sol)

\* A record of a solution and its lists, perhaps with other fields.
IsWork(x) == {"sol", "do", "undo", "svc"} \subseteq DOMAIN x

\* A record but for its solution and lists.
SameElsewhere(y, x) ==
    /\ DOMAIN y = DOMAIN x
    /\ \A f \in DOMAIN x \ {"sol", "do", "undo", "svc"} : y[f] = x[f]

LEMMA RecordedFacts ==
    ASSUME NEW x, IsWork(x), NEW sol, NEW entry
    PROVE  /\ Recorded(x, sol, entry).sol = sol
           /\ SameElsewhere(Recorded(x, sol, entry), x)
           /\ IsWork(Recorded(x, sol, entry))
BY DEF Recorded, IsWork, SameElsewhere

LEMMA RecordedLinks ==
    ASSUME NEW from, NEW x, IsWork(x), Linked(from, x), NEW to, NEW entry,
           Revertible(x.sol, entry, to)
    PROVE  Linked(from, Recorded(x, to, entry))
<1> DEFINE y == Recorded(x, to, entry)
<1>1. y.sol = to /\ y.do = x.do \o entry.do /\ y.undo = x.undo \o entry.undo
  BY DEF Recorded, IsWork
<1> HIDE DEF y
<1>2. /\ x.do \in Seq(AllActions) /\ x.undo \in Seq(AllActions)
      /\ Leads(from, x.do, x.sol) /\ Leads(x.sol, Reverse(x.undo), from)
      /\ entry.do \in Seq(AllActions) /\ entry.undo \in Seq(AllActions)
      /\ Leads(x.sol, entry.do, to) /\ Leads(to, Reverse(entry.undo), x.sol)
  BY DEF Linked, Revertible
<1>3. /\ Reverse(x.undo \o entry.undo) = Reverse(entry.undo) \o Reverse(x.undo)
      /\ Reverse(x.undo) \in Seq(AllActions) /\ Reverse(entry.undo) \in Seq(AllActions)
      /\ x.undo \o entry.undo \in Seq(AllActions)
  BY <1>2, ReverseConcat
<1>4. Leads(to, Reverse(y.undo), from)
  BY <1>1, <1>2, <1>3, LeadsConcat
<1>5. Leads(from, y.do, to) /\ y.do \in Seq(AllActions)
  BY <1>1, <1>2, LeadsConcat, ReverseConcat
<1> QED
  BY <1>1, <1>3, <1>4, <1>5 DEF Linked, y

\* Of one action each, or of none.
LEMMA RevertibleByOne ==
    ASSUME NEW sol, NEW to, NEW entry, NEW a \in AllActions, NEW b \in AllActions,
           entry.do = <<a>>, entry.undo = <<b>>,
           Applicable(sol, a), ApplyAction(sol, a) = to,
           Applicable(to, b), ApplyAction(to, b) = sol
    PROVE  Revertible(sol, entry, to)
<1>1. <<a>> \in Seq(AllActions) /\ <<b>> \in Seq(AllActions)
  OBVIOUS
<1>2. Reverse(<<b>>) = <<b>>
  BY DEF Reverse
<1>3. Leads(sol, <<a>>, to) /\ Leads(to, <<b>>, sol)
  BY LeadsOne
<1> QED
  BY <1>1, <1>2, <1>3 DEF Revertible

-----------------------------------------------------------------------------
(* What every action does                                                  *)

LEMMA ActionFacts ==
    /\ \A w, v, f \in vertices : InsertVertex(w, v, f) \in AllActions
    /\ \A v, f \in vertices : RemoveVertex(v, f) \in AllActions
    /\ \A b, e \in vertices : ReverseRoutePath(b, e) \in AllActions
    /\ \A c \in customers : BuildOne(c) \in AllActions /\ RemoveOne(c) \in AllActions
BY DEF AllActions

\* The route that an action is about, and what becomes of the solution.
LEMMA ApplyFacts ==
    /\ \A sol, v : ApplyAction(sol, BuildOne(v)) = sol \cup {OneCustomerRoute(v)}
    /\ \A sol, v : ApplyAction(sol, RemoveOne(v))
                      = Replace(sol, RouteOf(sol, v), RemoveFrom(RouteOf(sol, v), v))
    /\ \A sol, v, f : ApplyAction(sol, RemoveVertex(v, f))
                         = Replace(sol, RouteVia(sol, v, f), RemoveFrom(RouteVia(sol, v, f), v))
    /\ \A sol, w, v, f :
          ApplyAction(sol, InsertVertex(w, v, f))
             = Replace(sol, RouteVia(sol, w, f), InsertBefore(RouteVia(sol, w, f), w, v))
    /\ \A sol, b, e :
          ApplyAction(sol, ReverseRoutePath(b, e))
             = Replace(sol, RouteVia(sol, b, e), ReversePath(RouteVia(sol, b, e), b, e))
BY DEF ApplyAction, RouteIn, BuildOne, RemoveOne, RemoveVertex, InsertVertex, ReverseRoutePath

LEMMA ApplicableFacts ==
    /\ \A sol, v : Applicable(sol, BuildOne(v)) <=> ~IsServed(sol, v)
    /\ \A sol, v : Applicable(sol, RemoveOne(v)) <=>
          IsServed(sol, v) /\ Cardinality(ServedBy(RouteOf(sol, v))) = 1
    /\ \A sol, v, f : Applicable(sol, RemoveVertex(v, f)) <=>
          /\ IsServed(sol, v) /\ IsServed(sol, f)
          /\ RouteVia(sol, v, f) = RouteVia(sol, f, v)
          /\ v = depot => ~MissingDepot(RouteVia(sol, v, f))
    /\ \A sol, w, v, f : Applicable(sol, InsertVertex(w, v, f)) <=>
          /\ v # depot => ~IsServed(sol, v)
          /\ IsServed(sol, w) /\ IsServed(sol, f)
          /\ RouteVia(sol, w, f) = RouteVia(sol, f, w)
          /\ v = depot => MissingDepot(RouteVia(sol, w, f))
    /\ \A sol, b, e : Applicable(sol, ReverseRoutePath(b, e)) <=>
          /\ IsServed(sol, b) /\ IsServed(sol, e)
          /\ RouteVia(sol, b, e) = RouteVia(sol, e, b)
BY DEF Applicable, BuildOne, RemoveOne, RemoveVertex, InsertVertex, ReverseRoutePath

LEMMA RecordFacts ==
    /\ \A sol, v : /\ RecordAction(sol, BuildOne(v)).do = <<BuildOne(v)>>
                   /\ RecordAction(sol, BuildOne(v)).undo = <<RemoveOne(v)>>
    /\ \A sol, v, f :
          RecordAction(sol, RemoveVertex(v, f)) =
             RecordRemove(RouteVia(sol, v, f), v, Succ(RouteVia(sol, v, f), v))
    /\ \A sol, w, v, f :
          RecordAction(sol, InsertVertex(w, v, f)) = RecordInsert(RouteVia(sol, w, f), w, v)
    /\ \A sol, b, e :
          RecordAction(sol, ReverseRoutePath(b, e)) = RecordReverse(RouteVia(sol, b, e), b, e)
BY DEF RecordAction, RouteIn, BuildOne, RemoveOne, RemoveVertex, InsertVertex, ReverseRoutePath

\* A vertex enters a route of a solution.
LEMMA InsertWorks ==
    ASSUME NEW sol, WellFormed(sol), NEW r \in sol, NEW w \in ToSet(r),
           NEW v \in vertices, v \notin ToSet(r), v # depot => v \notin CustomersOf(sol)
    PROVE  LET a == InsertVertex(w, v, Succ(r, w))
               s == InsertBefore(r, w, v)
               to == (sol \ {r}) \cup {s}
           IN  /\ WellFormed(to) /\ ApplyAction(sol, a) = to
               /\ IsRoute(s) /\ ToSet(s) = ToSet(r) \cup {v}
               /\ Revertible(sol, RecordAction(sol, a), to)
<1> DEFINE f == Succ(r, w)
           a == InsertVertex(w, v, f)
           s == InsertBefore(r, w, v)
           to == (sol \ {r}) \cup {s}
           b == RemoveVertex(v, f)
<1>1. IsRoute(r) /\ IsPath(r) /\ ServedBy(r) # {} /\ w \in vertices
  BY PathSet DEF WellFormed, IsRoute
<1>2. f \in ToSet(r) /\ f \in vertices /\ (w # depot \/ f # depot)
  <2>1. f \in ToSet(r) /\ f \in vertices
    BY <1>1, SuccIs, PathSet
  <2>2. ASSUME w = depot PROVE f # w
    <3>1. ToSet(r) # {w}
      BY <1>1, <2>2 DEF ServedBy
    <3> QED
      BY <1>1, <3>1, RemoveFacts
  <2> QED
    BY <2>1, <2>2
<1>3. IsRoute(s) /\ ToSet(s) = ToSet(r) \cup {v} /\ RemoveFrom(s, v) = r
  BY <1>1, InsertFacts
<1>4. /\ RouteVia(sol, w, f) = r /\ RouteVia(sol, f, w) = r
      /\ IsServed(sol, w) /\ IsServed(sol, f)
  BY <1>2, RouteViaIs
<1> HIDE DEF s
<1>5. ServedBy(s) # {} /\ \A q \in sol \ {r} : ServedBy(s) \cap ServedBy(q) = {}
  <2>1. ServedBy(s) = ServedBy(r) \cup ({v} \ {depot})
    BY <1>3 DEF ServedBy
  <2>2. \A q \in sol : v \notin ServedBy(q)
    BY Numbers DEF CustomersOf, ServedBy
  <2> QED
    BY <1>1, <2>1, <2>2 DEF WellFormed
<1>6. WellFormed(to) /\ Replace(sol, r, s) = to /\ s \notin sol \ {r}
  <2>1. WellFormed(Replace(sol, r, s))
    BY <1>3, <1>5, ReplaceFacts
  <2>2. Replace(sol, r, s) = (sol \ {r}) \cup IfServing(s)
    BY <1>3, <1>5, ReplaceFacts
  <2>3. IfServing(s) = {s}
    BY <1>5 DEF IfServing
  <2> QED
    BY <1>5, <2>1, <2>2, <2>3
<1> HIDE DEF to, f
<1>7. ApplyAction(sol, a) = to
  BY <1>4, <1>6, ApplyFacts DEF s
<1>8. RecordAction(sol, a).do = <<a>> /\ RecordAction(sol, a).undo = <<b>>
  BY <1>4, RecordFacts DEF RecordInsert, f
<1>9. Applicable(sol, a)
  <2>1. v # depot => ~IsServed(sol, v)
    BY ServedIs
  <2>2. v = depot => MissingDepot(r)
    BY <1>1, ServedByFacts
  <2> QED
    BY <1>4, <2>1, <2>2, ApplicableFacts
<1>10. s \in to /\ v \in ToSet(s) /\ f \in ToSet(s) /\ (v # depot \/ f # depot) /\ IsPath(s)
  BY <1>2, <1>3 DEF to, IsRoute
<1>11. /\ RouteVia(to, v, f) = s /\ RouteVia(to, f, v) = s
       /\ IsServed(to, v) /\ IsServed(to, f)
  BY <1>6, <1>10, RouteViaIs
<1>12. Applicable(to, b)
  BY <1>10, <1>11, ServedByFacts, ApplicableFacts
<1>13. ApplyAction(to, b) = sol
  <2>1. ApplyAction(to, b) = Replace(to, s, r)
    BY <1>3, <1>11, ApplyFacts
  <2>2. Load(r) # 0
    BY <1>1, PathLoad
  <2> QED
    BY <1>6, <2>1, <2>2 DEF Replace, to
<1>14. a \in AllActions /\ b \in AllActions
  BY <1>1, <1>2, ActionFacts
<1> HIDE DEF a, b
<1>15. Revertible(sol, RecordAction(sol, a), to)
  BY <1>7, <1>8, <1>9, <1>12, <1>13, <1>14, RevertibleByOne
<1> QED
  BY <1>3, <1>6, <1>7, <1>15 DEF a, s, f, to

\* A vertex leaves a route with others, which remain if some are customers.
LEMMA RemoveWorks ==
    ASSUME NEW sol, WellFormed(sol), NEW r \in sol, NEW v \in ToSet(r), ToSet(r) # {v}
    PROVE  LET a == RemoveVertex(v, Succ(r, v))
               s == RemoveFrom(r, v)
               to == (sol \ {r}) \cup IfServing(s)
           IN  /\ WellFormed(to) /\ ApplyAction(sol, a) = to
               /\ IsRoute(s) /\ ToSet(s) = ToSet(r) \ {v}
               /\ Revertible(sol, RecordAction(sol, a), to)
<1> DEFINE n == Succ(r, v)
           a == RemoveVertex(v, n)
           s == RemoveFrom(r, v)
           to == (sol \ {r}) \cup IfServing(s)
           alone == Cardinality(ServedBy(r)) = 1 /\ v # depot
           fb == Fallback(r, v, n)
<1>1. IsRoute(r) /\ IsPath(r) /\ ServedBy(r) # {} /\ v \in vertices
      /\ ServedBy(r) \subseteq customers
  BY PathSet, ServedByFacts DEF WellFormed, IsRoute
<1>2. /\ IsRoute(s) /\ ToSet(s) = ToSet(r) \ {v} /\ n \in ToSet(r) \ {v}
      /\ InsertBefore(s, n, v) = r /\ n \in vertices
  BY <1>1, RemoveFacts, PathSet
<1>3. /\ RouteVia(sol, v, n) = r /\ RouteVia(sol, n, v) = r
      /\ IsServed(sol, v) /\ IsServed(sol, n)
  <2>1. v # depot \/ n # depot
    BY <1>2
  <2> HIDE DEF n
  <2> QED
    BY <1>2, <2>1, RouteViaIs
<1> HIDE DEF s
<1>4. ServedBy(s) = ServedBy(r) \ {v}
  BY <1>2 DEF ServedBy
<1>5. /\ WellFormed(to) /\ Replace(sol, r, s) = to
      /\ CustomersOf(to) = (CustomersOf(sol) \ ServedBy(r)) \cup ServedBy(s)
      /\ ServedBy(s) # {} => s \notin sol \ {r}
  <2>1. \A q \in sol \ {r} : ServedBy(s) \cap ServedBy(q) = {}
    BY <1>4 DEF WellFormed
  <2>2. WellFormed(Replace(sol, r, s))
    BY <1>2, <2>1, ReplaceFacts
  <2>3. Replace(sol, r, s) = (sol \ {r}) \cup IfServing(s)
    BY <1>2, <2>1, ReplaceFacts
  <2>4. CustomersOf(Replace(sol, r, s)) = (CustomersOf(sol) \ ServedBy(r)) \cup ServedBy(s)
    BY <1>2, <2>1, ReplaceFacts
  <2>5. ServedBy(s) # {} => s \notin sol \ {r}
    BY <2>1
  <2> QED
    BY <2>2, <2>3, <2>4, <2>5
<1>6. v # depot => v \notin CustomersOf(to)
  <2>1. \A q \in sol \ {r} : v # depot => v \notin ServedBy(q)
    BY DEF WellFormed, ServedBy
  <2>2. v \notin ServedBy(s)
    BY <1>4
  <2>3. \A q \in IfServing(s) : q = s
    BY DEF IfServing
  <2> QED
    BY <2>1, <2>2, <2>3 DEF CustomersOf, to
<1> HIDE DEF to, n
<1>7. ApplyAction(sol, a) = to
  BY <1>3, <1>5, ApplyFacts DEF s
<1>8. RecordAction(sol, a) = RecordRemove(r, v, n)
  BY <1>3, RecordFacts DEF n
<1>9. CASE alone
  <2>1. ServedBy(r) = {v}
    <3>1. v \in ServedBy(r)
      BY <1>9 DEF ServedBy
    <3>2. PICK x : ServedBy(r) = {x}
      <4>1. IsFiniteSet(ServedBy(r))
        BY <1>1, FiniteCustomers, FS_Subset
      <4> QED
        BY <1>9, <4>1, FS_Singleton
    <3> QED
      BY <3>1, <3>2
  <2>2. v \in customers /\ v # depot
    BY <1>1, <2>1, Numbers
  <2>3. to = sol \ {r}
    BY <1>4, <2>1 DEF to, IfServing
  <2>4. ToSet(r) = {depot, v}
    BY <1>2, <2>1 DEF ServedBy
  <2>5. r = OneCustomerRoute(v)
    BY <1>1, <2>2, <2>4, OneCustomerFacts
  <2> DEFINE do == RemoveOne(v)
             undo == BuildOne(v)
  <2>6. RouteOf(sol, v) = r
    BY <1>3, <2>2 DEF RouteVia
  <2>7. Applicable(sol, do)
    BY <1>3, <1>9, <2>6, ApplicableFacts
  <2>8. ApplyAction(sol, do) = to
    BY <1>5, <2>6, ApplyFacts DEF s
  <2>9. Applicable(to, undo)
    BY <1>5, <1>6, <2>2, ServedIs, ApplicableFacts
  <2>10. ApplyAction(to, undo) = sol
    BY <2>3, <2>5, ApplyFacts
  <2>11. do \in AllActions /\ undo \in AllActions
    BY <2>2, ActionFacts
  <2>12. RecordAction(sol, a).do = <<do>> /\ RecordAction(sol, a).undo = <<undo>>
    BY <1>8, <1>9 DEF RecordRemove
  <2> HIDE DEF do, undo, a
  <2>13. Revertible(sol, RecordAction(sol, a), to)
    BY <2>7, <2>8, <2>9, <2>10, <2>11, <2>12, RevertibleByOne
  <2> QED
    BY <1>2, <1>5, <1>7, <2>13 DEF a, s, n, to
<1>10. CASE ~alone
  <2>1. ServedBy(s) # {}
    <3>1. ASSUME ServedBy(s) = {} PROVE FALSE
      <4>1. ServedBy(r) = {v}
        BY <1>1, <1>4, <3>1
      <4>2. v # depot
        BY <4>1 DEF ServedBy
      <4>3. Cardinality({v}) = 1
        BY FS_Singleton
      <4> QED
        BY <1>10, <4>1, <4>2, <4>3
    <3> QED
      BY <3>1
  <2>2. to = (sol \ {r}) \cup {s} /\ s \in to /\ s \notin sol \ {r}
    BY <1>5, <2>1 DEF to, IfServing
  <2>3. fb \in ToSet(s) /\ fb \in vertices /\ (n # depot \/ fb # depot)
    <3>1. n \in ToSet(r) /\ Succ(r, n) \in ToSet(r) /\ Succ(r, n) # n
      <4>1. n \in ToSet(r) /\ ToSet(r) # {n}
        BY <1>2
      <4> QED
        BY <1>1, <4>1, RemoveFacts
    <3>2. fb = IF Succ(r, n) = v THEN n ELSE Succ(r, n)
      BY DEF Fallback
    <3>3. fb \in ToSet(s) /\ fb \in vertices
      BY <1>1, <1>2, <3>1, <3>2, PathSet
    <3>4. CASE Succ(r, n) # v
      BY <3>1, <3>2, <3>3, <3>4
    <3>5. CASE Succ(r, n) = v
      <4> DEFINE p == Opened(r, v)
                 m == Len(r)
      <4>1. IsPath(p) /\ Len(p) = m /\ ToSet(p) = ToSet(r) /\ p[1] = v /\ m \in Nat
        BY <1>1, RouteOpened, PathFacts
      <4>2. m > 1 /\ n = p[2]
        <5>1. m >= 1
          BY <1>1, OpenedFacts
        <5> HIDE DEF m
        <5>2. m # 1
          BY <1>1, <1>2, SuccIs DEF m, n
        <5> QED
          BY <1>1, <4>1, <5>1, <5>2, SuccIs DEF m, n
      <4>3. m = 2
        <5>1. ASSUME m # 2 PROVE FALSE
          <6>1. 2 \in 1..m /\ 3 \in 1..m /\ 3 = 2 + 1 /\ 1 \in (0 - m)..m /\ 1 \in 1..m
            BY <4>1, <4>2, <5>1
          <6>2. Step(r, p[2], 1) = p[3]
            BY <1>1, <6>1, StepIs
          <6>3. Succ(r, n) = p[3]
            BY <1>1, <3>1, <4>2, <6>2, SuccIs
          <6> HIDE DEF p, m
          <6>4. p[3] = p[1]
            BY <3>5, <4>1, <6>3
          <6> QED
            BY <4>1, <6>1, <6>4, PathFacts
        <5> QED
          BY <5>1
      <4> HIDE DEF p, m
      <4>4. ToSet(r) = {v, n}
        <5>1. ToSet(p) = {p[k] : k \in 1..2} /\ 1..2 = {1, 2}
          BY <4>1, <4>3, PathSet
        <5> QED
          BY <4>1, <4>2, <5>1
      <4>5. ASSUME n = depot PROVE FALSE
        <5>1. v # depot /\ ServedBy(r) = {v}
          BY <1>2, <4>4, <4>5 DEF ServedBy
        <5>2. Cardinality({v}) = 1
          BY FS_Singleton
        <5> QED
          BY <1>10, <5>1, <5>2
      <4> QED
        BY <3>3, <4>5
    <3> QED
      BY <3>3, <3>4, <3>5
  <2> DEFINE undo == InsertVertex(n, v, fb)
  <2> HIDE DEF fb, alone
  <2>4. /\ RouteVia(to, n, fb) = s /\ RouteVia(to, fb, n) = s
        /\ IsServed(to, n) /\ IsServed(to, fb)
    BY <1>2, <1>5, <2>2, <2>3, RouteViaIs
  <2>5. Applicable(to, undo)
    <3>1. v # depot => ~IsServed(to, v)
      BY <1>5, <1>6, ServedIs
    <3>2. v = depot => MissingDepot(s)
      BY <1>2, ServedByFacts DEF IsRoute
    <3> QED
      BY <2>4, <3>1, <3>2, ApplicableFacts
  <2>6. ApplyAction(to, undo) = sol
    <3>1. ApplyAction(to, undo) = Replace(to, s, r)
      BY <1>2, <2>4, ApplyFacts
    <3>2. Load(r) # 0
      BY <1>1, PathLoad
    <3> QED
      BY <2>2, <3>1, <3>2 DEF Replace
  <2>7. Applicable(sol, a)
    <3>1. v = depot => ~MissingDepot(r)
      BY <1>1, ServedByFacts
    <3> QED
      BY <1>3, <3>1, ApplicableFacts
  <2>8. a \in AllActions /\ undo \in AllActions
    BY <1>1, <1>2, <2>3, ActionFacts
  <2>9. RecordAction(sol, a).do = <<a>> /\ RecordAction(sol, a).undo = <<undo>>
    BY <1>8, <1>10 DEF RecordRemove, alone, fb
  <2> HIDE DEF undo, a
  <2>10. Revertible(sol, RecordAction(sol, a), to)
    BY <1>7, <2>5, <2>6, <2>7, <2>8, <2>9, RevertibleByOne
  <2> QED
    BY <1>2, <1>5, <1>7, <2>10 DEF a, s, n, to
<1> QED
  BY <1>9, <1>10

\* A customer gets a route of its own.
LEMMA BuildWorks ==
    ASSUME NEW sol, WellFormed(sol), NEW c \in customers, c \notin CustomersOf(sol)
    PROVE  LET a == BuildOne(c)
               to == sol \cup {OneCustomerRoute(c)}
           IN  /\ WellFormed(to) /\ ApplyAction(sol, a) = to
               /\ OneCustomerRoute(c) \notin sol
               /\ Revertible(sol, RecordAction(sol, a), to)
<1> DEFINE a == BuildOne(c)
           b == RemoveOne(c)
           s == OneCustomerRoute(c)
           to == sol \cup {s}
<1>1. /\ IsRoute(s) /\ ServedBy(s) = {c} /\ RemoveFrom(s, c) = <<depot>> /\ c \in ToSet(s)
      /\ c # depot
  BY OneCustomerFacts, Numbers
<1>2. \A q \in sol : c \notin ServedBy(q)
  BY DEF CustomersOf
<1> HIDE DEF s
<1>3. WellFormed(to) /\ s \notin sol
  BY <1>1, <1>2 DEF WellFormed
<1>4. s \in to
  OBVIOUS
<1> HIDE DEF to
<1>5. ApplyAction(sol, a) = to
  BY ApplyFacts DEF s, to
<1>6. Applicable(sol, a)
  BY <1>1, ServedIs, ApplicableFacts
<1>7. RouteVia(to, c, c) = s /\ IsServed(to, c)
  BY <1>1, <1>3, <1>4, RouteViaIs
<1>8. RouteOf(to, c) = s
  BY <1>1, <1>7 DEF RouteVia
<1>9. Applicable(to, b)
  <2>1. Cardinality({c}) = 1
    BY FS_Singleton
  <2> QED
    BY <1>1, <1>7, <1>8, <2>1, ApplicableFacts
<1>10. ApplyAction(to, b) = sol
  <2>1. ApplyAction(to, b) = Replace(to, s, <<depot>>)
    BY <1>1, <1>8, ApplyFacts
  <2>2. Load(<<depot>>) = 0
    BY DepotRoute, PathLoad DEF IsRoute
  <2> QED
    BY <1>3, <2>1, <2>2 DEF Replace, to
<1>11. a \in AllActions /\ b \in AllActions
  BY ActionFacts
<1>12. RecordAction(sol, a).do = <<a>> /\ RecordAction(sol, a).undo = <<b>>
  BY RecordFacts
<1> HIDE DEF a, b
<1>13. Revertible(sol, RecordAction(sol, a), to)
  BY <1>5, <1>6, <1>9, <1>10, <1>11, <1>12, RevertibleByOne
<1> QED
  BY <1>3, <1>5, <1>13 DEF a, s, to

\* A path of a route is reversed: of the whole route, nothing is recorded.
LEMMA ReverseWorks ==
    ASSUME NEW sol, WellFormed(sol), NEW r \in sol, NEW b \in ToSet(r), NEW e \in ToSet(r),
           RouteVia(sol, b, e) = r, RouteVia(sol, e, b) = r
    PROVE  LET a == ReverseRoutePath(b, e)
               s == ReversePath(r, b, e)
               to == (sol \ {r}) \cup {s}
           IN  /\ WellFormed(to) /\ ApplyAction(sol, a) = to
               /\ IsRoute(s) /\ ToSet(s) = ToSet(r)
               /\ Revertible(sol, RecordAction(sol, a), to)
<1> DEFINE a == ReverseRoutePath(b, e)
           z == ReverseRoutePath(e, b)
           s == ReversePath(r, b, e)
           to == (sol \ {r}) \cup {s}
<1>1. IsRoute(r) /\ IsPath(r) /\ ServedBy(r) # {} /\ b \in vertices /\ e \in vertices
  BY PathSet DEF WellFormed, IsRoute
<1>2. /\ IsRoute(s) /\ ToSet(s) = ToSet(r)
      /\ Succ(r, e) = b => s = r
      /\ Succ(r, e) # b => ReversePath(s, e, b) = r
      /\ b = e => s = r
  BY <1>1, ReversePathFacts
<1> HIDE DEF s
<1>3. ServedBy(s) = ServedBy(r)
  BY <1>2 DEF ServedBy
<1>4. WellFormed(to) /\ Replace(sol, r, s) = to /\ s \notin sol \ {r}
  <2>1. \A q \in sol \ {r} : ServedBy(s) \cap ServedBy(q) = {}
    BY <1>3 DEF WellFormed
  <2>2. WellFormed(Replace(sol, r, s))
    BY <1>2, <2>1, ReplaceFacts
  <2>3. Replace(sol, r, s) = (sol \ {r}) \cup IfServing(s)
    BY <1>2, <2>1, ReplaceFacts
  <2>4. ServedBy(s) # {} => s \notin sol \ {r}
    BY <2>1
  <2> QED
    BY <1>1, <1>3, <2>2, <2>3, <2>4 DEF IfServing
<1> HIDE DEF to
<1>5. ApplyAction(sol, a) = to
  BY <1>4, ApplyFacts DEF s
<1>6. RecordAction(sol, a) = RecordReverse(r, b, e)
  BY RecordFacts
<1>7. CASE Succ(r, e) = b
  <2>1. to = sol
    BY <1>2, <1>7 DEF to
  <2>2. RecordAction(sol, a).do = <<>> /\ RecordAction(sol, a).undo = <<>>
    BY <1>6, <1>7 DEF RecordReverse
  <2>3. Reverse(<<>>) = <<>> /\ <<>> \in Seq(AllActions)
    BY DEF Reverse
  <2> HIDE DEF a
  <2>4. Revertible(sol, RecordAction(sol, a), to)
    BY <2>1, <2>2, <2>3, LeadsNowhere DEF Revertible
  <2> QED
    BY <1>2, <1>4, <1>5, <2>4 DEF a, s, to
<1>8. CASE Succ(r, e) # b
  <2>1. IsServed(sol, b) /\ IsServed(sol, e)
    <3>1. Contains(r, b) /\ Contains(r, e)
      BY <1>1, ServedByFacts
    <3> QED
      BY <3>1 DEF IsServed
  <2>2. Applicable(sol, a)
    BY <2>1, ApplicableFacts
  <2>3. RecordAction(sol, a).do = <<a>> /\ RecordAction(sol, a).undo = <<z>>
    BY <1>6, <1>8 DEF RecordReverse
  <2>4. a \in AllActions /\ z \in AllActions
    BY <1>1, ActionFacts
  <2>5. RouteVia(to, b, e) = s /\ RouteVia(to, e, b) = s /\ IsServed(to, b) /\ IsServed(to, e)
    <3>1. CASE b # depot \/ e # depot
      <4>1. s \in to /\ b \in ToSet(s) /\ e \in ToSet(s)
        BY <1>2 DEF to
      <4> QED
        BY <1>4, <3>1, <4>1, RouteViaIs
    <3>2. CASE b = depot /\ e = depot
      <4>1. to = sol /\ s = r
        BY <1>2, <3>2 DEF to
      <4> QED
        BY <2>1, <4>1
    <3> QED
      BY <3>1, <3>2
  <2>6. Applicable(to, z)
    BY <2>5, ApplicableFacts
  <2>7. ApplyAction(to, z) = sol
    <3>1. ApplyAction(to, z) = Replace(to, s, r)
      BY <1>2, <1>8, <2>5, ApplyFacts
    <3>2. Load(r) # 0
      BY <1>1, PathLoad
    <3> QED
      BY <1>4, <3>1, <3>2 DEF Replace, to
  <2> HIDE DEF a, z
  <2>8. Revertible(sol, RecordAction(sol, a), to)
    BY <1>5, <2>2, <2>3, <2>4, <2>6, <2>7, RevertibleByOne
  <2> QED
    BY <1>2, <1>4, <1>5, <2>8 DEF a, s, to
<1> QED
  BY <1>7, <1>8

\* An action on a solution with its lists.
LEMMA DoWorks ==
    ASSUME NEW from, NEW x, IsWork(x), Linked(from, x), NEW a, NEW to,
           ApplyAction(x.sol, a) = to, Revertible(x.sol, RecordAction(x.sol, a), to)
    PROVE  /\ Do(x, a).sol = to /\ Linked(from, Do(x, a))
           /\ SameElsewhere(Do(x, a), x) /\ IsWork(Do(x, a))
<1> DEFINE entry == RecordAction(x.sol, a)
<1>1. Do(x, a) = Recorded(x, to, entry)
  BY DEF Do
<1>2. Revertible(x.sol, entry, to)
  OBVIOUS
<1> HIDE DEF entry
<1> QED
  BY <1>1, <1>2, RecordedFacts, RecordedLinks

-----------------------------------------------------------------------------
(* Vertices on their way between routes                                    *)

\* The routes in the hands of execute serve the vertices V, beside the routes
\* of `rest': who is on the way is in neither.
Held(y, from, rest, V) ==
    /\ IsWork(y) /\ Linked(from, y) /\ WellFormed(y.sol)
    /\ "route" \in DOMAIN y /\ DOMAIN y.route = {1, 2}
    /\ DOMAIN V \subseteq {1, 2} /\ V = [s \in DOMAIN V |-> V[s]]
    /\ y.sol = rest \cup UNION {IfServing(y.route[s]) : s \in DOMAIN V}
    /\ \A s \in DOMAIN V : /\ IsRoute(y.route[s]) /\ ToSet(y.route[s]) = V[s]
                           /\ V[s] \subseteq vertices \ CustomersOf(rest)
    /\ \A s, t \in DOMAIN V : s # t => V[s] \cap V[t] \subseteq {depot}

\* A route in hand gives way to another one.
LEMMA HeldAfter ==
    ASSUME NEW y, NEW from, NEW rest, NEW V, Held(y, from, rest, V), NEW s \in DOMAIN V,
           NEW z, IsWork(z), Linked(from, z), WellFormed(z.sol), SameElsewhere(z, y),
           NEW u, NEW r, IsRoute(r), ToSet(r) \subseteq vertices \ CustomersOf(rest),
           u.sol = z.sol, u.do = z.do, u.undo = z.undo, DOMAIN u = DOMAIN z,
           u.route = [z.route EXCEPT ![s] = r],
           z.sol = (y.sol \ IfServing(y.route[s])) \cup IfServing(r),
           \A t \in DOMAIN V : t # s => ToSet(r) \cap V[t] \subseteq {depot}
    PROVE  Held(u, from, rest, [V EXCEPT ![s] = ToSet(r)])
<1> DEFINE W == [V EXCEPT ![s] = ToSet(r)]
           old == y.route
           new == u.route
<1>1. /\ IsWork(y) /\ Linked(from, y) /\ WellFormed(y.sol)
      /\ "route" \in DOMAIN y /\ DOMAIN old = {1, 2} /\ DOMAIN V \subseteq {1, 2}
      /\ y.sol = rest \cup UNION {IfServing(old[t]) : t \in DOMAIN V}
      /\ \A t \in DOMAIN V : /\ IsRoute(old[t]) /\ ToSet(old[t]) = V[t]
                             /\ V[t] \subseteq vertices \ CustomersOf(rest)
      /\ \A t, w \in DOMAIN V : t # w => V[t] \cap V[w] \subseteq {depot}
  BY DEF Held
<1>2. "route" \in DOMAIN z /\ z.route = old /\ "route" \in DOMAIN u
  BY <1>1 DEF SameElsewhere
<1>3. IsWork(u) /\ Linked(from, u) /\ WellFormed(u.sol)
  BY DEF IsWork, Linked
<1>4. DOMAIN new = {1, 2} /\ new[s] = r /\ \A t \in DOMAIN V : t # s => new[t] = old[t]
  BY <1>1, <1>2
<1>5. DOMAIN W = DOMAIN V /\ W[s] = ToSet(r) /\ \A t \in DOMAIN V : t # s => W[t] = V[t]
  OBVIOUS
<1> HIDE DEF W, old, new
<1>6. u.sol = rest \cup UNION {IfServing(new[t]) : t \in DOMAIN W}
  <2>1. \A q \in rest : q \notin IfServing(old[s])
    <3>1. \A q \in rest : q = old[s] => ServedBy(old[s]) \subseteq CustomersOf(rest)
      BY DEF CustomersOf
    <3>2. ServedBy(old[s]) \subseteq V[s] /\ V[s] \cap CustomersOf(rest) = {}
      BY <1>1 DEF ServedBy
    <3> QED
      BY <3>1, <3>2 DEF IfServing
  <2>2. \A t \in DOMAIN V : t # s => IfServing(old[t]) \cap IfServing(old[s]) = {}
    <3> TAKE t \in DOMAIN V
    <3> HAVE t # s
    <3>1. ServedBy(old[t]) \cap ServedBy(old[s]) = {}
      BY <1>1 DEF ServedBy
    <3> QED
      BY <3>1 DEF IfServing
  <2>3. u.sol \subseteq rest \cup UNION {IfServing(new[t]) : t \in DOMAIN W}
    <3> SUFFICES ASSUME NEW q \in u.sol, q \notin rest
                 PROVE  \E t \in DOMAIN W : q \in IfServing(new[t])
      OBVIOUS
    <3>1. CASE q \in IfServing(r)
      BY <1>4, <1>5, <3>1
    <3>2. CASE q \notin IfServing(r)
      <4>1. q \in y.sol /\ q \notin IfServing(old[s])
        BY <3>2 DEF old
      <4>2. PICK t \in DOMAIN V : q \in IfServing(old[t])
        BY <1>1, <4>1
      <4> QED
        BY <1>4, <1>5, <4>1, <4>2
    <3> QED
      BY <3>1, <3>2
  <2>4. rest \subseteq u.sol
    BY <1>1, <2>1 DEF old
  <2>5. ASSUME NEW t \in DOMAIN W PROVE IfServing(new[t]) \subseteq u.sol
    <3>1. CASE t = s
      BY <1>4, <3>1
    <3>2. CASE t # s
      <4>1. IfServing(new[t]) = IfServing(old[t]) /\ t \in DOMAIN V
        BY <1>4, <1>5, <3>2
      <4> QED
        BY <1>1, <2>2, <3>2, <4>1 DEF old
    <3> QED
      BY <3>1, <3>2
  <2> QED
    BY <2>3, <2>4, <2>5
<1>7. \A t \in DOMAIN W : /\ IsRoute(new[t]) /\ ToSet(new[t]) = W[t]
                          /\ W[t] \subseteq vertices \ CustomersOf(rest)
  BY <1>1, <1>4, <1>5
<1>8. \A t, w \in DOMAIN W : t # w => W[t] \cap W[w] \subseteq {depot}
  BY <1>1, <1>5
<1>9. W = [t \in DOMAIN W |-> W[t]]
  BY DEF W
<1>10. Held(u, from, rest, W)
  BY <1>1, <1>2, <1>3, <1>4, <1>5, <1>6, <1>7, <1>8, <1>9 DEF Held, new
<1> QED
  BY <1>10 DEF W

\* The route of a register, in the solution if it serves somebody.
LEMMA HeldRoute ==
    ASSUME NEW y, NEW from, NEW rest, NEW V, Held(y, from, rest, V), NEW s \in DOMAIN V
    PROVE  /\ IsRoute(y.route[s]) /\ IsPath(y.route[s]) /\ ToSet(y.route[s]) = V[s]
           /\ V[s] # {} /\ V[s] \subseteq vertices
           /\ V[s] # {depot} => y.route[s] \in y.sol /\ IfServing(y.route[s]) = {y.route[s]}
           /\ V[s] = {depot} => y.route[s] = <<depot>> /\ IfServing(y.route[s]) = {}
<1> DEFINE r == y.route[s]
<1>1. IsRoute(r) /\ IsPath(r) /\ ToSet(r) = V[s] /\ r # <<>> /\ V[s] \subseteq vertices
  BY DEF Held, IsRoute
<1>2. IfServing(r) \subseteq y.sol
  BY DEF Held
<1> HIDE DEF r
<1>3. V[s] # {}
  BY <1>1, OpenedFirst
<1>4. V[s] # {depot} => r \in y.sol /\ IfServing(r) = {r}
  BY <1>1, <1>2, <1>3 DEF IfServing, ServedBy
<1>5. V[s] = {depot} => r = <<depot>> /\ IfServing(r) = {}
  BY <1>1, DepotRoute DEF IfServing
<1> QED
  BY <1>1, <1>3, <1>4, <1>5 DEF r

LEMMA TakeWork ==
    ASSUME NEW y, NEW from, NEW rest, NEW V, Held(y, from, rest, V), NEW s \in DOMAIN V,
           NEW v \in V[s], V[s] # {v}
    PROVE  Held(Take(y, s, v), from, rest, [V EXCEPT ![s] = @ \ {v}])
<1> DEFINE r == y.route[s]
           a == RemoveVertex(v, Succ(r, v))
           z == Do(y, a)
           u == Take(y, s, v)
           new == RemoveFrom(r, v)
           to == (y.sol \ {r}) \cup IfServing(new)
<1>1. IsRoute(r) /\ ToSet(r) = V[s]
  BY HeldRoute
<1>2. r \in y.sol /\ IfServing(r) = {r}
  <2>1. V[s] # {depot} \/ V[s] = {depot}
    OBVIOUS
  <2>2. V[s] # {depot}
    OBVIOUS
  <2> QED
    BY <2>2, HeldRoute
<1>3. WellFormed(y.sol) /\ IsWork(y) /\ Linked(from, y)
      /\ "route" \in DOMAIN y /\ DOMAIN y.route = {1, 2} /\ s \in {1, 2}
      /\ V[s] \subseteq vertices \ CustomersOf(rest)
      /\ \A t \in DOMAIN V : t # s => V[s] \cap V[t] \subseteq {depot}
  BY DEF Held
<1>4. /\ WellFormed(to) /\ ApplyAction(y.sol, a) = to /\ IsRoute(new)
      /\ ToSet(new) = ToSet(r) \ {v} /\ Revertible(y.sol, RecordAction(y.sol, a), to)
  <2> HIDE DEF r
  <2> QED
    BY <1>1, <1>2, <1>3, RemoveWorks
<1> HIDE DEF to, a
<1>5. z.sol = to /\ Linked(from, z) /\ SameElsewhere(z, y) /\ IsWork(z)
  BY <1>3, <1>4, DoWorks
<1>6. u = [z EXCEPT !.route[s] = RemoveFrom(@, v)]
  BY DEF Take, a
<1> HIDE DEF z, u
<1>7. "route" \in DOMAIN z /\ z.route = y.route
  BY <1>3, <1>5 DEF SameElsewhere
<1>8. /\ u.sol = z.sol /\ u.do = z.do /\ u.undo = z.undo /\ DOMAIN u = DOMAIN z
      /\ u.route = [z.route EXCEPT ![s] = new]
  BY <1>3, <1>5, <1>6, <1>7 DEF IsWork
<1> HIDE DEF r
<1>9. z.sol = (y.sol \ IfServing(y.route[s])) \cup IfServing(new)
  BY <1>2, <1>5 DEF to, r
<1> HIDE DEF new
<1>10. Held(u, from, rest, [V EXCEPT ![s] = ToSet(new)])
  <2>1. ToSet(new) \subseteq vertices \ CustomersOf(rest)
    BY <1>1, <1>3, <1>4
  <2>2. \A t \in DOMAIN V : t # s => ToSet(new) \cap V[t] \subseteq {depot}
    BY <1>1, <1>3, <1>4
  <2>3. WellFormed(z.sol)
    BY <1>4, <1>5
  <2> QED
    BY <1>4, <1>5, <1>8, <1>9, <2>1, <2>2, <2>3, HeldAfter
<1>11. [V EXCEPT ![s] = ToSet(new)] = [V EXCEPT ![s] = @ \ {v}]
  BY <1>1, <1>4
<1> QED
  BY <1>10, <1>11 DEF u

LEMMA PutWork ==
    ASSUME NEW y, NEW from, NEW rest, NEW V, Held(y, from, rest, V), NEW t \in DOMAIN V,
           NEW v \in vertices \ CustomersOf(rest), v \notin V[t], NEW where \in V[t],
           v # depot => \A s \in DOMAIN V : v \notin V[s]
    PROVE  Held(Put(y, t, where, v), from, rest, [V EXCEPT ![t] = @ \cup {v}])
<1> DEFINE r == y.route[t]
           u == Put(y, t, where, v)
<1>1. IsRoute(r) /\ ToSet(r) = V[t]
  BY HeldRoute
<1>2. WellFormed(y.sol) /\ IsWork(y) /\ Linked(from, y)
      /\ "route" \in DOMAIN y /\ DOMAIN y.route = {1, 2} /\ t \in {1, 2}
      /\ V[t] \subseteq vertices \ CustomersOf(rest)
      /\ \A s \in DOMAIN V : t # s => V[t] \cap V[s] \subseteq {depot}
  BY DEF Held
<1>3. v # depot => v \notin CustomersOf(y.sol)
  <2> SUFFICES ASSUME v # depot, NEW q \in y.sol, v \in ServedBy(q) PROVE FALSE
    BY DEF CustomersOf
  <2>1. q \notin rest
    BY DEF CustomersOf
  <2>2. PICK s \in DOMAIN V : q \in IfServing(y.route[s])
    BY <2>1 DEF Held
  <2>3. q = y.route[s]
    BY <2>2 DEF IfServing
  <2> QED
    BY <2>3, HeldRoute DEF ServedBy
<1>4. CASE V[t] = {depot}
  <2> DEFINE a == BuildOne(v)
             z == Do(y, a)
             new == OneCustomerRoute(v)
             to == y.sol \cup {new}
  <2>1. r = <<depot>> /\ IfServing(r) = {} /\ v # depot /\ v \in customers
    BY <1>4, HeldRoute, Numbers
  <2>2. /\ IsRoute(new) /\ ToSet(new) = {depot, v} /\ ServedBy(new) = {v}
    BY <2>1, OneCustomerFacts
  <2>3. /\ WellFormed(to) /\ ApplyAction(y.sol, a) = to
        /\ Revertible(y.sol, RecordAction(y.sol, a), to)
    BY <1>2, <1>3, <2>1, BuildWorks
  <2> HIDE DEF to, a
  <2>4. z.sol = to /\ Linked(from, z) /\ SameElsewhere(z, y) /\ IsWork(z)
    BY <1>2, <2>3, DoWorks
  <2>5. u = [z EXCEPT !.route[t] = new, !.svc = y.svc \cup {depot}]
    BY <2>1 DEF Put, a
  <2> HIDE DEF z, u, new
  <2>6. "route" \in DOMAIN z /\ z.route = y.route
    BY <1>2, <2>4 DEF SameElsewhere
  <2>7. /\ u.sol = z.sol /\ u.do = z.do /\ u.undo = z.undo /\ DOMAIN u = DOMAIN z
        /\ u.route = [z.route EXCEPT ![t] = new]
    BY <1>2, <2>4, <2>5, <2>6 DEF IsWork
  <2>8. z.sol = (y.sol \ IfServing(y.route[t])) \cup IfServing(new)
    BY <2>1, <2>2, <2>4 DEF to, IfServing
  <2>9. Held(u, from, rest, [V EXCEPT ![t] = ToSet(new)])
    <3>1. ToSet(new) \subseteq vertices \ CustomersOf(rest)
      BY <1>2, <1>4, <2>2
    <3>2. \A s \in DOMAIN V : s # t => ToSet(new) \cap V[s] \subseteq {depot}
      BY <1>2, <1>4, <2>1, <2>2
    <3>3. WellFormed(z.sol)
      BY <2>3, <2>4
    <3> QED
      BY <2>2, <2>4, <2>7, <2>8, <3>1, <3>2, <3>3, HeldAfter
  <2>10. [V EXCEPT ![t] = ToSet(new)] = [V EXCEPT ![t] = @ \cup {v}]
    BY <1>4, <2>2
  <2> QED
    BY <2>9, <2>10 DEF u
<1>5. CASE V[t] # {depot}
  <2> DEFINE a == InsertVertex(where, v, Succ(r, where))
             z == Do(y, a)
             new == InsertBefore(r, where, v)
             to == (y.sol \ {r}) \cup {new}
  <2>1. r \in y.sol /\ IfServing(r) = {r}
    BY <1>5, HeldRoute
  <2>2. r # <<depot>>
    BY <1>1, <1>5, DepotRoute
  <2>3. /\ WellFormed(to) /\ ApplyAction(y.sol, a) = to /\ IsRoute(new)
        /\ ToSet(new) = ToSet(r) \cup {v} /\ Revertible(y.sol, RecordAction(y.sol, a), to)
    <3> HIDE DEF r
    <3> QED
      BY <1>1, <1>2, <1>3, <2>1, InsertWorks
  <2>4. IfServing(new) = {new}
    <3>1. new \in to
      OBVIOUS
    <3> HIDE DEF new
    <3> QED
      BY <2>3, <3>1 DEF WellFormed, IfServing
  <2> HIDE DEF to, a
  <2>5. z.sol = to /\ Linked(from, z) /\ SameElsewhere(z, y) /\ IsWork(z)
    BY <1>2, <2>3, DoWorks
  <2>6. u = [z EXCEPT !.route[t] = InsertBefore(@, where, v)]
    BY <2>2 DEF Put, a
  <2> HIDE DEF z, u
  <2>7. "route" \in DOMAIN z /\ z.route = y.route
    BY <1>2, <2>5 DEF SameElsewhere
  <2>8. /\ u.sol = z.sol /\ u.do = z.do /\ u.undo = z.undo /\ DOMAIN u = DOMAIN z
        /\ u.route = [z.route EXCEPT ![t] = new]
    BY <1>2, <2>5, <2>6, <2>7 DEF IsWork
  <2> HIDE DEF r
  <2>9. z.sol = (y.sol \ IfServing(y.route[t])) \cup IfServing(new)
    BY <2>1, <2>4, <2>5 DEF to, r
  <2> HIDE DEF new
  <2>10. Held(u, from, rest, [V EXCEPT ![t] = ToSet(new)])
    <3>1. ToSet(new) \subseteq vertices \ CustomersOf(rest)
      BY <1>1, <1>2, <2>3
    <3>2. \A s \in DOMAIN V : s # t => ToSet(new) \cap V[s] \subseteq {depot}
      BY <1>1, <1>2, <2>3
    <3>3. WellFormed(z.sol)
      BY <2>3, <2>5
    <3> QED
      BY <2>3, <2>5, <2>8, <2>9, <3>1, <3>2, <3>3, HeldAfter
  <2>11. [V EXCEPT ![t] = ToSet(new)] = [V EXCEPT ![t] = @ \cup {v}]
    BY <1>1, <2>3
  <2> QED
    BY <2>10, <2>11 DEF u
<1> QED
  BY <1>4, <1>5

Moving == INSTANCE Folding WITH Op <- MoveVertex

LEMMA MoveAllIsFold == \A y, ms : MoveAll(y, ms) = Moving!Folded(y, ms)
BY DEF MoveAll, FoldLeft, MapThenFoldSet, Max, Moving!Folded, Moving!FoldLeft,
       Moving!MapThenFoldSet, Moving!Max

\* A vertex leaves a route, and the routes hold U after V.
LeavesTo(m, V, U) ==
    \/ m.from = 0 /\ U = V
    \/ /\ m.from \in DOMAIN V /\ m.v \in V[m.from] /\ V[m.from] # {m.v}
       /\ U = [V EXCEPT ![m.from] = @ \ {m.v}]

\* A vertex that no route has enters one, and the routes hold W after U.
EntersTo(m, rest, U, W) ==
    \/ m.to = 0 /\ W = U
    \/ /\ m.to \in DOMAIN U /\ m.v \in vertices \ CustomersOf(rest) /\ m.v \notin U[m.to]
       /\ m.where \in U[m.to]
       /\ m.v # depot => \A s \in DOMAIN U : m.v \notin U[s]
       /\ W = [U EXCEPT ![m.to] = @ \cup {m.v}]

LEMMA MoveVertexWork ==
    ASSUME NEW y, NEW from, NEW rest, NEW V, Held(y, from, rest, V), NEW m, NEW U, NEW W,
           LeavesTo(m, V, U), EntersTo(m, rest, U, W)
    PROVE  Held(MoveVertex(y, m), from, rest, W)
<1> DEFINE z == IF m.from = 0 THEN y ELSE Take(y, m.from, m.v)
<1>1. DOMAIN V \subseteq {1, 2}
  BY DEF Held
<1>2. Held(z, from, rest, U)
  <2>1. CASE m.from = 0 /\ U = V
    BY <2>1
  <2>2. CASE /\ m.from \in DOMAIN V /\ m.v \in V[m.from] /\ V[m.from] # {m.v}
             /\ U = [V EXCEPT ![m.from] = @ \ {m.v}]
    <3>1. Held(Take(y, m.from, m.v), from, rest, U)
      BY <2>2, TakeWork
    <3>2. m.from # 0
      BY <1>1, <2>2
    <3> QED
      BY <3>1, <3>2
  <2> QED
    BY <2>1, <2>2 DEF LeavesTo
<1> HIDE DEF z
<1>3. DOMAIN U \subseteq {1, 2}
  BY <1>2 DEF Held
<1>4. Held(IF m.to = 0 THEN z ELSE Put(z, m.to, m.where, m.v), from, rest, W)
  <2>1. CASE m.to = 0 /\ W = U
    BY <1>2, <2>1
  <2>2. CASE /\ m.to \in DOMAIN U /\ m.v \in vertices \ CustomersOf(rest) /\ m.v \notin U[m.to]
             /\ m.where \in U[m.to]
             /\ m.v # depot => \A s \in DOMAIN U : m.v \notin U[s]
             /\ W = [U EXCEPT ![m.to] = @ \cup {m.v}]
    <3>1. Held(Put(z, m.to, m.where, m.v), from, rest, W)
      BY <1>2, <2>2, PutWork
    <3>2. m.to # 0
      BY <1>3, <2>2
    <3> QED
      BY <3>1, <3>2
  <2> QED
    BY <2>1, <2>2 DEF EntersTo
<1> QED
  BY <1>4 DEF MoveVertex, z

\* A list of steps of which every one may be taken; g tells the routes' vertices.
LEMMA MoveAllWork ==
    ASSUME NEW S, NEW ms \in Seq(S), NEW y, NEW from, NEW rest, NEW g,
           Held(y, from, rest, g[0]),
           \A k \in 1..Len(ms) : \E U : /\ LeavesTo(ms[k], g[k - 1], U)
                                        /\ EntersTo(ms[k], rest, U, g[k])
    PROVE  Held(MoveAll(y, ms), from, rest, g[Len(ms)])
<1>1. PICK h : Moving!IsTrace(h, y, ms) /\ Moving!Folded(y, ms) = h[Len(ms)]
  BY Moving!FoldHasTrace
<1>2. h[0] = y /\ \A k \in 1..Len(ms) : h[k] = MoveVertex(h[k - 1], ms[k])
  BY <1>1 DEF Moving!IsTrace
<1> DEFINE P == {n \in Nat : n <= Len(ms) => Held(h[n], from, rest, g[n])}
<1>3. 0 \in P
  BY <1>2
<1>4. ASSUME NEW n \in Nat, n \in P PROVE n + 1 \in P
  <2>1. ASSUME n + 1 <= Len(ms) PROVE Held(h[n + 1], from, rest, g[n + 1])
    <3> DEFINE k == n + 1
    <3>1. k \in 1..Len(ms) /\ k - 1 = n /\ n <= Len(ms)
      BY <2>1
    <3>2. Held(h[n], from, rest, g[n])
      BY <1>4, <3>1
    <3> HIDE DEF k
    <3>3. PICK U : LeavesTo(ms[k], g[k - 1], U) /\ EntersTo(ms[k], rest, U, g[k])
      BY <3>1
    <3>4. h[k] = MoveVertex(h[n], ms[k])
      BY <1>2, <3>1
    <3>5. LeavesTo(ms[k], g[n], U)
      BY <3>1, <3>3
    <3>6. Held(MoveVertex(h[n], ms[k]), from, rest, g[k])
      BY <3>2, <3>3, <3>5, MoveVertexWork
    <3>7. Held(h[k], from, rest, g[k])
      BY <3>4, <3>6
    <3> QED
      BY <3>7 DEF k
  <2> QED
    BY <2>1
<1> HIDE DEF P
<1>5. \A n \in Nat : n \in P
  BY <1>3, <1>4, Moving!Induction
<1>6. Len(ms) \in Nat /\ Len(ms) <= Len(ms)
  OBVIOUS
<1>7. Held(h[Len(ms)], from, rest, g[Len(ms)])
  BY <1>5, <1>6 DEF P
<1> QED
  BY <1>1, <1>7, MoveAllIsFold

LEMMA MoveAllConcat ==
    ASSUME NEW S, NEW s \in Seq(S), NEW t \in Seq(S), NEW y
    PROVE  MoveAll(y, s \o t) = MoveAll(MoveAll(y, s), t)
<1>1. Moving!Folded(y, s \o t) = Moving!Folded(Moving!Folded(y, s), t)
  BY Moving!FoldConcat
<1> QED
  BY <1>1, MoveAllIsFold

\* The vertices among the first k of a path.
First(vs, k) == {vs[l] : l \in 1..k}

LEMMA FirstFacts ==
    ASSUME NEW vs, IsPath(vs)
    PROVE  /\ First(vs, 0) = {} /\ First(vs, Len(vs)) = ToSet(vs)
           /\ \A k \in 1..Len(vs) : /\ First(vs, k) = First(vs, k - 1) \cup {vs[k]}
                                    /\ vs[k] \notin First(vs, k - 1)
                                    /\ First(vs, k) \subseteq ToSet(vs)
<1>1. /\ Len(vs) \in Nat /\ \A j, k \in 1..Len(vs) : vs[j] = vs[k] => j = k
      /\ ToSet(vs) = {vs[k] : k \in 1..Len(vs)}
  BY PathFacts, PathSet
<1>2. ASSUME NEW k \in 1..Len(vs)
      PROVE  /\ First(vs, k) = First(vs, k - 1) \cup {vs[k]}
             /\ vs[k] \notin First(vs, k - 1)
             /\ First(vs, k) \subseteq ToSet(vs)
  <2>1. 1..k = (1..(k - 1)) \cup {k} /\ k \notin 1..(k - 1)
        /\ 1..(k - 1) \subseteq 1..Len(vs) /\ 1..k \subseteq 1..Len(vs)
    OBVIOUS
  <2> QED
    BY <1>1, <2>1 DEF First
<1>3. 1..0 = {}
  OBVIOUS
<1> QED
  BY <1>1, <1>2, <1>3 DEF First

\* The vertices of a path leave a route that keeps another one.
LEMMA LeavingWork ==
    ASSUME NEW y, NEW from, NEW rest, NEW V, Held(y, from, rest, V), NEW s \in DOMAIN V,
           NEW vs, IsPath(vs), ToSet(vs) \subseteq V[s], V[s] \ ToSet(vs) # {}
    PROVE  /\ Held(MoveAll(y, Leaving(s, vs)), from, rest, [V EXCEPT ![s] = @ \ ToSet(vs)])
           /\ \E S : Leaving(s, vs) \in Seq(S)
<1> DEFINE n == Len(vs)
           ms == Leaving(s, vs)
           W(k) == [V EXCEPT ![s] = @ \ First(vs, k)]
           g == [k \in 0..n |-> W(k)]
           S == {ms[k] : k \in 1..n}
<1>1. /\ n \in Nat /\ DOMAIN vs = 1..n /\ First(vs, 0) = {} /\ First(vs, n) = ToSet(vs)
      /\ \A k \in 1..n : /\ First(vs, k) = First(vs, k - 1) \cup {vs[k]}
                         /\ vs[k] \notin First(vs, k - 1)
                         /\ First(vs, k) \subseteq ToSet(vs)
      /\ \A k \in 1..n : vs[k] \in ToSet(vs)
  BY PathFacts, PathSet, FirstFacts
<1>2. /\ ms = [k \in 1..n |-> [from |-> s, to |-> 0, where |-> NoVertex, v |-> vs[k]]]
  BY <1>1 DEF Leaving
<1> HIDE DEF n, ms
<1>3. ms \in Seq(S) /\ Len(ms) = n
  BY <1>1, <1>2
<1>4. \A k \in 1..n : ms[k].from = s /\ ms[k].to = 0 /\ ms[k].v = vs[k]
  BY <1>2
<1>5. W(0) = V
  <2>1. V = [q \in DOMAIN V |-> V[q]]
    BY DEF Held
  <2> QED
    BY <1>1, <2>1
<1>6. ASSUME NEW k \in 1..n
      PROVE  \E U : LeavesTo(ms[k], W(k - 1), U) /\ EntersTo(ms[k], rest, U, W(k))
  <2>1. PICK w \in V[s] : w \notin ToSet(vs)
    OBVIOUS
  <2>2. DOMAIN W(k - 1) = DOMAIN V /\ W(k - 1)[s] = V[s] \ First(vs, k - 1)
    OBVIOUS
  <2>3. vs[k] \in W(k - 1)[s] /\ w \in W(k - 1)[s] /\ w # vs[k]
    BY <1>1, <2>1, <2>2
  <2>4. W(k) = [W(k - 1) EXCEPT ![s] = @ \ {vs[k]}]
    BY <1>1
  <2> HIDE DEF W
  <2>5. LeavesTo(ms[k], W(k - 1), W(k))
    BY <1>4, <2>2, <2>3, <2>4 DEF LeavesTo
  <2>6. EntersTo(ms[k], rest, W(k), W(k))
    BY <1>4 DEF EntersTo
  <2> QED
    BY <2>5, <2>6
<1> HIDE DEF W
<1>7. g[0] = V /\ g[n] = W(n)
  BY <1>1, <1>5
<1>8. \A k \in 1..n : g[k] = W(k) /\ g[k - 1] = W(k - 1)
  BY <1>1
<1> HIDE DEF g, S
<1>9. \A k \in 1..Len(ms) : \E U : LeavesTo(ms[k], g[k - 1], U) /\ EntersTo(ms[k], rest, U, g[k])
  BY <1>3, <1>6, <1>8
<1>10. Held(y, from, rest, g[0])
  BY <1>7
<1>11. Held(MoveAll(y, ms), from, rest, g[Len(ms)])
  BY <1>3, <1>9, <1>10, MoveAllWork
<1>12. W(n) = [V EXCEPT ![s] = @ \ ToSet(vs)]
  BY <1>1 DEF W
<1> QED
  BY <1>3, <1>7, <1>11, <1>12 DEF ms

\* The vertices of a path, on the way, enter a route before one of its vertices.
LEMMA EnteringWork ==
    ASSUME NEW y, NEW from, NEW rest, NEW V, Held(y, from, rest, V), NEW t \in DOMAIN V,
           NEW vs, IsPath(vs), ToSet(vs) \subseteq vertices \ CustomersOf(rest),
           ToSet(vs) \cap V[t] = {}, \A s \in DOMAIN V : ToSet(vs) \cap V[s] \subseteq {depot},
           NEW where \in V[t]
    PROVE  /\ Held(MoveAll(y, Entering(t, where, vs)), from, rest,
                   [V EXCEPT ![t] = @ \cup ToSet(vs)])
           /\ \E S : Entering(t, where, vs) \in Seq(S)
<1> DEFINE n == Len(vs)
           ms == Entering(t, where, vs)
           W(k) == [V EXCEPT ![t] = @ \cup First(vs, k)]
           g == [k \in 0..n |-> W(k)]
           S == {ms[k] : k \in 1..n}
<1>1. /\ n \in Nat /\ DOMAIN vs = 1..n /\ First(vs, 0) = {} /\ First(vs, n) = ToSet(vs)
      /\ \A k \in 1..n : /\ First(vs, k) = First(vs, k - 1) \cup {vs[k]}
                         /\ vs[k] \notin First(vs, k - 1)
                         /\ First(vs, k) \subseteq ToSet(vs)
      /\ \A k \in 1..n : vs[k] \in ToSet(vs)
  BY PathFacts, PathSet, FirstFacts
<1>2. /\ ms = [k \in 1..n |-> [from |-> 0, to |-> t, where |-> where, v |-> vs[k]]]
  BY <1>1 DEF Entering
<1> HIDE DEF n, ms
<1>3. ms \in Seq(S) /\ Len(ms) = n
  BY <1>1, <1>2
<1>4. \A k \in 1..n : ms[k].from = 0 /\ ms[k].to = t /\ ms[k].v = vs[k] /\ ms[k].where = where
  BY <1>2
<1>5. W(0) = V
  <2>1. V = [q \in DOMAIN V |-> V[q]]
    BY DEF Held
  <2> QED
    BY <1>1, <2>1
<1>6. ASSUME NEW k \in 1..n
      PROVE  \E U : LeavesTo(ms[k], W(k - 1), U) /\ EntersTo(ms[k], rest, U, W(k))
  <2>1. DOMAIN W(k - 1) = DOMAIN V /\ W(k - 1)[t] = V[t] \cup First(vs, k - 1)
        /\ \A s \in DOMAIN V : s # t => W(k - 1)[s] = V[s]
    OBVIOUS
  <2>2. vs[k] \notin W(k - 1)[t] /\ where \in W(k - 1)[t]
        /\ vs[k] \in vertices \ CustomersOf(rest)
        /\ \A s \in DOMAIN V : vs[k] # depot => vs[k] \notin W(k - 1)[s]
    BY <1>1, <2>1
  <2>3. W(k) = [W(k - 1) EXCEPT ![t] = @ \cup {vs[k]}]
    BY <1>1
  <2> HIDE DEF W
  <2>4. LeavesTo(ms[k], W(k - 1), W(k - 1))
    BY <1>4 DEF LeavesTo
  <2>5. EntersTo(ms[k], rest, W(k - 1), W(k))
    BY <1>4, <2>1, <2>2, <2>3 DEF EntersTo
  <2> QED
    BY <2>4, <2>5
<1> HIDE DEF W
<1>7. g[0] = V /\ g[n] = W(n)
  BY <1>1, <1>5
<1>8. \A k \in 1..n : g[k] = W(k) /\ g[k - 1] = W(k - 1)
  BY <1>1
<1> HIDE DEF g, S
<1>9. \A k \in 1..Len(ms) : \E U : LeavesTo(ms[k], g[k - 1], U) /\ EntersTo(ms[k], rest, U, g[k])
  BY <1>3, <1>6, <1>8
<1>10. Held(y, from, rest, g[0])
  BY <1>7
<1>11. Held(MoveAll(y, ms), from, rest, g[Len(ms)])
  BY <1>3, <1>9, <1>10, MoveAllWork
<1>12. W(n) = [V EXCEPT ![t] = @ \cup ToSet(vs)]
  BY <1>1 DEF W
<1> QED
  BY <1>3, <1>7, <1>11, <1>12 DEF ms

\* The customers of a path go from one route to another, each before a vertex
\* that was there or one that went before it.
LEMMA CarryWork ==
    ASSUME NEW y, NEW from, NEW rest, NEW V, Held(y, from, rest, V),
           NEW s \in DOMAIN V, NEW t \in DOMAIN V, s # t,
           NEW vs, IsPath(vs), ToSet(vs) \subseteq V[s], V[s] \ ToSet(vs) # {},
           depot \notin ToSet(vs), NEW S, NEW ms \in Seq(S), Len(ms) = Len(vs),
           \A k \in 1..Len(vs) : ms[k].from = s /\ ms[k].to = t /\ ms[k].v = vs[k],
           \A k \in 1..Len(vs) : ms[k].where \in V[t] \/ (k > 1 /\ ms[k].where = vs[k - 1])
    PROVE  Held(MoveAll(y, ms), from, rest,
                [V EXCEPT ![s] = @ \ ToSet(vs), ![t] = @ \cup ToSet(vs)])
<1> DEFINE n == Len(vs)
           L(k) == [V EXCEPT ![s] = @ \ First(vs, k), ![t] = @ \cup First(vs, k - 1)]
           W(k) == [V EXCEPT ![s] = @ \ First(vs, k), ![t] = @ \cup First(vs, k)]
           g == [k \in 0..n |-> W(k)]
<1>1. /\ n \in Nat /\ First(vs, 0) = {} /\ First(vs, n) = ToSet(vs)
      /\ \A k \in 1..n : /\ First(vs, k) = First(vs, k - 1) \cup {vs[k]}
                         /\ vs[k] \notin First(vs, k - 1)
                         /\ First(vs, k) \subseteq ToSet(vs)
      /\ \A k \in 1..n : vs[k] \in ToSet(vs)
  BY PathFacts, PathSet, FirstFacts
<1>3. Len(ms) = n
  OBVIOUS
<1>4. /\ \A k \in 1..n : ms[k].from = s /\ ms[k].to = t /\ ms[k].v = vs[k]
      /\ \A k \in 1..n : ms[k].where \in V[t] \/ (k > 1 /\ ms[k].where = vs[k - 1])
  OBVIOUS
<1> HIDE DEF n
<1>5. W(0) = V
  <2>1. V = [q \in DOMAIN V |-> V[q]]
    BY DEF Held
  <2> QED
    BY <1>1, <2>1
<1>6. ASSUME NEW k \in 1..n
      PROVE  LeavesTo(ms[k], W(k - 1), L(k)) /\ EntersTo(ms[k], rest, L(k), W(k))
  <2>1. PICK w \in V[s] : w \notin ToSet(vs)
    OBVIOUS
  <2>2. DOMAIN W(k - 1) = DOMAIN V /\ W(k - 1)[s] = V[s] \ First(vs, k - 1)
    OBVIOUS
  <2>3. vs[k] \in W(k - 1)[s] /\ w \in W(k - 1)[s] /\ w # vs[k]
    BY <1>1, <2>1, <2>2
  <2>4. L(k) = [W(k - 1) EXCEPT ![s] = @ \ {vs[k]}]
    BY <1>1
  <2>5. /\ DOMAIN L(k) = DOMAIN V /\ L(k)[s] = V[s] \ First(vs, k)
        /\ L(k)[t] = V[t] \cup First(vs, k - 1)
        /\ \A q \in DOMAIN V : q # s /\ q # t => L(k)[q] = V[q]
    OBVIOUS
  <2>6. W(k) = [L(k) EXCEPT ![t] = @ \cup {vs[k]}]
    BY <1>1
  <2>7. vs[k] \in vertices \ CustomersOf(rest) /\ vs[k] # depot
        /\ \A q \in DOMAIN V : q # s => vs[k] \notin V[q]
    <3>1. vs[k] \in V[s] /\ vs[k] # depot
      BY <1>1
    <3> QED
      BY <3>1 DEF Held
  <2>8. ms[k].where \in L(k)[t]
    <3>1. CASE ms[k].where \in V[t]
      BY <2>5, <3>1
    <3>2. CASE k > 1 /\ ms[k].where = vs[k - 1]
      <4>1. k - 1 \in 1..n
        BY <1>1, <3>2
      <4>2. vs[k - 1] \in First(vs, k - 1)
        <5> DEFINE l == k - 1
        <5>1. l \in 1..n
          BY <4>1
        <5> HIDE DEF l
        <5>2. vs[l] \in First(vs, l)
          BY <1>1, <5>1
        <5> QED
          BY <5>2 DEF l
      <4> QED
        BY <2>5, <3>2, <4>2
    <3> QED
      BY <1>4, <3>1, <3>2
  <2>9. \A q \in DOMAIN V : vs[k] \notin L(k)[q]
    BY <1>1, <2>5, <2>7
  <2> HIDE DEF W, L
  <2>10. LeavesTo(ms[k], W(k - 1), L(k))
    <3> DEFINE before == W(k - 1)
               then == L(k)
    <3>1. s \in DOMAIN before /\ vs[k] \in before[s] /\ before[s] # {vs[k]}
          /\ then = [before EXCEPT ![s] = @ \ {vs[k]}]
      BY <2>2, <2>3, <2>4
    <3>2. ms[k].from = s /\ ms[k].v = vs[k]
      BY <1>4
    <3> HIDE DEF before, then
    <3>3. LeavesTo(ms[k], before, then)
      BY <3>1, <3>2 DEF LeavesTo
    <3> QED
      BY <3>3 DEF before, then
  <2>11. EntersTo(ms[k], rest, L(k), W(k))
    BY <1>4, <2>5, <2>6, <2>7, <2>8, <2>9 DEF EntersTo
  <2> QED
    BY <2>10, <2>11
<1> HIDE DEF W, L
<1>7. g[0] = V /\ g[n] = W(n)
  BY <1>1, <1>5
<1>8. \A k \in 1..n : g[k] = W(k) /\ g[k - 1] = W(k - 1)
  BY <1>1
<1> HIDE DEF g
<1>9. \A k \in 1..Len(ms) : \E U : LeavesTo(ms[k], g[k - 1], U) /\ EntersTo(ms[k], rest, U, g[k])
  BY <1>3, <1>6, <1>8
<1>10. Held(y, from, rest, g[0])
  BY <1>7
<1>11. Held(MoveAll(y, ms), from, rest, g[Len(ms)])
  BY <1>3, <1>9, <1>10, MoveAllWork
<1>12. W(n) = [V EXCEPT ![s] = @ \ ToSet(vs), ![t] = @ \cup ToSet(vs)]
  BY <1>1 DEF W
<1> QED
  BY <1>3, <1>7, <1>11, <1>12

-----------------------------------------------------------------------------
(* Before and after a move                                                 *)

\* Every route has the depot and is within the capacity.
Good(sol) ==
    /\ WellFormed(sol)
    /\ \A r \in sol : depot \in ToSet(r) /\ Load(r) <= Capacity

\* What a move of the local search makes of a solution and its lists.
Keeps(from, x, y) ==
    /\ IsWork(y) /\ Linked(from, y) /\ SameElsewhere(y, x)
    /\ Good(y.sol) /\ CustomersOf(y.sol) = CustomersOf(x.sol)

\* The vertices of the routes in hand, of one or of two.
HandOf(ri) == [s \in {1} |-> ToSet(ri)]
HandsOf(ri, rj) == [s \in {1, 2} |-> IF s = 1 THEN ToSet(ri) ELSE ToSet(rj)]

LEMMA HeldAtFirst ==
    ASSUME NEW x, NEW from, IsWork(x), Linked(from, x), WellFormed(x.sol),
           NEW e, e.ri \in x.sol, e.rj \in x.sol
    PROVE  /\ e.ri = e.rj =>
                 Held(WithRoutes(x, e), from, x.sol \ {e.ri}, HandOf(e.ri))
           /\ e.ri # e.rj =>
                 Held(WithRoutes(x, e), from, x.sol \ {e.ri, e.rj}, HandsOf(e.ri, e.rj))
<1> DEFINE ri == e.ri
           rj == e.rj
           sol == x.sol
           y == WithRoutes(x, e)
<1>1. /\ y.sol = sol /\ y.do = x.do /\ y.undo = x.undo /\ y.route = <<ri, rj>>
      /\ IsWork(y) /\ "route" \in DOMAIN y
  BY DEF WithRoutes, IsWork
<1> HIDE DEF y
<1>2. Linked(from, y)
  BY <1>1 DEF Linked
<1>3. DOMAIN y.route = {1, 2} /\ y.route[1] = ri /\ y.route[2] = rj
  BY <1>1
<1>4. /\ WellFormed(sol) /\ ri \in sol /\ rj \in sol
      /\ \A r \in sol : /\ IsRoute(r) /\ IsPath(r) /\ ServedBy(r) # {} /\ IfServing(r) = {r}
                        /\ ToSet(r) \subseteq vertices /\ ServedBy(r) \subseteq customers
                        /\ ServedBy(r) = ToSet(r) \ {depot}
  BY PathSet, ServedByFacts DEF WellFormed, IsRoute, IfServing, ServedBy
<1>5. \A p, q \in sol : p # q => ServedBy(p) \cap ServedBy(q) = {}
  BY DEF WellFormed
<1> HIDE DEF ri, rj, sol
<1>6. ASSUME ri = rj PROVE Held(y, from, sol \ {ri}, HandOf(ri))
  <2> DEFINE V == HandOf(ri)
             rest == sol \ {ri}
  <2>1. DOMAIN V = {1} /\ V[1] = ToSet(ri) /\ V = [s \in DOMAIN V |-> V[s]]
    BY DEF HandOf
  <2> HIDE DEF V
  <2>2. CustomersOf(rest) \cap ToSet(ri) = {}
    <3>1. CustomersOf(rest) \cap ServedBy(ri) = {}
      BY <1>4, <1>5 DEF CustomersOf
    <3>2. depot \notin CustomersOf(rest)
      BY <1>4 DEF CustomersOf
    <3> QED
      BY <1>4, <3>1, <3>2
  <2>3. sol = rest \cup UNION {IfServing(y.route[s]) : s \in DOMAIN V}
    <3>1. IfServing(y.route[1]) = {ri}
      BY <1>3, <1>4
    <3> HIDE DEF rest
    <3>2. UNION {IfServing(y.route[s]) : s \in DOMAIN V} = {ri}
      BY <2>1, <3>1
    <3> QED
      BY <1>4, <3>2 DEF rest
  <2> HIDE DEF rest
  <2>4. /\ \A s \in DOMAIN V : /\ IsRoute(y.route[s]) /\ ToSet(y.route[s]) = V[s]
                               /\ V[s] \subseteq vertices \ CustomersOf(rest)
        /\ \A s, t \in DOMAIN V : s # t => V[s] \cap V[t] \subseteq {depot}
    BY <1>3, <1>4, <2>1, <2>2
  <2> QED
    BY <1>1, <1>2, <1>3, <1>4, <2>1, <2>3, <2>4 DEF Held, V, rest
<1>7. ASSUME ri # rj PROVE Held(y, from, sol \ {ri, rj}, HandsOf(ri, rj))
  <2> DEFINE V == HandsOf(ri, rj)
             rest == sol \ {ri, rj}
  <2>1. /\ DOMAIN V = {1, 2} /\ V[1] = ToSet(ri) /\ V[2] = ToSet(rj)
        /\ V = [s \in DOMAIN V |-> V[s]]
    BY DEF HandsOf
  <2> HIDE DEF V
  <2>2. CustomersOf(rest) \cap ToSet(ri) = {} /\ CustomersOf(rest) \cap ToSet(rj) = {}
    <3>1. CustomersOf(rest) \cap ServedBy(ri) = {} /\ CustomersOf(rest) \cap ServedBy(rj) = {}
      BY <1>4, <1>5 DEF CustomersOf
    <3>2. depot \notin CustomersOf(rest)
      BY <1>4 DEF CustomersOf
    <3> QED
      BY <1>4, <3>1, <3>2
  <2>3. sol = rest \cup UNION {IfServing(y.route[s]) : s \in DOMAIN V}
    <3>1. IfServing(y.route[1]) = {ri} /\ IfServing(y.route[2]) = {rj}
      BY <1>3, <1>4
    <3> HIDE DEF rest
    <3>2. UNION {IfServing(y.route[s]) : s \in DOMAIN V} = {ri, rj}
      BY <2>1, <3>1
    <3> QED
      BY <1>4, <3>2 DEF rest
  <2> HIDE DEF rest
  <2>4. \A s \in DOMAIN V : /\ IsRoute(y.route[s]) /\ ToSet(y.route[s]) = V[s]
                            /\ V[s] \subseteq vertices \ CustomersOf(rest)
    BY <1>3, <1>4, <2>1, <2>2
  <2>5. \A s, t \in DOMAIN V : s # t => V[s] \cap V[t] \subseteq {depot}
    BY <1>4, <1>5, <1>7, <2>1
  <2> QED
    BY <1>1, <1>2, <1>3, <1>4, <2>1, <2>3, <2>4, <2>5 DEF Held, V, rest
<1> QED
  BY <1>6, <1>7 DEF y, ri, rj, sol

LEMMA HeldAtLast ==
    ASSUME NEW z, NEW from, NEW rest, NEW V, Held(z, from, rest, V), NEW x, Good(x.sol),
           rest \subseteq x.sol, IsWork(x),
           \A s \in DOMAIN V : depot \in V[s] /\ LoadOf(V[s]) <= Capacity,
           CustomersOf(x.sol) =
              CustomersOf(rest) \cup ((UNION {V[s] : s \in DOMAIN V}) \ {depot})
    PROVE  Keeps(from, x, Settle(x, z))
<1> DEFINE y == Settle(x, z)
<1>1. /\ y.sol = z.sol /\ y.do = z.do /\ y.undo = z.undo
      /\ IsWork(y) /\ SameElsewhere(y, x)
  BY DEF Settle, IsWork, SameElsewhere
<1> HIDE DEF y
<1>2. WellFormed(z.sol) /\ Linked(from, z)
      /\ z.sol = rest \cup UNION {IfServing(z.route[s]) : s \in DOMAIN V}
  BY DEF Held
<1>3. Linked(from, y)
  BY <1>1, <1>2 DEF Linked
<1>4. ASSUME NEW r \in z.sol PROVE depot \in ToSet(r) /\ Load(r) <= Capacity
  <2>1. CASE r \in rest
    BY <2>1 DEF Good
  <2>2. CASE r \notin rest
    <3>1. PICK s \in DOMAIN V : r \in IfServing(z.route[s])
      BY <1>2, <2>2
    <3>2. r = z.route[s]
      BY <3>1 DEF IfServing
    <3>3. IsPath(r) /\ ToSet(r) = V[s]
      BY <3>2, HeldRoute
    <3> QED
      BY <3>3, LoadOfPath
  <2> QED
    BY <2>1, <2>2
<1>5. CustomersOf(z.sol) = CustomersOf(rest) \cup ((UNION {V[s] : s \in DOMAIN V}) \ {depot})
  <2>1. ASSUME NEW s \in DOMAIN V PROVE UNION {ServedBy(r) : r \in IfServing(z.route[s])} = V[s] \ {depot}
    <3>1. ServedBy(z.route[s]) = V[s] \ {depot}
      BY HeldRoute DEF ServedBy
    <3> QED
      BY <3>1 DEF IfServing
  <2>2. CustomersOf(z.sol) \subseteq CustomersOf(rest) \cup ((UNION {V[s] : s \in DOMAIN V}) \ {depot})
    <3> SUFFICES ASSUME NEW r \in z.sol, r \notin rest, NEW c \in ServedBy(r)
                 PROVE  \E s \in DOMAIN V : c \in V[s] \ {depot}
      BY DEF CustomersOf
    <3>1. PICK s \in DOMAIN V : r \in IfServing(z.route[s])
      BY <1>2
    <3> QED
      BY <2>1, <3>1
  <2>3. CustomersOf(rest) \subseteq CustomersOf(z.sol)
    BY <1>2 DEF CustomersOf
  <2>4. ASSUME NEW s \in DOMAIN V, NEW c \in V[s], c # depot PROVE c \in CustomersOf(z.sol)
    <3>1. PICK r \in IfServing(z.route[s]) : c \in ServedBy(r)
      BY <2>1, <2>4
    <3>2. r \in z.sol
      BY <1>2
    <3> QED
      BY <3>1, <3>2 DEF CustomersOf
  <2> QED
    BY <2>2, <2>3, <2>4
<1>6. Good(y.sol)
  BY <1>1, <1>2, <1>4 DEF Good
<1> QED
  BY <1>1, <1>3, <1>5, <1>6 DEF Keeps, y

-----------------------------------------------------------------------------
(* The paths around i and j                                                *)

\* The n vertices of a sequence from its lo-th one on.
Part(t, lo, n) == {t[k] : k \in lo..(lo + n - 1)}

\* A stretch that does not meet itself is a part of the route, opened anywhere.
LEMMA StretchIs ==
    ASSUME NEW r, IsPath(r), NEW w \in ToSet(r), NEW p \in 1..Len(r), NEW n \in Nat,
           NEW a \in Int, 0 - Len(r) <= a, a + n - 1 <= Len(r),
           NEW lo \in 1..(Len(r) + 1), lo + n - 1 <= Len(r),
           lo = p + a \/ lo = p + a - Len(r) \/ lo = p + a + Len(r)
    PROVE  LET t == Opened(r, w)
               path == Stretch(r, t[p], a, n)
           IN  /\ IsPath(path) /\ Len(path) = n
               /\ ToSet(path) = Part(t, lo, n)
               /\ ToSet(path) \subseteq ToSet(r)
<1> DEFINE t == Opened(r, w)
           path == Stretch(r, t[p], a, n)
           hi == lo + n - 1
           part == SubSeq(t, lo, hi)
           L == Len(r)
<1>1. IsPath(t) /\ Len(t) = L /\ ToSet(t) = ToSet(r) /\ L \in Nat
  BY OpenedFacts, PathFacts
<1>2. hi \in 0..L /\ lo <= hi + 1 /\ hi - lo + 1 = n /\ lo \in Int
  BY <1>1
<1>3. /\ IsPath(part) /\ Len(part) = n /\ \A k \in 1..n : part[k] = t[lo + k - 1]
      /\ ToSet(part) = {t[k] : k \in lo..hi}
  <2> HIDE DEF hi, t, L
  <2> QED
    BY <1>1, <1>2, PartFacts
<1>4. ASSUME NEW k \in 1..n PROVE Step(r, t[p], a + k - 1) = t[lo + k - 1]
  <2> DEFINE d == a + k - 1
             q == lo + k - 1
  <2>0. L \in Nat /\ k \in 1..n /\ n \in Nat /\ a \in Int /\ lo \in 1..(L + 1) /\ p \in 1..L
    BY <1>1
  <2> HIDE DEF L
  <2>1. d \in Int /\ 0 - L <= d /\ d <= L /\ q \in 1..L
    BY <2>0 DEF L
  <2>2. q = p + d \/ q = p + d - L \/ q = p + d + L
    BY <2>0 DEF L
  <2> HIDE DEF d, q, t
  <2>3. d \in (0 - Len(r))..Len(r) /\ q \in 1..Len(r)
        /\ (q = p + d \/ q = p + d - Len(r) \/ q = p + d + Len(r))
    BY <2>0, <2>1, <2>2 DEF L
  <2>4. Step(r, Opened(r, w)[p], d) = Opened(r, w)[q]
    BY <2>3, StepIs
  <2> QED
    BY <2>4 DEF d, q, t
<1>5. path = [k \in 1..n |-> t[lo + k - 1]]
  BY <1>4 DEF Stretch
<1>6. part = [k \in 1..n |-> t[lo + k - 1]]
  BY DEF t, hi
<1>7. path = part
  BY <1>5, <1>6
<1> HIDE DEF path, part, t
<1>8. ToSet(part) \subseteq ToSet(r)
  <2>1. \A k \in 1..L : t[k] \in ToSet(r)
    BY <1>1, PathSet
  <2> QED
    BY <1>1, <1>2, <1>3, <2>1
<1> QED
  BY <1>3, <1>7, <1>8 DEF path, part, t, hi, Part

\* A vertex that is not in a stretch is not at one of its distances.
LEMMA Avoiding ==
    ASSUME NEW r, IsPath(r), NEW w \in ToSet(r), NEW p \in 1..Len(r), NEW q \in 1..Len(r),
           NEW n \in Nat, NEW a \in Int,
           Opened(r, w)[q] \notin ToSet(Stretch(r, Opened(r, w)[p], a, n)),
           NEW d \in (0 - Len(r))..Len(r), q = p + d \/ q = p + d - Len(r) \/ q = p + d + Len(r)
    PROVE  ~(a <= d /\ d <= a + n - 1)
<1> DEFINE t == Opened(r, w)
           path == Stretch(r, t[p], a, n)
           k == d - a + 1
<1> SUFFICES ASSUME a <= d, d <= a + n - 1 PROVE FALSE
  OBVIOUS
<1>1. k \in 1..n /\ a + k - 1 = d
  OBVIOUS
<1>2. Step(r, t[p], d) = t[q]
  BY StepIs
<1> HIDE DEF k, t
<1>3. DOMAIN path = 1..n /\ path[k] = t[q]
  BY <1>1, <1>2 DEF Stretch
<1> HIDE DEF path
<1>4. t[q] \in ToSet(path)
  BY <1>1, <1>3 DEF ToSet
<1> QED
  BY <1>4 DEF t, path

\* The place of a vertex in an opened route.
LEMMA PlaceIn ==
    ASSUME NEW r, IsPath(r), NEW w \in ToSet(r), NEW v \in ToSet(r)
    PROVE  /\ \E x \in 1..Len(r) : Opened(r, w)[x] = v /\ (v # w => x > 1)
           /\ Len(r) \in Nat /\ Len(r) >= 1 /\ 1 \in 1..Len(r)
           /\ Opened(r, w)[1] = w
           /\ \A j, k \in 1..Len(r) : Opened(r, w)[j] = Opened(r, w)[k] => j = k
           /\ \A k \in 1..Len(r) : Opened(r, w)[k] \in ToSet(r)
<1> DEFINE t == Opened(r, w)
           L == Len(r)
<1>1. IsPath(t) /\ Len(t) = L /\ ToSet(t) = ToSet(r) /\ t[1] = w /\ L >= 1 /\ L \in Nat
  BY OpenedFacts, PathFacts
<1> HIDE DEF t, L
<1>2. \E x \in 1..L : t[x] = v /\ (v # w => x > 1)
  <2>1. PICK x \in 1..L : t[x] = v
    BY <1>1, PathSet
  <2>2. v # w => x # 1
    BY <1>1, <2>1
  <2> QED
    BY <1>1, <2>1, <2>2
<1>3. 1 \in 1..L
  BY <1>1
<1>4. \A j, k \in 1..L : t[j] = t[k] => j = k
  BY <1>1, PathFacts
<1>5. \A k \in 1..L : t[k] \in ToSet(r)
  BY <1>1, PathSet
<1> QED
  BY <1>1, <1>2, <1>3, <1>4, <1>5 DEF t, L

\* The path that ends at i, when w is not in it: ir follows.
LEMMA PathUpTo ==
    ASSUME NEW r, IsPath(r), NEW w \in ToSet(r), NEW x \in 1..Len(r),
           NEW m \in 1..3, m < x
    PROVE  LET t == Opened(r, w)
               path == Stretch(r, t[x], 1 - m, m)
               next == Succ(r, t[x])
           IN  /\ IsPath(path) /\ ToSet(path) = Part(t, x - m + 1, m)
               /\ ToSet(path) \subseteq ToSet(r) /\ w \notin ToSet(path)
               /\ next \in ToSet(r) /\ next \notin ToSet(path)
               /\ x < Len(r) => next = t[x + 1]
               /\ x = Len(r) => next = w
<1> DEFINE t == Opened(r, w)
           path == Stretch(r, t[x], 1 - m, m)
           L == Len(r)
<1>1. /\ L \in Nat /\ L >= 1 /\ 1 \in 1..L /\ t[1] = w
      /\ \A j, k \in 1..L : t[j] = t[k] => j = k
      /\ \A k \in 1..L : t[k] \in ToSet(r)
  BY PlaceIn
<1> DEFINE lo == x - m + 1
           a == 1 - m
<1>2. /\ lo \in 1..(L + 1) /\ lo + m - 1 = x /\ lo = x + a /\ 0 - L <= a /\ a + m - 1 <= L
      /\ a \in Int /\ m \in Nat /\ lo + m - 1 <= L /\ lo > 1
  BY <1>1
<1> HIDE DEF lo, a
<1>3. LET s == Stretch(r, t[x], a, m)
      IN  /\ IsPath(s) /\ ToSet(s) = Part(t, lo, m)
          /\ ToSet(s) \subseteq ToSet(r)
  BY <1>2, StretchIs
<1>4. IsPath(path) /\ ToSet(path) = Part(t, lo, m) /\ ToSet(path) \subseteq ToSet(r)
  BY <1>2, <1>3 DEF a
<1> HIDE DEF path, t
<1>5. ASSUME NEW k \in 1..L, k < lo \/ k > x PROVE t[k] \notin ToSet(path)
  <2>1. ASSUME NEW l \in lo..x PROVE t[l] # t[k]
    <3>1. l \in 1..L /\ l # k
      BY <1>2, <1>5
    <3> QED
      BY <1>1, <3>1
  <2>2. Part(t, lo, m) = {t[l] : l \in lo..x}
    BY <1>2 DEF Part
  <2> QED
    BY <1>4, <2>1, <2>2
<1>6. x < L => Succ(r, t[x]) = t[x + 1]
  <2> HAVE x < L
  <2> DEFINE y == x + 1
  <2>1. y \in 1..L /\ 1 \in (0 - L)..L /\ y = x + 1
    BY <1>1
  <2> HIDE DEF y
  <2>2. Step(r, Opened(r, w)[x], 1) = Opened(r, w)[y]
    BY <2>1, StepIs
  <2> QED
    BY <1>1, <2>2, SuccIs DEF y, t
<1>7. x = L => Succ(r, t[x]) = w
  <2> HAVE x = L
  <2>1. 1 \in (0 - L)..L /\ 1 = x + 1 - L
    BY <1>1
  <2>2. Step(r, Opened(r, w)[x], 1) = Opened(r, w)[1]
    BY <1>1, <2>1, StepIs
  <2> QED
    BY <1>1, <2>2, SuccIs DEF t
<1>8. w \notin ToSet(path)
  BY <1>1, <1>2, <1>5
<1>9. Succ(r, t[x]) \in ToSet(r) /\ Succ(r, t[x]) \notin ToSet(path)
  <2>1. x < L \/ x = L
    BY <1>1
  <2>2. x < L => x + 1 \in 1..L /\ x + 1 > x
    BY <1>1
  <2> QED
    BY <1>1, <1>5, <1>6, <1>7, <1>8, <2>1, <2>2
<1> QED
  BY <1>4, <1>6, <1>7, <1>8, <1>9 DEF path, t, lo

LEMMA PartOutside ==
    ASSUME NEW r, IsPath(r), NEW w \in ToSet(r), NEW lo \in Nat, NEW n \in Nat,
           lo >= 1, lo + n - 1 <= Len(r), NEW k \in 1..Len(r), k < lo \/ k > lo + n - 1
    PROVE  Opened(r, w)[k] \notin Part(Opened(r, w), lo, n)
<1> DEFINE t == Opened(r, w)
           L == Len(r)
<1>1. L \in Nat /\ \A i, j \in 1..L : t[i] = t[j] => i = j
  BY PlaceIn
<1> HIDE DEF t
<1>2. ASSUME NEW l \in lo..(lo + n - 1) PROVE t[l] # t[k]
  <2>1. l \in 1..L /\ l # k
    BY <1>1
  <2> QED
    BY <1>1, <2>1
<1> QED
  BY <1>2 DEF Part, t

\* The path that ends before v, opened at a vertex that is not in it.
LEMMA PathBefore ==
    ASSUME NEW r, IsPath(r), NEW w \in ToSet(r), NEW x \in 1..Len(r), NEW n \in 0..3,
           n < x - 1
    PROVE  LET t == Opened(r, w)
               path == Stretch(r, t[x], 0 - n, n)
           IN  /\ IsPath(path) /\ ToSet(path) \subseteq ToSet(r) /\ t[x] \notin ToSet(path)
               /\ Step(r, t[x], 0) = t[x]
<1> DEFINE t == Opened(r, w)
           path == Stretch(r, t[x], 0 - n, n)
           L == Len(r)
           a == 0 - n
           lo == x - n
<1>1. L \in Nat /\ L >= 1 /\ 1 \in 1..L /\ t[1] = w
  BY PlaceIn
<1>2. /\ lo \in Nat /\ lo >= 2 /\ lo \in 1..(L + 1) /\ lo + n - 1 <= L /\ lo = x + a
      /\ 0 - L <= a /\ a + n - 1 <= L /\ a \in Int /\ n \in Nat
  BY <1>1
<1>3. x > lo + n - 1
  BY <1>1
<1> HIDE DEF a, lo
<1>4. LET s == Stretch(r, t[x], a, n)
      IN  /\ IsPath(s) /\ ToSet(s) = Part(t, lo, n) /\ ToSet(s) \subseteq ToSet(r)
  BY <1>2, StretchIs
<1>5. IsPath(path) /\ ToSet(path) = Part(t, lo, n) /\ ToSet(path) \subseteq ToSet(r)
  BY <1>4 DEF a
<1>6. t[x] \notin Part(t, lo, n)
  <2>1. lo >= 1
    BY <1>2
  <2> QED
    BY <1>2, <1>3, <2>1, PartOutside
<1>7. Step(r, t[x], 0) = t[x]
  <2>1. 0 \in (0 - L)..L /\ x = x + 0
    BY <1>1
  <2> QED
    BY <2>1, StepIs
<1> QED
  BY <1>5, <1>6, <1>7

\* The path that begins after v.
LEMMA PathAfter ==
    ASSUME NEW r, IsPath(r), NEW v \in ToSet(r), NEW n \in 0..3, n < Len(r)
    PROVE  LET t == Opened(r, v)
               path == Stretch(r, v, 1, n)
               next == Step(r, v, n + 1)
           IN  /\ IsPath(path) /\ ToSet(path) = Part(t, 2, n)
               /\ ToSet(path) \subseteq ToSet(r) /\ v \notin ToSet(path)
               /\ next \in ToSet(r) /\ next \notin ToSet(path)
               /\ n + 1 < Len(r) => next = t[n + 2]
<1> DEFINE t == Opened(r, v)
           path == Stretch(r, v, 1, n)
           L == Len(r)
<1>1. /\ L \in Nat /\ L >= 1 /\ 1 \in 1..L /\ t[1] = v
      /\ \A k \in 1..L : t[k] \in ToSet(r)
  BY PlaceIn
<1>2. /\ 2 \in 1..(L + 1) /\ 2 + n - 1 <= L /\ 2 = 1 + 1 /\ 0 - L <= 1 /\ 1 + n - 1 <= L
      /\ 1 \in Int /\ n \in Nat /\ 2 \in Nat
  BY <1>1
<1>3. LET s == Stretch(r, t[1], 1, n)
      IN  /\ IsPath(s) /\ ToSet(s) = Part(t, 2, n) /\ ToSet(s) \subseteq ToSet(r)
  BY <1>1, <1>2, StretchIs
<1>4. IsPath(path) /\ ToSet(path) = Part(t, 2, n) /\ ToSet(path) \subseteq ToSet(r)
  BY <1>1, <1>3
<1>5. v \notin Part(t, 2, n)
  BY <1>1, <1>2, PartOutside
<1> DEFINE d == n + 1
<1>6. CASE n + 1 < L
  <2> DEFINE q == n + 2
  <2>1. q \in 1..L /\ q = 1 + d /\ d \in (0 - L)..L /\ q > 2 + n - 1
    BY <1>1, <1>6
  <2> HIDE DEF q, d
  <2>2. Step(r, t[1], d) = t[q]
    BY <1>1, <2>1, StepIs
  <2>3. t[q] \notin Part(t, 2, n)
    BY <1>1, <1>2, <2>1, PartOutside
  <2> QED
    BY <1>1, <1>4, <1>5, <2>1, <2>2, <2>3 DEF d, q
<1>7. CASE n + 1 = L
  <2>1. 1 = 1 + d - L /\ d \in (0 - L)..L
    BY <1>1, <1>7
  <2> HIDE DEF d
  <2>2. Step(r, t[1], d) = t[1]
    BY <1>1, <2>1, StepIs
  <2> QED
    BY <1>1, <1>4, <1>5, <1>7, <2>2 DEF d
<1> QED
  BY <1>1, <1>6, <1>7

\* Two parts of an opened route.
LEMMA PartsApart ==
    ASSUME NEW r, IsPath(r), NEW w \in ToSet(r), NEW lo \in Nat, NEW n \in Nat,
           NEW hi \in Nat, NEW m \in Nat,
           lo >= 1, lo + n <= hi, hi + m - 1 <= Len(r)
    PROVE  Part(Opened(r, w), lo, n) \cap Part(Opened(r, w), hi, m) = {}
<1> DEFINE t == Opened(r, w)
           L == Len(r)
<1>1. L \in Nat /\ \A i, j \in 1..L : t[i] = t[j] => i = j
  BY PlaceIn
<1> HIDE DEF t
<1>2. ASSUME NEW l \in lo..(lo + n - 1), NEW k \in hi..(hi + m - 1) PROVE t[l] # t[k]
  <2>1. l \in 1..L /\ k \in 1..L /\ l # k
    BY <1>1
  <2> QED
    BY <1>1, <2>1
<1> QED
  BY <1>2 DEF Part, t

\* The paths and the vertices they are put before do not meet.
Apart(ri, rj, ipath, ir, jpath, jr) ==
    /\ IsPath(ipath) /\ ToSet(ipath) \subseteq ToSet(ri)
    /\ IsPath(jpath) /\ ToSet(jpath) \subseteq ToSet(rj)
    /\ ToSet(ipath) \cap ToSet(jpath) = {}
    /\ ir \in ToSet(ri) \ (ToSet(ipath) \cup ToSet(jpath))
    /\ jr \in ToSet(rj) \ (ToSet(ipath) \cup ToSet(jpath))

\* The same, opened at v itself.
LEMMA PathBeforeFirst ==
    ASSUME NEW r, IsPath(r), NEW v \in ToSet(r), NEW n \in 0..3, n < Len(r)
    PROVE  LET path == Stretch(r, v, 0 - n, n)
           IN  /\ IsPath(path) /\ ToSet(path) = Part(Opened(r, v), Len(r) - n + 1, n)
               /\ ToSet(path) \subseteq ToSet(r) /\ v \notin ToSet(path)
               /\ Step(r, v, 0) = v
<1> DEFINE t == Opened(r, v)
           path == Stretch(r, v, 0 - n, n)
           L == Len(r)
           a == 0 - n
           lo == L - n + 1
<1>1. L \in Nat /\ L >= 1 /\ 1 \in 1..L /\ t[1] = v
  BY PlaceIn
<1>2. /\ lo \in Nat /\ lo >= 2 /\ lo \in 1..(L + 1) /\ lo + n - 1 <= L /\ lo = 1 + a + L
      /\ 0 - L <= a /\ a + n - 1 <= L /\ a \in Int /\ n \in Nat
  BY <1>1
<1> HIDE DEF a, lo
<1>3. LET s == Stretch(r, t[1], a, n)
      IN  /\ IsPath(s) /\ ToSet(s) = Part(t, lo, n) /\ ToSet(s) \subseteq ToSet(r)
  BY <1>1, <1>2, StretchIs
<1>4. IsPath(path) /\ ToSet(path) = Part(t, lo, n) /\ ToSet(path) \subseteq ToSet(r)
  BY <1>1, <1>3 DEF a
<1>5. v \notin Part(t, lo, n)
  <2>1. lo >= 1 /\ 1 < lo
    BY <1>2
  <2> QED
    BY <1>1, <1>2, <2>1, PartOutside
<1>6. Step(r, v, 0) = v
  <2>1. 0 \in (0 - L)..L /\ 1 = 1 + 0
    BY <1>1
  <2>2. Step(r, t[1], 0) = t[1]
    BY <1>1, <2>1, StepIs
  <2> QED
    BY <1>1, <2>2
<1> QED
  BY <1>4, <1>5, <1>6 DEF lo

LEMMA ApartPlain ==
    ASSUME NEW r, IsPath(r), NEW i \in ToSet(r), NEW j \in ToSet(r), i # j,
           NEW m \in 1..3, NEW n \in 0..3,
           i \notin ToSet(Stretch(r, j, 0 - (n + 1), n + 1)),
           j \notin ToSet(Stretch(r, i, 1 - m, m - 1))
    PROVE  Apart(r, r, Stretch(r, i, 1 - m, m), Succ(r, i), Stretch(r, j, 0 - n, n), Step(r, j, 0))
<1> DEFINE t == Opened(r, j)
           L == Len(r)
           ipath == Stretch(r, i, 1 - m, m)
           jpath == Stretch(r, j, 0 - n, n)
<1>1. /\ L \in Nat /\ L >= 1 /\ 1 \in 1..L /\ t[1] = j
      /\ \A k, l \in 1..L : t[k] = t[l] => k = l
      /\ \A k \in 1..L : t[k] \in ToSet(r)
  BY PlaceIn
<1>2. PICK x \in 1..L : t[x] = i /\ x > 1
  BY PlaceIn
<1>3. x <= L - n - 1
  <2> DEFINE d == x - 1 - L
             a == 0 - (n + 1)
             c == n + 1
  <2>1. d \in (0 - L)..L /\ x = 1 + d + L /\ a \in Int /\ c \in Nat
    BY <1>1, <1>2
  <2> HIDE DEF d, a, c
  <2>2. t[x] \notin ToSet(Stretch(r, t[1], a, c))
    BY <1>1, <1>2 DEF a, c
  <2>3. ~(a <= d /\ d <= a + c - 1)
    BY <1>1, <2>1, <2>2, Avoiding
  <2> QED
    BY <1>1, <2>3 DEF a, c, d
<1>4. m < x
  <2> DEFINE d == 1 - x
             a == 1 - m
             c == m - 1
  <2>1. d \in (0 - L)..L /\ 1 = x + d /\ a \in Int /\ c \in Nat
    BY <1>1, <1>2
  <2> HIDE DEF d, a, c
  <2>2. t[1] \notin ToSet(Stretch(r, t[x], a, c))
    BY <1>1, <1>2 DEF a, c
  <2>3. ~(a <= d /\ d <= a + c - 1)
    BY <1>1, <2>1, <2>2, Avoiding
  <2> QED
    BY <1>1, <1>2, <2>3 DEF a, c, d
<1>5. /\ IsPath(ipath) /\ ToSet(ipath) = Part(t, x - m + 1, m) /\ ToSet(ipath) \subseteq ToSet(r)
      /\ j \notin ToSet(ipath) /\ Succ(r, i) \in ToSet(r) /\ Succ(r, i) \notin ToSet(ipath)
      /\ Succ(r, i) = t[x + 1]
  <2>1. x < L
    BY <1>1, <1>3
  <2> DEFINE path == Stretch(r, t[x], 1 - m, m)
             next == Succ(r, t[x])
  <2>2. /\ IsPath(path) /\ ToSet(path) = Part(t, x - m + 1, m) /\ ToSet(path) \subseteq ToSet(r)
        /\ j \notin ToSet(path) /\ next \in ToSet(r) /\ next \notin ToSet(path)
        /\ next = t[x + 1]
    BY <1>4, <2>1, PathUpTo
  <2> HIDE DEF t
  <2> QED
    BY <1>2, <2>2
<1>6. /\ IsPath(jpath) /\ ToSet(jpath) = Part(t, L - n + 1, n) /\ ToSet(jpath) \subseteq ToSet(r)
      /\ j \notin ToSet(jpath) /\ Step(r, j, 0) = j
  <2> DEFINE path == Stretch(r, t[1], 0 - n, n)
             lo == L - n + 1
  <2>1. n < L /\ lo = L - n + 1 /\ lo \in Int
    BY <1>1, <1>2, <1>3
  <2> HIDE DEF lo
  <2>2. /\ IsPath(path) /\ ToSet(path) = Part(t, lo, n) /\ ToSet(path) \subseteq ToSet(r)
        /\ t[1] \notin ToSet(path) /\ Step(r, t[1], 0) = t[1]
    BY <1>1, <2>1, PathBeforeFirst
  <2> HIDE DEF t
  <2> QED
    BY <1>1, <2>2 DEF lo
<1>7. /\ x - m + 1 \in Nat /\ L - n + 1 \in Nat /\ x - m + 1 >= 1 /\ m \in Nat /\ n \in Nat
      /\ (x - m + 1) + m <= L - n + 1 /\ (L - n + 1) + n - 1 <= L /\ x + 1 \in 1..L
      /\ L - n + 1 >= 1 /\ x + 1 < L - n + 1
  BY <1>1, <1>3, <1>4
<1> DEFINE lo == x - m + 1
           hi == L - n + 1
           y == x + 1
<1>8. Part(t, lo, m) \cap Part(t, hi, n) = {}
  <2>1. lo \in Nat /\ hi \in Nat /\ lo >= 1 /\ m \in Nat /\ n \in Nat /\ lo + m <= hi
        /\ hi + n - 1 <= L
    BY <1>7
  <2> HIDE DEF lo, hi
  <2> QED
    BY <2>1, PartsApart
<1>9. t[y] \notin Part(t, hi, n)
  <2>1. hi \in Nat /\ hi >= 1 /\ n \in Nat /\ hi + n - 1 <= L /\ y \in 1..L /\ y < hi
    BY <1>7
  <2> HIDE DEF y, hi
  <2> QED
    BY <2>1, PartOutside
<1> HIDE DEF t, ipath, jpath
<1> QED
  BY <1>5, <1>6, <1>8, <1>9 DEF Apart, ipath, jpath

LEMMA ApartReversing ==
    ASSUME NEW r, IsPath(r), NEW i \in ToSet(r), NEW j \in ToSet(r), i # j,
           NEW m \in 1..3, NEW n \in 0..3,
           j \notin ToSet(Stretch(r, i, 0 - (m + n), m + n))
    PROVE  Apart(r, r, Stretch(r, i, 1 - m, m), Succ(r, i), Stretch(r, j, 1, n), Step(r, j, n + 1))
<1> DEFINE t == Opened(r, j)
           L == Len(r)
           ipath == Stretch(r, i, 1 - m, m)
           jpath == Stretch(r, j, 1, n)
           next == Step(r, j, n + 1)
<1>1. /\ L \in Nat /\ L >= 1 /\ 1 \in 1..L /\ t[1] = j
      /\ \A k, l \in 1..L : t[k] = t[l] => k = l
      /\ \A k \in 1..L : t[k] \in ToSet(r)
  BY PlaceIn
<1>2. PICK x \in 1..L : t[x] = i /\ x > 1
  BY PlaceIn
<1>3. x >= m + n + 2
  <2> DEFINE d == 1 - x
             a == 0 - (m + n)
             c == m + n
  <2>1. d \in (0 - L)..L /\ 1 = x + d /\ a \in Int /\ c \in Nat
    BY <1>1, <1>2
  <2> HIDE DEF d, a, c
  <2>2. t[1] \notin ToSet(Stretch(r, t[x], a, c))
    BY <1>1, <1>2 DEF a, c
  <2>3. ~(a <= d /\ d <= a + c - 1)
    BY <1>1, <2>1, <2>2, Avoiding
  <2> QED
    BY <1>1, <1>2, <2>3 DEF a, c, d
<1>4. /\ IsPath(ipath) /\ ToSet(ipath) = Part(t, x - m + 1, m) /\ ToSet(ipath) \subseteq ToSet(r)
      /\ j \notin ToSet(ipath) /\ Succ(r, i) \in ToSet(r) /\ Succ(r, i) \notin ToSet(ipath)
      /\ x < L => Succ(r, i) = t[x + 1]
      /\ x = L => Succ(r, i) = j
  <2>1. m < x
    BY <1>1, <1>3
  <2> QED
    BY <1>2, <2>1, PathUpTo
<1>5. /\ IsPath(jpath) /\ ToSet(jpath) = Part(t, 2, n) /\ ToSet(jpath) \subseteq ToSet(r)
      /\ j \notin ToSet(jpath) /\ next \in ToSet(r) /\ next \notin ToSet(jpath)
      /\ next = t[n + 2]
  <2>1. n < L /\ n + 1 < L
    BY <1>1, <1>2, <1>3
  <2> QED
    BY <1>1, <2>1, PathAfter
<1> DEFINE lo == x - m + 1
           y == x + 1
           z == n + 2
<1>6. Part(t, 2, n) \cap Part(t, lo, m) = {}
  <2>1. lo \in Nat /\ 2 \in Nat /\ m \in Nat /\ n \in Nat /\ 2 + n <= lo /\ 2 >= 1
        /\ lo + m - 1 <= L
    BY <1>1, <1>3
  <2> HIDE DEF lo
  <2> QED
    BY <2>1, PartsApart
<1>7. t[z] \notin Part(t, lo, m)
  <2>1. lo \in Nat /\ lo >= 1 /\ m \in Nat /\ lo + m - 1 <= L /\ z \in 1..L /\ z < lo
    BY <1>1, <1>3
  <2> HIDE DEF z, lo
  <2> QED
    BY <2>1, PartOutside
<1>8. Succ(r, i) \notin ToSet(jpath)
  <2>1. CASE x = L
    BY <1>4, <1>5, <2>1
  <2>2. CASE x # L
    <3>1. t[y] \notin Part(t, 2, n)
      <4>1. 2 \in Nat /\ 2 >= 1 /\ n \in Nat /\ 2 + n - 1 <= L /\ y \in 1..L /\ y > 2 + n - 1
        BY <1>1, <1>3, <2>2
      <4> HIDE DEF y
      <4> QED
        BY <4>1, PartOutside
    <3>2. x < L
      BY <1>1, <2>2
    <3> QED
      BY <1>4, <1>5, <3>1, <3>2
  <2> QED
    BY <2>1, <2>2
<1> HIDE DEF t, ipath, jpath, next
<1> QED
  BY <1>4, <1>5, <1>6, <1>7, <1>8 DEF Apart, ipath, jpath, next

\* Paths without the depot, of two routes that only share the depot.
LEMMA ApartInter ==
    ASSUME NEW ri, IsPath(ri), NEW rj, IsPath(rj), depot \in ToSet(ri), depot \in ToSet(rj),
           ToSet(ri) \cap ToSet(rj) = {depot}, NEW i \in ToSet(ri), NEW j \in ToSet(rj),
           NEW m \in 1..3, NEW n \in 0..3,
           depot \notin ToSet(Stretch(ri, i, 1 - m, m))
    PROVE  /\ depot \notin ToSet(Stretch(rj, j, 0 - n, n)) =>
                 Apart(ri, rj, Stretch(ri, i, 1 - m, m), Succ(ri, i),
                       Stretch(rj, j, 0 - n, n), Step(rj, j, 0))
           /\ depot \notin ToSet(Stretch(rj, j, 1, n)) =>
                 Apart(ri, rj, Stretch(ri, i, 1 - m, m), Succ(ri, i),
                       Stretch(rj, j, 1, n), Step(rj, j, n + 1))
<1> DEFINE ipath == Stretch(ri, i, 1 - m, m)
<1>1. /\ IsPath(ipath) /\ ToSet(ipath) \subseteq ToSet(ri)
      /\ Succ(ri, i) \in ToSet(ri) \ ToSet(ipath)
  <2> DEFINE t == Opened(ri, depot)
             L == Len(ri)
  <2>1. L \in Nat /\ L >= 1 /\ 1 \in 1..L /\ t[1] = depot
    BY PlaceIn
  <2>2. PICK x \in 1..L : t[x] = i
    BY PlaceIn
  <2>3. m < x
    <3> DEFINE d == 1 - x
               a == 1 - m
    <3>1. d \in (0 - L)..L /\ 1 = x + d /\ a \in Int /\ m \in Nat
      BY <2>1, <2>2
    <3> HIDE DEF d, a
    <3>2. t[1] \notin ToSet(Stretch(ri, t[x], a, m))
      BY <2>1, <2>2 DEF a
    <3>3. ~(a <= d /\ d <= a + m - 1)
      BY <2>1, <3>1, <3>2, Avoiding
    <3> QED
      BY <2>1, <2>2, <3>3 DEF a, d
  <2> QED
    BY <2>2, <2>3, PathUpTo
<1> HIDE DEF ipath
<1>2. ASSUME NEW jpath, NEW jr, depot \notin ToSet(jpath),
             IsPath(jpath), ToSet(jpath) \subseteq ToSet(rj), jr \in ToSet(rj) \ ToSet(jpath)
      PROVE  Apart(ri, rj, ipath, Succ(ri, i), jpath, jr)
  BY <1>1, <1>2 DEF Apart, ipath
<1>3. ASSUME depot \notin ToSet(Stretch(rj, j, 0 - n, n))
      PROVE  Apart(ri, rj, ipath, Succ(ri, i), Stretch(rj, j, 0 - n, n), Step(rj, j, 0))
  <2> DEFINE t == Opened(rj, depot)
             L == Len(rj)
             path == Stretch(rj, j, 0 - n, n)
  <2>1. L \in Nat /\ L >= 1 /\ 1 \in 1..L /\ t[1] = depot
    BY PlaceIn
  <2>2. PICK x \in 1..L : t[x] = j
    BY PlaceIn
  <2> DEFINE a == 0 - n
  <2>3. a \in Int /\ n \in Nat
    OBVIOUS
  <2>4. x = 1 => n < L
    <3> HAVE x = 1
    <3> DEFINE d == 0 - L
    <3>1. d \in (0 - L)..L /\ 1 = 1 + d + L
      BY <2>1
    <3> HIDE DEF d, a
    <3>2. t[1] \notin ToSet(Stretch(rj, t[1], a, n))
      BY <1>3, <2>1, <2>2 DEF a
    <3>3. ~(a <= d /\ d <= a + n - 1)
      BY <2>1, <2>3, <3>1, <3>2, Avoiding
    <3> QED
      BY <2>1, <3>3 DEF a, d
  <2>5. x # 1 => n < x - 1
    <3> HAVE x # 1
    <3> DEFINE d == 1 - x
    <3>1. d \in (0 - L)..L /\ 1 = x + d
      BY <2>1
    <3> HIDE DEF d, a
    <3>2. t[1] \notin ToSet(Stretch(rj, t[x], a, n))
      BY <1>3, <2>1, <2>2 DEF a
    <3>3. ~(a <= d /\ d <= a + n - 1)
      BY <2>1, <2>3, <3>1, <3>2, Avoiding
    <3> QED
      BY <2>1, <2>2, <3>3 DEF a, d
  <2>6. IsPath(path) /\ ToSet(path) \subseteq ToSet(rj) /\ j \notin ToSet(path) /\ Step(rj, j, 0) = j
    <3>1. CASE x = 1
      BY <2>4, <3>1, PathBeforeFirst
    <3>2. CASE x # 1
      <4> HIDE DEF path
      <4>1. LET s == Stretch(rj, t[x], 0 - n, n)
            IN  /\ IsPath(s) /\ ToSet(s) \subseteq ToSet(rj) /\ t[x] \notin ToSet(s)
                /\ Step(rj, t[x], 0) = t[x]
        BY <2>5, <3>2, PathBefore
      <4> QED
        BY <2>2, <4>1 DEF path
    <3> QED
      BY <3>1, <3>2
  <2> HIDE DEF path
  <2> QED
    BY <1>2, <1>3, <2>6 DEF path
<1>4. ASSUME depot \notin ToSet(Stretch(rj, j, 1, n))
      PROVE  Apart(ri, rj, ipath, Succ(ri, i), Stretch(rj, j, 1, n), Step(rj, j, n + 1))
  <2> DEFINE t == Opened(rj, j)
             L == Len(rj)
             path == Stretch(rj, j, 1, n)
  <2>1. L \in Nat /\ L >= 1 /\ 1 \in 1..L /\ t[1] = j
    BY PlaceIn
  <2>2. PICK x \in 1..L : t[x] = depot
    BY PlaceIn
  <2>3. n < L
    <3>1. CASE x = 1
      <4>1. L \in (0 - L)..L /\ 1 = 1 + L - L /\ 1 \in Int /\ n \in Nat
        BY <2>1
      <4>2. t[1] \notin ToSet(Stretch(rj, t[1], 1, n))
        BY <1>4, <2>1, <2>2, <3>1
      <4>3. ~(1 <= L /\ L <= 1 + n - 1)
        BY <2>1, <4>1, <4>2, Avoiding
      <4> QED
        BY <2>1, <4>3
    <3>2. CASE x # 1
      <4> DEFINE d == x - 1
      <4>1. d \in (0 - L)..L /\ x = 1 + d /\ 1 \in Int /\ n \in Nat
        BY <2>1
      <4> HIDE DEF d
      <4>2. t[x] \notin ToSet(Stretch(rj, t[1], 1, n))
        BY <1>4, <2>1, <2>2
      <4>3. ~(1 <= d /\ d <= 1 + n - 1)
        BY <2>1, <4>1, <4>2, Avoiding
      <4> QED
        BY <2>1, <3>2, <4>3 DEF d
    <3> QED
      BY <3>1, <3>2
  <2>4. IsPath(path) /\ ToSet(path) \subseteq ToSet(rj)
        /\ Step(rj, j, n + 1) \in ToSet(rj) \ ToSet(path)
    BY <2>3, PathAfter
  <2> HIDE DEF path
  <2> QED
    BY <1>2, <1>4, <2>4 DEF path
<1> QED
  BY <1>3, <1>4 DEF ipath

\* The routes of i and j.
LEMMA RouteEnds ==
    ASSUME NEW sol, Good(sol), NEW i \in vertices, NEW j \in vertices, i # j,
           IsServed(sol, i), IsServed(sol, j)
    PROVE  LET ri == RouteVia(sol, i, j)
               rj == RouteVia(sol, j, i)
           IN  /\ ri \in sol /\ i \in ToSet(ri) /\ rj \in sol /\ j \in ToSet(rj)
               /\ ri # rj => i # depot /\ j # depot /\ ToSet(ri) \cap ToSet(rj) = {depot}
               /\ IsRoute(ri) /\ IsRoute(rj) /\ depot \in ToSet(ri) /\ depot \in ToSet(rj)
<1>1. /\ WellFormed(sol) /\ \A r \in sol : IsRoute(r) /\ depot \in ToSet(r)
      /\ \A p, q \in sol : p # q => ServedBy(p) \cap ServedBy(q) = {}
  BY DEF Good, WellFormed
<1>2. ASSUME NEW v, v # depot, IsServed(sol, v)
      PROVE  RouteOf(sol, v) \in sol /\ v \in ToSet(RouteOf(sol, v))
  BY <1>1, <1>2, ServedIs, RouteOfFacts
<1> DEFINE ri == RouteVia(sol, i, j)
           rj == RouteVia(sol, j, i)
<1>3. ri = RouteOf(sol, IF i = depot THEN j ELSE i) /\ rj = RouteOf(sol, IF j = depot THEN i ELSE j)
  BY DEF RouteVia
<1>4. ri \in sol /\ i \in ToSet(ri) /\ rj \in sol /\ j \in ToSet(rj)
  <2>1. CASE i = depot
    <3>1. ri = RouteOf(sol, j) /\ rj = RouteOf(sol, j)
      BY <1>3, <2>1
    <3> QED
      BY <1>1, <1>2, <2>1, <3>1
  <2>2. CASE i # depot /\ j = depot
    <3>1. ri = RouteOf(sol, i) /\ rj = RouteOf(sol, i)
      BY <1>3, <2>2
    <3> QED
      BY <1>1, <1>2, <2>2, <3>1
  <2>3. CASE i # depot /\ j # depot
    <3>1. ri = RouteOf(sol, i) /\ rj = RouteOf(sol, j)
      BY <1>3, <2>3
    <3> QED
      BY <1>2, <2>3, <3>1
  <2> QED
    BY <2>1, <2>2, <2>3
<1>5. ri # rj => i # depot /\ j # depot
  BY <1>3
<1> HIDE DEF ri, rj
<1>6. ri # rj => ToSet(ri) \cap ToSet(rj) = {depot}
  <2> HAVE ri # rj
  <2>1. ServedBy(ri) \cap ServedBy(rj) = {}
    BY <1>1, <1>4
  <2> QED
    BY <1>1, <1>4, <2>1 DEF ServedBy
<1> QED
  BY <1>1, <1>4, <1>5, <1>6 DEF ri, rj

LEMMA OperatorFacts ==
    ASSUME NEW o \in AllOperators
    PROVE  /\ o.m \in 1..3 /\ o.n \in 0..3 /\ o.kind \in {"plain", "reversing", "2-opt", "split", "tails"}
           /\ Exchanging(o) <=> o.kind \in {"plain", "reversing"}
           /\ o.kind = "plain" => ~o.both
<1>1. \/ \E m \in 1..3, n \in 0..3 : o = Plain(m, n)
      \/ \E m \in 1..3, n \in 0..3, both \in BOOLEAN : o = Reversing(m, n, both)
      \/ o = Other("2-opt") \/ o = Other("split") \/ o = Other("tails")
  <2>1. \/ o \in {OneZeroExchange, OneOneExchange, TwoZeroExchange, TwoOneExchange, TwoTwoExchange,
                  ThreeZeroExchange, ThreeOneExchange, ThreeTwoExchange, ThreeThreeExchange}
        \/ o \in {RevTwoZeroExchange, RevTwoOneExchange, RevThreeZeroExchange, RevThreeOneExchange}
        \/ o \in RevTwoTwoExchange \cup RevThreeTwoExchange \cup RevThreeThreeExchange
        \/ o \in {TwoOptExchange, SplitExchange, TailsExchange}
    BY DEF AllOperators
  <2>2. 1..3 = {1, 2, 3} /\ 0..3 = {0, 1, 2, 3}
    OBVIOUS
  <2>3. CASE o \in {OneZeroExchange, OneOneExchange, TwoZeroExchange, TwoOneExchange,
                    TwoTwoExchange, ThreeZeroExchange, ThreeOneExchange, ThreeTwoExchange,
                    ThreeThreeExchange}
    BY <2>2, <2>3 DEF OneZeroExchange, OneOneExchange, TwoZeroExchange, TwoOneExchange,
       TwoTwoExchange, ThreeZeroExchange, ThreeOneExchange, ThreeTwoExchange, ThreeThreeExchange
  <2>4. CASE o \in {RevTwoZeroExchange, RevTwoOneExchange, RevThreeZeroExchange, RevThreeOneExchange}
    BY <2>2, <2>4 DEF RevTwoZeroExchange, RevTwoOneExchange, RevThreeZeroExchange,
       RevThreeOneExchange
  <2>5. CASE o \in RevTwoTwoExchange \cup RevThreeTwoExchange \cup RevThreeThreeExchange
    BY <2>2, <2>5 DEF RevTwoTwoExchange, RevThreeTwoExchange, RevThreeThreeExchange
  <2>6. CASE o \in {TwoOptExchange, SplitExchange, TailsExchange}
    BY <2>6 DEF TwoOptExchange, SplitExchange, TailsExchange
  <2> QED
    BY <2>1, <2>3, <2>4, <2>5, <2>6
<1>2. CASE \E m \in 1..3, n \in 0..3 : o = Plain(m, n)
  BY <1>2 DEF Plain, Exchanging
<1>3. CASE \E m \in 1..3, n \in 0..3, both \in BOOLEAN : o = Reversing(m, n, both)
  BY <1>3 DEF Reversing, Exchanging
<1>4. CASE o = Other("2-opt") \/ o = Other("split") \/ o = Other("tails")
  BY <1>4 DEF Other, Exchanging
<1> QED
  BY <1>1, <1>2, <1>3, <1>4

\* The paths of a feasible move, and where they go, do not meet.
LEMMA AroundApart ==
    ASSUME NEW sol, Good(sol), NEW o \in AllOperators, Exchanging(o), NEW mv \in Moves(o),
           IsServed(sol, mv[1]), IsServed(sol, mv[2]), Feasible(o, sol, mv)
    PROVE  LET e == Around(o, sol, mv)
           IN  /\ Apart(e.ri, e.rj, e.ipath, e.ir, e.jpath, e.jr)
               /\ e.ri # e.rj => InterFeasible(o, e)
<1> DEFINE e == Around(o, sol, mv)
           i == mv[1]
           j == mv[2]
           m == o.m
           n == o.n
           ri == RouteVia(sol, i, j)
           rj == RouteVia(sol, j, i)
           before == IF o.kind = "reversing" THEN 0 ELSE n + 1
<1>1. i \in vertices /\ j \in vertices /\ i # j
  BY DEF Moves
<1>2. m \in 1..3 /\ n \in 0..3 /\ o.kind \in {"plain", "reversing"}
  BY OperatorFacts
<1>3. /\ e.ri = ri /\ e.rj = rj /\ e.ipath = Stretch(ri, i, 1 - m, m) /\ e.ir = Succ(ri, i)
      /\ e.jpath = Stretch(rj, j, 1 - before, n) /\ e.jr = Step(rj, j, n + 1 - before)
  BY DEF Around
<1>4. IF e.ri = e.rj THEN IntraFeasible(o, e, i, j) ELSE InterFeasible(o, e)
  <2> HIDE DEF ri, rj, before
  <2>1. /\ Exchanging(o)
        /\ o.kind # "2-opt" /\ o.kind # "split" /\ o.kind # "tails"
    BY <1>2
  <2> QED
    BY <2>1 DEF Feasible
<1>5. o.kind = "plain" => e.jpath = Stretch(rj, j, 0 - n, n) /\ e.jr = Step(rj, j, 0)
  <2> HAVE o.kind = "plain"
  <2>1. before = n + 1
    OBVIOUS
  <2>2. 1 - (n + 1) = 0 - n /\ n + 1 - (n + 1) = 0
    BY <1>2
  <2> HIDE DEF e
  <2> QED
    BY <1>3, <2>1, <2>2
<1>6. o.kind = "reversing" => e.jpath = Stretch(rj, j, 1, n) /\ e.jr = Step(rj, j, n + 1)
  <2> HAVE o.kind = "reversing"
  <2>1. before = 0
    OBVIOUS
  <2>2. 1 - 0 = 1 /\ n + 1 - 0 = n + 1
    BY <1>2
  <2> HIDE DEF e
  <2> QED
    BY <1>3, <2>1, <2>2
<1> HIDE DEF e, before
<1>7. /\ ri \in sol /\ i \in ToSet(ri) /\ rj \in sol /\ j \in ToSet(rj)
      /\ ri # rj => i # depot /\ j # depot /\ ToSet(ri) \cap ToSet(rj) = {depot}
      /\ IsPath(ri) /\ IsPath(rj) /\ depot \in ToSet(ri) /\ depot \in ToSet(rj)
  BY <1>1, RouteEnds DEF IsRoute
<1> HIDE DEF ri, rj, i, j, m, n
<1>8. ASSUME ri = rj PROVE Apart(e.ri, e.rj, e.ipath, e.ir, e.jpath, e.jr)
  <2>1. IntraFeasible(o, e, i, j)
    BY <1>3, <1>4, <1>8
  <2>2. CASE o.kind = "plain"
    <3>1. /\ i \notin ToSet(Stretch(ri, j, 0 - (n + 1), n + 1))
          /\ j \notin ToSet(Stretch(ri, i, 1 - m, m - 1))
      BY <1>3, <2>1, <2>2 DEF IntraFeasible, m, n
    <3>2. Apart(ri, ri, Stretch(ri, i, 1 - m, m), Succ(ri, i), Stretch(ri, j, 0 - n, n), Step(ri, j, 0))
      BY <1>1, <1>2, <1>7, <1>8, <3>1, ApartPlain
    <3> QED
      BY <1>3, <1>5, <1>8, <2>2, <3>2
  <2>3. CASE o.kind = "reversing"
    <3>1. j \notin ToSet(Stretch(ri, i, 0 - (m + n), m + n))
      BY <1>3, <2>1, <2>3 DEF IntraFeasible, m, n
    <3>2. Apart(ri, ri, Stretch(ri, i, 1 - m, m), Succ(ri, i), Stretch(ri, j, 1, n), Step(ri, j, n + 1))
      BY <1>1, <1>2, <1>7, <1>8, <3>1, ApartReversing
    <3> QED
      BY <1>3, <1>6, <1>8, <2>3, <3>2
  <2> QED
    BY <1>2, <2>2, <2>3
<1>9. ASSUME ri # rj
      PROVE  Apart(e.ri, e.rj, e.ipath, e.ir, e.jpath, e.jr) /\ InterFeasible(o, e)
  <2>1. InterFeasible(o, e) /\ depot \notin ToSet(e.ipath) /\ depot \notin ToSet(e.jpath)
    BY <1>3, <1>4, <1>9 DEF InterFeasible
  <2>2. depot \notin ToSet(Stretch(ri, i, 1 - m, m))
    BY <1>3, <2>1
  <2>3. CASE o.kind = "plain"
    <3>1. depot \notin ToSet(Stretch(rj, j, 0 - n, n))
      BY <1>5, <2>1, <2>3
    <3>2. Apart(ri, rj, Stretch(ri, i, 1 - m, m), Succ(ri, i), Stretch(rj, j, 0 - n, n), Step(rj, j, 0))
      BY <1>2, <1>7, <1>9, <2>2, <3>1, ApartInter
    <3> QED
      BY <1>3, <1>5, <2>1, <2>3, <3>2
  <2>4. CASE o.kind = "reversing"
    <3>1. depot \notin ToSet(Stretch(rj, j, 1, n))
      BY <1>6, <2>1, <2>4
    <3>2. Apart(ri, rj, Stretch(ri, i, 1 - m, m), Succ(ri, i), Stretch(rj, j, 1, n), Step(rj, j, n + 1))
      BY <1>2, <1>7, <1>9, <2>2, <3>1, ApartInter
    <3> QED
      BY <1>3, <1>6, <2>1, <2>4, <3>2
  <2> QED
    BY <1>2, <2>3, <2>4
<1> QED
  BY <1>3, <1>8, <1>9 DEF e

-----------------------------------------------------------------------------
(* What the operators that exchange paths do                               *)

\* The vertices of a path leave a route, and enter it again or another one.
Passing(s, out, t, where, in) == Leaving(s, out) \o Entering(t, where, in)
Passed(V, s, t, I) == [[V EXCEPT ![s] = @ \ I] EXCEPT ![t] = @ \cup I]

LEMMA PathMoves ==
    ASSUME NEW y, NEW from, NEW rest, NEW V, Held(y, from, rest, V),
           NEW s \in DOMAIN V, NEW t \in DOMAIN V, NEW out, IsPath(out), NEW in, IsPath(in),
           ToSet(out) = ToSet(in), ToSet(in) \subseteq V[s], V[s] \ ToSet(in) # {},
           NEW where \in V[t] \ ToSet(in), s = t \/ depot \notin ToSet(in)
    PROVE  /\ Held(MoveAll(y, Passing(s, out, t, where, in)), from, rest,
                   Passed(V, s, t, ToSet(in)))
           /\ \E S : Passing(s, out, t, where, in) \in Seq(S)
<1> DEFINE W == [V EXCEPT ![s] = @ \ ToSet(in)]
           ls == Leaving(s, out)
           es == Entering(t, where, in)
           z == MoveAll(y, ls)
<1>1. Held(z, from, rest, W) /\ \E S : ls \in Seq(S)
  <2>1. Held(z, from, rest, [V EXCEPT ![s] = @ \ ToSet(out)]) /\ \E S : ls \in Seq(S)
    BY LeavingWork
  <2> QED
    BY <2>1
<1>2. /\ t \in DOMAIN W /\ where \in W[t] /\ W[s] = V[s] \ ToSet(in)
      /\ \A q \in DOMAIN V : q # s => W[q] = V[q]
      /\ DOMAIN W = DOMAIN V
  OBVIOUS
<1>3. /\ \A q \in DOMAIN V : V[q] \subseteq vertices \ CustomersOf(rest)
      /\ \A p, q \in DOMAIN V : p # q => V[p] \cap V[q] \subseteq {depot}
  BY DEF Held
<1> HIDE DEF W, z
<1>4. ToSet(in) \subseteq vertices \ CustomersOf(rest)
  BY <1>3
<1>5. ToSet(in) \cap W[t] = {} /\ \A q \in DOMAIN W : ToSet(in) \cap W[q] \subseteq {depot}
  <2>1. ASSUME NEW q \in DOMAIN W PROVE ToSet(in) \cap W[q] \subseteq {depot}
    BY <1>2, <1>3
  <2>2. CASE s = t
    BY <1>2, <2>1, <2>2
  <2>3. CASE s # t
    BY <1>2, <2>1, <2>3
  <2> QED
    BY <2>1, <2>2, <2>3
<1>6. /\ Held(MoveAll(z, es), from, rest, [W EXCEPT ![t] = @ \cup ToSet(in)])
      /\ \E S : es \in Seq(S)
  BY <1>1, <1>2, <1>4, <1>5, EnteringWork
<1> HIDE DEF ls, es
<1>7. PICK A, B : ls \in Seq(A) /\ es \in Seq(B)
  BY <1>1, <1>6
<1>8. ls \in Seq(A \cup B) /\ es \in Seq(A \cup B)
  BY <1>7
<1>9. MoveAll(y, ls \o es) = MoveAll(z, es) /\ ls \o es \in Seq(A \cup B)
  BY <1>8, MoveAllConcat DEF z
<1> QED
  BY <1>6, <1>9 DEF W, ls, es, Passing, Passed

\* Two lists of steps, one after the other.
LEMMA HeldThen ==
    ASSUME NEW y, NEW from, NEW rest, NEW W, NEW A, NEW s \in Seq(A), NEW B, NEW t \in Seq(B),
           Held(MoveAll(MoveAll(y, s), t), from, rest, W)
    PROVE  Held(MoveAll(y, s \o t), from, rest, W)
<1>1. s \in Seq(A \cup B) /\ t \in Seq(A \cup B)
  OBVIOUS
<1>2. MoveAll(y, s \o t) = MoveAll(MoveAll(y, s), t)
  BY <1>1, MoveAllConcat
<1> QED
  BY <1>2

\* The two paths change places: in one route, or in two.
LEMMA PathsWork ==
    ASSUME NEW y, NEW from, NEW rest, NEW V, Held(y, from, rest, V), NEW two \in {1, 2},
           DOMAIN V = IF two = 1 THEN {1} ELSE {1, 2}, NEW o, NEW e,
           IsPath(e.ipath), IsPath(e.jpath), ToSet(e.ipath) \subseteq V[1],
           ToSet(e.jpath) \subseteq V[two], ToSet(e.ipath) \cap ToSet(e.jpath) = {},
           e.ir \in V[1] \ (ToSet(e.ipath) \cup ToSet(e.jpath)),
           e.jr \in V[two] \ (ToSet(e.ipath) \cup ToSet(e.jpath)),
           two = 2 => depot \notin ToSet(e.ipath) \cup ToSet(e.jpath)
    PROVE  \E W : /\ Held(MoveAll(y, PathSteps(o, e, two)), from, rest, W)
                  /\ DOMAIN W = DOMAIN V
                  /\ two = 1 => W = V
                  /\ two = 2 => /\ W[1] = (V[1] \ ToSet(e.ipath)) \cup ToSet(e.jpath)
                                /\ W[2] = (V[2] \ ToSet(e.jpath)) \cup ToSet(e.ipath)
<1> DEFINE I == ToSet(e.ipath)
           J == ToSet(e.jpath)
           outI == IF o.m = 2 /\ o.n = 0 THEN e.ipath ELSE Reverse(e.ipath)
           outJ == IF o.kind = "reversing" THEN e.jpath ELSE Reverse(e.jpath)
           inI == PlacedI(o, e)
           inJ == PlacedJ(o, e)
           moveI == Passing(1, outI, two, e.jr, inI)
           moveJ == Passing(two, outJ, 1, e.ir, inJ)
<1>1. /\ IsPath(outI) /\ IsPath(inI) /\ ToSet(outI) = I /\ ToSet(inI) = I
      /\ IsPath(outJ) /\ IsPath(inJ) /\ ToSet(outJ) = J /\ ToSet(inJ) = J
  BY ReverseFacts DEF PlacedI, PlacedJ
<1>2. PathSteps(o, e, two) = IF o.kind = "reversing" /\ o.m = 2 /\ o.n = 1
                             THEN moveJ \o moveI ELSE moveI \o moveJ
  BY DEF PathSteps, Passing
<1> HIDE DEF I, J, outI, outJ, inI, inJ
<1>3. V = [q \in DOMAIN V |-> V[q]]
  BY DEF Held
<1>4. ASSUME NEW z, NEW U, Held(z, from, rest, U), DOMAIN U = DOMAIN V,
             I \subseteq U[1], e.ir \in U[1], e.jr \in U[two]
      PROVE  /\ Held(MoveAll(z, moveI), from, rest, Passed(U, 1, two, I))
             /\ \E S : moveI \in Seq(S)
  <2>1. /\ 1 \in DOMAIN U /\ two \in DOMAIN U /\ U[1] \ I # {} /\ e.jr \in U[two] \ I
        /\ (1 = two \/ depot \notin I)
    BY <1>4 DEF I, J
  <2>2. /\ ToSet(outI) = ToSet(inI) /\ ToSet(inI) \subseteq U[1] /\ U[1] \ ToSet(inI) # {}
        /\ e.jr \in U[two] \ ToSet(inI) /\ (1 = two \/ depot \notin ToSet(inI))
    BY <1>1, <1>4, <2>1
  <2>3. /\ Held(MoveAll(z, moveI), from, rest,
                 Passed(U, 1, two, ToSet(inI)))
        /\ \E S : moveI \in Seq(S)
    BY <1>1, <1>4, <2>1, <2>2, PathMoves
  <2> HIDE DEF moveI
  <2> QED
    BY <1>1, <2>3
<1>5. ASSUME NEW z, NEW U, Held(z, from, rest, U), DOMAIN U = DOMAIN V,
             J \subseteq U[two], e.ir \in U[1], e.jr \in U[two]
      PROVE  /\ Held(MoveAll(z, moveJ), from, rest, Passed(U, two, 1, J))
             /\ \E S : moveJ \in Seq(S)
  <2>1. /\ 1 \in DOMAIN U /\ two \in DOMAIN U /\ U[two] \ J # {} /\ e.ir \in U[1] \ J
        /\ (two = 1 \/ depot \notin J)
    BY <1>5 DEF I, J
  <2>2. /\ ToSet(outJ) = ToSet(inJ) /\ ToSet(inJ) \subseteq U[two] /\ U[two] \ ToSet(inJ) # {}
        /\ e.ir \in U[1] \ ToSet(inJ) /\ (two = 1 \/ depot \notin ToSet(inJ))
    BY <1>1, <1>5, <2>1
  <2>3. /\ Held(MoveAll(z, moveJ), from, rest,
                 Passed(U, two, 1, ToSet(inJ)))
        /\ \E S : moveJ \in Seq(S)
    BY <1>1, <1>5, <2>1, <2>2, PathMoves
  <2> HIDE DEF moveJ
  <2> QED
    BY <1>1, <2>3
<1>6. /\ I \subseteq V[1] /\ J \subseteq V[two] /\ I \cap J = {}
      /\ e.ir \in V[1] \ (I \cup J) /\ e.jr \in V[two] \ (I \cup J)
  BY DEF I, J
<1>7. /\ \E S : moveI \in Seq(S)
      /\ \E S : moveJ \in Seq(S)
  BY <1>4, <1>5, <1>6
<1> HIDE DEF moveI, moveJ
<1>8. PICK A, B : moveI \in Seq(A) /\ moveJ \in Seq(B)
  BY <1>7
<1> DEFINE WI == Passed(V, 1, two, I)
           WJ == Passed(V, two, 1, J)
           WIJ == Passed(WI, two, 1, J)
           WJI == Passed(WJ, 1, two, I)
<1>9. ASSUME two = 1
      PROVE  WI = V /\ WJ = V /\ WIJ = V /\ WJI = V
  <2>1. DOMAIN V = {1} /\ two = 1
    BY <1>9
  <2>2. WI = V
    BY <1>3, <1>6, <2>1 DEF Passed
  <2>3. WJ = V
    BY <1>3, <1>6, <2>1 DEF Passed
  <2> HIDE DEF WI, WJ
  <2>4. WIJ = V
    BY <1>3, <1>6, <2>1, <2>2 DEF Passed
  <2>5. WJI = V
    BY <1>3, <1>6, <2>1, <2>3 DEF Passed
  <2> QED
    BY <2>2, <2>3, <2>4, <2>5
<1>10. ASSUME two = 2
       PROVE  /\ WI[1] = V[1] \ I /\ WI[2] = V[2] \cup I
              /\ WJ[1] = V[1] \cup J /\ WJ[2] = V[2] \ J
              /\ WIJ[1] = (V[1] \ I) \cup J /\ WIJ[2] = (V[2] \ J) \cup I
              /\ WJI[1] = (V[1] \ I) \cup J /\ WJI[2] = (V[2] \ J) \cup I
  <2>1. DOMAIN V = {1, 2}
    BY <1>10
  <2>2. /\ WI[1] = V[1] \ I /\ WI[2] = V[2] \cup I /\ DOMAIN WI = {1, 2}
    BY <1>10, <2>1 DEF Passed
  <2>3. /\ WJ[1] = V[1] \cup J /\ WJ[2] = V[2] \ J /\ DOMAIN WJ = {1, 2}
    BY <1>10, <2>1 DEF Passed
  <2> HIDE DEF WI, WJ
  <2>4. WIJ[1] = (V[1] \ I) \cup J /\ WIJ[2] = (V[2] \cup I) \ J
    BY <1>10, <2>2 DEF Passed
  <2>5. WJI[1] = (V[1] \cup J) \ I /\ WJI[2] = (V[2] \ J) \cup I
    BY <1>10, <2>3 DEF Passed
  <2> HIDE DEF WIJ, WJI
  <2> QED
    BY <1>6, <2>2, <2>3, <2>4, <2>5
<1>11. DOMAIN WI = DOMAIN V /\ DOMAIN WJ = DOMAIN V /\ DOMAIN WIJ = DOMAIN V /\ DOMAIN WJI = DOMAIN V
  BY DEF Passed
<1>12. Held(MoveAll(y, moveI), from, rest, WI) /\ Held(MoveAll(y, moveJ), from, rest, WJ)
  BY <1>4, <1>5, <1>6
<1>13. /\ J \subseteq WI[two] /\ e.ir \in WI[1] /\ e.jr \in WI[two]
       /\ I \subseteq WJ[1] /\ e.ir \in WJ[1] /\ e.jr \in WJ[two]
  <2> HIDE DEF WI, WJ, WIJ, WJI
  <2>1. CASE two = 1
    BY <1>6, <1>9, <2>1
  <2>2. CASE two = 2
    BY <1>6, <1>10, <2>2
  <2> QED
    BY <2>1, <2>2
<1> HIDE DEF WI, WJ
<1>14. Held(MoveAll(MoveAll(y, moveI), moveJ), from, rest, WIJ)
  BY <1>5, <1>11, <1>12, <1>13
<1>15. Held(MoveAll(MoveAll(y, moveJ), moveI), from, rest, WJI)
  BY <1>4, <1>11, <1>12, <1>13
<1> HIDE DEF WIJ, WJI
<1>16. Held(MoveAll(y, moveI \o moveJ), from, rest, WIJ)
  BY <1>8, <1>14, HeldThen
<1>17. Held(MoveAll(y, moveJ \o moveI), from, rest, WJI)
  BY <1>8, <1>15, HeldThen
<1> QED
  BY <1>2, <1>9, <1>10, <1>11, <1>16, <1>17 DEF I, J

\* A move within a route is done when the route has all its vertices.
LEMMA OneDone ==
    ASSUME NEW x, NEW from, IsWork(x), Good(x.sol), NEW r \in x.sol, NEW z, NEW V,
           Held(z, from, x.sol \ {r}, V), DOMAIN V = {1}, V[1] = ToSet(r)
    PROVE  Keeps(from, x, Settle(x, z))
<1>1. IsPath(r) /\ depot \in ToSet(r) /\ Load(r) <= Capacity
  BY DEF Good, WellFormed, IsRoute
<1>2. \A s \in DOMAIN V : depot \in V[s] /\ LoadOf(V[s]) <= Capacity
  BY <1>1, PathLoad
<1>3. UNION {V[s] : s \in DOMAIN V} = ToSet(r)
  OBVIOUS
<1>4. CustomersOf(x.sol) = CustomersOf(x.sol \ {r}) \cup (ToSet(r) \ {depot})
  BY DEF CustomersOf, ServedBy
<1>5. CustomersOf(x.sol) = CustomersOf(x.sol \ {r}) \cup ((UNION {V[s] : s \in DOMAIN V}) \ {depot})
  BY <1>3, <1>4
<1>6. x.sol \ {r} \subseteq x.sol
  OBVIOUS
<1> QED
  BY <1>2, <1>5, <1>6, HeldAtLast

\* A move between two routes is done when they have all their vertices again,
\* the depot both, and the loads fit.
LEMMA TwoDone ==
    ASSUME NEW x, NEW from, IsWork(x), Good(x.sol), NEW p \in x.sol, NEW q \in x.sol,
           NEW z, NEW V, Held(z, from, x.sol \ {p, q}, V), DOMAIN V = {1, 2},
           V[1] \cup V[2] = ToSet(p) \cup ToSet(q), depot \in V[1], depot \in V[2],
           LoadOf(V[1]) <= Capacity, LoadOf(V[2]) <= Capacity
    PROVE  Keeps(from, x, Settle(x, z))
<1>2. \A s \in DOMAIN V : depot \in V[s] /\ LoadOf(V[s]) <= Capacity
  OBVIOUS
<1>3. UNION {V[s] : s \in DOMAIN V} = ToSet(p) \cup ToSet(q)
  OBVIOUS
<1>4. CustomersOf(x.sol) =
         CustomersOf(x.sol \ {p, q}) \cup ((ToSet(p) \cup ToSet(q)) \ {depot})
  BY DEF CustomersOf, ServedBy
<1>5. CustomersOf(x.sol) =
         CustomersOf(x.sol \ {p, q}) \cup ((UNION {V[s] : s \in DOMAIN V}) \ {depot})
  BY <1>3, <1>4
<1>6. x.sol \ {p, q} \subseteq x.sol
  OBVIOUS
<1> QED
  BY <1>2, <1>5, <1>6, HeldAtLast

\* What the paths make of the loads.
LEMMA PathsFit ==
    ASSUME NEW p, IsPath(p), NEW q, IsPath(q), ToSet(p) \cap ToSet(q) = {depot},
           NEW s, IsPath(s), NEW t, IsPath(t), ToSet(s) \subseteq ToSet(p),
           ToSet(t) \subseteq ToSet(q), depot \notin ToSet(s) \cup ToSet(t)
    PROVE  /\ LoadOf((ToSet(p) \ ToSet(s)) \cup ToSet(t)) = Load(p) - Load(s) + Load(t)
           /\ LoadOf((ToSet(q) \ ToSet(t)) \cup ToSet(s)) = Load(q) - Load(t) + Load(s)
           /\ Load(p) \in Nat /\ Load(q) \in Nat /\ Load(s) \in Nat /\ Load(t) \in Nat
           /\ Load(s) <= Load(p) /\ Load(t) <= Load(q)
<1> DEFINE P == ToSet(p)
           Q == ToSet(q)
           S == ToSet(s)
           T == ToSet(t)
<1>1. /\ P \in SUBSET vertices /\ Q \in SUBSET vertices /\ S \in SUBSET P /\ T \in SUBSET Q
      /\ P \ S \in SUBSET vertices /\ Q \ T \in SUBSET vertices
      /\ S \in SUBSET vertices /\ T \in SUBSET vertices
      /\ (P \ S) \cap T = {} /\ (Q \ T) \cap S = {}
  BY PathSet
<1>2. /\ Load(p) = LoadOf(P) /\ Load(q) = LoadOf(Q) /\ Load(s) = LoadOf(S) /\ Load(t) = LoadOf(T)
      /\ Load(p) \in Nat /\ Load(q) \in Nat /\ Load(s) \in Nat /\ Load(t) \in Nat
  BY PathLoad
<1> HIDE DEF P, Q, S, T
<1>3. /\ LoadOf(P \ S) = LoadOf(P) - LoadOf(S) /\ LoadOf(S) <= LoadOf(P)
      /\ LoadOf(Q \ T) = LoadOf(Q) - LoadOf(T) /\ LoadOf(T) <= LoadOf(Q)
  BY <1>1, LoadOfSubset
<1>4. /\ LoadOf((P \ S) \cup T) = LoadOf(P \ S) + LoadOf(T)
      /\ LoadOf((Q \ T) \cup S) = LoadOf(Q \ T) + LoadOf(S)
  BY <1>1, LoadOfUnion
<1> QED
  BY <1>2, <1>3, <1>4 DEF P, Q, S, T

\* A feasible move that exchanges paths.
LEMMA PathsKeep ==
    ASSUME NEW x, NEW from, IsWork(x), Linked(from, x), Good(x.sol),
           NEW o \in AllOperators, Exchanging(o), NEW mv \in Moves(o),
           IsServed(x.sol, mv[1]), IsServed(x.sol, mv[2]), Feasible(o, x.sol, mv)
    PROVE  Keeps(from, x, Execute(o, x, mv))
<1> DEFINE e == Around(o, x.sol, mv)
           two == IF e.ri = e.rj THEN 1 ELSE 2
           y == WithRoutes(x, e)
           z == MoveAll(y, PathSteps(o, e, two))
<1>1. Execute(o, x, mv) = Settle(x, z)
  BY DEF Execute, ExecuteIn, Exchanged, Exchanging
<1>2. /\ Apart(e.ri, e.rj, e.ipath, e.ir, e.jpath, e.jr)
      /\ e.ri # e.rj => InterFeasible(o, e)
  BY AroundApart
<1>3. mv[1] \in vertices /\ mv[2] \in vertices /\ mv[1] # mv[2]
  BY DEF Moves
<1>4. /\ e.ri \in x.sol /\ e.rj \in x.sol
      /\ e.ri # e.rj => ToSet(e.ri) \cap ToSet(e.rj) = {depot}
      /\ IsPath(e.ri) /\ IsPath(e.rj) /\ depot \in ToSet(e.ri) /\ depot \in ToSet(e.rj)
  <2>1. e.ri = RouteVia(x.sol, mv[1], mv[2]) /\ e.rj = RouteVia(x.sol, mv[2], mv[1])
    BY DEF Around
  <2> HIDE DEF e
  <2> QED
    BY <1>3, <2>1, RouteEnds DEF IsRoute
<1>5. WellFormed(x.sol) /\ \A r \in x.sol : Load(r) <= Capacity
  BY DEF Good
<1>6. o.n = 0 => ToSet(e.jpath) = {}
  BY DEF Around, Stretch, ToSet
<1>7. o.n \in 0..3
  BY OperatorFacts
<1> HIDE DEF e
<1>8. /\ IsPath(e.ipath) /\ IsPath(e.jpath) /\ ToSet(e.ipath) \subseteq ToSet(e.ri)
      /\ ToSet(e.jpath) \subseteq ToSet(e.rj) /\ ToSet(e.ipath) \cap ToSet(e.jpath) = {}
      /\ e.ir \in ToSet(e.ri) \ (ToSet(e.ipath) \cup ToSet(e.jpath))
      /\ e.jr \in ToSet(e.rj) \ (ToSet(e.ipath) \cup ToSet(e.jpath))
  BY <1>2 DEF Apart
<1>9. CASE e.ri = e.rj
  <2> DEFINE V == HandOf(e.ri)
  <2>1. Held(y, from, x.sol \ {e.ri}, V)
    BY <1>4, <1>5, <1>9, HeldAtFirst
  <2>2. DOMAIN V = {1} /\ V[1] = ToSet(e.ri) /\ two = 1 /\ two \in {1, 2} /\ V[two] = ToSet(e.rj)
    BY <1>9 DEF HandOf
  <2> HIDE DEF V, y, two
  <2>3. /\ ToSet(e.ipath) \subseteq V[1] /\ ToSet(e.jpath) \subseteq V[two]
        /\ e.ir \in V[1] \ (ToSet(e.ipath) \cup ToSet(e.jpath))
        /\ e.jr \in V[two] \ (ToSet(e.ipath) \cup ToSet(e.jpath))
        /\ DOMAIN V = IF two = 1 THEN {1} ELSE {1, 2}
        /\ two # 2
    BY <1>8, <2>2
  <2>4. \E W : Held(z, from, x.sol \ {e.ri}, W) /\ (two = 1 => W = V)
    BY <1>8, <2>1, <2>2, <2>3, PathsWork
  <2>5. Held(z, from, x.sol \ {e.ri}, V)
    BY <2>2, <2>4
  <2> HIDE DEF z
  <2> QED
    BY <1>1, <1>4, <2>2, <2>5, OneDone
<1>10. CASE e.ri # e.rj
  <2> DEFINE V == HandsOf(e.ri, e.rj)
             rest == x.sol \ {e.ri, e.rj}
  <2>1. Held(y, from, rest, V)
    BY <1>4, <1>5, <1>10, HeldAtFirst
  <2>2. DOMAIN V = {1, 2} /\ V[1] = ToSet(e.ri) /\ V[2] = ToSet(e.rj) /\ two = 2
    BY <1>10 DEF HandsOf
  <2>3. /\ depot \notin ToSet(e.ipath) \cup ToSet(e.jpath)
        /\ Load(e.rj) - Load(e.jpath) + Load(e.ipath) <= Capacity
        /\ o.n > 0 => Load(e.ri) + Load(e.jpath) - Load(e.ipath) <= Capacity
    BY <1>2, <1>10 DEF InterFeasible
  <2> HIDE DEF V, y, two, rest
  <2>4. /\ ToSet(e.ipath) \subseteq V[1] /\ ToSet(e.jpath) \subseteq V[two]
        /\ e.ir \in V[1] \ (ToSet(e.ipath) \cup ToSet(e.jpath))
        /\ e.jr \in V[two] \ (ToSet(e.ipath) \cup ToSet(e.jpath))
        /\ DOMAIN V = IF two = 1 THEN {1} ELSE {1, 2}
        /\ two \in {1, 2} /\ (two = 2 => depot \notin ToSet(e.ipath) \cup ToSet(e.jpath))
    BY <1>8, <2>2, <2>3
  <2>5. PICK W : /\ Held(z, from, rest, W) /\ DOMAIN W = DOMAIN V
                 /\ two = 2 => /\ W[1] = (V[1] \ ToSet(e.ipath)) \cup ToSet(e.jpath)
                               /\ W[2] = (V[2] \ ToSet(e.jpath)) \cup ToSet(e.ipath)
    BY <1>8, <2>1, <2>4, PathsWork
  <2> HIDE DEF z
  <2>6. /\ W[1] = (ToSet(e.ri) \ ToSet(e.ipath)) \cup ToSet(e.jpath)
        /\ W[2] = (ToSet(e.rj) \ ToSet(e.jpath)) \cup ToSet(e.ipath) /\ DOMAIN W = {1, 2}
    BY <2>2, <2>5
  <2>7. /\ W[1] \cup W[2] = ToSet(e.ri) \cup ToSet(e.rj) /\ depot \in W[1] /\ depot \in W[2]
    BY <1>4, <1>8, <2>3, <2>6
  <2>8. /\ LoadOf(W[1]) = Load(e.ri) - Load(e.ipath) + Load(e.jpath)
        /\ LoadOf(W[2]) = Load(e.rj) - Load(e.jpath) + Load(e.ipath)
        /\ Load(e.ri) \in Nat /\ Load(e.rj) \in Nat /\ Load(e.ipath) \in Nat /\ Load(e.jpath) \in Nat
    BY <1>4, <1>8, <1>10, <2>3, <2>6, PathsFit
  <2>9. LoadOf(W[1]) <= Capacity
    <3>1. CASE o.n > 0
      BY <2>3, <2>8, <3>1
    <3>2. CASE o.n = 0
      <4>1. Load(e.jpath) = 0
        BY <1>6, <1>8, <3>2, PathLoad, LoadOfSingle
      <4>2. Load(e.ri) <= Capacity
        BY <1>4, <1>5
      <4> QED
        BY <2>8, <4>1, <4>2, WeightFacts
    <3> QED
      BY <1>7, <3>1, <3>2
  <2>10. LoadOf(W[2]) <= Capacity
    BY <2>3, <2>8
  <2>11. Held(z, from, x.sol \ {e.ri, e.rj}, W)
    BY <2>5 DEF rest
  <2> QED
    BY <1>1, <1>4, <2>6, <2>7, <2>9, <2>10, <2>11, TwoDone
<1> QED
  BY <1>9, <1>10

-----------------------------------------------------------------------------
(* What the operators that exchange tails do                               *)

\* A route that has the depot begins with it.
LEMMA BeginsAtDepot ==
    ASSUME NEW r, IsRoute(r), depot \in ToSet(r)
    PROVE  r[1] = depot /\ 1 \in 1..Len(r)
<1>1. PICK k \in 1..Len(r) : r = From(r, k) /\ \A v \in ToSet(r) : r[k] <= v
  BY CycleFacts DEF IsRoute
<1>2. r[1] = r[k] /\ r[k] \in vertices /\ r[k] <= depot /\ Len(r) \in Nat
  BY <1>1, FromStart, PathFacts DEF IsRoute
<1>3. r[k] \in Int /\ depot <= r[k] /\ depot \in Int
  BY <1>2, Numbers
<1>4. r[k] = depot
  BY <1>2, <1>3
<1>5. 1 \in 1..Len(r)
  BY <1>2
<1> QED
  BY <1>2, <1>4, <1>5

\* A route that begins with the depot is cut before or after a customer.
LEMMA RouteCut ==
    ASSUME NEW r, IsRoute(r), depot \in ToSet(r), NEW v \in ToSet(r), v # depot
    PROVE  LET s == After(r, v)
               h == UpTo(r, v)
               t == <<v>> \o s
           IN  /\ IsPath(s) /\ IsPath(h) /\ IsPath(t)
               /\ ToSet(s) \subseteq ToSet(r) /\ depot \notin ToSet(s)
               /\ ToSet(h) \subseteq ToSet(r) /\ depot \notin ToSet(h)
               /\ ToSet(t) \subseteq ToSet(r) /\ depot \notin ToSet(t)
               /\ Succ(r, v) \in ToSet(r) \ ToSet(h)
               /\ Load(r) = LoadBefore(r, v) + Weight(v) + Load(s)
               /\ LoadFrom(r, v) = Weight(v) + Load(s) /\ Load(t) = LoadFrom(r, v)
               /\ Load(h) = LoadBefore(r, v) + Weight(v)
               /\ LoadBefore(r, v) \in Nat /\ Weight(v) \in Nat /\ Load(s) \in Nat
<1> DEFINE p == Position(r, v)
           n == Len(r)
           s == After(r, v)
           h == UpTo(r, v)
           t == <<v>> \o s
           b == SubSeq(r, 1, p - 1)
<1>1. IsPath(r) /\ r[1] = depot /\ 1 \in 1..n
  BY BeginsAtDepot DEF IsRoute
<1>2. /\ n \in Nat /\ p \in 1..n /\ r[p] = v
      /\ \A k \in 1..n : r[k] \in ToSet(r)
      /\ \A j, k \in 1..n : r[j] = r[k] => j = k
      /\ ToSet(r) = {r[k] : k \in 1..n}
  BY <1>1, PathFacts, PathSet, PositionOf
<1>3. /\ s = SubSeq(r, p + 1, n) /\ h = SubSeq(r, 2, p)
      /\ LoadBefore(r, v) = Load(b) /\ LoadFrom(r, v) = Load(SubSeq(r, p, n))
  BY DEF After, UpTo, LoadBefore, LoadFrom
<1>4. p # 1 /\ p > 1 /\ v \in vertices
  BY <1>1, <1>2, PathSet
<1>5. /\ Succ(r, v) = IF p = n THEN r[1] ELSE r[p + 1]
  <2>3. Succ(r, v) = r[1 + (p % n)]
    BY DEF Succ
  <2> HIDE DEF p, n
  <2>1. p = n => p % n = 0
    BY <1>2
  <2>2. p # n => p % n = p
    <3>1. ASSUME p # n PROVE p < n /\ p \in Nat /\ n \in Nat /\ 0 <= p /\ n > 0 /\ p \in Int
      BY <1>2, <3>1
    <3> QED
      BY <3>1, Modulo
  <2> QED
    BY <1>2, <2>1, <2>2, <2>3
<1> HIDE DEF p, n, s, h, b
<1>6. IsPath(s) /\ ToSet(s) = {r[k] : k \in (p + 1)..n}
  <2> DEFINE l == p + 1
  <2>1. l \in 1..(Len(r) + 1) /\ n \in 0..Len(r) /\ l <= n + 1
    BY <1>2 DEF n
  <2> HIDE DEF l
  <2>2. IsPath(SubSeq(r, l, n)) /\ ToSet(SubSeq(r, l, n)) = {r[k] : k \in l..n}
    BY <1>1, <2>1, PartFacts
  <2> QED
    BY <1>3, <2>2 DEF l
<1>7. IsPath(h) /\ ToSet(h) = {r[k] : k \in 2..p}
  <2> DEFINE l == 2
  <2>1. l \in 1..(Len(r) + 1) /\ p \in 0..Len(r) /\ l <= p + 1
    BY <1>2, <1>4 DEF n
  <2> HIDE DEF l
  <2>2. IsPath(SubSeq(r, l, p)) /\ ToSet(SubSeq(r, l, p)) = {r[k] : k \in l..p}
    BY <1>1, <2>1, PartFacts
  <2> QED
    BY <1>3, <2>2 DEF l
<1>8. IsPath(b) /\ ToSet(b) = {r[k] : k \in 1..(p - 1)}
  <2> DEFINE l == 1
             q == p - 1
  <2>1. l \in 1..(Len(r) + 1) /\ q \in 0..Len(r) /\ l <= q + 1
    BY <1>2, <1>4 DEF n
  <2>2. b = SubSeq(r, l, q)
    BY DEF b
  <2> HIDE DEF l, q
  <2>3. IsPath(SubSeq(r, l, q)) /\ ToSet(SubSeq(r, l, q)) = {r[k] : k \in l..q}
    BY <1>1, <2>1, PartFacts
  <2> QED
    BY <2>2, <2>3 DEF l, q
<1>9. IsPath(SubSeq(r, p, n)) /\ ToSet(SubSeq(r, p, n)) = {r[k] : k \in p..n}
  <2>1. p \in 1..(Len(r) + 1) /\ n \in 0..Len(r) /\ p <= n + 1
    BY <1>2 DEF n
  <2> QED
    BY <1>1, <2>1, PartFacts
<1>10. /\ ToSet(s) \subseteq ToSet(r) /\ depot \notin ToSet(s) /\ v \notin ToSet(s)
  BY <1>1, <1>2, <1>4, <1>6
<1>11. ToSet(h) \subseteq ToSet(r) /\ depot \notin ToSet(h)
  BY <1>1, <1>2, <1>4, <1>7
<1>12. IsPath(t) /\ ToSet(t) = ToSet(s) \cup {v}
  BY <1>4, <1>6, <1>10, PrefixedFacts
<1>13. Succ(r, v) \in ToSet(r) \ ToSet(h)
  BY <1>1, <1>2, <1>4, <1>5, <1>7
<1>14. /\ ToSet(r) = (ToSet(b) \cup {v}) \cup ToSet(s) /\ (ToSet(b) \cup {v}) \cap ToSet(s) = {}
       /\ ToSet(b) \cap {v} = {} /\ ToSet(s) \cap {v} = {}
       /\ ToSet(SubSeq(r, p, n)) = ToSet(s) \cup {v}
       /\ ToSet(h) \cup {depot} = ToSet(b) \cup {v}
       /\ depot \notin ToSet(h)
  BY <1>1, <1>2, <1>4, <1>6, <1>7, <1>8, <1>9, <1>11
<1>15. /\ ToSet(s) \in SUBSET vertices /\ ToSet(b) \in SUBSET vertices /\ {v} \in SUBSET vertices
       /\ ToSet(h) \in SUBSET vertices /\ {depot} \in SUBSET vertices
       /\ ToSet(b) \cup {v} \in SUBSET vertices
  BY <1>4, <1>6, <1>7, <1>8, PathSet, Numbers
<1>16. /\ Load(r) = LoadOf(ToSet(r)) /\ Load(s) = LoadOf(ToSet(s)) /\ Load(b) = LoadOf(ToSet(b))
       /\ Load(t) = LoadOf(ToSet(t)) /\ Load(h) = LoadOf(ToSet(h))
       /\ Load(SubSeq(r, p, n)) = LoadOf(ToSet(SubSeq(r, p, n)))
       /\ Load(s) \in Nat /\ Load(b) \in Nat /\ Load(h) \in Nat
  <2> HIDE DEF t
  <2> QED
    BY <1>1, <1>6, <1>7, <1>8, <1>9, <1>12, PathLoad
<1> HIDE DEF t
<1>17. /\ LoadOf(ToSet(b) \cup {v}) = LoadOf(ToSet(b)) + LoadOf({v})
       /\ LoadOf((ToSet(b) \cup {v}) \cup ToSet(s)) = LoadOf(ToSet(b) \cup {v}) + LoadOf(ToSet(s))
       /\ LoadOf(ToSet(s) \cup {v}) = LoadOf(ToSet(s)) + LoadOf({v})
       /\ LoadOf(ToSet(h) \cup {depot}) = LoadOf(ToSet(h)) + LoadOf({depot})
  <2>1. ToSet(h) \cap {depot} = {}
    BY <1>14
  <2> QED
    BY <1>14, <1>15, <2>1, LoadOfUnion
<1>18. /\ LoadOf({v}) = Weight(v) /\ LoadOf({depot}) = 0 /\ Weight(v) \in Nat
  BY <1>4, LoadOfSingle, WeightFacts, Numbers
<1>19. /\ Load(r) = Load(b) + Weight(v) + Load(s)
       /\ Load(SubSeq(r, p, n)) = Weight(v) + Load(s) /\ Load(t) = Weight(v) + Load(s)
       /\ Load(h) = Load(b) + Weight(v)
  BY <1>12, <1>14, <1>16, <1>17, <1>18
<1>20. depot \notin ToSet(t) /\ ToSet(t) \subseteq ToSet(r)
  BY <1>10, <1>12
<1> QED
  BY <1>3, <1>6, <1>7, <1>10, <1>11, <1>12, <1>13, <1>16, <1>18, <1>19, <1>20 DEF t, s, h, b

\* Steps that take the vertices of a path from one route to another, each
\* before one of the given vertices or the one that went before it.
Carries(ms, s, t, vs, places) ==
    /\ \E S : ms \in Seq(S)
    /\ Len(ms) = Len(vs)
    /\ \A k \in 1..Len(vs) :
          /\ ms[k].from = s /\ ms[k].to = t /\ ms[k].v = vs[k]
          /\ ms[k].where \in places \/ (k > 1 /\ ms[k].where = vs[k - 1])

LEMMA CarriedIs ==
    ASSUME NEW s, NEW t, NEW vs, IsPath(vs), NEW places, NEW where \in places
    PROVE  /\ Carries(Carried(s, t, where, vs), s, t, vs, places)
           /\ Carries(CarriedBack(s, t, where, vs), s, t, vs, places)
<1> DEFINE n == Len(vs)
           ms == Carried(s, t, where, vs)
           ns == CarriedBack(s, t, where, vs)
           S == {ms[k] : k \in 1..n}
           T == {ns[k] : k \in 1..n}
<1>1. n \in Nat /\ DOMAIN vs = 1..n
  BY PathFacts
<1>2. /\ ms = [k \in 1..n |-> [from |-> s, to |-> t, where |-> where, v |-> vs[k]]]
      /\ ns = [k \in 1..n |-> [from |-> s, to |-> t, v |-> vs[k],
                               where |-> IF k = 1 THEN where ELSE vs[k - 1]]]
  BY <1>1 DEF Carried, CarriedBack
<1> HIDE DEF n, ms, ns
<1>3. /\ ms = [k \in 1..n |-> ms[k]] /\ ns = [k \in 1..n |-> ns[k]]
  BY <1>2
<1>4. ms \in Seq(S) /\ Len(ms) = n /\ ns \in Seq(T) /\ Len(ns) = n
  <2>1. \A k \in 1..n : ms[k] \in S /\ ns[k] \in T
    OBVIOUS
  <2> HIDE DEF S, T
  <2>2. ms \in [1..n -> S] /\ ns \in [1..n -> T]
    BY <1>3, <2>1
  <2> QED
    BY <1>1, <2>2
<1>5. ASSUME NEW k \in 1..n
      PROVE  /\ ms[k].from = s /\ ms[k].to = t /\ ms[k].v = vs[k] /\ ms[k].where \in places
             /\ ns[k].from = s /\ ns[k].to = t /\ ns[k].v = vs[k]
             /\ ns[k].where \in places \/ (k > 1 /\ ns[k].where = vs[k - 1])
  BY <1>1, <1>2
<1>6. Carries(ms, s, t, vs, places)
  BY <1>4, <1>5 DEF Carries, n
<1>7. Carries(ns, s, t, vs, places)
  BY <1>4, <1>5 DEF Carries, n
<1> QED
  BY <1>6, <1>7 DEF ms, ns

LEMMA CarriesWork ==
    ASSUME NEW y, NEW from, NEW rest, NEW V, Held(y, from, rest, V),
           NEW s \in DOMAIN V, NEW t \in DOMAIN V, s # t,
           NEW vs, IsPath(vs), ToSet(vs) \subseteq V[s] \ {depot}, depot \in V[s],
           NEW ms, Carries(ms, s, t, vs, V[t])
    PROVE  Held(MoveAll(y, ms), from, rest,
                [V EXCEPT ![s] = @ \ ToSet(vs), ![t] = @ \cup ToSet(vs)])
<1>1. PICK S : ms \in Seq(S)
  BY DEF Carries
<1>2. /\ Len(ms) = Len(vs)
      /\ \A k \in 1..Len(vs) : ms[k].from = s /\ ms[k].to = t /\ ms[k].v = vs[k]
      /\ \A k \in 1..Len(vs) : ms[k].where \in V[t] \/ (k > 1 /\ ms[k].where = vs[k - 1])
  BY DEF Carries
<1>3. ToSet(vs) \subseteq V[s] /\ V[s] \ ToSet(vs) # {} /\ depot \notin ToSet(vs)
  OBVIOUS
<1> QED
  BY <1>1, <1>2, <1>3, CarryWork

\* Customers go from the second route to the first one, then others back.
LEMMA TwoCarried ==
    ASSUME NEW y, NEW from, NEW rest, NEW V, Held(y, from, rest, V), DOMAIN V = {1, 2},
           V[1] \cap V[2] = {depot}, NEW vs, IsPath(vs), ToSet(vs) \subseteq V[2] \ {depot},
           NEW us, IsPath(us), ToSet(us) \subseteq V[1] \ {depot},
           NEW ms, Carries(ms, 2, 1, vs, V[1]), NEW ns, Carries(ns, 1, 2, us, V[2] \ ToSet(vs))
    PROVE  \E W : /\ Held(MoveAll(y, ms \o ns), from, rest, W) /\ DOMAIN W = {1, 2}
                  /\ W[1] = (V[1] \ ToSet(us)) \cup ToSet(vs)
                  /\ W[2] = (V[2] \ ToSet(vs)) \cup ToSet(us)
<1> DEFINE two == 2
           one == 1
           U == [V EXCEPT ![two] = @ \ ToSet(vs), ![one] = @ \cup ToSet(vs)]
           W == [U EXCEPT ![one] = @ \ ToSet(us), ![two] = @ \cup ToSet(us)]
<1>1. /\ DOMAIN U = {1, 2} /\ U[1] = V[1] \cup ToSet(vs) /\ U[2] = V[2] \ ToSet(vs)
  OBVIOUS
<1>2. /\ DOMAIN W = {1, 2} /\ W[1] = U[1] \ ToSet(us) /\ W[2] = U[2] \cup ToSet(us)
  <2> HIDE DEF U
  <2> QED
    BY <1>1
<1>3. /\ W[1] = (V[1] \ ToSet(us)) \cup ToSet(vs) /\ W[2] = (V[2] \ ToSet(vs)) \cup ToSet(us)
  <2> HIDE DEF U, W
  <2> QED
    BY <1>1, <1>2
<1>4. /\ one \in DOMAIN V /\ two \in DOMAIN V /\ two # one /\ one \in DOMAIN U /\ two \in DOMAIN U
      /\ Carries(ms, two, one, vs, V[one]) /\ Carries(ns, one, two, us, U[two])
      /\ ToSet(vs) \subseteq V[two] \ {depot} /\ depot \in V[two]
      /\ ToSet(us) \subseteq U[one] \ {depot} /\ depot \in U[one]
  <2> HIDE DEF U
  <2> QED
    BY <1>1
<1> HIDE DEF one, two
<1>5. Held(MoveAll(y, ms), from, rest, U)
  BY <1>4, CarriesWork
<1> HIDE DEF U
<1>6. Held(MoveAll(MoveAll(y, ms), ns), from, rest, W)
  BY <1>4, <1>5, CarriesWork
<1> HIDE DEF W
<1>7. (\E A : ms \in Seq(A)) /\ (\E B : ns \in Seq(B))
  BY DEF Carries
<1>8. Held(MoveAll(y, ms \o ns), from, rest, W)
  BY <1>6, <1>7, HeldThen
<1> QED
  BY <1>2, <1>3, <1>8

\* Customers change places between two routes of a solution, and the loads fit.
LEMMA CarriedFit ==
    ASSUME NEW sol, Good(sol), NEW p \in sol, NEW q \in sol, p # q,
           NEW s, IsPath(s), ToSet(s) \subseteq ToSet(p) \ {depot},
           NEW t, IsPath(t), ToSet(t) \subseteq ToSet(q) \ {depot},
           Load(p) - Load(s) + Load(t) <= Capacity, Load(q) - Load(t) + Load(s) <= Capacity
    PROVE  /\ LoadOf((ToSet(p) \ ToSet(s)) \cup ToSet(t)) <= Capacity
           /\ LoadOf((ToSet(q) \ ToSet(t)) \cup ToSet(s)) <= Capacity
           /\ depot \in ToSet(p) /\ depot \in ToSet(q) /\ ToSet(p) \cap ToSet(q) = {depot}
<1>1. /\ IsPath(p) /\ IsPath(q) /\ depot \in ToSet(p) /\ depot \in ToSet(q)
      /\ ToSet(p) \cap ToSet(q) = {depot}
  BY DEF Good, WellFormed, IsRoute, ServedBy
<1>2. /\ depot \notin ToSet(s) \cup ToSet(t) /\ ToSet(s) \subseteq ToSet(p)
      /\ ToSet(t) \subseteq ToSet(q)
  OBVIOUS
<1>3. /\ LoadOf((ToSet(p) \ ToSet(s)) \cup ToSet(t)) = Load(p) - Load(s) + Load(t)
      /\ LoadOf((ToSet(q) \ ToSet(t)) \cup ToSet(s)) = Load(q) - Load(t) + Load(s)
  BY <1>1, <1>2, PathsFit
<1> QED
  BY <1>1, <1>3

LEMMA CarriedKeep ==
    ASSUME NEW x, NEW from, IsWork(x), Linked(from, x), Good(x.sol),
           NEW e, e.ri \in x.sol, e.rj \in x.sol, e.ri # e.rj,
           NEW s, IsPath(s), ToSet(s) \subseteq ToSet(e.ri) \ {depot},
           NEW t, IsPath(t), ToSet(t) \subseteq ToSet(e.rj) \ {depot},
           Load(e.ri) - Load(s) + Load(t) <= Capacity,
           Load(e.rj) - Load(t) + Load(s) <= Capacity,
           NEW ms, Carries(ms, 2, 1, t, ToSet(e.ri)),
           NEW ns, Carries(ns, 1, 2, s, ToSet(e.rj) \ ToSet(t))
    PROVE  Keeps(from, x, Settle(x, MoveAll(WithRoutes(x, e), ms \o ns)))
<1> DEFINE V == HandsOf(e.ri, e.rj)
           y == WithRoutes(x, e)
           rest == x.sol \ {e.ri, e.rj}
           z == MoveAll(y, ms \o ns)
           ri == e.ri
           rj == e.rj
<1>1. Held(y, from, rest, V)
  BY HeldAtFirst DEF Good
<1>2. DOMAIN V = {1, 2} /\ V[1] = ToSet(ri) /\ V[2] = ToSet(rj)
  BY DEF HandsOf
<1>3. ri \in x.sol /\ rj \in x.sol /\ ri # rj /\ Load(ri) - Load(s) + Load(t) <= Capacity
      /\ Load(rj) - Load(t) + Load(s) <= Capacity /\ ToSet(s) \subseteq ToSet(ri) \ {depot}
      /\ ToSet(t) \subseteq ToSet(rj) \ {depot}
  OBVIOUS
<1> HIDE DEF V, y, rest, ri, rj
<1>4. /\ LoadOf((ToSet(ri) \ ToSet(s)) \cup ToSet(t)) <= Capacity
      /\ LoadOf((ToSet(rj) \ ToSet(t)) \cup ToSet(s)) <= Capacity
      /\ depot \in ToSet(ri) /\ depot \in ToSet(rj) /\ ToSet(ri) \cap ToSet(rj) = {depot}
  BY <1>3, CarriedFit
<1>5. /\ V[1] \cap V[2] = {depot} /\ ToSet(t) \subseteq V[2] \ {depot}
      /\ ToSet(s) \subseteq V[1] \ {depot}
      /\ Carries(ms, 2, 1, t, V[1]) /\ Carries(ns, 1, 2, s, V[2] \ ToSet(t))
  BY <1>2, <1>3, <1>4 DEF ri, rj
<1>6. PICK W : /\ Held(z, from, rest, W) /\ DOMAIN W = {1, 2}
               /\ W[1] = (V[1] \ ToSet(s)) \cup ToSet(t)
               /\ W[2] = (V[2] \ ToSet(t)) \cup ToSet(s)
  BY <1>1, <1>2, <1>5, TwoCarried
<1> HIDE DEF z
<1>7. LoadOf(W[1]) <= Capacity /\ LoadOf(W[2]) <= Capacity
  BY <1>2, <1>4, <1>6
<1>8. W[1] \cup W[2] = ToSet(ri) \cup ToSet(rj) /\ depot \in W[1] /\ depot \in W[2]
  BY <1>2, <1>3, <1>4, <1>6
<1>9. Held(z, from, x.sol \ {ri, rj}, W)
  BY <1>6 DEF rest, ri, rj
<1>10. Keeps(from, x, Settle(x, z))
  BY <1>3, <1>6, <1>7, <1>8, <1>9, TwoDone
<1> QED
  BY <1>10 DEF z, y

\* A feasible move that exchanges tails.
LEMMA TailsKeep ==
    ASSUME NEW x, NEW from, IsWork(x), Linked(from, x), Good(x.sol),
           NEW o \in AllOperators, o.kind \in {"tails", "split"}, NEW mv \in Moves(o),
           IsServed(x.sol, mv[1]), IsServed(x.sol, mv[2]), Feasible(o, x.sol, mv)
    PROVE  Keeps(from, x, Execute(o, x, mv))
<1> DEFINE e == Around(o, x.sol, mv)
           i == mv[1]
           j == mv[2]
           y == WithRoutes(x, e)
<1>1. i \in vertices /\ j \in vertices /\ i # j
  BY DEF Moves
<1>2. /\ e.ri = RouteVia(x.sol, i, j) /\ e.rj = RouteVia(x.sol, j, i)
      /\ e.ir = Succ(e.ri, i)
  BY DEF Around
<1>3. /\ e.ri # e.rj
      /\ o.kind = "split" =>
            /\ LoadBefore(e.ri, i) + Weight(i) + LoadBefore(e.rj, j) + Weight(j) <= Capacity
            /\ LoadFrom(e.rj, j) - Weight(j) + LoadFrom(e.ri, i) - Weight(i) <= Capacity
      /\ o.kind = "tails" =>
            /\ LoadBefore(e.ri, i) + Weight(i) + LoadFrom(e.rj, j) <= Capacity
            /\ LoadBefore(e.rj, j) + LoadFrom(e.ri, i) - Weight(i) <= Capacity
  BY DEF Feasible, Exchanging, Weight
<1>4. /\ Execute(o, x, mv) = Settle(x, Exchanged(o, y, e, i, j))
      /\ o.kind = "split" => Exchanged(o, y, e, i, j) = MoveAll(y, SplitSteps(e, i, j))
      /\ o.kind = "tails" => Exchanged(o, y, e, i, j) = MoveAll(y, TailSteps(e, i, j))
  BY DEF Execute, ExecuteIn, Exchanged, Exchanging
<1> HIDE DEF e, i, j
<1>5. /\ e.ri \in x.sol /\ i \in ToSet(e.ri) /\ e.rj \in x.sol /\ j \in ToSet(e.rj)
      /\ i # depot /\ j # depot
      /\ IsRoute(e.ri) /\ IsRoute(e.rj) /\ depot \in ToSet(e.ri) /\ depot \in ToSet(e.rj)
  <2>1. IsServed(x.sol, i) /\ IsServed(x.sol, j)
    BY DEF i, j
  <2> QED
    BY <1>1, <1>2, <1>3, <2>1, RouteEnds
<1> DEFINE s == After(e.ri, i)
           h == UpTo(e.rj, j)
           t == <<j>> \o After(e.rj, j)
<1>6. /\ IsPath(s) /\ ToSet(s) \subseteq ToSet(e.ri) /\ depot \notin ToSet(s)
      /\ Load(e.ri) = LoadBefore(e.ri, i) + Weight(i) + Load(s)
      /\ LoadFrom(e.ri, i) = Weight(i) + Load(s)
      /\ LoadBefore(e.ri, i) \in Nat /\ Weight(i) \in Nat /\ Load(s) \in Nat
  BY <1>5, RouteCut
<1>7. /\ IsPath(h) /\ IsPath(t) /\ ToSet(h) \subseteq ToSet(e.rj) /\ depot \notin ToSet(h)
      /\ ToSet(t) \subseteq ToSet(e.rj) /\ depot \notin ToSet(t)
      /\ Succ(e.rj, j) \in ToSet(e.rj) \ ToSet(h)
      /\ Load(e.rj) = LoadBefore(e.rj, j) + Weight(j) + Load(After(e.rj, j))
      /\ LoadFrom(e.rj, j) = Weight(j) + Load(After(e.rj, j)) /\ Load(t) = LoadFrom(e.rj, j)
      /\ Load(h) = LoadBefore(e.rj, j) + Weight(j)
      /\ LoadBefore(e.rj, j) \in Nat /\ Weight(j) \in Nat /\ Load(After(e.rj, j)) \in Nat
  BY <1>5, RouteCut
<1>8. e.ir \in ToSet(e.ri)
  BY <1>2, <1>5, SuccIs DEF IsRoute
<1> HIDE DEF s, h, t
<1>9. ToSet(s) \subseteq ToSet(e.ri) \ {depot}
  BY <1>6
<1>10. CASE o.kind = "tails"
  <2> DEFINE ms == Carried(2, 1, e.ir, t)
             ns == Carried(1, 2, depot, s)
  <2>1. TailSteps(e, i, j) = ms \o ns
    BY DEF TailSteps, t, s
  <2>2. Carries(ms, 2, 1, t, ToSet(e.ri))
    BY <1>7, <1>8, CarriedIs
  <2>3. depot \in ToSet(e.rj) \ ToSet(t)
    BY <1>5, <1>7
  <2>4. Carries(ns, 1, 2, s, ToSet(e.rj) \ ToSet(t))
    BY <1>6, <2>3, CarriedIs
  <2> HIDE DEF ms, ns
  <2>5. /\ Load(e.ri) - Load(s) + Load(t) <= Capacity
        /\ Load(e.rj) - Load(t) + Load(s) <= Capacity
    BY <1>3, <1>6, <1>7, <1>10, WeightFacts
  <2>6. ToSet(t) \subseteq ToSet(e.rj) \ {depot}
    BY <1>7
  <2>7. Keeps(from, x, Settle(x, MoveAll(WithRoutes(x, e), ms \o ns)))
    BY <1>3, <1>5, <1>6, <1>7, <1>9, <2>2, <2>4, <2>5, <2>6, CarriedKeep
  <2> QED
    BY <1>4, <1>10, <2>1, <2>7
<1>11. CASE o.kind = "split"
  <2> DEFINE vs == Reverse(h)
             ms == Carried(2, 1, e.ir, vs)
             ns == CarriedBack(1, 2, Succ(e.rj, j), s)
  <2>1. SplitSteps(e, i, j) = ms \o ns
    BY DEF SplitSteps, h, s
  <2>2. IsPath(vs) /\ ToSet(vs) = ToSet(h) /\ Load(vs) = Load(h)
    BY <1>7, ReverseFacts, SameLoad
  <2> HIDE DEF vs
  <2>3. Carries(ms, 2, 1, vs, ToSet(e.ri))
    BY <1>8, <2>2, CarriedIs
  <2>4. Succ(e.rj, j) \in ToSet(e.rj) \ ToSet(vs)
    BY <1>7, <2>2
  <2>5. Carries(ns, 1, 2, s, ToSet(e.rj) \ ToSet(vs))
    BY <1>6, <2>4, CarriedIs
  <2> HIDE DEF ms, ns
  <2>6. /\ Load(e.ri) - Load(s) + Load(vs) <= Capacity
        /\ Load(e.rj) - Load(vs) + Load(s) <= Capacity
    BY <1>3, <1>6, <1>7, <1>11, <2>2, WeightFacts
  <2>7. ToSet(vs) \subseteq ToSet(e.rj) \ {depot}
    BY <1>7, <2>2
  <2>8. Keeps(from, x, Settle(x, MoveAll(WithRoutes(x, e), ms \o ns)))
    BY <1>3, <1>5, <1>6, <1>9, <2>2, <2>3, <2>5, <2>6, <2>7, CarriedKeep
  <2> QED
    BY <1>4, <1>11, <2>1, <2>8
<1> QED
  BY <1>10, <1>11

-----------------------------------------------------------------------------
(* Every feasible move keeps a solution                                    *)

\* A route that gives way to one with the same vertices.
LEMMA SameVertices ==
    ASSUME NEW sol, Good(sol), NEW r \in sol, NEW s, IsRoute(s), ToSet(s) = ToSet(r),
           WellFormed((sol \ {r}) \cup {s})
    PROVE  /\ Good((sol \ {r}) \cup {s})
           /\ CustomersOf((sol \ {r}) \cup {s}) = CustomersOf(sol)
<1>1. IsPath(r) /\ IsPath(s) /\ depot \in ToSet(r) /\ Load(r) <= Capacity
  BY DEF Good, WellFormed, IsRoute
<1>2. Load(s) = Load(r) /\ ServedBy(s) = ServedBy(r)
  BY <1>1, SameLoad DEF ServedBy
<1>3. Good((sol \ {r}) \cup {s})
  BY <1>1, <1>2 DEF Good
<1>4. CustomersOf((sol \ {r}) \cup {s}) = CustomersOf(sol)
  BY <1>2 DEF CustomersOf
<1> QED
  BY <1>3, <1>4

\* A feasible move that reverses a path.
LEMMA ReversalKeeps ==
    ASSUME NEW x, NEW from, IsWork(x), Linked(from, x), Good(x.sol),
           NEW o \in AllOperators, o.kind = "2-opt", NEW mv \in Moves(o),
           IsServed(x.sol, mv[1]), IsServed(x.sol, mv[2]), Feasible(o, x.sol, mv)
    PROVE  Keeps(from, x, Execute(o, x, mv))
<1> DEFINE e == Around(o, x.sol, mv)
           i == mv[1]
           j == mv[2]
           z == WithRoutes(x, e)
           a == ReverseRoutePath(e.ir, j)
           r == e.ri
           s == ReversePath(r, e.ir, j)
           to == (x.sol \ {r}) \cup {s}
           y == Settle(x, Do(z, a))
<1>1. i \in vertices /\ j \in vertices /\ i # j /\ i < j
  BY DEF Moves, IsSymmetric
<1>2. j # depot
  BY <1>1, Numbers DEF vertices, depot
<1>3. /\ r = RouteVia(x.sol, i, j) /\ e.rj = RouteVia(x.sol, j, i) /\ e.ir = Succ(r, i)
  BY DEF Around
<1>4. r = e.rj
  BY DEF Feasible, Exchanging
<1>5. Execute(o, x, mv) = y
  BY DEF Execute, ExecuteIn, Exchanged, Exchanging
<1>6. z.sol = x.sol /\ IsWork(z) /\ Linked(from, z)
  BY DEF WithRoutes, IsWork, Linked
<1> HIDE DEF e, z, i
<1>7. r \in x.sol /\ i \in ToSet(r) /\ j \in ToSet(r) /\ IsRoute(r) /\ IsPath(r)
  <2>1. IsServed(x.sol, i) /\ IsServed(x.sol, j)
    BY DEF i
  <2> HIDE DEF r, j
  <2>2. LET ri == RouteVia(x.sol, i, j)
            rj == RouteVia(x.sol, j, i)
        IN  /\ ri \in x.sol /\ i \in ToSet(ri) /\ rj \in x.sol /\ j \in ToSet(rj)
            /\ IsRoute(ri) /\ IsRoute(rj)
    BY <1>1, <2>1, RouteEnds
  <2> QED
    BY <1>3, <1>4, <2>2 DEF IsRoute
<1> HIDE DEF r, j
<1>8. e.ir \in ToSet(r)
  BY <1>3, <1>7, SuccIs
<1>9. RouteVia(x.sol, e.ir, j) = r /\ RouteVia(x.sol, j, e.ir) = r /\ WellFormed(x.sol)
  BY <1>2, <1>7, <1>8, RouteViaIs DEF Good
<1>10. /\ WellFormed(to) /\ ApplyAction(x.sol, a) = to
       /\ IsRoute(s) /\ ToSet(s) = ToSet(r)
       /\ Revertible(x.sol, RecordAction(x.sol, a), to)
  BY <1>7, <1>8, <1>9, ReverseWorks
<1> HIDE DEF a, s
<1>11. Good(to) /\ CustomersOf(to) = CustomersOf(x.sol)
  BY <1>7, <1>10, SameVertices
<1> HIDE DEF to
<1>12. Do(z, a).sol = to /\ Linked(from, Do(z, a))
  BY <1>6, <1>10, DoWorks
<1>13. /\ y.sol = to /\ y.do = Do(z, a).do /\ y.undo = Do(z, a).undo
       /\ IsWork(y) /\ SameElsewhere(y, x)
  BY <1>12 DEF Settle, IsWork, SameElsewhere
<1> HIDE DEF y
<1>14. Linked(from, y)
  BY <1>12, <1>13 DEF Linked
<1> QED
  BY <1>5, <1>11, <1>13, <1>14 DEF Keeps

\* Whatever the operator: the lists still lead to the solution and back, the
\* routes have the depot and fit, and the same customers are served.
LEMMA ExecuteKeeps ==
    ASSUME NEW x, NEW from, IsWork(x), Linked(from, x), Good(x.sol),
           NEW o \in AllOperators, NEW mv \in Moves(o),
           IsServed(x.sol, mv[1]), IsServed(x.sol, mv[2]), Feasible(o, x.sol, mv)
    PROVE  Keeps(from, x, Execute(o, x, mv))
<1>1. \/ Exchanging(o)
      \/ o.kind = "2-opt"
      \/ o.kind \in {"tails", "split"}
  BY OperatorFacts
<1> QED
  BY <1>1, PathsKeep, ReversalKeeps, TailsKeep

-----------------------------------------------------------------------------
(* Replaying without tests                                                 *)

Following == INSTANCE Folding WITH Op <- ApplyAction

LEMMA StepOnIs ==
    ASSUME NEW x, {"ok", "sol"} \subseteq DOMAIN x, x.ok \in BOOLEAN, NEW a
    PROVE  LET y == StepOn(x, a)
           IN  /\ {"ok", "sol"} \subseteq DOMAIN y /\ y.ok \in BOOLEAN
               /\ y.ok => x.ok /\ y.sol = ApplyAction(x.sol, a)
<1> DEFINE no == FALSE
           y == StepOn(x, a)
<1>1. CASE x.ok /\ Applicable(x.sol, a)
  <2>1. y = [x EXCEPT !.sol = ApplyAction(@, a)]
    BY <1>1 DEF StepOn
  <2>2. y.sol = ApplyAction(x.sol, a) /\ DOMAIN y = DOMAIN x
    BY <2>1
  <2>3. y.ok = x.ok
    BY <2>1
  <2> HIDE DEF y
  <2>4. {"ok", "sol"} \subseteq DOMAIN y /\ y.ok \in BOOLEAN
    BY <2>2, <2>3
  <2>5. x.ok /\ y.sol = ApplyAction(x.sol, a)
    BY <1>1, <2>2
  <2> QED
    BY <2>4, <2>5 DEF y
<1>2. CASE ~(x.ok /\ Applicable(x.sol, a))
  <2>1. y = [x EXCEPT !.ok = no]
    BY <1>2 DEF StepOn
  <2> HIDE DEF y, no
  <2>2. y.ok = no /\ DOMAIN y = DOMAIN x
    BY <2>1
  <2>3. no = FALSE
    BY DEF no
  <2> QED
    BY <2>2, <2>3 DEF y
<1> QED
  BY <1>1, <1>2

\* Actions that are applicable one after the other lead to where apply takes them.
LEMMA LeadsIsFold ==
    ASSUME NEW A, NEW acts \in Seq(A), NEW from, NEW to, Leads(from, acts, to)
    PROVE  FoldLeft(ApplyAction, from, acts) = to
<1> DEFINE yes == TRUE
           start == [ok |-> yes, sol |-> from]
           n == Len(acts)
<1>1. PICK g : Replaying!IsTrace(g, start, acts) /\ Replaying!Folded(start, acts) = g[n]
  BY Replaying!FoldHasTrace
<1>2. PICK h : Following!IsTrace(h, from, acts) /\ Following!Folded(from, acts) = h[n]
  BY Following!FoldHasTrace
<1>3. n \in Nat
  OBVIOUS
<1>4. /\ g[0] = start /\ \A k \in 1..n : g[k] = StepOn(g[k - 1], acts[k])
      /\ h[0] = from /\ \A k \in 1..n : h[k] = ApplyAction(h[k - 1], acts[k])
  BY <1>1, <1>2 DEF Replaying!IsTrace, Following!IsTrace
<1> DEFINE P == {k \in Nat : k <= n =>
                    /\ {"ok", "sol"} \subseteq DOMAIN g[k] /\ g[k].ok \in BOOLEAN
                    /\ g[k].ok => g[k].sol = h[k]}
<1>5. 0 \in P
  <2>1. /\ {"ok", "sol"} \subseteq DOMAIN start /\ start.ok = yes /\ start.sol = from
    OBVIOUS
  <2>2. yes \in BOOLEAN
    OBVIOUS
  <2> HIDE DEF start, yes
  <2> QED
    BY <1>4, <2>1, <2>2
<1> HIDE DEF n
<1>6. ASSUME NEW k \in Nat, k \in P PROVE k + 1 \in P
  <2>1. CASE k + 1 <= n
    <3> DEFINE l == k + 1
    <3>1. l \in 1..n /\ l - 1 = k /\ k <= n
      BY <1>3, <2>1
    <3> HIDE DEF l
    <3>2. /\ {"ok", "sol"} \subseteq DOMAIN g[k] /\ g[k].ok \in BOOLEAN
          /\ g[k].ok => g[k].sol = h[k]
      BY <1>6, <3>1
    <3>3. g[l] = StepOn(g[k], acts[l]) /\ h[l] = ApplyAction(h[k], acts[l])
      BY <1>4, <3>1
    <3>4. /\ {"ok", "sol"} \subseteq DOMAIN g[l] /\ g[l].ok \in BOOLEAN
          /\ g[l].ok => g[k].ok /\ g[l].sol = ApplyAction(g[k].sol, acts[l])
      BY <3>2, <3>3, StepOnIs
    <3>5. g[l].ok => g[l].sol = h[l]
      BY <3>2, <3>3, <3>4
    <3>6. l \in Nat
      BY <3>1
    <3>7. l \in P
      BY <3>4, <3>5, <3>6
    <3> QED
      BY <3>7 DEF l
  <2>2. CASE ~(k + 1 <= n)
    BY <2>2
  <2> QED
    BY <2>1, <2>2
<1>7. \A k \in Nat : k \in P
  <2> HIDE DEF P
  <2> QED
    BY <1>5, <1>6, Following!Induction
<1>8. g[n].ok => g[n].sol = h[n]
  BY <1>3, <1>7
<1> HIDE DEF P
<1>9. g[n] = [ok |-> TRUE, sol |-> to]
  BY <1>1, StepsIsFold DEF Leads, n
<1>10. g[n].ok /\ g[n].sol = to
  BY <1>9
<1>11. FoldLeft(ApplyAction, from, acts) = Following!Folded(from, acts)
  BY DEF FoldLeft, MapThenFoldSet, Max, Following!Folded, Following!FoldLeft,
         Following!MapThenFoldSet, Following!Max
<1> QED
  BY <1>2, <1>8, <1>10, <1>11 DEF n

-----------------------------------------------------------------------------
(* Feasible solutions                                                      *)

\* What the properties of the modules ask of a solution.
LEMMA FeasibleIsGood ==
    ASSUME NEW sol, IsSolution(sol), IsFeasible(sol)
    PROVE  Good(sol) /\ CustomersOf(sol) = customers
<1>1. ASSUME NEW r \in sol
      PROVE  /\ IsRoute(r) /\ depot \in ToSet(r) /\ Load(r) <= Capacity /\ ServedBy(r) # {}
             /\ \A c : Contains(r, c) <=> c \in ToSet(r)
  <2>1. r \in Seq(vertices) /\ Len(r) >= 2 /\ r[1] = depot /\ IsInjective(r)
    BY DEF IsSolution, IsFeasible
  <2>2. IsPath(r) /\ 1 \in 1..Len(r) /\ 2 \in 1..Len(r) /\ r # <<>>
    BY <2>1 DEF IsPath
  <2>3. /\ depot \in ToSet(r) /\ r[2] \in ToSet(r) /\ r[2] # depot /\ \A v \in ToSet(r) : r[1] <= v
    <3>1. /\ ToSet(r) \subseteq vertices /\ \A k \in 1..Len(r) : r[k] \in ToSet(r)
      BY <2>2, PathSet
    <3>2. r[1] # r[2]
      BY <2>2, PathFacts
    <3> QED
      BY <2>1, <2>2, <3>1, <3>2, Numbers
  <2>4. IsRoute(r)
    BY <2>2, <2>3, StartsSmallest
  <2>5. Load(r) <= Capacity
    BY DEF IsFeasible, LoadFeasible
  <2> QED
    BY <2>2, <2>3, <2>4, <2>5, PathSet DEF ServedBy
<1>2. ASSUME NEW c \in customers
      PROVE  \E r \in sol : c \in ToSet(r) /\ \A p \in sol : c \in ToSet(p) => p = r
  <2> DEFINE serving == {r \in sol : Contains(r, c)}
  <2>1. Cardinality(serving) = 1
    BY DEF IsFeasible
  <2>2. IsFiniteSet(serving)
    BY FS_Subset DEF IsSolution
  <2> HIDE DEF serving
  <2>3. \E r : serving = {r}
    BY <2>1, <2>2, FS_Singleton
  <2> QED
    BY <1>1, <2>3 DEF serving
<1>3. \A r \in sol : ServedBy(r) \subseteq customers
  BY <1>1, ServedByFacts DEF IsRoute
<1>4. \A p, q \in sol : p # q => ServedBy(p) \cap ServedBy(q) = {}
  BY <1>2, <1>3 DEF ServedBy
<1>5. customers \subseteq CustomersOf(sol)
  BY <1>2, Numbers DEF CustomersOf, ServedBy
<1>6. CustomersOf(sol) \subseteq customers
  BY <1>3 DEF CustomersOf
<1> QED
  BY <1>1, <1>4, <1>5, <1>6 DEF Good, WellFormed

LEMMA GoodIsFeasible ==
    ASSUME NEW sol, Good(sol), CustomersOf(sol) = customers
    PROVE  IsFeasible(sol)
<1>1. ASSUME NEW r \in sol
      PROVE  /\ r[1] = depot /\ IsInjective(r) /\ Load(r) <= Capacity
             /\ \A c : Contains(r, c) <=> c \in ToSet(r)
  BY BeginsAtDepot, PathSet DEF Good, WellFormed, IsRoute, IsPath
<1>2. ASSUME NEW c \in customers PROVE Cardinality({r \in sol : Contains(r, c)}) = 1
  <2>1. PICK r \in sol : c \in ServedBy(r)
    BY DEF CustomersOf
  <2>2. \A p \in sol : c \in ToSet(p) => p = r
    BY <2>1, Numbers DEF Good, WellFormed, ServedBy
  <2>3. {p \in sol : Contains(p, c)} = {r}
    BY <1>1, <2>1, <2>2 DEF ServedBy
  <2> QED
    BY <2>3, FS_Singleton
<1> QED
  BY <1>1, <1>2 DEF IsFeasible, LoadFeasible

\* Without actions, nothing changes.
LEMMA LinkedNowhere ==
    ASSUME NEW from, NEW x, x.sol = from, x.do = <<>>, x.undo = <<>>
    PROVE  Linked(from, x)
<1>1. Reverse(<<>>) = <<>>
  BY DEF Reverse
<1> QED
  BY <1>1, LeadsNowhere DEF Linked

-----------------------------------------------------------------------------
(* Customers leave a solution and enter it                                 *)

\* A good solution of the given customers, with its lists.
Serves(from, x, cs) ==
    IsWork(x) /\ Linked(from, x) /\ Good(x.sol) /\ CustomersOf(x.sol) = cs

LEMMA CustomerLeaves ==
    ASSUME NEW from, NEW x, NEW cs, Serves(from, x, cs), NEW c \in cs
    PROVE  Serves(from, Do(x, RemoveVertex(c, Succ(RouteOf(x.sol, c), c))), cs \ {c})
<1> DEFINE sol == x.sol
           r == RouteOf(sol, c)
           a == RemoveVertex(c, Succ(r, c))
           s == RemoveFrom(r, c)
           to == (sol \ {r}) \cup IfServing(s)
<1>1. IsWork(x) /\ Linked(from, x) /\ Good(sol) /\ WellFormed(sol) /\ CustomersOf(sol) = cs
  BY DEF Serves, Good
<1> HIDE DEF sol
<1>2. r \in sol /\ c \in ToSet(r) /\ c \in customers /\ c \in ServedBy(r)
  BY <1>1, RouteOfFacts
<1> HIDE DEF r
<1>3. /\ IsPath(r) /\ IsRoute(r) /\ depot \in ToSet(r) /\ Load(r) <= Capacity /\ c # depot
      /\ ToSet(r) # {c}
  BY <1>1, <1>2, Numbers DEF Good, WellFormed, IsRoute
<1>4. /\ WellFormed(to) /\ ApplyAction(sol, a) = to
      /\ IsRoute(s) /\ ToSet(s) = ToSet(r) \ {c}
      /\ Revertible(sol, RecordAction(sol, a), to)
  BY <1>1, <1>2, <1>3, RemoveWorks
<1> HIDE DEF a, s
<1>5. depot \in ToSet(s) /\ Load(s) <= Capacity
  <2>1. IsPath(s) /\ ToSet(r) \in SUBSET vertices /\ ToSet(s) \in SUBSET ToSet(r)
    BY <1>3, <1>4, PathSet DEF IsRoute
  <2>2. Load(s) = LoadOf(ToSet(s)) /\ Load(r) = LoadOf(ToSet(r))
    BY <1>3, <2>1, PathLoad
  <2>3. LoadOf(ToSet(s)) <= LoadOf(ToSet(r)) /\ LoadOf(ToSet(s)) \in Nat /\ LoadOf(ToSet(r)) \in Nat
    BY <2>1, LoadOfSubset
  <2> QED
    BY <1>3, <1>4, <2>2, <2>3, WeightFacts
<1>6. Good(to)
  <2>1. \A p \in to : p \in sol \/ p = s
    BY DEF IfServing
  <2> HIDE DEF to
  <2> QED
    BY <1>1, <1>4, <1>5, <2>1 DEF Good
<1>7. CustomersOf(to) = cs \ {c}
  <2>1. ServedBy(s) = ServedBy(r) \ {c}
    BY <1>4 DEF ServedBy
  <2>2. \A p \in sol : p # r => c \notin ServedBy(p)
    BY <1>1, <1>2 DEF WellFormed
  <2>3. UNION {ServedBy(p) : p \in IfServing(s)} = ServedBy(s)
    BY DEF IfServing
  <2>4. CustomersOf(to) = CustomersOf(sol \ {r}) \cup ServedBy(s)
    BY <2>3 DEF CustomersOf
  <2>5. cs = CustomersOf(sol \ {r}) \cup ServedBy(r)
    BY <1>1, <1>2 DEF CustomersOf
  <2>6. c \notin CustomersOf(sol \ {r})
    BY <2>2 DEF CustomersOf
  <2> HIDE DEF to
  <2> QED
    BY <2>1, <2>4, <2>5, <2>6
<1> HIDE DEF to
<1>8. Do(x, a).sol = to /\ Linked(from, Do(x, a)) /\ IsWork(Do(x, a))
  BY <1>1, <1>4, DoWorks DEF sol
<1> QED
  BY <1>6, <1>7, <1>8 DEF Serves, a, r, sol

LEMMA CustomerEnters ==
    ASSUME NEW from, NEW x, NEW cs, Serves(from, x, cs), NEW c \in customers, c \notin cs,
           NEW r \in x.sol, NEW where \in ToSet(r), Load(r) + Demand[c] <= Capacity
    PROVE  Serves(from, Do(x, InsertVertex(where, c, Succ(r, where))), cs \cup {c})
<1> DEFINE sol == x.sol
           a == InsertVertex(where, c, Succ(r, where))
           s == InsertBefore(r, where, c)
           to == (sol \ {r}) \cup {s}
<1>1. IsWork(x) /\ Linked(from, x) /\ Good(sol) /\ WellFormed(sol) /\ CustomersOf(sol) = cs
  BY DEF Serves, Good
<1>0. r \in sol
  OBVIOUS
<1> HIDE DEF sol
<1>2. /\ IsPath(r) /\ IsRoute(r) /\ depot \in ToSet(r) /\ c # depot
      /\ c \in vertices /\ c \notin ToSet(r)
  BY <1>0, <1>1, Numbers DEF Good, WellFormed, IsRoute, CustomersOf, ServedBy
<1>3. c # depot => c \notin CustomersOf(sol)
  BY <1>1
<1>4. /\ WellFormed(to) /\ ApplyAction(sol, a) = to
      /\ IsRoute(s) /\ ToSet(s) = ToSet(r) \cup {c}
      /\ Revertible(sol, RecordAction(sol, a), to)
  BY <1>0, <1>1, <1>2, <1>3, InsertWorks
<1> HIDE DEF a, s
<1>5. depot \in ToSet(s) /\ Load(s) <= Capacity
  <2>1. IsPath(s) /\ ToSet(r) \in SUBSET vertices /\ {c} \in SUBSET vertices /\ ToSet(r) \cap {c} = {}
    BY <1>2, <1>4, PathSet DEF IsRoute
  <2>2. Load(s) = LoadOf(ToSet(s)) /\ Load(r) = LoadOf(ToSet(r)) /\ LoadOf({c}) = Demand[c]
    BY <1>2, <2>1, PathLoad, LoadOfSingle, WeightFacts
  <2>3. LoadOf(ToSet(r) \cup {c}) = LoadOf(ToSet(r)) + LoadOf({c})
    BY <2>1, LoadOfUnion
  <2> QED
    BY <1>2, <1>4, <2>2, <2>3
<1>6. Good(to)
  BY <1>1, <1>4, <1>5 DEF Good
<1>7. CustomersOf(to) = cs \cup {c}
  <2>1. ServedBy(s) = ServedBy(r) \cup {c}
    BY <1>2, <1>4 DEF ServedBy
  <2>4. CustomersOf(to) = CustomersOf(sol \ {r}) \cup ServedBy(s)
    BY DEF CustomersOf
  <2>5. cs = CustomersOf(sol \ {r}) \cup ServedBy(r)
    BY <1>0, <1>1 DEF CustomersOf
  <2> HIDE DEF to
  <2> QED
    BY <2>1, <2>4, <2>5
<1> HIDE DEF to
<1>8. Do(x, a).sol = to /\ Linked(from, Do(x, a)) /\ IsWork(Do(x, a))
  BY <1>1, <1>4, DoWorks DEF sol
<1> QED
  BY <1>6, <1>7, <1>8 DEF Serves, a

LEMMA CustomerAlone ==
    ASSUME NEW from, NEW x, NEW cs, Serves(from, x, cs), NEW c \in customers, c \notin cs
    PROVE  Serves(from, Do(x, BuildOne(c)), cs \cup {c})
<1> DEFINE sol == x.sol
           a == BuildOne(c)
           s == OneCustomerRoute(c)
           to == sol \cup {s}
<1>1. IsWork(x) /\ Linked(from, x) /\ Good(sol) /\ WellFormed(sol) /\ CustomersOf(sol) = cs
  BY DEF Serves, Good
<1> HIDE DEF sol
<1>2. /\ WellFormed(to) /\ ApplyAction(sol, a) = to
      /\ Revertible(sol, RecordAction(sol, a), to)
  BY <1>1, BuildWorks
<1>3. IsPath(s) /\ ToSet(s) = {depot, c} /\ ServedBy(s) = {c}
  BY OneCustomerFacts DEF IsRoute
<1> HIDE DEF a, s
<1>4. Load(s) <= Capacity
  <2>1. {depot} \in SUBSET vertices /\ {c} \in SUBSET vertices /\ {depot} \cap {c} = {}
        /\ ToSet(s) = {depot} \cup {c}
    BY <1>3, Numbers
  <2>2. LoadOf({depot} \cup {c}) = LoadOf({depot}) + LoadOf({c})
    BY <2>1, LoadOfUnion
  <2>3. /\ LoadOf({depot}) = 0 /\ LoadOf({c}) = Weight(c) /\ Weight(c) <= Capacity /\ Weight(c) \in Nat
    BY LoadOfSingle, WeightFacts, Numbers
  <2>4. Load(s) = LoadOf(ToSet(s))
    BY <1>3, PathLoad
  <2>5. Load(s) = LoadOf({depot}) + LoadOf({c})
    BY <2>1, <2>2, <2>4
  <2> QED
    BY <2>3, <2>5, WeightFacts
<1>5. Good(to)
  BY <1>1, <1>2, <1>3, <1>4 DEF Good
<1>6. CustomersOf(to) = cs \cup {c}
  BY <1>1, <1>3 DEF CustomersOf
<1> HIDE DEF to
<1>7. Do(x, a).sol = to /\ Linked(from, Do(x, a)) /\ IsWork(Do(x, a))
  BY <1>1, <1>2, DoWorks DEF sol
<1> QED
  BY <1>5, <1>6, <1>7 DEF Serves, a
=============================================================================
