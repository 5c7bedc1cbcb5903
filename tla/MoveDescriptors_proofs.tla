----------------------- MODULE MoveDescriptors_proofs -----------------------
(***************************************************************************)
(* Every pair of neighbors has one base move and the lists hold exactly    *)
(* the active moves.  The heap of moves is a heap after every operation,   *)
(* and the sweeps of the search engine leave in it exactly the improving   *)
(* moves around the known vertices, with their true deltas: for any        *)
(* instance and any number of neighbors.                                   *)
(***************************************************************************)
EXTENDS MoveDescriptors, FiniteSetTheorems, SequenceTheorems, TLAPS

-----------------------------------------------------------------------------
(* The lists of the generators                                             *)


LEMMA ConsideredType ==
    ASSUME NEW w \in Instances, NEW v \in vertices
    PROVE  /\ Considered(w, v) \in Nat \ {0}
           /\ Considered(w, v) <= Len(w.near[v])
           /\ Considered(w, v) <= MaxNeighbors
           /\ w.near[v] \in Seq(vertices)
           /\ \A p \in 1..Considered(w, v) :
                 /\ p \in DOMAIN w.near[v]
                 /\ w.near[v][p] \in vertices \ {v}
                 /\ w.cost[v][w.near[v][p]] \in Nat
           /\ Radius(w, v) \in Nat
<1>1. w.near[v] \in Seq(vertices) /\ Len(w.near[v]) > 0
  BY MoveGeneratorsAssumption
<1>2. Considered(w, v) \in Nat \ {0} /\ Considered(w, v) <= Len(w.near[v])
      /\ Considered(w, v) <= MaxNeighbors
  BY <1>1, MoveGeneratorsAssumption DEF Considered
<1>3. ASSUME NEW p \in 1..Considered(w, v)
      PROVE  p \in DOMAIN w.near[v] /\ w.near[v][p] \in vertices \ {v}
             /\ w.cost[v][w.near[v][p]] \in Nat
  <2>1. p \in DOMAIN w.near[v] /\ w.near[v][p] \in vertices
    BY <1>1, <1>2
  <2>2. w.near[v][p] # v
    BY <2>1, MoveGeneratorsAssumption
  <2>3. w.cost \in [vertices -> [vertices -> Nat]]
    BY MoveGeneratorsAssumption
  <2>4. QED BY <2>1, <2>2, <2>3
<1>4. Radius(w, v) \in Nat
  BY <1>2, <1>3 DEF Radius
<1>5. QED BY <1>1, <1>2, <1>3, <1>4

LEMMA DistinctNeighbors ==
    ASSUME NEW w \in Instances, NEW v \in vertices,
           NEW p \in DOMAIN w.near[v], NEW q \in DOMAIN w.near[v],
           w.near[v][p] = w.near[v][q]
    PROVE  p = q
<1>1. w.near[v] \in Seq(vertices)
  BY MoveGeneratorsAssumption
<1>2. p \in Nat /\ q \in Nat
  BY <1>1
<1>3. ~(p < q) /\ ~(q < p)
  BY MoveGeneratorsAssumption
<1>4. QED BY <1>2, <1>3

\* The neighbors considered are not farther than the radius.
LEMMA NeighborsAreNear ==
    ASSUME NEW w \in Instances, NEW j \in vertices, NEW i \in vertices, IsNeighbor(w, i, j)
    PROVE  i # j /\ w.cost[i][j] <= Radius(w, j)
<1>1. PICK p \in 1..Considered(w, j) : w.near[j][p] = i
  BY DEF IsNeighbor
<1>2. p \in DOMAIN w.near[j] /\ Considered(w, j) \in DOMAIN w.near[j]
      /\ p \in Nat /\ Considered(w, j) \in Nat /\ p <= Considered(w, j) /\ i # j
      /\ w.cost[j][i] \in Nat
  <2>1. Considered(w, j) \in Nat \ {0}
    BY ConsideredType
  <2>2. Considered(w, j) \in 1..Considered(w, j) /\ p \in Nat /\ p <= Considered(w, j)
    BY <2>1
  <2>3. QED BY <1>1, <2>1, <2>2, ConsideredType
<1>3. w.cost[j][i] <= Radius(w, j)
  <2>1. CASE p = Considered(w, j)
    BY <2>1, <1>1, <1>2 DEF Radius
  <2>2. CASE p < Considered(w, j)
    BY <2>2, <1>1, <1>2, MoveGeneratorsAssumption DEF Radius
  <2>3. QED BY <2>1, <2>2, <1>2
<1>4. QED BY <1>2, <1>3, MoveGeneratorsAssumption

\* Nobody nearer than the radius is left out.
LEMMA NearOnesAreNeighbors ==
    ASSUME NEW w \in Instances, NEW j \in vertices, NEW i \in vertices \ {j},
           w.cost[i][j] < Radius(w, j)
    PROVE  IsNeighbor(w, i, j)
<1>1. Considered(w, j) \in Nat \ {0} /\ Considered(w, j) \in DOMAIN w.near[j]
      /\ Radius(w, j) \in Nat /\ w.near[j] \in Seq(vertices)
  BY ConsideredType
<1>2. w.cost[j][i] = w.cost[i][j] /\ w.cost[j][i] \in Nat
  BY MoveGeneratorsAssumption
<1>3. ~\A p \in DOMAIN w.near[j] : w.cost[j][w.near[j][p]] <= w.cost[j][i]
  BY <1>1, <1>2 DEF Radius
<1>4. PICK p \in DOMAIN w.near[j] : w.near[j][p] = i
  BY <1>3, MoveGeneratorsAssumption
<1>5. p \in Nat /\ p > 0
  BY <1>1
<1>6. CASE p <= Considered(w, j)
  BY <1>1, <1>4, <1>5, <1>6 DEF IsNeighbor
<1>7. CASE Considered(w, j) < p
  <2>1. w.cost[j][w.near[j][Considered(w, j)]] <= w.cost[j][w.near[j][p]]
    BY <1>1, <1>7, MoveGeneratorsAssumption
  <2>2. QED BY <2>1, <1>1, <1>2, <1>4 DEF Radius
<1>8. QED BY <1>1, <1>5, <1>6, <1>7

LEMMA BaseMoveType ==
    ASSUME NEW w \in Instances, NEW b \in BaseMoves(w)
    PROVE  /\ b = <<b[1], b[2]>> /\ b[1] \in vertices /\ b[2] \in 1..Considered(w, b[1])
           /\ b[2] \in DOMAIN w.near[b[1]]
           /\ w.near[b[1]][b[2]] \in vertices \ {b[1]}
           /\ IsNeighbor(w, w.near[b[1]][b[2]], b[1])
           /\ Inserts(w, b[1], b[2])
           /\ Endpoints(w, b) = {b[1], w.near[b[1]][b[2]]}
           /\ Endpoints(w, b) \subseteq vertices
<1>1. b = <<b[1], b[2]>> /\ b[1] \in vertices /\ b[2] \in 1..MaxNeighbors
      /\ b[2] <= Considered(w, b[1]) /\ Inserts(w, b[1], b[2])
  BY DEF BaseMoves
<1>2. b[2] \in 1..Considered(w, b[1])
  BY <1>1, ConsideredType, MoveGeneratorsAssumption
<1>3. b[2] \in DOMAIN w.near[b[1]] /\ w.near[b[1]][b[2]] \in vertices \ {b[1]}
  BY <1>1, <1>2, ConsideredType
<1>4. QED BY <1>1, <1>2, <1>3 DEF IsNeighbor, Endpoints

\* Two vertices that are mutual neighbors get their move from the smaller one.
LEMMA SmallerInserts ==
    ASSUME NEW w \in Instances, NEW b \in BaseMoves(w), NEW c \in BaseMoves(w),
           Endpoints(w, b) = Endpoints(w, c), b[1] < c[1]
    PROVE  FALSE
<1> DEFINE i == c[1]
           j == b[1]
<1>1. i \in vertices /\ j \in vertices /\ i # j
  BY BaseMoveType DEF vertices
<1>2. w.near[j][b[2]] = i /\ w.near[i][c[2]] = j
  BY <1>1, BaseMoveType
<1>3. IsNeighbor(w, i, j)
  BY <1>2, BaseMoveType
<1>4. w.cost[i][j] <= Radius(w, j) /\ Radius(w, j) \in Nat /\ w.cost[i][j] \in Nat
  BY <1>1, <1>3, NeighborsAreNear, ConsideredType, MoveGeneratorsAssumption
<1>5. Inserts(w, i, c[2]) /\ ~(i < j)
  BY <1>1, BaseMoveType DEF vertices
<1>6. QED BY <1>2, <1>3, <1>4, <1>5 DEF Inserts

LEMMA OneMove ==
    ASSUME NEW w \in Instances, NEW b \in BaseMoves(w), NEW c \in BaseMoves(w),
           Endpoints(w, b) = Endpoints(w, c)
    PROVE  b = c
<1>1. b[1] \in Int /\ c[1] \in Int
  BY BaseMoveType, MoveGeneratorsAssumption DEF vertices
<1>2. b[1] = c[1]
  BY <1>1, SmallerInserts
<1>3. w.near[b[1]][b[2]] = w.near[b[1]][c[2]]
  BY <1>2, BaseMoveType
<1>4. b[2] \in DOMAIN w.near[b[1]] /\ c[2] \in DOMAIN w.near[b[1]] /\ b[1] \in vertices
      /\ b[2] \in Nat /\ c[2] \in Nat
  BY <1>2, BaseMoveType, ConsideredType
<1>5. b[2] = c[2]
  BY <1>3, <1>4, DistinctNeighbors
<1>6. QED BY <1>2, <1>5, BaseMoveType

LEMMA MoveExists ==
    ASSUME NEW w \in Instances, NEW i \in vertices, NEW p \in 1..Considered(w, i)
    PROVE  \E b \in BaseMoves(w) : Endpoints(w, b) = {i, w.near[i][p]}
<1> DEFINE j == w.near[i][p]
<1>1. j \in vertices \ {i} /\ p \in 1..MaxNeighbors /\ p <= Considered(w, i)
  BY ConsideredType, MoveGeneratorsAssumption
<1>2. CASE Inserts(w, i, p)
  <2>1. <<i, p>> \in BaseMoves(w) /\ Endpoints(w, <<i, p>>) = {i, j}
    BY <1>1, <1>2 DEF BaseMoves, Endpoints
  <2>2. QED BY <2>1
<1>3. CASE ~Inserts(w, i, p)
  <2>1. j < i
    BY <1>1, <1>3 DEF Inserts, vertices
  <2>2. Radius(w, j) \in Nat /\ w.cost[i][j] \in Nat
    BY <1>1, ConsideredType, MoveGeneratorsAssumption
  <2>3. IsNeighbor(w, i, j)
    BY <1>1, <1>3, <2>2, NearOnesAreNeighbors DEF Inserts
  <2>4. PICK q \in 1..Considered(w, j) : w.near[j][q] = i
    BY <2>3 DEF IsNeighbor
  <2>5. <<j, q>> \in BaseMoves(w)
    <3>1. q \in 1..MaxNeighbors /\ q <= Considered(w, j)
      BY <1>1, ConsideredType, MoveGeneratorsAssumption
    <3>2. Inserts(w, j, q)
      BY <2>1, <2>4 DEF Inserts
    <3>3. QED BY <1>1, <3>1, <3>2 DEF BaseMoves
  <2>6. Endpoints(w, <<j, q>>) = {i, j}
    BY <2>4 DEF Endpoints
  <2>7. QED BY <2>5, <2>6
<1>4. QED BY <1>2, <1>3

-----------------------------------------------------------------------------
(* The lists *)

MovesWith(w, v) == {b \in BaseMoves(w) : v \in Endpoints(w, b)}

ActiveIn(act, b) == \E u \in vertices : <<b, u>> \in act

\* The inductive invariant: the moves of a vertex are in order, the vertex uses
\* a prefix of them, and its list holds those that either vertex uses.
ListsInv ==
    /\ inst \in Instances
    /\ \A v \in vertices : involving[v] \in SortedByCost(inst, v)
    /\ current \in [vertices -> Nat]
    /\ \A v \in vertices : current[v] <= Considered(inst, v)
    /\ active \subseteq BaseMoves(inst) \X vertices
    /\ DOMAIN lists = vertices
    /\ \A v \in vertices :
          lists[v] = {<<b, v>> : b \in {c \in MovesWith(inst, v) : ActiveIn(active, c)}}

LEMMA FewMoves ==
    ASSUME NEW w, NEW v
    PROVE  IsFiniteSet(MovesWith(w, v))
<1>1. VerticesNum - 1 \in Int /\ MaxNeighbors \in Int /\ 0 \in Int /\ 1 \in Int
  BY MoveGeneratorsAssumption
<1>2. IsFiniteSet(0..(VerticesNum - 1)) /\ IsFiniteSet(1..MaxNeighbors)
  BY <1>1, FS_Interval
<1>3. IsFiniteSet(vertices \X (1..MaxNeighbors))
  BY <1>2, FS_Product DEF vertices
<1>4. MovesWith(w, v) \in SUBSET (vertices \X (1..MaxNeighbors))
  BY DEF MovesWith, BaseMoves
<1>5. QED BY <1>3, <1>4, FS_Subset

LEMMA SortedOrder ==
    ASSUME NEW w \in Instances, NEW v \in vertices, NEW s \in SortedByCost(w, v)
    PROVE  /\ \A p \in DOMAIN s : s[p] \in MovesWith(w, v)
           /\ \A b \in MovesWith(w, v) : \E p \in DOMAIN s : s[p] = b
           /\ \A p, q \in DOMAIN s : s[p] = s[q] => p = q
           /\ DOMAIN s = 1..Cardinality(MovesWith(w, v))
           /\ Len(s) = Cardinality(MovesWith(w, v))
           /\ Cardinality(MovesWith(w, v)) \in Nat
<1> DEFINE all == MovesWith(w, v)
<1>1. /\ s \in [1..Cardinality(all) -> all]
      /\ Range(s) = all /\ IsInjective(s)
  BY DEF SortedByCost, MovesWith
<1>2. IsFiniteSet(all) /\ Cardinality(all) \in Nat
  <2>1. IsFiniteSet(all)
    BY FewMoves
  <2>2. QED BY <2>1, FS_CardinalityType
<1>3. Len(s) = Cardinality(all)
  BY <1>1, <1>2
<1>4. \A p, q \in DOMAIN s : s[p] = s[q] => p = q
  BY <1>1 DEF IsInjective
<1>5. QED BY <1>1, <1>2, <1>3, <1>4 DEF Range

\* The number of neighbors considered is at most the number of moves: each has one.
LEMMA MovesSuffice ==
    ASSUME NEW w \in Instances, NEW v \in vertices
    PROVE  Considered(w, v) <= Cardinality(MovesWith(w, v))
<1> DEFINE n == Considered(w, v)
           all == MovesWith(w, v)
           f == [p \in 1..n |-> CHOOSE b \in BaseMoves(w) : Endpoints(w, b) = {v, w.near[v][p]}]
<1>1. \A p \in 1..n : f[p] \in BaseMoves(w) /\ Endpoints(w, f[p]) = {v, w.near[v][p]}
  BY MoveExists
<1>2. f \in [1..n -> all]
  BY <1>1 DEF MovesWith
<1>3. ASSUME NEW p \in 1..n, NEW q \in 1..n, f[p] = f[q]
      PROVE  p = q
  <2>1. w.near[v][p] = w.near[v][q]
    <3>1. {v, w.near[v][p]} = {v, w.near[v][q]}
      BY <1>1, <1>3
    <3>2. w.near[v][p] # v /\ w.near[v][q] # v
      BY ConsideredType
    <3>3. QED BY <3>1, <3>2
  <2>2. QED BY <2>1, ConsideredType, DistinctNeighbors
<1>4. f \in Injection(1..n, all)
  BY <1>2, <1>3 DEF Injection, IsInjective
<1>5. IsFiniteSet(all)
  BY FewMoves
<1>6. Cardinality(1..n) <= Cardinality(all)
  BY <1>4, <1>5, FS_Injection
<1>7. n \in Nat \ {0}
  BY ConsideredType
<1>8. Cardinality(1..n) = n
  BY <1>7, FS_Interval
<1>9. QED BY <1>6, <1>8

\* What the update of a list computes.
LEMMA ListOfActive ==
    ASSUME NEW w \in Instances, NEW v \in vertices, NEW s \in SortedByCost(w, v), NEW act
    PROVE  ListOf(w, v, s, act) = {<<b, v>> : b \in {c \in MovesWith(w, v) : ActiveIn(act, c)}}
<1> DEFINE used == {p \in DOMAIN s : ActiveIn(act, s[p])}
<1>1. \A p, q \in DOMAIN s : q < p => Endpoints(w, s[q]) # Endpoints(w, s[p])
  <2>1. SUFFICES ASSUME NEW p \in DOMAIN s, NEW q \in DOMAIN s, q < p,
                        Endpoints(w, s[q]) = Endpoints(w, s[p])
                 PROVE  FALSE
    OBVIOUS
  <2>2. s[p] = s[q]
    <3>1. s[p] \in BaseMoves(w) /\ s[q] \in BaseMoves(w)
      BY SortedOrder DEF MovesWith
    <3>2. QED BY <2>1, <3>1, OneMove
  <2>3. p = q /\ p \in Nat
    BY <2>2, SortedOrder
  <2>4. QED BY <2>1, <2>3
<1>2. ListOf(w, v, s, act) = {<<s[p], v>> : p \in used}
  BY <1>1 DEF ListOf, ActiveIn
<1>3. QED BY <1>2, SortedOrder

LEMMA InitLists == GenInit => ListsInv
<1> SUFFICES ASSUME GenInit PROVE ListsInv
  OBVIOUS
<1>1. inst \in Instances /\ \A v \in vertices : involving[v] \in SortedByCost(inst, v)
  BY DEF GenInit
<1>2. current = [v \in vertices |-> 0] /\ active = {} /\ lists = [v \in vertices |-> {}]
  BY DEF GenInit
<1>3. \A v \in vertices : current[v] <= Considered(inst, v)
  BY <1>1, <1>2, ConsideredType
<1>4. QED BY <1>1, <1>2, <1>3 DEF ListsInv, ActiveIn

\* The base moves between two numbers of neighbors are moves of the vertex.
LEMMA BetweenMoves ==
    ASSUME ListsInv, NEW v \in vertices, NEW m \in Nat, NEW n \in Nat,
           n <= Considered(inst, v)
    PROVE  Between(v, m, n) \subseteq MovesWith(inst, v)
<1>1. involving[v] \in SortedByCost(inst, v) /\ inst \in Instances
  BY DEF ListsInv
<1>2. n <= Cardinality(MovesWith(inst, v)) /\ Considered(inst, v) \in Nat
      /\ Cardinality(MovesWith(inst, v)) \in Nat
  BY <1>1, MovesSuffice, ConsideredType, SortedOrder
<1>3. (m + 1)..n \subseteq DOMAIN involving[v]
  BY <1>1, <1>2, SortedOrder
<1>4. QED BY <1>1, <1>3, SortedOrder DEF Between

LEMMA StepLists ==
    ASSUME ListsInv, [GenNext]_genVars
    PROVE  ListsInv'
<1>1. CASE UNCHANGED genVars
  BY <1>1 DEF ListsInv, genVars, ActiveIn, MovesWith
<1>2. CASE GenNext
  <2>1. PICK wanted \in Wanted : SetActivePercentage(wanted)
    BY <1>2 DEF GenNext
  <2> DEFINE on  == UNION {Between(v, current[v], wanted[v]) \X {v} : v \in vertices}
             off == UNION {Between(v, wanted[v], current[v]) \X {v} : v \in vertices}
             act == (active \ off) \cup on
  <2>2. inst' = inst /\ involving' = involving /\ current' = wanted /\ active' = act
    BY <2>1 DEF SetActivePercentage
  <2>3. /\ inst \in Instances /\ current \in [vertices -> Nat]
        /\ \A v \in vertices : involving[v] \in SortedByCost(inst, v)
        /\ \A v \in vertices : current[v] <= Considered(inst, v)
    BY DEF ListsInv
  <2>4. wanted \in [vertices -> Nat] /\ \A v \in vertices : wanted[v] <= Considered(inst, v)
    BY MoveGeneratorsAssumption DEF Wanted
  <2>5. \A v \in vertices : /\ Between(v, current[v], wanted[v]) \subseteq MovesWith(inst, v)
                            /\ Between(v, wanted[v], current[v]) \subseteq MovesWith(inst, v)
    BY <2>3, <2>4, BetweenMoves
  <2>6. act \subseteq BaseMoves(inst) \X vertices
    BY <2>5 DEF ListsInv, MovesWith
  <2>7. ASSUME NEW v \in vertices
        PROVE  lists'[v] = {<<b, v>> : b \in {c \in MovesWith(inst, v) : ActiveIn(act, c)}}
    <3>1. CASE v \in Touched(inst, wanted)
      <4>1. lists'[v] = ListOf(inst, v, involving[v], act)
        BY <2>1, <3>1 DEF SetActivePercentage
      <4>2. \A a : ListOf(inst, v, involving[v], a)
                     = {<<b, v>> : b \in {c \in MovesWith(inst, v) : ActiveIn(a, c)}}
        BY <2>3, ListOfActive
      <4>3. QED BY <4>1, <4>2
    <3>2. CASE v \notin Touched(inst, wanted)
      <4>1. lists'[v] = lists[v]
        BY <2>1, <3>2 DEF SetActivePercentage
      <4>2. ASSUME NEW b \in MovesWith(inst, v), NEW u \in vertices
            PROVE  <<b, u>> \in act <=> <<b, u>> \in active
        <5>1. b \notin Between(u, current[u], wanted[u])
              /\ b \notin Between(u, wanted[u], current[u])
          BY <3>2 DEF Touched, MovesWith
        <5>2. <<b, u>> \notin on /\ <<b, u>> \notin off
          BY <5>1
        <5>3. QED BY <5>2
      <4>3. \A b \in MovesWith(inst, v) : ActiveIn(act, b) <=> ActiveIn(active, b)
        BY <4>2 DEF ActiveIn
      <4>4. lists[v] = {<<b, v>> : b \in {c \in MovesWith(inst, v) : ActiveIn(active, c)}}
        BY DEF ListsInv
      <4>5. {c \in MovesWith(inst, v) : ActiveIn(act, c)}
            = {c \in MovesWith(inst, v) : ActiveIn(active, c)}
        BY <4>3
      <4>6. QED BY <4>1, <4>4, <4>5
    <3>3. QED BY <3>1, <3>2
  <2>8. DOMAIN lists' = vertices
    BY <2>1 DEF SetActivePercentage
  <2>9. QED BY <2>2, <2>3, <2>4, <2>6, <2>7, <2>8 DEF ListsInv, ActiveIn, MovesWith
<1>3. QED BY <1>1, <1>2

LEMMA ListsInvariant == GenSpec => []ListsInv
<1>1. QED BY InitLists, StepLists, PTL DEF GenSpec

-----------------------------------------------------------------------------
\* For every instance, each vertex and each of its considered neighbors have
\* exactly one base move: the tests of the constructor leave out no pair and
\* insert none twice, also when costs are equal.
THEOREM EveryPairHasOneMove == GenSpec => []OneMoveForEachPair
<1>1. ListsInv => OneMoveForEachPair
  <2>1. SUFFICES ASSUME ListsInv, NEW i \in vertices, NEW p \in 1..Considered(inst, i)
                 PROVE  \E b \in BaseMoves(inst) :
                            /\ Endpoints(inst, b) = {i, inst.near[i][p]}
                            /\ \A c \in BaseMoves(inst) :
                                  Endpoints(inst, c) = Endpoints(inst, b) => c = b
    BY DEF OneMoveForEachPair
  <2>2. inst \in Instances
    BY <2>1 DEF ListsInv
  <2>3. PICK b \in BaseMoves(inst) : Endpoints(inst, b) = {i, inst.near[i][p]}
    BY <2>2, MoveExists
  <2>4. QED BY <2>2, <2>3, OneMove
<1>2. QED BY <1>1, ListsInvariant, PTL

\* A vertex has as many base moves as it considers neighbors, so activating any
\* percentage of them never leaves its list of moves.
THEOREM MovesAreEnough == GenSpec => []EnoughMoves
<1>1. ListsInv => EnoughMoves
  <2>1. SUFFICES ASSUME ListsInv, NEW v \in vertices
                 PROVE  Considered(inst, v) <= Len(involving[v])
    BY DEF EnoughMoves
  <2>2. inst \in Instances /\ involving[v] \in SortedByCost(inst, v)
    BY <2>1 DEF ListsInv
  <2>3. QED BY <2>2, MovesSuffice, SortedOrder
<1>2. QED BY <1>1, ListsInvariant, PTL

\* A move is in the list of its first vertex exactly when one of its vertices
\* has it active, after any sequence of changes of the percentages.
THEOREM ListsAreActive == GenSpec => []ListsHoldTheActive
<1>1. ListsInv => ListsHoldTheActive
  <2>1. SUFFICES ASSUME ListsInv, NEW b \in BaseMoves(inst), NEW v \in vertices,
                        v \in Endpoints(inst, b)
                 PROVE  <<b, v>> \in lists[v] <=> ActiveIn(active, b)
    BY DEF ListsHoldTheActive, ActiveIn
  <2>2. b \in MovesWith(inst, v)
    BY <2>1 DEF MovesWith
  <2>3. lists[v] = {<<c, v>> : c \in {d \in MovesWith(inst, v) : ActiveIn(active, d)}}
    BY <2>1 DEF ListsInv
  <2>4. QED BY <2>2, <2>3
<1>2. QED BY <1>1, ListsInvariant, PTL

-----------------------------------------------------------------------------
(* Heaps *)

Heaps(M) == [heap : Seq(M), delta : [M -> Int], index : [M -> Nat]]

\* The moves know their places, and nobody else claims one.
Placed(g) ==
    /\ \A k \in DOMAIN g.heap : g.index[g.heap[k]] = k
    /\ \A m \in DOMAIN g.index : g.index[m] # unheaped =>
          g.index[m] \in DOMAIN g.heap /\ g.heap[g.index[m]] = m

Ordered(g) == \A k \in 2..Len(g.heap) : DeltaAt(g, Parent(k)) <= DeltaAt(g, k)

\* The same moves with the same deltas at other places.
Rearranged(r, g, M) ==
    /\ r \in Heaps(M) /\ Placed(r)
    /\ r.delta = g.delta
    /\ Len(r.heap) = Len(g.heap)
    /\ \A m \in M : r.index[m] = unheaped <=> g.index[m] = unheaped

Sound(g, M) == g \in Heaps(M) /\ Placed(g) /\ Ordered(g)

LEMMA SoundIsHeap ==
    ASSUME NEW M, NEW g, Sound(g, M)
    PROVE  IsHeap(g)
BY DEF Sound, Placed, Ordered, IsHeap

LEMMA ParentFacts ==
    /\ \A k \in Nat : k >= 2 => Parent(k) \in 1..(k - 1)
    /\ \A j, k \in Nat : j >= 2 => (Parent(j) = k <=> j = Left(k) \/ j = Right(k))
    /\ \A k \in Nat \ {0} : Left(k) \in Nat /\ Right(k) \in Nat /\ Left(k) > k /\ Right(k) > k
                            /\ Left(k) >= 2 /\ Right(k) >= 2 /\ Left(k) # Right(k)
BY DEF Parent, Left, Right

LEMMA HeapType ==
    ASSUME NEW M, NEW g \in Heaps(M)
    PROVE  /\ Len(g.heap) \in Nat /\ DOMAIN g.heap = 1..Len(g.heap)
           /\ DOMAIN g.index = M /\ DOMAIN g.delta = M
           /\ \A k \in 1..Len(g.heap) : g.heap[k] \in M /\ DeltaAt(g, k) \in Int
           /\ \A m \in M : g.delta[m] \in Int /\ g.index[m] \in Nat
           /\ g.heap \in Seq(M)
<1>1. g.heap \in Seq(M) /\ g.delta \in [M -> Int] /\ g.index \in [M -> Nat]
  BY DEF Heaps
<1>2. Len(g.heap) \in Nat /\ DOMAIN g.heap = 1..Len(g.heap)
      /\ \A k \in 1..Len(g.heap) : g.heap[k] \in M
  BY <1>1
<1> QED
  BY <1>1, <1>2 DEF DeltaAt

\* A heap is the record of its fields.
HeapOf(a, d, i) == [heap |-> a, delta |-> d, index |-> i]

LEMMA HeapRecord ==
    ASSUME NEW M, NEW a, NEW d, NEW i
    PROVE  /\ HeapOf(a, d, i).heap = a /\ HeapOf(a, d, i).delta = d
           /\ HeapOf(a, d, i).index = i
           /\ a \in Seq(M) /\ d \in [M -> Int] /\ i \in [M -> Nat]
                 => HeapOf(a, d, i) \in Heaps(M)
BY DEF HeapOf, Heaps

LEMMA PlaceIs ==
    ASSUME NEW a, NEW d, NEW i, NEW k, NEW m
    PROVE  Place(HeapOf(a, d, i), k, m)
             = HeapOf([a EXCEPT ![k] = m], d, [i EXCEPT ![m] = k])
<1> DEFINE x == [a EXCEPT ![k] = m]
           y == [i EXCEPT ![m] = k]
<1>1. Place(HeapOf(a, d, i), k, m)
        = [[HeapOf(a, d, i) EXCEPT !.heap = x] EXCEPT !.index = y]
  <2>1. HeapOf(a, d, i).heap = a /\ [HeapOf(a, d, i) EXCEPT !.heap = x].index = i
    BY DEF HeapOf
  <2> QED
    BY <2>1 DEF Place
<1> HIDE DEF x, y
<1>2. Place(HeapOf(a, d, i), k, m) = HeapOf(x, d, y)
  <2>1. [HeapOf(a, d, i) EXCEPT !.heap = x] = HeapOf(x, d, i)
    BY DEF HeapOf
  <2>2. [HeapOf(x, d, i) EXCEPT !.index = y] = HeapOf(x, d, y)
    BY DEF HeapOf
  <2> QED
    BY <1>1, <2>1, <2>2, Zenon
<1> QED
  BY <1>2 DEF x, y

\* Two moves that change places.
LEMMA SwapFacts ==
    ASSUME NEW M, NEW g \in Heaps(M), Placed(g),
           NEW k \in 1..Len(g.heap), NEW l \in 1..Len(g.heap), k # l
    PROVE  LET r == Swapped(g, k, l)
           IN  /\ Rearranged(r, g, M)
               /\ DeltaAt(r, k) = DeltaAt(g, l) /\ DeltaAt(r, l) = DeltaAt(g, k)
               /\ \A j \in 1..Len(g.heap) \ {k, l} : DeltaAt(r, j) = DeltaAt(g, j)
<1> DEFINE r == Swapped(g, k, l)
           n == Len(g.heap)
<1>1. g.heap \in Seq(M) /\ g.delta \in [M -> Int] /\ g.index \in [M -> Nat]
      /\ g = HeapOf(g.heap, g.delta, g.index)
  BY DEF Heaps, HeapOf
<1>2. n \in Nat /\ DOMAIN g.heap = 1..n /\ k \in Nat /\ l \in Nat
      /\ g.heap[k] \in M /\ g.heap[l] \in M
  BY <1>1
<1>3. r = HeapOf([g.heap EXCEPT ![k] = g.heap[l], ![l] = g.heap[k]], g.delta,
                 [g.index EXCEPT ![g.heap[l]] = k, ![g.heap[k]] = l])
  <2>1. Place(g, k, g.heap[l]) = HeapOf([g.heap EXCEPT ![k] = g.heap[l]], g.delta,
                                        [g.index EXCEPT ![g.heap[l]] = k])
    BY <1>1, PlaceIs
  <2> QED
    BY <2>1, PlaceIs DEF Swapped
<1>4. r.heap = [g.heap EXCEPT ![k] = g.heap[l], ![l] = g.heap[k]]
      /\ r.delta = g.delta
      /\ r.index = [g.index EXCEPT ![g.heap[l]] = k, ![g.heap[k]] = l]
  BY <1>3, HeapRecord
<1>5. r.heap \in Seq(M) /\ Len(r.heap) = n /\ DOMAIN r.heap = 1..n
  <2>1. [g.heap EXCEPT ![k] = g.heap[l]] \in Seq(M)
        /\ Len([g.heap EXCEPT ![k] = g.heap[l]]) = n
    BY <1>1, <1>2
  <2> QED
    BY <1>1, <1>2, <1>4, <2>1
<1>6. r \in Heaps(M)
  <2>1. r.index \in [M -> Nat] /\ r.delta \in [M -> Int] /\ r = HeapOf(r.heap, r.delta, r.index)
    BY <1>1, <1>2, <1>3, <1>4, ZenonT(40)
  <2> QED
    BY <1>5, <2>1, HeapRecord
<1>7. /\ r.heap[k] = g.heap[l] /\ r.heap[l] = g.heap[k]
      /\ \A j \in 1..n \ {k, l} : r.heap[j] = g.heap[j]
  BY <1>2, <1>4
<1>8. g.heap[k] # g.heap[l] /\ g.index[g.heap[k]] = k /\ g.index[g.heap[l]] = l
  BY <1>2 DEF Placed
<1>9. /\ r.index[g.heap[k]] = l /\ r.index[g.heap[l]] = k
      /\ \A m \in M \ {g.heap[k], g.heap[l]} : r.index[m] = g.index[m]
  BY <1>1, <1>2, <1>4, <1>8
<1> HIDE DEF r
<1>10. Placed(r)
  <2>1. ASSUME NEW j \in 1..n PROVE r.index[r.heap[j]] = j
    <3>1. CASE j \in {k, l}
      BY <1>7, <1>9, <3>1
    <3>2. CASE j \notin {k, l}
      <4>1. r.heap[j] = g.heap[j] /\ g.heap[j] \in M /\ g.index[g.heap[j]] = j
        <5>1. j \in DOMAIN g.heap /\ g.heap[j] \in M
          BY <1>1, <1>2
        <5> QED
          BY <1>7, <3>2, <5>1 DEF Placed
      <4>2. g.heap[j] \notin {g.heap[k], g.heap[l]}
        BY <1>8, <3>2, <4>1
      <4> QED
        BY <1>9, <4>1, <4>2
    <3> QED
      BY <3>1, <3>2
  <2>2. ASSUME NEW m \in M, r.index[m] # unheaped
        PROVE  r.index[m] \in 1..n /\ r.heap[r.index[m]] = m
    <3>1. CASE m \in {g.heap[k], g.heap[l]}
      BY <1>2, <1>7, <1>9, <3>1
    <3>2. CASE m \notin {g.heap[k], g.heap[l]}
      <4>1. g.index[m] = r.index[m] /\ g.index[m] \in 1..n /\ g.heap[g.index[m]] = m
        BY <1>1, <1>2, <1>9, <2>2, <3>2 DEF Placed
      <4>2. g.index[m] \notin {k, l}
        BY <3>2, <4>1
      <4> QED
        BY <1>7, <4>1, <4>2
    <3> QED
      BY <3>1, <3>2
  <2>3. DOMAIN r.index = M
    BY <1>6 DEF Heaps
  <2> QED
    BY <1>5, <2>1, <2>2, <2>3 DEF Placed
<1>11. \A m \in M : r.index[m] = unheaped <=> g.index[m] = unheaped
  <2>1. k # unheaped /\ l # unheaped
    BY DEF unheaped
  <2> QED
    BY <1>2, <1>8, <1>9, <2>1
<1> QED
  BY <1>4, <1>5, <1>6, <1>7, <1>10, <1>11 DEF Rearranged, DeltaAt, r

LEMMA RearrangedTwice ==
    ASSUME NEW M, NEW g, NEW r, NEW s, Rearranged(r, g, M), Rearranged(s, r, M)
    PROVE  Rearranged(s, g, M)
BY DEF Rearranged

-----------------------------------------------------------------------------
(* Rising and sinking *)

\* All is in order but the place k, whose move may be too small for it.
AlmostUp(g, k) ==
    \A j \in 2..Len(g.heap) :
        /\ j # k => DeltaAt(g, Parent(j)) <= DeltaAt(g, j)
        /\ Parent(j) = k /\ k > 1 => DeltaAt(g, Parent(k)) <= DeltaAt(g, j)

\* All is in order but the children of k, whose move may be too great for it.
AlmostDown(g, k) ==
    \A j \in 2..Len(g.heap) :
        /\ Parent(j) # k => DeltaAt(g, Parent(j)) <= DeltaAt(g, j)
        /\ Parent(j) = k /\ k > 1 => DeltaAt(g, Parent(k)) <= DeltaAt(g, j)

LEMMA RiseStep ==
    ASSUME NEW M, NEW g \in Heaps(M), Placed(g), NEW k \in 1..Len(g.heap),
           AlmostUp(g, k), k > 1, DeltaAt(g, k) < DeltaAt(g, Parent(k))
    PROVE  /\ Parent(k) \in 1..(k - 1)
           /\ Rearranged(Swapped(g, k, Parent(k)), g, M)
           /\ AlmostUp(Swapped(g, k, Parent(k)), Parent(k))
<1> DEFINE p == Parent(k)
           r == Swapped(g, k, p)
           n == Len(g.heap)
<1>1. n \in Nat /\ \A j \in 1..n : DeltaAt(g, j) \in Int
  BY HeapType
<1>2. p \in 1..(k - 1) /\ p \in 1..n /\ p # k /\ k \in 2..n
  <2>1. k \in Nat /\ k >= 2
    BY <1>1
  <2>2. p \in 1..(k - 1)
    BY <2>1, ParentFacts
  <2> QED
    BY <1>1, <2>1, <2>2
<1>3. /\ Rearranged(r, g, M) /\ DeltaAt(r, k) = DeltaAt(g, p) /\ DeltaAt(r, p) = DeltaAt(g, k)
      /\ \A j \in 1..n \ {k, p} : DeltaAt(r, j) = DeltaAt(g, j)
  BY <1>2, SwapFacts
<1> HIDE DEF r
<1>4. ASSUME NEW j \in 2..n
      PROVE  /\ j # p => DeltaAt(r, Parent(j)) <= DeltaAt(r, j)
             /\ Parent(j) = p /\ p > 1 => DeltaAt(r, Parent(p)) <= DeltaAt(r, j)
  <2>1. j \in 1..n /\ Parent(j) \in 1..(j - 1) /\ Parent(j) \in 1..n
    <3>1. j \in Nat /\ j >= 2 /\ j <= n
      BY <1>1
    <3>2. Parent(j) \in 1..(j - 1)
      BY <3>1, ParentFacts
    <3> QED
      BY <1>1, <3>1, <3>2
  <2>2. j # k => DeltaAt(g, Parent(j)) <= DeltaAt(g, j)
    BY DEF AlmostUp
  <2>3. Parent(j) = k => DeltaAt(g, p) <= DeltaAt(g, j)
    BY DEF AlmostUp
  <2>4. ASSUME j # p PROVE DeltaAt(r, Parent(j)) <= DeltaAt(r, j)
    <3>1. CASE j = k
      BY <1>1, <1>2, <1>3, <3>1
    <3>2. CASE j # k /\ Parent(j) = k
      BY <1>1, <1>2, <1>3, <2>1, <2>3, <2>4, <3>2
    <3>3. CASE j # k /\ Parent(j) = p
      <4>1. DeltaAt(r, j) = DeltaAt(g, j)
        BY <1>3, <2>1, <2>4, <3>3
      <4> QED
        BY <1>1, <1>2, <1>3, <2>1, <2>2, <3>3, <4>1
    <3>4. CASE j # k /\ Parent(j) # k /\ Parent(j) # p
      <4>1. DeltaAt(r, j) = DeltaAt(g, j) /\ DeltaAt(r, Parent(j)) = DeltaAt(g, Parent(j))
        BY <1>3, <2>1, <2>4, <3>4
      <4> QED
        BY <2>2, <3>4, <4>1
    <3> QED
      BY <3>1, <3>2, <3>3, <3>4
  <2>5. ASSUME Parent(j) = p, p > 1 PROVE DeltaAt(r, Parent(p)) <= DeltaAt(r, j)
    <3>1. p \in 2..n /\ Parent(p) \in 1..(p - 1) /\ Parent(p) \in 1..n \ {k, p}
      <4>1. p \in Nat /\ p >= 2 /\ p < k
        BY <1>2, <2>5
      <4>2. Parent(p) \in 1..(p - 1)
        BY <4>1, ParentFacts
      <4> QED
        BY <1>1, <1>2, <4>1, <4>2
    <3>2. DeltaAt(r, Parent(p)) = DeltaAt(g, Parent(p))
      BY <1>3, <3>1
    <3>3. DeltaAt(g, Parent(p)) <= DeltaAt(g, p)
      BY <1>2, <3>1 DEF AlmostUp
    <3>4. CASE j = k
      BY <1>3, <3>2, <3>3, <3>4
    <3>5. CASE j # k
      <4>1. j # p /\ DeltaAt(r, j) = DeltaAt(g, j)
        BY <1>3, <2>1, <2>5, <3>5
      <4>2. DeltaAt(g, p) <= DeltaAt(g, j)
        BY <2>2, <2>5, <3>5
      <4> QED
        BY <1>1, <1>2, <2>1, <3>1, <3>2, <3>3, <4>1, <4>2, SMTT(30)
    <3> QED
      BY <3>4, <3>5
  <2> QED
    BY <2>4, <2>5
<1>5. Len(r.heap) = n
  BY <1>3 DEF Rearranged
<1>6. AlmostUp(r, p)
  BY <1>4, <1>5 DEF AlmostUp
<1> QED
  BY <1>2, <1>3, <1>6 DEF r

\* The smaller child, when it is smaller than its parent.
LEMMA MinFacts ==
    ASSUME NEW M, NEW g \in Heaps(M), NEW k \in 1..Len(g.heap)
    PROVE  LET l == MinLR(g, k)
           IN  \/ /\ l = unheaped
                  /\ \A j \in 2..Len(g.heap) : Parent(j) = k => DeltaAt(g, k) <= DeltaAt(g, j)
               \/ /\ l # unheaped /\ l \in 2..Len(g.heap) /\ Parent(l) = k
                  /\ DeltaAt(g, l) < DeltaAt(g, k)
                  /\ \A j \in 2..Len(g.heap) : Parent(j) = k => DeltaAt(g, l) <= DeltaAt(g, j)
<1> DEFINE n == Len(g.heap)
           L == Left(k)
           R == Right(k)
           s == IF R <= n /\ DeltaAt(g, R) < DeltaAt(g, L) THEN R ELSE L
<1>1. n \in Nat /\ \A j \in 1..n : DeltaAt(g, j) \in Int
  BY HeapType
<1>2. k \in Nat \ {0} /\ L \in Nat /\ R \in Nat /\ L >= 2 /\ R >= 2 /\ R = L + 1
  BY <1>1 DEF Left, Right
<1>3. \A j \in 2..n : Parent(j) = k <=> j = L \/ j = R
  BY <1>1, <1>2, ParentFacts
<1>4. MinLR(g, k) = IF s <= n /\ DeltaAt(g, s) < DeltaAt(g, k) THEN s ELSE unheaped
  BY DEF MinLR
<1>5. s \in {L, R} /\ s >= 2 /\ s \in Nat
  BY <1>2
<1>6. s <= n => \A j \in 2..n : Parent(j) = k => DeltaAt(g, s) <= DeltaAt(g, j)
  BY <1>1, <1>2, <1>3
<1>7. ~(s <= n) => \A j \in 2..n : Parent(j) # k
  BY <1>1, <1>2, <1>3
<1> HIDE DEF s, L, R
<1>8. CASE s <= n /\ DeltaAt(g, s) < DeltaAt(g, k)
  <2>1. s \in 2..n /\ Parent(s) = k /\ s # unheaped
    BY <1>1, <1>3, <1>5, <1>8 DEF unheaped
  <2> QED
    BY <1>4, <1>6, <1>8, <2>1
<1>9. CASE ~(s <= n /\ DeltaAt(g, s) < DeltaAt(g, k))
  <2>1. MinLR(g, k) = unheaped
    BY <1>4, <1>9
  <2>2. CASE ~(s <= n)
    BY <1>7, <2>1, <2>2
  <2>3. CASE s <= n
    <3>1. s \in 1..n /\ k \in 1..n /\ ~(DeltaAt(g, s) < DeltaAt(g, k))
      BY <1>1, <1>5, <1>9, <2>3
    <3>2. DeltaAt(g, k) <= DeltaAt(g, s) /\ DeltaAt(g, k) \in Int /\ DeltaAt(g, s) \in Int
      BY <1>1, <3>1
    <3>3. ASSUME NEW j \in 2..n, Parent(j) = k PROVE DeltaAt(g, k) <= DeltaAt(g, j)
      <4>1. DeltaAt(g, s) <= DeltaAt(g, j) /\ DeltaAt(g, j) \in Int
        BY <1>1, <1>6, <2>3, <3>3
      <4> QED
        BY <3>2, <4>1
    <3> QED
      BY <2>1, <3>3
  <2> QED
    BY <2>2, <2>3
<1> QED
  BY <1>8, <1>9

LEMMA SinkStep ==
    ASSUME NEW M, NEW g \in Heaps(M), Placed(g), NEW k \in 1..Len(g.heap),
           AlmostDown(g, k), MinLR(g, k) # unheaped
    PROVE  /\ MinLR(g, k) \in (k + 1)..Len(g.heap)
           /\ Rearranged(Swapped(g, k, MinLR(g, k)), g, M)
           /\ AlmostDown(Swapped(g, k, MinLR(g, k)), MinLR(g, k))
<1> DEFINE l == MinLR(g, k)
           r == Swapped(g, k, l)
           n == Len(g.heap)
<1>1. n \in Nat /\ k \in Nat /\ \A j \in 1..n : DeltaAt(g, j) \in Int
  BY HeapType
<1>2. /\ l \in 2..n /\ Parent(l) = k
      /\ DeltaAt(g, l) < DeltaAt(g, k)
      /\ \A j \in 2..n : Parent(j) = k => DeltaAt(g, l) <= DeltaAt(g, j)
  BY MinFacts
<1> HIDE DEF l
<1>3. l \in (k + 1)..n /\ l \in 1..n /\ l # k
  BY <1>1, <1>2, ParentFacts
<1>4. /\ Rearranged(r, g, M) /\ DeltaAt(r, k) = DeltaAt(g, l) /\ DeltaAt(r, l) = DeltaAt(g, k)
      /\ \A j \in 1..n \ {k, l} : DeltaAt(r, j) = DeltaAt(g, j)
  BY <1>3, SwapFacts
<1> HIDE DEF r
<1>5. ASSUME NEW j \in 2..n
      PROVE  /\ Parent(j) # l => DeltaAt(r, Parent(j)) <= DeltaAt(r, j)
             /\ Parent(j) = l /\ l > 1 => DeltaAt(r, Parent(l)) <= DeltaAt(r, j)
  <2>1. j \in 1..n /\ Parent(j) \in 1..(j - 1) /\ Parent(j) \in 1..n
    BY <1>1, ParentFacts
  <2>2. Parent(j) # k => DeltaAt(g, Parent(j)) <= DeltaAt(g, j)
    BY DEF AlmostDown
  <2>3. ASSUME Parent(j) # l PROVE DeltaAt(r, Parent(j)) <= DeltaAt(r, j)
    <3>1. CASE j = l
      BY <1>1, <1>2, <1>3, <1>4, <3>1
    <3>2. CASE j # l /\ Parent(j) = k
      <4>1. DeltaAt(r, j) = DeltaAt(g, j) /\ DeltaAt(g, l) <= DeltaAt(g, j)
        BY <1>2, <1>4, <2>1, <3>2
      <4> QED
        BY <1>4, <3>2, <4>1
    <3>3. CASE j = k
      <4>1. k > 1 /\ Parent(k) \in 1..n \ {k, l}
        BY <1>1, <1>3, <2>1, <2>3, <3>3
      <4>2. DeltaAt(g, Parent(k)) <= DeltaAt(g, l)
        BY <1>2, <4>1 DEF AlmostDown
      <4> QED
        BY <1>4, <3>3, <4>1, <4>2
    <3>4. CASE j # l /\ j # k /\ Parent(j) # k
      <4>1. DeltaAt(r, j) = DeltaAt(g, j) /\ DeltaAt(r, Parent(j)) = DeltaAt(g, Parent(j))
        BY <1>4, <2>1, <2>3, <3>4
      <4> QED
        BY <2>2, <3>4, <4>1
    <3> QED
      BY <3>1, <3>2, <3>3, <3>4
  <2>4. ASSUME Parent(j) = l PROVE DeltaAt(r, Parent(l)) <= DeltaAt(r, j)
    <3>1. j \in 1..n \ {k, l}
      BY <1>1, <1>3, <2>1, <2>4
    <3> QED
      BY <1>2, <1>3, <1>4, <2>2, <2>4, <3>1
  <2> QED
    BY <2>3, <2>4
<1>6. Len(r.heap) = n
  BY <1>4 DEF Rearranged
<1>7. AlmostDown(r, l)
  BY <1>5, <1>6 DEF AlmostDown
<1> QED
  BY <1>3, <1>4, <1>7 DEF r, l

RiseRound(s, n) == Rise(s)
SinkRound(s, n) == Sink(s)

Rising == INSTANCE Folding WITH Op <- RiseRound
Sinking == INSTANCE Folding WITH Op <- SinkRound

LEMMA SpotFacts ==
    ASSUME NEW g, NEW k
    PROVE  Spot(g, k).h = g /\ Spot(g, k).k = k
           /\ \A M : g \in Heaps(M) /\ k \in Nat => Spot(g, k) \in [h : Heaps(M), k : Nat]
BY DEF Spot

\* A move that may be too small for its place rises to where it belongs.
LEMMA UpsiftOrders ==
    ASSUME NEW M, NEW g \in Heaps(M), Placed(g), NEW k \in 1..Len(g.heap), AlmostUp(g, k)
    PROVE  Rearranged(Upsift(g, k), g, M) /\ Ordered(Upsift(g, k))
<1> DEFINE n == Len(g.heap)
           f == CHOOSE f : Rising!IsLoop(f, Spot(g, k), k)
           S == [h : Heaps(M), k : Nat]
           Fine(x, i) == /\ Rearranged(x.h, g, M) /\ x.k \in 1..n /\ AlmostUp(x.h, x.k)
                         /\ Ordered(x.h) \/ x.k + i <= k
           P == {p \in S \X Nat : Fine(p[1], p[2])}
<1>1. n \in Nat /\ k \in Nat
  BY HeapType
<1>2. Rising!IsLoop(f, Spot(g, k), k)
  BY <1>1, Rising!LoopExists
<1>3. Upsift(g, k) = f[k].h
  BY DEF Upsift, Rising!IsLoop, RiseRound
<1> HIDE DEF f
<1>4. <<Spot(g, k), 0>> \in P
  <2>1. Spot(g, k) \in S /\ Spot(g, k).h = g /\ Spot(g, k).k = k
    BY <1>1, SpotFacts
  <2>2. Rearranged(g, g, M)
    BY DEF Rearranged
  <2> QED
    BY <1>1, <2>1, <2>2
<1>5. ASSUME NEW i \in 1..k, NEW x, <<x, i - 1>> \in P PROVE <<RiseRound(x, i), i>> \in P
  <2>1. x \in S /\ Fine(x, i - 1) /\ i - 1 \in Nat /\ i \in Nat
    BY <1>5
  <2>2. x.h \in Heaps(M) /\ x.k \in 1..Len(x.h.heap) /\ Placed(x.h) /\ AlmostUp(x.h, x.k)
        /\ Len(x.h.heap) = n /\ x.k \in Nat
    BY <2>1 DEF Rearranged
  <2>3. CASE x.k > 1 /\ DeltaAt(x.h, x.k) < DeltaAt(x.h, Parent(x.k))
    <3> DEFINE q == Parent(x.k)
               r == Swapped(x.h, x.k, q)
    <3>1. q \in 1..(x.k - 1) /\ Rearranged(r, x.h, M) /\ AlmostUp(r, q)
      BY <2>2, <2>3, RiseStep
    <3>2. Rise(x) = Spot(r, q)
      BY <2>3 DEF Rise
    <3> HIDE DEF r, q
    <3>3. Rearranged(r, g, M) /\ r \in Heaps(M)
      BY <2>1, <3>1, RearrangedTwice DEF Rearranged
    <3>4. ~Ordered(x.h)
      <4>1. x.k \in 2..Len(x.h.heap)
        BY <1>1, <2>2, <2>3
      <4>2. DeltaAt(x.h, x.k) \in Int /\ DeltaAt(x.h, Parent(x.k)) \in Int
        <5>1. Parent(x.k) \in 1..Len(x.h.heap) /\ x.k \in 1..Len(x.h.heap)
          BY <1>1, <2>2, <3>1 DEF q
        <5> QED
          BY <2>2, <5>1, HeapType
      <4> QED
        BY <2>3, <4>1, <4>2 DEF Ordered
    <3>5. x.k + (i - 1) <= k
      BY <2>1, <3>4
    <3>6. q \in 1..n /\ q + i <= k /\ q \in Nat
      BY <1>1, <2>1, <2>2, <3>1, <3>5
    <3>7. Spot(r, q) \in S /\ Spot(r, q).h = r /\ Spot(r, q).k = q
      BY <3>3, <3>6, SpotFacts
    <3>8. Fine(Spot(r, q), i)
      BY <3>1, <3>3, <3>6, <3>7
    <3> QED
      BY <2>1, <3>2, <3>7, <3>8 DEF RiseRound
  <2>4. CASE ~(x.k > 1 /\ DeltaAt(x.h, x.k) < DeltaAt(x.h, Parent(x.k)))
    <3>1. Rise(x) = x
      BY <2>4 DEF Rise
    <3>2. ASSUME NEW j \in 2..Len(x.h.heap)
          PROVE  DeltaAt(x.h, Parent(j)) <= DeltaAt(x.h, j)
      <4>1. CASE j # x.k
        BY <2>2, <4>1 DEF AlmostUp
      <4>2. CASE j = x.k
        <5>1. x.k > 1 /\ Parent(x.k) \in 1..(x.k - 1)
          <6>1. x.k \in Nat /\ x.k >= 2 /\ x.k > 1
            BY <1>1, <2>2, <4>2
          <6>2. Parent(x.k) \in 1..(x.k - 1)
            BY <6>1, ParentFacts
          <6> QED
            BY <6>1, <6>2
        <5>2. Parent(x.k) \in 1..Len(x.h.heap)
          BY <1>1, <2>2, <5>1
        <5>3. DeltaAt(x.h, x.k) \in Int /\ DeltaAt(x.h, Parent(x.k)) \in Int
          BY <2>2, <5>2, HeapType
        <5> QED
          BY <2>4, <4>2, <5>1, <5>3
      <4> QED
        BY <4>1, <4>2
    <3>3. Ordered(x.h)
      BY <3>2 DEF Ordered
    <3> QED
      BY <2>1, <3>1, <3>3 DEF RiseRound
  <2> QED
    BY <2>3, <2>4
<1> HIDE DEF P
<1>6. <<f[k], k>> \in P
  BY <1>1, <1>2, <1>4, <1>5, Rising!LoopPreserves
<1>7. Fine(f[k], k)
  BY <1>6 DEF P
<1>8. Ordered(f[k].h)
  BY <1>1, <1>7
<1> QED
  BY <1>3, <1>7, <1>8

\* A move that may be too great for its place sinks to where it belongs.
LEMMA HeapifyOrders ==
    ASSUME NEW M, NEW g \in Heaps(M), Placed(g), NEW k \in 1..Len(g.heap), AlmostDown(g, k)
    PROVE  Rearranged(Heapify(g, k), g, M) /\ Ordered(Heapify(g, k))
<1> DEFINE n == Len(g.heap)
           f == CHOOSE f : Sinking!IsLoop(f, Spot(g, k), n)
           S == [h : Heaps(M), k : Nat]
           Fine(x, i) == /\ Rearranged(x.h, g, M) /\ x.k \in 1..n /\ AlmostDown(x.h, x.k)
                         /\ Ordered(x.h) \/ x.k >= k + i
           P == {p \in S \X Nat : Fine(p[1], p[2])}
<1>1. n \in Nat /\ k \in Nat
  BY HeapType
<1>2. Sinking!IsLoop(f, Spot(g, k), n)
  BY <1>1, Sinking!LoopExists
<1>3. Heapify(g, k) = f[n].h
  BY DEF Heapify, Sinking!IsLoop, SinkRound
<1> HIDE DEF f
<1>4. <<Spot(g, k), 0>> \in P
  <2>1. Spot(g, k) \in S /\ Spot(g, k).h = g /\ Spot(g, k).k = k
    BY <1>1, SpotFacts
  <2>2. Rearranged(g, g, M)
    BY DEF Rearranged
  <2> QED
    BY <1>1, <2>1, <2>2
<1>5. ASSUME NEW i \in 1..n, NEW x, <<x, i - 1>> \in P PROVE <<SinkRound(x, i), i>> \in P
  <2>1. x \in S /\ Fine(x, i - 1) /\ i - 1 \in Nat /\ i \in Nat
    BY <1>5
  <2>2. x.h \in Heaps(M) /\ x.k \in 1..Len(x.h.heap) /\ Placed(x.h) /\ AlmostDown(x.h, x.k)
        /\ Len(x.h.heap) = n /\ x.k \in Nat
    BY <2>1 DEF Rearranged
  <2> DEFINE l == MinLR(x.h, x.k)
  <2>3. CASE l # unheaped
    <3> DEFINE r == Swapped(x.h, x.k, l)
    <3>1. l \in (x.k + 1)..n /\ Rearranged(r, x.h, M) /\ AlmostDown(r, l)
      BY <2>2, <2>3, SinkStep
    <3>2. Sink(x) = Spot(r, l)
      BY <2>3 DEF Sink
    <3>3. ~Ordered(x.h)
      <4>1. l \in 2..Len(x.h.heap) /\ Parent(l) = x.k /\ DeltaAt(x.h, l) < DeltaAt(x.h, x.k)
        BY <2>2, <2>3, MinFacts
      <4>2. DeltaAt(x.h, l) \in Int /\ DeltaAt(x.h, x.k) \in Int
        <5>1. l \in 1..Len(x.h.heap)
          BY <1>1, <2>2, <4>1
        <5> QED
          BY <2>2, <5>1, HeapType
      <4> QED
        BY <4>1, <4>2 DEF Ordered
    <3> HIDE DEF r, l
    <3>4. Rearranged(r, g, M) /\ r \in Heaps(M)
      BY <2>1, <3>1, RearrangedTwice DEF Rearranged
    <3>5. x.k >= k + (i - 1)
      BY <2>1, <3>3
    <3>6. l \in 1..n /\ l >= k + i /\ l \in Nat
      BY <1>1, <2>1, <2>2, <3>1, <3>5
    <3>7. Spot(r, l) \in S /\ Spot(r, l).h = r /\ Spot(r, l).k = l
      BY <3>4, <3>6, SpotFacts
    <3>8. Fine(Spot(r, l), i)
      BY <3>1, <3>4, <3>6, <3>7
    <3> QED
      BY <2>1, <3>2, <3>7, <3>8 DEF SinkRound
  <2>4. CASE l = unheaped
    <3>1. Sink(x) = x
      BY <2>4 DEF Sink
    <3>2. \A j \in 2..Len(x.h.heap) : Parent(j) = x.k => DeltaAt(x.h, x.k) <= DeltaAt(x.h, j)
      BY <2>2, <2>4, MinFacts
    <3>3. Ordered(x.h)
      BY <2>2, <3>2 DEF Ordered, AlmostDown
    <3> QED
      BY <2>1, <3>1, <3>3 DEF SinkRound
  <2> QED
    BY <2>3, <2>4
<1> HIDE DEF P
<1>6. <<f[n], n>> \in P
  BY <1>1, <1>2, <1>4, <1>5, Sinking!LoopPreserves
<1>7. Fine(f[n], n)
  BY <1>6 DEF P
<1>8. Ordered(f[n].h)
  BY <1>1, <1>7
<1> QED
  BY <1>3, <1>7, <1>8

-----------------------------------------------------------------------------
(* The operations of the heap *)

\* All would be in order if the delta at k were `old'.
OrderedWith(g, k, old) ==
    LET at(j) == IF j = k THEN old ELSE DeltaAt(g, j)
    IN  \A j \in 2..Len(g.heap) : at(Parent(j)) <= at(j)

\* When one delta has changed, its move rises or sinks, and all is in order.
LEMMA SettledOrders ==
    ASSUME NEW M, NEW g \in Heaps(M), Placed(g), NEW k \in 1..Len(g.heap),
           NEW old \in Int, OrderedWith(g, k, old),
           NEW change \in Int, change = old - DeltaAt(g, k)
    PROVE  Rearranged(Settled(g, k, change), g, M) /\ Ordered(Settled(g, k, change))
<1> DEFINE n == Len(g.heap)
           at(j) == IF j = k THEN old ELSE DeltaAt(g, j)
<1>1. n \in Nat /\ k \in Nat /\ \A j \in 1..n : DeltaAt(g, j) \in Int
  BY HeapType
<1>2. \A j \in 2..n : at(Parent(j)) <= at(j)
  BY DEF OrderedWith
<1>3. \A j \in 2..n : Parent(j) \in 1..n /\ Parent(j) # j /\ (j = k => Parent(k) # k)
  <2> TAKE j \in 2..n
  <2>1. j \in Nat /\ j >= 2 /\ j <= n
    BY <1>1
  <2>2. Parent(j) \in 1..(j - 1)
    BY <2>1, ParentFacts
  <2> QED
    BY <1>1, <2>1, <2>2
<1>4. \A j \in 1..n : at(j) \in Int
  BY <1>1
\* The parent of k is not greater than the children of k.
<1>5. ASSUME NEW j \in 2..n, Parent(j) = k, k > 1
      PROVE  DeltaAt(g, Parent(k)) <= DeltaAt(g, j)
  <2>1. k \in 2..n /\ j # k /\ Parent(k) # k /\ Parent(k) \in 1..n /\ j \in 1..n
    BY <1>1, <1>3, <1>5
  <2>2. at(Parent(k)) <= at(k) /\ at(k) <= at(j)
    BY <1>2, <1>5, <2>1
  <2>3. at(Parent(k)) = DeltaAt(g, Parent(k)) /\ at(j) = DeltaAt(g, j) /\ at(k) = old
    BY <2>1
  <2> QED
    BY <1>1, <2>1, <2>2, <2>3
<1>6. CASE change > 0
  <2>1. ASSUME NEW j \in 2..n, j # k PROVE DeltaAt(g, Parent(j)) <= DeltaAt(g, j)
    <3>1. j \in 1..n /\ at(Parent(j)) <= at(j) /\ Parent(j) \in 1..n
      BY <1>1, <1>2, <1>3
    <3>2. DeltaAt(g, k) < old /\ DeltaAt(g, k) \in Int
      BY <1>1, <1>6
    <3> QED
      BY <1>1, <2>1, <3>1, <3>2
  <2>2. AlmostUp(g, k)
    BY <1>5, <2>1 DEF AlmostUp
  <2>3. Settled(g, k, change) = Upsift(g, k)
    BY <1>6 DEF Settled
  <2> QED
    BY <2>2, <2>3, UpsiftOrders
<1>7. CASE change < 0
  <2>1. ASSUME NEW j \in 2..n, Parent(j) # k PROVE DeltaAt(g, Parent(j)) <= DeltaAt(g, j)
    <3>1. j \in 1..n /\ at(Parent(j)) <= at(j) /\ Parent(j) \in 1..n
      BY <1>1, <1>2, <1>3
    <3>2. old < DeltaAt(g, k) /\ DeltaAt(g, k) \in Int
      BY <1>1, <1>7
    <3> QED
      BY <1>1, <2>1, <3>1, <3>2
  <2>2. AlmostDown(g, k)
    BY <1>5, <2>1 DEF AlmostDown
  <2>3. Settled(g, k, change) = Heapify(g, k)
    BY <1>7 DEF Settled
  <2> QED
    BY <2>2, <2>3, HeapifyOrders
<1>8. CASE change = 0
  <2>1. old = DeltaAt(g, k)
    BY <1>1, <1>8
  <2>2. Ordered(g)
    BY <1>2, <2>1 DEF Ordered
  <2>3. Settled(g, k, change) = g
    BY <1>8 DEF Settled
  <2> QED
    BY <2>2, <2>3 DEF Rearranged
<1> QED
  BY <1>6, <1>7, <1>8

\* What the operations promise: the heap is sound, its deltas are those of d and
\* its moves are the members.
Holds(r, M, d, members) ==
    /\ Sound(r, M) /\ r.delta = d
    /\ \A m \in M : r.index[m] # unheaped <=> m \in members

Heaped(g) == {m \in DOMAIN g.index : g.index[m] # unheaped}

LEMMA InsertHolds ==
    ASSUME NEW M, NEW g, Sound(g, M), NEW m \in M, g.index[m] = unheaped
    PROVE  Holds(HeapInsert(g, m), M, g.delta, Heaped(g) \cup {m})
<1> DEFINE n == Len(g.heap)
           k == n + 1
           a == [g EXCEPT !.heap = Append(@, m), !.index[m] = k]
           b == Append(g.heap, m)
           i == [g.index EXCEPT ![m] = k]
<1>1. /\ g \in Heaps(M) /\ Placed(g) /\ Ordered(g)
      /\ n \in Nat /\ g.heap \in Seq(M) /\ g.delta \in [M -> Int] /\ g.index \in [M -> Nat]
      /\ g = HeapOf(g.heap, g.delta, g.index)
  BY DEF Sound, Heaps, HeapOf
<1>2. a = HeapOf(b, g.delta, i)
  <2> HIDE DEF b, i
  <2>1. [g EXCEPT !.heap = b] = HeapOf(b, g.delta, g.index)
    BY <1>1 DEF HeapOf
  <2>2. [HeapOf(b, g.delta, g.index) EXCEPT !.index = i] = HeapOf(b, g.delta, i)
    BY DEF HeapOf
  <2>3. a = [[g EXCEPT !.heap = b] EXCEPT !.index = i]
    <3>1. [g EXCEPT !.heap = b].index = g.index
      BY <2>1 DEF HeapOf
    <3> QED
      BY <3>1 DEF b, i
  <2> HIDE DEF a
  <2> QED
    BY <2>1, <2>2, <2>3, Zenon
<1>3. b \in Seq(M) /\ Len(b) = k /\ DOMAIN b = 1..k /\ b[k] = m
      /\ \A j \in 1..n : b[j] = g.heap[j]
  BY <1>1
<1>4. i \in [M -> Nat] /\ i[m] = k /\ \A x \in M \ {m} : i[x] = g.index[x]
  BY <1>1
<1> HIDE DEF a, b, i
<1>5. a \in Heaps(M) /\ a.heap = b /\ a.delta = g.delta /\ a.index = i
  <2>1. b \in Seq(M) /\ g.delta \in [M -> Int] /\ i \in [M -> Nat]
    BY <1>1, <1>3, <1>4
  <2> QED
    BY <1>2, <2>1, HeapRecord
<1>6. \A j \in 1..n : g.heap[j] # m /\ g.heap[j] \in M
  <2> TAKE j \in 1..n
  <2>1. j \in DOMAIN g.heap /\ g.heap[j] \in M /\ j # unheaped
    BY <1>1 DEF unheaped
  <2>2. g.index[g.heap[j]] = j
    BY <1>1, <2>1 DEF Placed
  <2> QED
    BY <2>1, <2>2
<1>7. Placed(a)
  <2>1. ASSUME NEW j \in 1..k PROVE i[b[j]] = j
    <3>1. CASE j = k
      BY <1>3, <1>4, <3>1
    <3>2. CASE j # k
      <4>1. j \in 1..n
        BY <1>1, <3>2
      <4>2. b[j] = g.heap[j] /\ g.heap[j] \in M \ {m}
        BY <1>3, <1>6, <4>1
      <4>3. g.index[g.heap[j]] = j
        <5>1. j \in DOMAIN g.heap
          BY <1>1, <4>1
        <5> QED
          BY <1>1, <5>1 DEF Placed
      <4> QED
        BY <1>4, <4>2, <4>3
    <3> QED
      BY <3>1, <3>2
  <2>2. ASSUME NEW x \in M, i[x] # unheaped PROVE i[x] \in 1..k /\ b[i[x]] = x
    <3>1. CASE x = m
      BY <1>1, <1>3, <1>4, <3>1
    <3>2. CASE x # m
      <4>1. i[x] = g.index[x] /\ g.index[x] \in 1..n /\ g.heap[g.index[x]] = x
        BY <1>1, <1>4, <2>2, <3>2 DEF Placed
      <4>2. b[g.index[x]] = g.heap[g.index[x]] /\ g.index[x] \in 1..k
        BY <1>1, <1>3, <4>1
      <4> QED
        BY <4>1, <4>2
    <3> QED
      BY <3>1, <3>2
  <2> QED
    BY <1>3, <1>4, <1>5, <2>1, <2>2 DEF Placed
<1>8. AlmostUp(a, k) /\ k \in 1..Len(a.heap)
  <2>1. \A j \in 1..n : DeltaAt(a, j) = DeltaAt(g, j)
    BY <1>3, <1>5 DEF DeltaAt
  <2>2. ASSUME NEW j \in 2..k
        PROVE  (j # k => DeltaAt(a, Parent(j)) <= DeltaAt(a, j)) /\ Parent(j) # k
    <3>1. j \in Nat /\ j >= 2 /\ j <= k
      BY <1>1
    <3>2. Parent(j) \in 1..(j - 1)
      BY <3>1, ParentFacts
    <3>3. Parent(j) \in 1..n /\ Parent(j) # k
      BY <1>1, <3>1, <3>2
    <3>4. ASSUME j # k PROVE DeltaAt(a, Parent(j)) <= DeltaAt(a, j)
      <4>1. j \in 2..n /\ j \in 1..n
        BY <1>1, <3>1, <3>4
      <4>2. DeltaAt(g, Parent(j)) <= DeltaAt(g, j)
        BY <1>1, <4>1 DEF Ordered
      <4> QED
        BY <2>1, <3>3, <4>1, <4>2
    <3> QED
      BY <3>3, <3>4
  <2> QED
    BY <1>1, <1>3, <1>5, <2>2 DEF AlmostUp
<1>9. HeapInsert(g, m) = Upsift(a, k)
  BY DEF HeapInsert, a
<1>10. Rearranged(HeapInsert(g, m), a, M) /\ Ordered(HeapInsert(g, m))
  BY <1>5, <1>7, <1>8, <1>9, UpsiftOrders
<1>11. \A x \in M : i[x] # unheaped <=> x \in Heaped(g) \cup {m}
  <2>1. k # unheaped /\ DOMAIN g.index = M
    BY <1>1 DEF unheaped
  <2> QED
    BY <1>4, <2>1 DEF Heaped
<1> QED
  BY <1>5, <1>10, <1>11 DEF Rearranged, Holds, Sound

\* What is left of a heap when a move is taken out and the last place is cut off.
LEMMA GoneIs ==
    ASSUME NEW M, NEW g \in Heaps(M), NEW m
    PROVE  DropLast([g EXCEPT !.index[m] = unheaped])
             = HeapOf(SubSeq(g.heap, 1, Len(g.heap) - 1), g.delta,
                      [g.index EXCEPT ![m] = unheaped])
<1> DEFINE i == [g.index EXCEPT ![m] = unheaped]
           b == SubSeq(g.heap, 1, Len(g.heap) - 1)
<1>1. g = HeapOf(g.heap, g.delta, g.index)
  BY DEF Heaps, HeapOf
<1>2. [g EXCEPT !.index[m] = unheaped] = [g EXCEPT !.index = i]
  OBVIOUS
<1> HIDE DEF i
<1>3. [g EXCEPT !.index = i] = HeapOf(g.heap, g.delta, i)
  BY <1>1 DEF HeapOf
<1>4. DropLast(HeapOf(g.heap, g.delta, i)) = [HeapOf(g.heap, g.delta, i) EXCEPT !.heap = b]
  <2>1. HeapOf(g.heap, g.delta, i).heap = g.heap
    BY HeapRecord
  <2> QED
    BY <2>1 DEF DropLast
<1> HIDE DEF b
<1>5. [HeapOf(g.heap, g.delta, i) EXCEPT !.heap = b] = HeapOf(b, g.delta, i)
  BY DEF HeapOf
<1> QED
  BY <1>2, <1>3, <1>4, <1>5 DEF b, i

LEMMA RemoveHolds ==
    ASSUME NEW M, NEW g, Sound(g, M), NEW k \in 1..Len(g.heap)
    PROVE  Holds(HeapRemove(g, k), M, g.delta, Heaped(g) \ {g.heap[k]})
<1> DEFINE n == Len(g.heap)
           m == g.heap[k]
           last == g.heap[n]
           b == SubSeq(g.heap, 1, n - 1)
           i == [g.index EXCEPT ![m] = unheaped]
           gone == DropLast([g EXCEPT !.index[m] = unheaped])
<1>1. /\ g \in Heaps(M) /\ Placed(g) /\ Ordered(g)
      /\ n \in Nat /\ n >= 1 /\ k \in Nat /\ k \in 1..n /\ n \in 1..n
      /\ g.heap \in Seq(M) /\ g.delta \in [M -> Int] /\ g.index \in [M -> Nat]
      /\ DOMAIN g.heap = 1..n /\ m \in M /\ last \in M
      /\ \A j \in 1..n : g.heap[j] \in M
  BY DEF Sound, Heaps
<1>2. gone = HeapOf(b, g.delta, i)
  BY <1>1, GoneIs
<1>3. b \in Seq(M) /\ Len(b) = n - 1 /\ DOMAIN b = 1..(n - 1)
      /\ \A j \in 1..(n - 1) : b[j] = g.heap[j]
  BY <1>1
<1>4. i \in [M -> Nat] /\ i[m] = unheaped /\ \A x \in M \ {m} : i[x] = g.index[x]
  <2>1. unheaped \in Nat
    BY DEF unheaped
  <2> QED
    BY <1>1, <2>1
<1>5. \A j \in 1..n : g.index[g.heap[j]] = j
  BY <1>1 DEF Placed
<1>6. \A x \in M : g.index[x] # unheaped => g.index[x] \in 1..n /\ g.heap[g.index[x]] = x
  BY <1>1 DEF Placed
<1>7. HeapRemove(g, k) = IF k = n THEN gone
                         ELSE Settled(Place(gone, k, last), k, g.delta[m] - g.delta[last])
  BY DEF HeapRemove
<1>8. DOMAIN g.index = M /\ \A j \in 1..n : j # unheaped
  BY <1>1 DEF unheaped
<1> HIDE DEF b, i, gone
<1>9. gone \in Heaps(M) /\ gone.heap = b /\ gone.delta = g.delta /\ gone.index = i
  <2>1. b \in Seq(M) /\ g.delta \in [M -> Int] /\ i \in [M -> Nat]
    BY <1>1, <1>3, <1>4
  <2> QED
    BY <1>2, <2>1, HeapRecord
<1>10. CASE k = n
  <2>1. Placed(gone)
    <3>1. ASSUME NEW j \in 1..(n - 1) PROVE i[b[j]] = j
      <4>1. j \in 1..n /\ j # n
        BY <1>1
      <4>2. g.heap[j] \in M \ {m}
        BY <1>1, <1>5, <1>10, <4>1
      <4> QED
        BY <1>3, <1>4, <1>5, <4>1, <4>2
    <3>2. ASSUME NEW x \in M, i[x] # unheaped PROVE i[x] \in 1..(n - 1) /\ b[i[x]] = x
      <4>1. x # m /\ i[x] = g.index[x] /\ g.index[x] \in 1..n /\ g.heap[g.index[x]] = x
        BY <1>4, <1>6, <3>2
      <4>2. g.index[x] \in 1..(n - 1)
        BY <1>1, <1>10, <4>1
      <4> QED
        BY <1>3, <4>1, <4>2
    <3> QED
      BY <1>3, <1>4, <1>9, <3>1, <3>2 DEF Placed
  <2>2. Ordered(gone)
    <3> SUFFICES ASSUME NEW j \in 2..(n - 1)
                 PROVE  DeltaAt(gone, Parent(j)) <= DeltaAt(gone, j)
      BY <1>3, <1>9 DEF Ordered
    <3>1. j \in Nat /\ j >= 2 /\ j \in 2..n /\ j \in 1..(n - 1)
      BY <1>1
    <3>2. Parent(j) \in 1..(j - 1)
      BY <3>1, ParentFacts
    <3>3. Parent(j) \in 1..(n - 1)
      BY <1>1, <3>1, <3>2
    <3>4. DeltaAt(g, Parent(j)) <= DeltaAt(g, j)
      BY <1>1, <3>1 DEF Ordered
    <3> QED
      BY <1>3, <1>9, <3>1, <3>3, <3>4 DEF DeltaAt
  <2>3. \A x \in M : i[x] # unheaped <=> x \in Heaped(g) \ {m}
    BY <1>4, <1>8 DEF Heaped
  <2> QED
    BY <1>7, <1>9, <1>10, <2>1, <2>2, <2>3 DEF Holds, Sound
<1>11. CASE k # n
  <2> DEFINE c == Place(gone, k, last)
             bb == [b EXCEPT ![k] = last]
             ii == [i EXCEPT ![last] = k]
  <2>1. c = HeapOf(bb, g.delta, ii)
    BY <1>2, PlaceIs
  <2>2. k \in 1..(n - 1)
    BY <1>1, <1>11
  <2>3. bb \in Seq(M) /\ Len(bb) = n - 1 /\ DOMAIN bb = 1..(n - 1) /\ bb[k] = last
        /\ \A j \in 1..(n - 1) \ {k} : bb[j] = g.heap[j]
    <3>1. k \in 1..Len(b) /\ last \in M /\ b \in Seq(M)
      BY <1>1, <1>3, <2>2
    <3> HIDE DEF last
    <3>2. bb \in Seq(M) /\ Len(bb) = Len(b) /\ DOMAIN bb = DOMAIN b /\ bb[k] = last
          /\ \A j \in 1..Len(b) \ {k} : bb[j] = b[j]
      BY <3>1
    <3> QED
      BY <1>3, <3>2
  <2>4. last # m
    BY <1>1, <1>5, <1>11
  <2>5. ii \in [M -> Nat] /\ ii[last] = k /\ ii[m] = unheaped
        /\ \A x \in M \ {m, last} : ii[x] = g.index[x]
    BY <1>1, <1>4, <2>4
  <2> HIDE DEF c, bb, ii
  <2>6. c \in Heaps(M) /\ c.heap = bb /\ c.delta = g.delta /\ c.index = ii
    <3>1. bb \in Seq(M) /\ g.delta \in [M -> Int] /\ ii \in [M -> Nat]
      BY <1>1, <2>3, <2>5
    <3> QED
      BY <2>1, <3>1, HeapRecord
  <2>7. Placed(c)
    <3>1. ASSUME NEW j \in 1..(n - 1) PROVE ii[bb[j]] = j
      <4>1. CASE j = k
        BY <2>3, <2>5, <4>1
      <4>2. CASE j # k
        <5>1. j \in 1..n /\ j # n
          BY <1>1
        <5>2. bb[j] = g.heap[j] /\ g.heap[j] \in M \ {m, last} /\ g.index[g.heap[j]] = j
          <6>1. g.index[m] = k /\ g.index[last] = n /\ g.index[g.heap[j]] = j /\ g.heap[j] \in M
            BY <1>1, <1>5, <5>1
          <6> QED
            BY <2>3, <4>2, <5>1, <6>1
        <5> QED
          BY <2>5, <5>2
      <4> QED
        BY <4>1, <4>2
    <3>2. ASSUME NEW x \in M, ii[x] # unheaped PROVE ii[x] \in 1..(n - 1) /\ bb[ii[x]] = x
      <4>1. CASE x = last
        BY <2>2, <2>3, <2>5, <4>1
      <4>2. CASE x # last
        <5>1. x # m /\ ii[x] = g.index[x] /\ g.index[x] \in 1..n /\ g.heap[g.index[x]] = x
          BY <1>6, <2>5, <3>2, <4>2
        <5>2. g.index[x] # k /\ g.index[x] # n /\ g.index[x] \in 1..(n - 1)
          BY <1>1, <4>2, <5>1, SMTT(30)
        <5> QED
          BY <2>3, <5>1, <5>2
      <4> QED
        BY <4>1, <4>2
    <3> QED
      BY <2>3, <2>5, <2>6, <3>1, <3>2 DEF Placed
  <2>8. DeltaAt(c, k) = g.delta[last] /\ \A j \in 1..(n - 1) \ {k} : DeltaAt(c, j) = DeltaAt(g, j)
    BY <2>3, <2>6 DEF DeltaAt
  <2>9. OrderedWith(c, k, g.delta[m])
    <3> DEFINE at(j) == IF j = k THEN g.delta[m] ELSE DeltaAt(c, j)
    <3>1. \A j \in 1..(n - 1) : at(j) = DeltaAt(g, j)
      BY <2>8 DEF DeltaAt
    <3>2. ASSUME NEW j \in 2..(n - 1) PROVE at(Parent(j)) <= at(j)
      <4>1. j \in Nat /\ j >= 2 /\ j \in 2..n /\ j \in 1..(n - 1)
        BY <1>1
      <4>2. Parent(j) \in 1..(j - 1)
        BY <4>1, ParentFacts
      <4>3. Parent(j) \in 1..(n - 1)
        BY <1>1, <4>1, <4>2
      <4>4. DeltaAt(g, Parent(j)) <= DeltaAt(g, j)
        BY <1>1, <4>1 DEF Ordered
      <4> HIDE DEF at
      <4> QED
        BY <3>1, <4>1, <4>3, <4>4
    <3> QED
      BY <2>3, <2>6, <3>2 DEF OrderedWith
  <2>10. g.delta[m] \in Int /\ g.delta[last] \in Int
         /\ g.delta[m] - g.delta[last] \in Int
    BY <1>1
  <2>11. HeapRemove(g, k) = Settled(c, k, g.delta[m] - g.delta[last])
    BY <1>7, <1>11 DEF c
  <2>12. Rearranged(HeapRemove(g, k), c, M) /\ Ordered(HeapRemove(g, k))
    <3>1. k \in 1..Len(c.heap)
      BY <2>2, <2>3, <2>6
    <3> QED
      BY <2>6, <2>7, <2>8, <2>9, <2>10, <2>11, <3>1, SettledOrders
  <2>13. \A x \in M : ii[x] # unheaped <=> x \in Heaped(g) \ {m}
    <3>1. k # unheaped /\ n # unheaped /\ g.index[last] = n
      BY <1>1, <1>5, <1>8
    <3> QED
      BY <1>1, <1>8, <2>4, <2>5, <3>1 DEF Heaped
  <2> QED
    BY <2>6, <2>12, <2>13 DEF Rearranged, Holds, Sound
<1> QED
  BY <1>10, <1>11

\* A delta that nothing in the heap depends on.
LEMMA DeltaOfUnheaped ==
    ASSUME NEW M, NEW g, Sound(g, M), NEW m \in M, g.index[m] = unheaped, NEW d \in Int
    PROVE  Holds([g EXCEPT !.delta[m] = d], M, [g.delta EXCEPT ![m] = d], Heaped(g))
<1> DEFINE a == [g.delta EXCEPT ![m] = d]
           r == [g EXCEPT !.delta[m] = d]
<1>1. /\ g \in Heaps(M) /\ Placed(g) /\ Ordered(g)
      /\ Len(g.heap) \in Nat /\ g.heap \in Seq(M) /\ g.delta \in [M -> Int]
      /\ g.index \in [M -> Nat]
      /\ DOMAIN g.heap = 1..Len(g.heap) /\ DOMAIN g.index = M
      /\ g = HeapOf(g.heap, g.delta, g.index)
  BY DEF Sound, Heaps, HeapOf
<1>2. a \in [M -> Int] /\ \A x \in M \ {m} : a[x] = g.delta[x]
  BY <1>1
<1>3. r = [g EXCEPT !.delta = a]
  OBVIOUS
<1> HIDE DEF a, r
<1>4. r = HeapOf(g.heap, a, g.index)
  <2>1. [HeapOf(g.heap, g.delta, g.index) EXCEPT !.delta = a] = HeapOf(g.heap, a, g.index)
    BY DEF HeapOf
  <2> QED
    BY <1>1, <1>3, <2>1
<1>5. r \in Heaps(M) /\ r.heap = g.heap /\ r.delta = a /\ r.index = g.index
  BY <1>1, <1>2, <1>4, HeapRecord
<1>6. ASSUME NEW j \in 1..Len(g.heap) PROVE DeltaAt(r, j) = DeltaAt(g, j)
  <2>1. g.index[g.heap[j]] = j /\ g.heap[j] \in M /\ j # unheaped
    BY <1>1 DEF Placed, unheaped
  <2> QED
    BY <1>2, <1>5, <2>1 DEF DeltaAt
<1>7. Ordered(r)
  <2> SUFFICES ASSUME NEW j \in 2..Len(g.heap) PROVE DeltaAt(r, Parent(j)) <= DeltaAt(r, j)
    BY <1>5 DEF Ordered
  <2>1. j \in Nat /\ j >= 2 /\ j \in 1..Len(g.heap)
    BY <1>1
  <2>2. Parent(j) \in 1..(j - 1)
    BY <2>1, ParentFacts
  <2>3. Parent(j) \in 1..Len(g.heap)
    BY <1>1, <2>1, <2>2
  <2> QED
    BY <1>1, <1>6, <2>1, <2>3 DEF Ordered
<1>8. Placed(r)
  BY <1>1, <1>5 DEF Placed
<1> QED
  BY <1>1, <1>5, <1>7, <1>8 DEF Holds, Sound, Heaped, a, r

LEMMA ChangeHolds ==
    ASSUME NEW M, NEW g, Sound(g, M), NEW k \in 1..Len(g.heap), NEW d \in Int
    PROVE  Holds(ChangeValue(g, k, d), M, [g.delta EXCEPT ![g.heap[k]] = d], Heaped(g))
<1> DEFINE n == Len(g.heap)
           m == g.heap[k]
           a == [g.delta EXCEPT ![m] = d]
           r == [g EXCEPT !.delta[m] = d]
<1>1. /\ g \in Heaps(M) /\ Placed(g) /\ Ordered(g)
      /\ n \in Nat /\ g.heap \in Seq(M) /\ g.delta \in [M -> Int]
      /\ g.index \in [M -> Nat] /\ m \in M
      /\ DOMAIN g.heap = 1..n /\ DOMAIN g.index = M
      /\ g = HeapOf(g.heap, g.delta, g.index)
  BY DEF Sound, Heaps, HeapOf
<1>2. a \in [M -> Int] /\ a[m] = d /\ \A x \in M \ {m} : a[x] = g.delta[x]
  BY <1>1
<1>3. r = [g EXCEPT !.delta = a]
  OBVIOUS
<1>4. ChangeValue(g, k, d) = Settled(r, k, DeltaAt(g, k) - d)
  BY DEF ChangeValue
<1> HIDE DEF a, r
<1>5. r = HeapOf(g.heap, a, g.index)
  <2>1. [HeapOf(g.heap, g.delta, g.index) EXCEPT !.delta = a] = HeapOf(g.heap, a, g.index)
    BY DEF HeapOf
  <2> QED
    BY <1>1, <1>3, <2>1
<1>6. r \in Heaps(M) /\ r.heap = g.heap /\ r.delta = a /\ r.index = g.index
  <2>1. g.heap \in Seq(M) /\ a \in [M -> Int] /\ g.index \in [M -> Nat]
    BY <1>1, <1>2
  <2> DEFINE b == g.heap
             f == g.index
             q == HeapOf(b, a, f)
  <2>2. b \in Seq(M) /\ a \in [M -> Int] /\ f \in [M -> Nat]
    BY <2>1
  <2> HIDE DEF b, f
  <2>3. q \in Heaps(M) /\ q.heap = b /\ q.delta = a /\ q.index = f
    BY <2>2, HeapRecord
  <2> QED
    BY <1>5, <2>3 DEF b, f
<1>7. DeltaAt(r, k) = d
  BY <1>2, <1>6 DEF DeltaAt
<1>8. ASSUME NEW j \in 1..n, j # k PROVE DeltaAt(r, j) = DeltaAt(g, j)
  <2>1. g.index[g.heap[j]] = j /\ g.index[m] = k /\ g.heap[j] \in M
    BY <1>1, SMTT(30) DEF Placed
  <2>2. g.heap[j] \in M \ {m}
    BY <1>8, <2>1
  <2> QED
    BY <1>2, <1>6, <2>2 DEF DeltaAt
<1>9. OrderedWith(r, k, DeltaAt(g, k))
  <2> DEFINE at(j) == IF j = k THEN DeltaAt(g, k) ELSE DeltaAt(r, j)
  <2>1. \A j \in 1..n : at(j) = DeltaAt(g, j)
    BY <1>8
  <2>2. ASSUME NEW j \in 2..n PROVE at(Parent(j)) <= at(j)
    <3>1. j \in Nat /\ j >= 2 /\ j \in 1..n
      BY <1>1
    <3>2. Parent(j) \in 1..(j - 1)
      BY <3>1, ParentFacts
    <3>3. Parent(j) \in 1..n
      BY <1>1, <3>1, <3>2
    <3>4. DeltaAt(g, Parent(j)) <= DeltaAt(g, j)
      BY <1>1 DEF Ordered
    <3> HIDE DEF at
    <3> QED
      BY <2>1, <3>1, <3>3, <3>4
  <2> QED
    BY <1>6, <2>2 DEF OrderedWith
<1>10. Placed(r)
  BY <1>1, <1>6 DEF Placed
<1>11. DeltaAt(g, k) \in Int /\ DeltaAt(g, k) - d \in Int
  BY <1>1 DEF DeltaAt
<1>12. Rearranged(ChangeValue(g, k, d), r, M) /\ Ordered(ChangeValue(g, k, d))
  BY <1>4, <1>6, <1>7, <1>9, <1>10, <1>11, SettledOrders
<1> QED
  BY <1>1, <1>6, <1>12 DEF Rearranged, Holds, Sound, Heaped, a

\* A set of moves is what a heap has, and its index says so.
LEMMA HoldsFacts ==
    ASSUME NEW M, NEW r, NEW d, NEW X, Holds(r, M, d, X)
    PROVE  /\ Sound(r, M) /\ r.delta = d /\ Heaped(r) = X \cap M
           /\ \A m \in M : /\ r.index[m] = unheaped <=> m \notin X
                           /\ m \in X => r.index[m] \in 1..Len(r.heap)
                                         /\ r.heap[r.index[m]] = m
<1>1. r \in Heaps(M) /\ Placed(r)
  BY DEF Holds, Sound
<1>2. DOMAIN r.index = M /\ DOMAIN r.heap = 1..Len(r.heap)
  BY <1>1, HeapType
<1> QED
  BY <1>1, <1>2 DEF Holds, Heaped, Placed

\* The moves that heap_upsert leaves in a heap.
Upserted(X, m, d) == IF d > 0 - Tolerance THEN X \ {m} ELSE X \cup {m}

LEMMA UpsertHolds ==
    ASSUME NEW M, NEW g, Sound(g, M), NEW m \in M, NEW d \in Int
    PROVE  Holds(HeapUpsert(g, m, d), M, [g.delta EXCEPT ![m] = d], Upserted(Heaped(g), m, d))
<1>1. g \in Heaps(M) /\ Placed(g) /\ DOMAIN g.index = M /\ DOMAIN g.heap = 1..Len(g.heap)
  BY HeapType DEF Sound
<1>2. g.index[m] # unheaped => g.index[m] \in 1..Len(g.heap) /\ g.heap[g.index[m]] = m
  BY <1>1 DEF Placed
<1>3. m \in Heaped(g) <=> g.index[m] # unheaped
  BY <1>1 DEF Heaped
<1>4. CASE d > 0 - Tolerance
  <2> DEFINE y == IF g.index[m] # unheaped THEN HeapRemove(g, g.index[m]) ELSE g
  <2>1. Holds(y, M, g.delta, Heaped(g) \ {m})
    <3>1. CASE g.index[m] # unheaped
      BY <1>2, <3>1, RemoveHolds
    <3>2. CASE g.index[m] = unheaped
      BY <1>1, <1>3, <3>2 DEF Holds, Heaped
    <3> QED
      BY <3>1, <3>2
  <2>2. HeapUpsert(g, m, d) = [y EXCEPT !.delta[m] = d]
    BY <1>4 DEF HeapUpsert
  <2> HIDE DEF y
  <2>3. Sound(y, M) /\ y.delta = g.delta /\ y.index[m] = unheaped
        /\ Heaped(y) = Heaped(g) \ {m}
    <3>1. Heaped(g) \subseteq M
      BY <1>1 DEF Heaped
    <3> QED
      BY <2>1, <3>1, HoldsFacts
  <2>4. Holds(HeapUpsert(g, m, d), M, [y.delta EXCEPT ![m] = d], Heaped(y))
    BY <2>2, <2>3, DeltaOfUnheaped, SMTT(30)
  <2> QED
    BY <1>4, <2>3, <2>4 DEF Upserted
<1>5. CASE ~(d > 0 - Tolerance) /\ g.index[m] = unheaped
  <2> DEFINE y == [g EXCEPT !.delta[m] = d]
  <2>1. Holds(y, M, [g.delta EXCEPT ![m] = d], Heaped(g))
    BY <1>5, DeltaOfUnheaped
  <2>2. HeapUpsert(g, m, d) = HeapInsert(y, m)
    BY <1>5 DEF HeapUpsert
  <2> HIDE DEF y
  <2>3. Sound(y, M) /\ y.delta = [g.delta EXCEPT ![m] = d] /\ y.index[m] = unheaped
        /\ Heaped(y) = Heaped(g)
    <3>1. Heaped(g) \subseteq M /\ m \notin Heaped(g)
      BY <1>1, <1>3, <1>5 DEF Heaped
    <3>2. Sound(y, M) /\ y.delta = [g.delta EXCEPT ![m] = d]
      BY <2>1, HoldsFacts
    <3>3. Heaped(y) = Heaped(g) \cap M /\ (y.index[m] = unheaped <=> m \notin Heaped(g))
      BY <2>1, HoldsFacts
    <3> QED
      BY <3>1, <3>2, <3>3
  <2>4. Holds(HeapUpsert(g, m, d), M, y.delta, Heaped(y) \cup {m})
    BY <2>2, <2>3, InsertHolds
  <2> QED
    BY <1>5, <2>3, <2>4 DEF Upserted
<1>6. CASE ~(d > 0 - Tolerance) /\ g.index[m] # unheaped
  <2>1. HeapUpsert(g, m, d) = ChangeValue(g, g.index[m], d)
    BY <1>6 DEF HeapUpsert
  <2>2. Holds(HeapUpsert(g, m, d), M, [g.delta EXCEPT ![m] = d], Heaped(g))
    BY <1>2, <1>6, <2>1, ChangeHolds
  <2>3. Upserted(Heaped(g), m, d) = Heaped(g)
    BY <1>3, <1>6 DEF Upserted
  <2> QED
    BY <2>2, <2>3
<1> QED
  BY <1>4, <1>5, <1>6

\* The moves that the initialization of one leaves in a heap.
Initialized(X, m, d) == IF d < 0 - Tolerance THEN X \cup {m} ELSE X

LEMMA InitializeHolds ==
    ASSUME NEW M, NEW g, Sound(g, M), NEW m \in M, g.index[m] = unheaped, NEW d \in Int
    PROVE  Holds(Initialize(g, m, d), M, [g.delta EXCEPT ![m] = d],
                 Initialized(Heaped(g), m, d))
<1> DEFINE y == [g EXCEPT !.delta[m] = d]
           z == [g EXCEPT !.delta[m] = d, !.index[m] = unheaped]
<1>1. /\ g \in Heaps(M) /\ g.index \in [M -> Nat] /\ g.delta \in [M -> Int]
      /\ Heaped(g) \subseteq M /\ m \notin Heaped(g)
  BY DEF Sound, Heaps, Heaped
<1>2. z = y
  <2> DEFINE a == [g.delta EXCEPT ![m] = d]
             i == [g.index EXCEPT ![m] = unheaped]
  <2>1. i = g.index
    BY <1>1
  <2>2. g = HeapOf(g.heap, g.delta, g.index)
    BY <1>1 DEF Heaps, HeapOf
  <2>3. y = [g EXCEPT !.delta = a] /\ z = [g EXCEPT !.delta = a, !.index = i]
    <3> HIDE DEF a
    <3>1. [g EXCEPT !.delta = a].index = g.index
      BY <2>2 DEF HeapOf
    <3> QED
      BY <3>1 DEF a
  <2> HIDE DEF a, i, y, z
  <2>4. [g EXCEPT !.delta = a] = HeapOf(g.heap, a, g.index)
    BY <2>2 DEF HeapOf
  <2>5. [g EXCEPT !.delta = a, !.index = i] = HeapOf(g.heap, a, i)
    <3>1. [HeapOf(g.heap, a, g.index) EXCEPT !.index = i] = HeapOf(g.heap, a, i)
      BY DEF HeapOf
    <3>2. [g EXCEPT !.delta = a, !.index = i] = [[g EXCEPT !.delta = a] EXCEPT !.index = i]
      OBVIOUS
    <3> QED
      BY <2>4, <3>1, <3>2, Zenon
  <2> QED
    BY <2>1, <2>3, <2>4, <2>5
<1>3. Initialize(g, m, d) = IF d < 0 - Tolerance THEN HeapInsert(z, m) ELSE z
  BY DEF Initialize
<1>4. Holds(y, M, [g.delta EXCEPT ![m] = d], Heaped(g))
  BY DeltaOfUnheaped
<1> HIDE DEF y, z
<1>5. CASE d < 0 - Tolerance
  <2>1. Sound(y, M) /\ y.delta = [g.delta EXCEPT ![m] = d]
    BY <1>4, HoldsFacts
  <2>2. Heaped(y) = Heaped(g) \cap M /\ (y.index[m] = unheaped <=> m \notin Heaped(g))
    BY <1>4, HoldsFacts
  <2>3. Holds(HeapInsert(y, m), M, y.delta, Heaped(y) \cup {m})
    BY <1>1, <2>1, <2>2, InsertHolds
  <2>4. Heaped(y) = Heaped(g)
    BY <1>1, <2>2
  <2> QED
    BY <1>2, <1>3, <1>5, <2>1, <2>3, <2>4 DEF Initialized
<1>6. CASE ~(d < 0 - Tolerance)
  BY <1>2, <1>3, <1>4, <1>6 DEF Initialized
<1> QED
  BY <1>5, <1>6

LEMMA ResetHolds ==
    ASSUME NEW M, NEW g, Sound(g, M)
    PROVE  Holds(Reset(g), M, g.delta, {})
<1> DEFINE i == [m \in DOMAIN g.index |->
                    IF g.index[m] = unheaped \/ g.heap[g.index[m]] # m
                    THEN g.index[m] ELSE unheaped]
           r == Reset(g)
<1>1. /\ g.delta \in [M -> Int] /\ g.index \in [M -> Nat] /\ Placed(g)
      /\ g = HeapOf(g.heap, g.delta, g.index)
  BY DEF Sound, Heaps, HeapOf
<1>2. i = [m \in M |-> unheaped]
  BY <1>1 DEF Placed
<1>3. r = [g EXCEPT !.heap = <<>>, !.index = i]
  BY DEF Reset
<1> HIDE DEF i, r
<1>4. r = HeapOf(<<>>, g.delta, i)
  BY <1>1, <1>3 DEF HeapOf
<1>5. <<>> \in Seq(M) /\ i \in [M -> Nat] /\ Len(<<>>) = 0
  BY <1>2 DEF unheaped
<1>6. r \in Heaps(M) /\ r.heap = <<>> /\ r.delta = g.delta /\ r.index = i
  <2> DEFINE a == <<>>
  <2>1. a \in Seq(M) /\ r = HeapOf(a, g.delta, i)
    BY <1>4, <1>5
  <2> HIDE DEF a
  <2>2. r \in Heaps(M) /\ r.heap = a /\ r.delta = g.delta /\ r.index = i
    BY <1>1, <1>5, <2>1, HeapRecord
  <2> QED
    BY <2>2 DEF a
<1>7. Placed(r) /\ Ordered(r)
  BY <1>2, <1>5, <1>6 DEF Placed, Ordered
<1> QED
  BY <1>2, <1>6, <1>7 DEF Holds, Sound, r

-----------------------------------------------------------------------------
(* Moves *)

Ends(m) == Endpoints(inst, m[1])

\* A move has two vertices, its twin has them the other way round, and one of
\* the two is the base.
LEMMA MoveFacts ==
    ASSUME inst \in Instances, NEW m \in MovesOf(inst)
    PROVE  /\ m = <<m[1], First(m)>> /\ m[1] \in BaseMoves(inst)
           /\ Ends(m) = {First(m), Second(inst, m)} /\ First(m) # Second(inst, m)
           /\ First(m) \in vertices /\ Second(inst, m) \in vertices
           /\ First(m) \in Int /\ Second(inst, m) \in Int
<1>1. m = <<m[1], m[2]>> /\ m[1] \in BaseMoves(inst) /\ m[2] \in vertices
      /\ m[2] \in Endpoints(inst, m[1])
  BY DEF MovesOf, First
<1>2. PICK u, v : u \in vertices /\ v \in vertices /\ u # v /\ Endpoints(inst, m[1]) = {u, v}
  BY <1>1, BaseMoveType
<1>3. Second(inst, m) \in {u, v} /\ Second(inst, m) # m[2]
  <2>1. \E x \in Endpoints(inst, m[1]) : x # m[2]
    BY <1>2
  <2> QED
    BY <1>2, <2>1 DEF Second
<1>4. vertices \subseteq Int
  BY MoveGeneratorsAssumption DEF vertices
<1> QED
  BY <1>1, <1>2, <1>3, <1>4 DEF First, Ends

LEMMA TwinFacts ==
    ASSUME inst \in Instances, NEW m \in MovesOf(inst)
    PROVE  /\ Twin(inst, m) \in MovesOf(inst) /\ Twin(inst, m)[1] = m[1] /\ Twin(inst, m) # m
           /\ First(Twin(inst, m)) = Second(inst, m)
           /\ Second(inst, Twin(inst, m)) = First(m)
           /\ Base(inst, m) \in {m, Twin(inst, m)}
           /\ Base(inst, Base(inst, m)) = Base(inst, m)
           /\ Base(inst, Twin(inst, m)) = Base(inst, m)
<1> DEFINE t == Twin(inst, m)
<1>1. t = <<m[1], Second(inst, m)>> /\ t[1] = m[1] /\ First(t) = Second(inst, m)
  BY DEF Twin, First
<1>2. /\ m = <<m[1], First(m)>> /\ m[1] \in BaseMoves(inst)
      /\ Ends(m) = {First(m), Second(inst, m)} /\ First(m) # Second(inst, m)
      /\ First(m) \in vertices /\ Second(inst, m) \in vertices
      /\ First(m) \in Int /\ Second(inst, m) \in Int
  BY MoveFacts
<1>3. t \in MovesOf(inst)
  BY <1>1, <1>2 DEF MovesOf, Ends
<1> HIDE DEF t
<1>4. Ends(t) = {First(t), Second(inst, t)} /\ First(t) # Second(inst, t) /\ Ends(t) = Ends(m)
  BY <1>1, <1>3, MoveFacts DEF Ends
<1>5. Second(inst, t) = First(m)
  BY <1>1, <1>2, <1>4
<1>6. Twin(inst, t) = m
  BY <1>1, <1>2, <1>5 DEF Twin
<1>7. Base(inst, m) = (IF First(m) < Second(inst, m) THEN m ELSE t)
      /\ Base(inst, t) = (IF Second(inst, m) < First(m) THEN t ELSE m)
  BY <1>1, <1>5, <1>6 DEF Base, t
<1>8. t # m
  BY <1>1, <1>2
<1>9. Base(inst, m) \in {m, t} /\ Base(inst, t) = Base(inst, m)
  BY <1>2, <1>7
<1> QED
  BY <1>1, <1>3, <1>5, <1>8, <1>9 DEF t

-----------------------------------------------------------------------------
(* Sequences of the elements of a set *)

\* A sequence without repetitions that is as long as a set has all of it.
LEMMA OrderFacts ==
    ASSUME NEW S, IsFiniteSet(S), NEW s \in [1..Cardinality(S) -> S],
           \A j, k \in 1..Cardinality(S) : s[j] = s[k] => j = k
    PROVE  /\ s \in Seq(S) /\ Len(s) = Cardinality(S) /\ Len(s) \in Nat
           /\ \A e \in S : \E k \in 1..Len(s) : s[k] = e
<1>1. Cardinality(S) \in Nat
  BY FS_CardinalityType
<1>2. s \in Injection(1..Cardinality(S), S)
  BY DEF Injection, IsInjective
<1>3. Cardinality(1..Cardinality(S)) = Cardinality(S)
  <2>1. 1 \in Int /\ Cardinality(S) \in Int
    BY <1>1
  <2>2. Cardinality(1..Cardinality(S))
           = IF 1 > Cardinality(S) THEN 0 ELSE Cardinality(S) - 1 + 1
    BY <2>1, FS_Interval
  <2> QED
    BY <1>1, <2>2
<1>4. s \in Surjection(1..Cardinality(S), S)
  BY <1>2, <1>3, FS_Injection
<1>5. s \in Seq(S) /\ Len(s) = Cardinality(S)
  BY <1>1
<1> QED
  BY <1>1, <1>4, <1>5 DEF Surjection

LEMMA SetToSeqFacts ==
    ASSUME NEW S, IsFiniteSet(S)
    PROVE  /\ SetToSeq(S) \in Seq(S) /\ Len(SetToSeq(S)) \in Nat
           /\ \A e \in S : \E k \in 1..Len(SetToSeq(S)) : SetToSeq(S)[k] = e
           /\ \A k \in 1..Len(SetToSeq(S)) : SetToSeq(S)[k] \in S
           /\ \A j, k \in 1..Len(SetToSeq(S)) : SetToSeq(S)[j] = SetToSeq(S)[k] => j = k
<1> DEFINE n == Cardinality(S)
           s == SetToSeq(S)
<1>1. PICK f : f \in Bijection(1..n, S)
  BY FS_CardinalityType DEF ExistsBijection
<1>2. f \in [1..n -> S] /\ IsInjective(f)
  BY <1>1 DEF Bijection, Injection, IsInjective
<1>3. s \in [1..n -> S] /\ IsInjective(s)
  BY <1>2 DEF SetToSeq
<1>4. \A j, k \in 1..n : s[j] = s[k] => j = k
  BY <1>3 DEF IsInjective
<1> HIDE DEF s
<1>5. s \in Seq(S) /\ Len(s) = n /\ Len(s) \in Nat
      /\ \A e \in S : \E k \in 1..Len(s) : s[k] = e
  BY <1>3, <1>4, OrderFacts
<1> QED
  BY <1>3, <1>4, <1>5 DEF s

\* The orders in which a sweep may visit vertices.
LEMMA DepotLastFacts ==
    ASSUME NEW S \in SUBSET vertices, NEW o \in DepotLast(S)
    PROVE  /\ o \in Seq(vertices) /\ Len(o) \in Nat
           /\ \A e \in S : \E k \in 1..Len(o) : o[k] = e
           /\ \A k \in 1..Len(o) : o[k] \in S
           /\ \A j, k \in 1..Len(o) : o[j] = o[k] => j = k
<1>1. IsFiniteSet(S)
  <2>1. VerticesNum - 1 \in Int /\ 0 \in Int
    BY MoveGeneratorsAssumption
  <2>2. IsFiniteSet(vertices)
    BY <2>1, FS_Interval DEF vertices
  <2> QED
    BY <2>2, FS_Subset
<1>2. o \in [1..Cardinality(S) -> S]
      /\ \A j, k \in 1..Cardinality(S) : o[j] = o[k] => j = k
  BY DEF DepotLast, SetToSeqs
<1>3. o \in Seq(S) /\ Len(o) = Cardinality(S) /\ Len(o) \in Nat
      /\ \A e \in S : \E k \in 1..Len(o) : o[k] = e
  BY <1>1, <1>2, OrderFacts
<1> QED
  BY <1>2, <1>3
-----------------------------------------------------------------------------
(* One move, one vertex *)

\* The list of a vertex has its active moves, each once.
LEMMA ListFacts ==
    ASSUME ListsInv, NEW v \in vertices
    PROVE  /\ IsFiniteSet(lists[v])
           /\ \A m \in lists[v] : m \in MovesOf(inst) /\ First(m) = v /\ ActiveIn(active, m[1])
           /\ \A m, n \in lists[v] : m[1] = n[1] => m = n
           /\ \A n \in MovesOf(inst) :
                 ActiveIn(active, n[1]) /\ v \in Ends(n) => <<n[1], v>> \in lists[v]
<1> DEFINE used == {c \in MovesWith(inst, v) : ActiveIn(active, c)}
           f == [b \in used |-> <<b, v>>]
<1>1. lists[v] = {<<b, v>> : b \in used}
  BY DEF ListsInv
<1>2. IsFiniteSet(used)
  BY FewMoves, FS_Subset
<1>3. IsFiniteSet(lists[v])
  <2>1. f \in Surjection(used, lists[v])
    BY <1>1 DEF Surjection
  <2> HIDE DEF f, used
  <2> QED
    BY <1>2, <2>1, FS_Surjection
<1> QED
  BY <1>1, <1>3 DEF MovesWith, MovesOf, Ends, First

Sweeps(M) ==
    [h : Heaps(M), stamped : SUBSET vertices, pass : {"init", "update"}, symmetric : BOOLEAN,
     truth : [M -> Int], first : SUBSET vertices, second : SUBSET vertices]

SameTask(y, x) ==
    /\ y.pass = x.pass /\ y.symmetric = x.symmetric /\ y.truth = x.truth
    /\ y.first = x.first /\ y.second = x.second

\* Whether a heap is right about a move, or tells the same of it as another.
RightAbout(g, t, n) == (n \in Heaped(g) => g.delta[n] = t[n]) /\ (t[n] < 0 - Tolerance => n \in Heaped(g))

Same(r, g, n) == r.delta[n] = g.delta[n] /\ (n \in Heaped(r) <=> n \in Heaped(g))

\* The moves that a visit of a move is about.
Targets(x, m) ==
    LET i == First(m)
        j == Second(inst, m)
        t == Twin(inst, m)
    IN  IF x.pass = "init"
        THEN {n \in {m, t} : j \notin x.stamped /\ (x.symmetric => n = Base(inst, m))}
        ELSE IF x.symmetric THEN {Base(inst, m)}
        ELSE {n \in {m} : i \in x.first /\ ~(j \in x.stamped /\ j \in x.second)}
             \cup {n \in {t} : i \in x.second /\ ~(j \in x.stamped /\ j \in x.first)}

\* A step for some moves of a heap.
Served(r, g, M, t, X) ==
    /\ Sound(r, M)
    /\ \A n \in M : IF n \in X THEN RightAbout(r, t, n) ELSE Same(r, g, n)

LEMMA UpsertServes ==
    ASSUME NEW M, NEW g, Sound(g, M), NEW t \in [M -> Int], NEW m \in M
    PROVE  Served(HeapUpsert(g, m, t[m]), g, M, t, {m})
<1> DEFINE r == HeapUpsert(g, m, t[m])
           d == [g.delta EXCEPT ![m] = t[m]]
<1>1. t[m] \in Int /\ Tolerance \in Nat /\ g.delta \in [M -> Int] /\ Heaped(g) \subseteq M
  BY DescriptorsAssumption DEF Sound, Heaps, Heaped
<1>2. Holds(r, M, d, Upserted(Heaped(g), m, t[m]))
  BY <1>1, UpsertHolds
<1> HIDE DEF r
<1>3. Sound(r, M) /\ r.delta = d /\ Heaped(r) = Upserted(Heaped(g), m, t[m]) \cap M
  BY <1>2, HoldsFacts
<1>4. d[m] = t[m] /\ \A n \in M \ {m} : d[n] = g.delta[n]
  BY <1>1
<1> HIDE DEF d
<1>5. \A n \in M \ {m} : n \in Heaped(r) <=> n \in Heaped(g)
  BY <1>1, <1>3 DEF Upserted
<1>6. t[m] < 0 - Tolerance => m \in Heaped(r)
  BY <1>1, <1>3 DEF Upserted
<1> QED
  BY <1>3, <1>4, <1>5, <1>6 DEF Served, RightAbout, Same, r

LEMMA InitializeServes ==
    ASSUME NEW M, NEW g, Sound(g, M), NEW t \in [M -> Int], NEW m \in M, m \notin Heaped(g)
    PROVE  Served(Initialize(g, m, t[m]), g, M, t, {m})
<1> DEFINE r == Initialize(g, m, t[m])
           d == [g.delta EXCEPT ![m] = t[m]]
<1>1. t[m] \in Int /\ Tolerance \in Nat /\ g.delta \in [M -> Int] /\ Heaped(g) \subseteq M
      /\ g.index[m] = unheaped
  BY DescriptorsAssumption DEF Sound, Heaps, Heaped
<1>2. Holds(r, M, d, Initialized(Heaped(g), m, t[m]))
  BY <1>1, InitializeHolds
<1> HIDE DEF r
<1>3. Sound(r, M) /\ r.delta = d /\ Heaped(r) = Initialized(Heaped(g), m, t[m]) \cap M
  BY <1>2, HoldsFacts
<1>4. d[m] = t[m] /\ \A n \in M \ {m} : d[n] = g.delta[n]
  BY <1>1
<1> HIDE DEF d
<1>5. \A n \in M \ {m} : n \in Heaped(r) <=> n \in Heaped(g)
  BY <1>1, <1>3 DEF Initialized
<1>6. t[m] < 0 - Tolerance => m \in Heaped(r)
  BY <1>1, <1>3 DEF Initialized
<1> QED
  BY <1>3, <1>4, <1>5, <1>6 DEF Served, RightAbout, Same, r

\* Steps for nobody, and for some moves after others.
LEMMA NoneServed ==
    ASSUME NEW M, NEW g, Sound(g, M), NEW t
    PROVE  Served(g, g, M, t, {})
BY DEF Served, Same

LEMMA ServedTwice ==
    ASSUME NEW M, NEW g, NEW p, NEW r, NEW t, NEW X, NEW Y,
           Served(p, g, M, t, X), Served(r, p, M, t, Y)
    PROVE  Served(r, g, M, t, X \cup Y)
BY DEF Served, RightAbout, Same

\* A visit serves the moves it is about and no other.
LEMMA VisitMoveServes ==
    ASSUME inst \in Instances, NEW M, M = MovesOf(inst), NEW x \in Sweeps(M), Sound(x.h, M),
           NEW m \in M, x.pass = "init" => Targets(x, m) \cap Heaped(x.h) = {}
    PROVE  /\ VisitMove(x, m) \in Sweeps(M) /\ SameTask(VisitMove(x, m), x)
           /\ VisitMove(x, m).stamped = x.stamped
           /\ Served(VisitMove(x, m).h, x.h, M, x.truth, Targets(x, m))
<1> DEFINE g == CASE x.pass = "init" -> InitializePair(x, m)
                  [] x.pass = "update" /\ x.symmetric -> SymmetricUpdate(x, m)
                  [] OTHER -> AsymmetricUpdate(x, m)
           i == First(m)
           j == Second(inst, m)
           b == Base(inst, m)
           t == Twin(inst, m)
<1>1. /\ x.truth \in [M -> Int] /\ x.pass \in {"init", "update"} /\ x.symmetric \in BOOLEAN
      /\ t \in M /\ t # m /\ b \in {m, t}
  BY TwinFacts DEF Sweeps
<1>2. VisitMove(x, m) = [x EXCEPT !.h = g]
  BY DEF VisitMove
<1>3. Served(g, x.h, M, x.truth, Targets(x, m))
  <2>1. CASE x.pass = "init"
    <3>1. g = InitializePair(x, m)
      BY <2>1
    <3>2. CASE j \in x.stamped
      <4>1. g = x.h /\ Targets(x, m) = {}
        BY <2>1, <3>1, <3>2 DEF InitializePair, Targets
      <4> QED
        BY <4>1, NoneServed
    <3>3. CASE j \notin x.stamped /\ x.symmetric
      <4>1. g = Initialize(x.h, b, x.truth[b]) /\ Targets(x, m) = {b}
        BY <1>1, <2>1, <3>1, <3>3 DEF InitializePair, Targets
      <4>2. b \in M /\ b \notin Heaped(x.h)
        BY <1>1, <2>1, <4>1
      <4> HIDE DEF b, g
      <4> QED
        BY <1>1, <4>1, <4>2, InitializeServes
    <3>4. CASE j \notin x.stamped /\ ~x.symmetric
      <4> DEFINE p == Initialize(x.h, m, x.truth[m])
      <4>1. g = Initialize(p, t, x.truth[t]) /\ Targets(x, m) = {m, t}
        BY <2>1, <3>1, <3>4 DEF InitializePair, Targets
      <4>2. m \notin Heaped(x.h) /\ t \notin Heaped(x.h)
        BY <2>1, <4>1
      <4>3. Served(p, x.h, M, x.truth, {m})
        BY <1>1, <4>2, InitializeServes
      <4> HIDE DEF p, t, g
      <4>4. Sound(p, M) /\ t \notin Heaped(p)
        BY <1>1, <4>2, <4>3 DEF Served, Same
      <4>5. Served(g, p, M, x.truth, {t})
        BY <1>1, <4>1, <4>4, InitializeServes
      <4>6. {m} \cup {t} = Targets(x, m)
        BY <4>1
      <4>7. Served(g, x.h, M, x.truth, {m} \cup {t})
        BY <4>3, <4>5, ServedTwice
      <4> QED
        BY <4>6, <4>7
    <3> QED
      BY <1>1, <3>2, <3>3, <3>4
  <2>2. CASE x.pass = "update" /\ x.symmetric
    <3>1. g = HeapUpsert(x.h, b, x.truth[b]) /\ Targets(x, m) = {b}
      BY <2>2 DEF SymmetricUpdate, Targets
    <3>2. b \in M
      BY <1>1
    <3> HIDE DEF b, g
    <3> QED
      BY <1>1, <3>1, <3>2, UpsertServes, SMTT(30)
  <2>3. CASE x.pass = "update" /\ ~x.symmetric
    <3> DEFINE one == i \in x.first /\ ~(j \in x.stamped /\ j \in x.second)
               two == i \in x.second /\ ~(j \in x.stamped /\ j \in x.first)
               p == IF one THEN HeapUpsert(x.h, m, x.truth[m]) ELSE x.h
               X == {n \in {m} : one}
               Y == {n \in {t} : two}
    <3>1. g = IF two THEN HeapUpsert(p, t, x.truth[t]) ELSE p
      BY <2>3 DEF AsymmetricUpdate
    <3>2. Targets(x, m) = X \cup Y
      BY <2>3 DEF Targets
    <3> HIDE DEF g, t
    <3>3. Served(p, x.h, M, x.truth, X)
      <4>1. CASE one
        <5>1. X = {m} /\ p = HeapUpsert(x.h, m, x.truth[m])
          BY <4>1
        <5> HIDE DEF X, p, one
        <5> QED
          BY <1>1, <5>1, UpsertServes
      <4>2. CASE ~one
        <5>1. X = {} /\ p = x.h
          BY <4>2
        <5> HIDE DEF X, p, one
        <5> QED
          BY <5>1, NoneServed
      <4> QED
        BY <4>1, <4>2
    <3> HIDE DEF p, one, X
    <3>4. Sound(p, M)
      BY <3>3 DEF Served
    <3>5. Served(g, p, M, x.truth, Y)
      <4>1. CASE two
        <5>1. Y = {t} /\ g = HeapUpsert(p, t, x.truth[t])
          BY <3>1, <4>1
        <5> HIDE DEF Y, two
        <5> QED
          BY <1>1, <3>4, <5>1, UpsertServes
      <4>2. CASE ~two
        <5>1. Y = {} /\ g = p
          BY <3>1, <4>2
        <5> HIDE DEF Y, two
        <5> QED
          BY <3>4, <5>1, NoneServed
      <4> QED
        BY <4>1, <4>2
    <3> HIDE DEF Y
    <3> QED
      BY <3>2, <3>3, <3>5, ServedTwice
  <2> QED
    BY <1>1, <2>1, <2>2, <2>3
<1> HIDE DEF g
<1>4. g \in Heaps(M)
  BY <1>3 DEF Served, Sound
<1>5. [x EXCEPT !.h = g] \in Sweeps(M) /\ SameTask([x EXCEPT !.h = g], x)
      /\ [x EXCEPT !.h = g].stamped = x.stamped /\ [x EXCEPT !.h = g].h = g
  BY <1>4 DEF Sweeps, SameTask
<1> QED
  BY <1>2, <1>3, <1>5
-----------------------------------------------------------------------------
(* A sweep over the vertices *)

Visiting == INSTANCE Folding WITH Op <- VisitMove
Sweeping == INSTANCE Folding WITH Op <- VisitVertex

\* The moves that the visit of a vertex is about.
TargetsOf(x, v) == UNION {Targets(x, m) : m \in lists[v]}

\* The targets of a move are the move or its twin; they do not depend on the heap.
LEMMA TargetsBase ==
    ASSUME inst \in Instances, NEW M, M = MovesOf(inst), NEW x, NEW m \in M
    PROVE  \A n \in Targets(x, m) : n \in M /\ n[1] = m[1]
BY TwinFacts DEF Targets

LEMMA TargetsContext ==
    ASSUME NEW x, NEW y, NEW m, SameTask(y, x), y.stamped = x.stamped
    PROVE  Targets(y, m) = Targets(x, m)
BY DEF Targets, SameTask

LEMMA VisitVertexServes ==
    ASSUME ListsInv, NEW M, M = MovesOf(inst), NEW x \in Sweeps(M), Sound(x.h, M),
           NEW v \in vertices, x.pass = "init" => TargetsOf(x, v) \cap Heaped(x.h) = {}
    PROVE  /\ VisitVertex(x, v) \in Sweeps(M) /\ SameTask(VisitVertex(x, v), x)
           /\ VisitVertex(x, v).stamped = x.stamped \cup {v}
           /\ Served(VisitVertex(x, v).h, x.h, M, x.truth, TargetsOf(x, v))
<1> DEFINE s == SetToSeq(lists[v])
           upto(k) == UNION {Targets(x, s[j]) : j \in 1..k}
           ok(y, k) == /\ SameTask(y, x) /\ y.stamped = x.stamped
                       /\ Served(y.h, x.h, M, x.truth, upto(k))
           P == {z \in Sweeps(M) \X Nat : ok(z[1], z[2])}
           r == Visiting!Folded(x, s)
<1>1. inst \in Instances
  BY DEF ListsInv
<1>2. /\ \A m \in lists[v] : m \in M
      /\ \A m, n \in lists[v] : m[1] = n[1] => m = n
  BY ListFacts
<1>3. /\ s \in Seq(lists[v]) /\ Len(s) \in Nat
      /\ \A e \in lists[v] : \E k \in 1..Len(s) : s[k] = e
      /\ \A k \in 1..Len(s) : s[k] \in lists[v]
      /\ \A j, k \in 1..Len(s) : s[j] = s[k] => j = k
  BY ListFacts, SetToSeqFacts
<1>4. VisitVertex(x, v) = [r EXCEPT !.stamped = @ \cup {v}]
  BY DEF VisitVertex, FoldLeft, MapThenFoldSet, Max, Visiting!Folded, Visiting!FoldLeft,
         Visiting!MapThenFoldSet, Visiting!Max
<1> HIDE DEF s, r
<1>5. <<x, 0>> \in P
  <2>1. upto(0) = {}
    OBVIOUS
  <2> HIDE DEF upto
  <2>2. Served(x.h, x.h, M, x.truth, upto(0))
    BY <2>1, NoneServed
  <2> QED
    BY <2>2 DEF SameTask
<1>6. ASSUME NEW k \in 1..Len(s), NEW y, <<y, k - 1>> \in P
      PROVE  <<VisitMove(y, s[k]), k>> \in P
  <2>1. y \in Sweeps(M) /\ ok(y, k - 1) /\ k \in Nat /\ k - 1 \in Nat
    <3>1. k \in Nat /\ k - 1 \in Nat
      BY <1>3
    <3> HIDE DEF ok
    <3>2. <<y, k - 1>> \in Sweeps(M) \X Nat /\ ok(<<y, k - 1>>[1], <<y, k - 1>>[2])
      BY <1>6
    <3> QED
      BY <3>1, <3>2
  <2>2. s[k] \in M /\ s[k] \in lists[v]
    BY <1>2, <1>3
  <2>3. Targets(y, s[k]) = Targets(x, s[k])
    BY <2>1, TargetsContext
  <2>4. Sound(y.h, M) /\ y.truth = x.truth /\ y.pass = x.pass
    BY <2>1 DEF Served, SameTask
  <2>5. Targets(x, s[k]) \cap upto(k - 1) = {}
    <3> SUFFICES ASSUME NEW n \in Targets(x, s[k]), NEW j \in 1..(k - 1),
                        n \in Targets(x, s[j])
                 PROVE  FALSE
      BY DEF upto
    <3>1. j \in 1..Len(s) /\ j # k
      BY <2>1
    <3>2. s[j] \in lists[v] /\ s[j] \in M
      BY <1>2, <1>3, <3>1
    <3>3. n[1] = s[k][1] /\ n[1] = s[j][1]
      BY <1>1, <2>2, <3>2, TargetsBase
    <3> QED
      BY <1>2, <1>3, <2>2, <3>1, <3>2, <3>3
  <2>6. y.pass = "init" => Targets(y, s[k]) \cap Heaped(y.h) = {}
    <3> SUFFICES ASSUME x.pass = "init", NEW n \in Targets(x, s[k]), n \in Heaped(y.h)
                 PROVE  FALSE
      BY <2>3, <2>4
    <3>1. n \in M /\ n \in TargetsOf(x, v) /\ n \notin upto(k - 1)
      BY <1>1, <2>2, <2>5, TargetsBase DEF TargetsOf
    <3>2. n \in Heaped(x.h)
      <4> HIDE DEF upto
      <4> QED
        BY <2>1, <3>1 DEF Served, Same
    <3> QED
      BY <3>1, <3>2
  <2> DEFINE z == VisitMove(y, s[k])
  <2> HIDE DEF z, upto
  <2>7. /\ z \in Sweeps(M) /\ SameTask(z, y) /\ z.stamped = y.stamped
        /\ Served(z.h, y.h, M, y.truth, Targets(y, s[k]))
    BY <1>1, <2>1, <2>2, <2>4, <2>6, VisitMoveServes DEF z
  <2>8. Served(z.h, x.h, M, x.truth, upto(k - 1) \cup Targets(x, s[k]))
    BY <2>1, <2>3, <2>4, <2>7, ServedTwice
  <2>9. upto(k) = upto(k - 1) \cup Targets(x, s[k])
    <3>1. 1..k = (1..(k - 1)) \cup {k}
      BY <2>1
    <3> QED
      BY <3>1 DEF upto
  <2>10. SameTask(z, x) /\ z.stamped = x.stamped
    BY <2>1, <2>7 DEF SameTask
  <2> QED
    BY <2>1, <2>7, <2>8, <2>9, <2>10 DEF z
<1> HIDE DEF P
<1>7. <<r, Len(s)>> \in P
  BY <1>3, <1>5, <1>6, Visiting!FoldCarries DEF r
<1>8. r \in Sweeps(M) /\ ok(r, Len(s))
  BY <1>7 DEF P
<1>9. upto(Len(s)) = TargetsOf(x, v)
  <2>1. ASSUME NEW n \in TargetsOf(x, v) PROVE n \in upto(Len(s))
    <3>1. PICK m \in lists[v] : n \in Targets(x, m)
      BY DEF TargetsOf
    <3>2. PICK k \in 1..Len(s) : s[k] = m
      BY <1>3
    <3> QED
      BY <3>1, <3>2
  <2>2. ASSUME NEW n \in upto(Len(s)) PROVE n \in TargetsOf(x, v)
    <3>1. PICK k \in 1..Len(s) : n \in Targets(x, s[k])
      OBVIOUS
    <3> QED
      BY <1>3, <3>1 DEF TargetsOf
  <2> HIDE DEF upto
  <2> QED
    BY <2>1, <2>2
<1> HIDE DEF upto
<1>10. /\ [r EXCEPT !.stamped = @ \cup {v}] \in Sweeps(M)
       /\ [r EXCEPT !.stamped = @ \cup {v}].stamped = r.stamped \cup {v}
       /\ [r EXCEPT !.stamped = @ \cup {v}].h = r.h
       /\ SameTask([r EXCEPT !.stamped = @ \cup {v}], r)
  BY <1>8 DEF Sweeps, SameTask
<1> QED
  BY <1>4, <1>8, <1>9, <1>10 DEF SameTask
\* The moves that the operator uses, and those that a sweep has served after
\* some vertices.
Used(sym) == {n \in MovesOf(inst) : ActiveIn(active, n[1]) /\ (sym => n = Base(inst, n))}

Named(x, n, v) ==
    \/ v = First(n) /\ (x.pass = "init" \/ v \in x.first)
    \/ v = Second(inst, n) /\ (x.pass = "init" \/ v \in x.second)

Done(x, S) == {n \in Used(x.symmetric) : \E v \in S : Named(x, n, v)}

\* The visit of a vertex serves all moves that it newly names, and none that
\* nobody names; an initialization, none twice.
LEMMA TargetsAreDone ==
    ASSUME ListsInv, NEW M, M = MovesOf(inst), NEW x \in Sweeps(M),
           NEW v \in vertices, v \notin x.stamped,
           x.pass = "update" /\ x.symmetric => v \in x.first /\ v \in x.second
    PROVE  /\ TargetsOf(x, v) \subseteq Done(x, x.stamped \cup {v})
           /\ Done(x, x.stamped \cup {v}) \ Done(x, x.stamped) \subseteq TargetsOf(x, v)
           /\ x.pass = "init" => TargetsOf(x, v) \cap Done(x, x.stamped) = {}
<1>1. inst \in Instances /\ x.pass \in {"init", "update"} /\ x.symmetric \in BOOLEAN
  BY DEF ListsInv, Sweeps
<1>2. ASSUME NEW m \in lists[v], NEW n \in Targets(x, m)
      PROVE  /\ n \in Done(x, x.stamped \cup {v})
             /\ x.pass = "init" => n \notin Done(x, x.stamped)
  <2> DEFINE j == Second(inst, m)
             t == Twin(inst, m)
  <2>1. m \in M /\ First(m) = v /\ ActiveIn(active, m[1])
    BY ListFacts
  <2>2. /\ t \in M /\ t[1] = m[1] /\ First(t) = j /\ Second(inst, t) = v
        /\ Base(inst, m) \in {m, t} /\ Base(inst, Base(inst, m)) = Base(inst, m)
        /\ Base(inst, t) = Base(inst, m)
    BY <1>1, <2>1, TwinFacts
  <2> HIDE DEF t, j
  <2>3. n \in {m, t} /\ (x.symmetric => n = Base(inst, m))
    <3>1. x.symmetric => n = Base(inst, m)
      BY DEF Targets
    <3> QED
      BY <2>2, <3>1 DEF Targets, t
  <2>4. n \in Used(x.symmetric)
    BY <2>1, <2>2, <2>3 DEF Used
  <2>5. (n = m => First(n) = v /\ Second(inst, n) = j)
        /\ (n = t => First(n) = j /\ Second(inst, n) = v)
    BY <2>1, <2>2 DEF j
  <2>6. CASE x.pass = "init"
    <3>1. j \notin x.stamped
      BY <2>6 DEF Targets, j
    <3>2. Named(x, n, v)
      BY <2>3, <2>5, <2>6 DEF Named
    <3>3. \A u \in x.stamped : ~Named(x, n, u)
      BY <2>3, <2>5, <3>1 DEF Named
    <3> QED
      BY <2>4, <3>2, <3>3 DEF Done
  <2>7. CASE x.pass = "update" /\ x.symmetric
    <3>1. Named(x, n, v)
      BY <2>3, <2>5, <2>7 DEF Named
    <3> QED
      BY <2>4, <2>7, <3>1 DEF Done
  <2>8. CASE x.pass = "update" /\ ~x.symmetric
    <3>1. (n = m /\ v \in x.first) \/ (n = t /\ v \in x.second)
      BY <2>1, <2>8 DEF Targets, t
    <3>2. Named(x, n, v)
      BY <2>5, <3>1 DEF Named
    <3> QED
      BY <2>4, <2>8, <3>2 DEF Done
  <2> QED
    BY <1>1, <2>6, <2>7, <2>8
<1>3. ASSUME NEW n \in Done(x, x.stamped \cup {v}), n \notin Done(x, x.stamped)
      PROVE  n \in TargetsOf(x, v)
  <2> DEFINE m == <<n[1], v>>
             j == Second(inst, m)
             t == Twin(inst, m)
  <2>1. n \in M /\ ActiveIn(active, n[1]) /\ (x.symmetric => n = Base(inst, n))
    BY <1>3 DEF Done, Used
  <2>2. Named(x, n, v) /\ \A u \in x.stamped : ~Named(x, n, u)
    BY <1>3 DEF Done
  <2>3. n = <<n[1], First(n)>> /\ Ends(n) = {First(n), Second(inst, n)}
        /\ First(n) # Second(inst, n)
    BY <1>1, <2>1, MoveFacts
  <2>4. m \in lists[v]
    BY <2>1, <2>2, <2>3, ListFacts DEF Named
  <2>5. m \in M /\ First(m) = v
    BY <2>4, ListFacts
  <2>6. /\ t \in M /\ t[1] = m[1] /\ First(t) = j /\ Second(inst, t) = v
        /\ Base(inst, m) \in {m, t} /\ Base(inst, t) = Base(inst, m)
    BY <1>1, <2>5, TwinFacts
  <2>7. t = <<n[1], j>>
    BY DEF Twin
  <2>8. (v = First(n) => n = m) /\ (v = Second(inst, n) => n = t)
    <3>1. v = First(n) => n = m
      BY <2>3
    <3>2. ASSUME v = Second(inst, n) PROVE n = t
      <4>1. Ends(m) = {v, j} /\ v # j
        BY <1>1, <2>5, MoveFacts
      <4>2. Ends(m) = Ends(n)
        BY DEF Ends
      <4>3. First(n) = j
        BY <2>3, <3>2, <4>1, <4>2
      <4> QED
        BY <2>3, <2>7, <4>3
    <3> QED
      BY <3>1, <3>2
  <2> HIDE DEF m, t, j
  <2>9. n \in {m, t} /\ (x.symmetric => n = Base(inst, m))
    BY <2>1, <2>2, <2>6, <2>8 DEF Named
  <2>10. (n = m => Second(inst, n) = j /\ First(n) = v) /\ (n = t => First(n) = j /\ Second(inst, n) = v)
    BY <2>5, <2>6 DEF j
  <2>11. n \in Targets(x, m)
    <3>1. CASE x.pass = "init"
      <4>1. j \notin x.stamped
        BY <2>2, <2>9, <2>10, <3>1 DEF Named
      <4> QED
        BY <2>9, <3>1, <4>1 DEF Targets, t, j
    <3>2. CASE x.pass = "update" /\ x.symmetric
      BY <2>9, <3>2 DEF Targets
    <3>3. CASE x.pass = "update" /\ ~x.symmetric
      <4>1. \/ n = m /\ v \in x.first /\ ~(j \in x.stamped /\ j \in x.second)
            \/ n = t /\ v \in x.second /\ ~(j \in x.stamped /\ j \in x.first)
        BY <2>2, <2>8, <2>10, <3>3 DEF Named
      <4> QED
        BY <2>5, <3>3, <4>1 DEF Targets, t, j
    <3> QED
      BY <1>1, <3>1, <3>2, <3>3
  <2> QED
    BY <2>4, <2>11 DEF TargetsOf
<1> QED
  BY <1>2, <1>3 DEF TargetsOf

\* A sweep serves the moves that its vertices name, and no other.
LEMMA SweptServes ==
    ASSUME ListsInv, NEW M, M = MovesOf(inst), NEW x \in Sweeps(M), Sound(x.h, M),
           x.stamped = {}, x.pass = "init" => Heaped(x.h) = {},
           NEW S \in SUBSET vertices, NEW o \in DepotLast(S),
           x.pass = "update" /\ x.symmetric => S \subseteq x.first /\ S \subseteq x.second
    PROVE  Served(Swept(x, o), x.h, M, x.truth, Done(x, S))
<1> DEFINE before(k) == {o[j] : j \in 1..k}
           ok(y, k) == /\ SameTask(y, x) /\ y.stamped = before(k)
                       /\ Served(y.h, x.h, M, x.truth, Done(x, before(k)))
           P == {z \in Sweeps(M) \X Nat : ok(z[1], z[2])}
           r == Sweeping!Folded(x, o)
<1>1. /\ o \in Seq(vertices) /\ Len(o) \in Nat
      /\ \A e \in S : \E k \in 1..Len(o) : o[k] = e
      /\ \A k \in 1..Len(o) : o[k] \in S
      /\ \A j, k \in 1..Len(o) : o[j] = o[k] => j = k
  BY DepotLastFacts
<1>2. Swept(x, o) = r.h
  BY DEF Swept, FoldLeft, MapThenFoldSet, Max, Sweeping!Folded, Sweeping!FoldLeft,
         Sweeping!MapThenFoldSet, Sweeping!Max
<1> HIDE DEF r
<1>3. <<x, 0>> \in P
  <2>1. before(0) = {} /\ Done(x, {}) = {}
    BY DEF Done
  <2> HIDE DEF before
  <2>2. Served(x.h, x.h, M, x.truth, Done(x, before(0)))
    BY <2>1, NoneServed
  <2> QED
    BY <2>1, <2>2 DEF SameTask
<1>4. ASSUME NEW k \in 1..Len(o), NEW y, <<y, k - 1>> \in P
      PROVE  <<VisitVertex(y, o[k]), k>> \in P
  <2> DEFINE v == o[k]
             z == VisitVertex(y, v)
  <2>1. y \in Sweeps(M) /\ ok(y, k - 1) /\ k \in Nat /\ k - 1 \in Nat
    <3>1. k \in Nat /\ k - 1 \in Nat
      BY <1>1
    <3> HIDE DEF ok
    <3>2. <<y, k - 1>> \in Sweeps(M) \X Nat /\ ok(<<y, k - 1>>[1], <<y, k - 1>>[2])
      BY <1>4
    <3> QED
      BY <3>1, <3>2
  <2>2. v \in S /\ v \in vertices /\ v \notin y.stamped
    <3>1. \A j \in 1..(k - 1) : j \in 1..Len(o) /\ j # k
      BY <1>1
    <3> QED
      BY <1>1, <2>1, <3>1
  <2>3. before(k) = y.stamped \cup {v}
    <3>1. 1..k = (1..(k - 1)) \cup {k}
      BY <2>1
    <3> QED
      BY <2>1, <3>1
  <2> HIDE DEF v, z, before
  <2>4. /\ Sound(y.h, M) /\ y.truth = x.truth /\ y.pass = x.pass
        /\ y.symmetric = x.symmetric /\ y.first = x.first /\ y.second = x.second
        /\ y.stamped = before(k - 1)
    BY <2>1 DEF Served, SameTask
  <2>5. \A T : Done(y, T) = Done(x, T)
    BY <2>4 DEF Done, Named
  <2>6. /\ TargetsOf(y, v) \subseteq Done(x, before(k))
        /\ Done(x, before(k)) \ Done(x, before(k - 1)) \subseteq TargetsOf(y, v)
        /\ x.pass = "init" => TargetsOf(y, v) \cap Done(x, before(k - 1)) = {}
    <3>1. y.pass = "update" /\ y.symmetric => v \in y.first /\ v \in y.second
      BY <2>2, <2>4
    <3>2. /\ TargetsOf(y, v) \subseteq Done(y, y.stamped \cup {v})
          /\ Done(y, y.stamped \cup {v}) \ Done(y, y.stamped) \subseteq TargetsOf(y, v)
          /\ y.pass = "init" => TargetsOf(y, v) \cap Done(y, y.stamped) = {}
      BY <2>1, <2>2, <3>1, TargetsAreDone
    <3> QED
      BY <2>3, <2>4, <2>5, <3>2
  <2>7. Done(x, before(k - 1)) \subseteq Done(x, before(k)) /\ Done(x, before(k)) \subseteq M
    BY <2>3, <2>4 DEF Done, Used
  <2>8. y.pass = "init" => TargetsOf(y, v) \cap Heaped(y.h) = {}
    <3> SUFFICES ASSUME x.pass = "init", NEW n \in TargetsOf(y, v), n \in Heaped(y.h)
                 PROVE  FALSE
      BY <2>4
    <3>1. n \in M /\ n \notin Done(x, before(k - 1))
      BY <2>6, <2>7
    <3>2. n \in Heaped(x.h)
      BY <2>1, <3>1 DEF Served, Same
    <3> QED
      BY <3>2
  <2>9. /\ z \in Sweeps(M) /\ SameTask(z, y) /\ z.stamped = y.stamped \cup {v}
        /\ Served(z.h, y.h, M, y.truth, TargetsOf(y, v))
    BY <2>1, <2>2, <2>4, <2>8, VisitVertexServes DEF z
  <2>10. Served(z.h, x.h, M, x.truth, Done(x, before(k - 1)) \cup TargetsOf(y, v))
    BY <2>1, <2>4, <2>9, ServedTwice
  <2>11. Done(x, before(k - 1)) \cup TargetsOf(y, v) = Done(x, before(k))
    BY <2>6, <2>7
  <2>12. SameTask(z, x)
    BY <2>1, <2>9 DEF SameTask
  <2> QED
    BY <2>1, <2>3, <2>9, <2>10, <2>11, <2>12 DEF z, v
<1> HIDE DEF P
<1>5. <<r, Len(o)>> \in P
  BY <1>1, <1>3, <1>4, Sweeping!FoldCarries DEF r
<1>6. ok(r, Len(o))
  BY <1>5 DEF P
<1>7. before(Len(o)) = S
  BY <1>1
<1> HIDE DEF before
<1> QED
  BY <1>2, <1>6, <1>7
-----------------------------------------------------------------------------
(* The cycles *)

\* During a cycle the heap has only moves that the operator uses, with their
\* true deltas, and all improving ones with a known vertex.
Tidy ==
    /\ truth \in [MovesOf(inst) -> Deltas]
    /\ Heaped(h) \subseteq Used(symmetric)
    /\ \A n \in Used(symmetric) :
          /\ n \in Heaped(h) => h.delta[n] = truth[n]
          /\ Ends(n) \cap known # {} /\ truth[n] < 0 - Tolerance => n \in Heaped(h)

\* The inductive invariant.  Between two cycles the heap keeps moves of the last
\* one, of which only its form matters, for the next begins with a reset.
SearchInv ==
    /\ ListsInv
    /\ pc \in {"idle", "search"} /\ symmetric \in BOOLEAN /\ known \in SUBSET vertices
    /\ Sound(h, MovesOf(inst))
    /\ pc = "search" => Tidy

LEMMA InitSearch == Init => SearchInv
<1> SUFFICES ASSUME Init PROVE SearchInv
  OBVIOUS
<1> DEFINE M == MovesOf(inst)
<1>1. ListsInv
  BY InitLists DEF Init
<1>2. h = HeapOf(<<>>, [m \in M |-> 0], [m \in M |-> unheaped])
  BY DEF Init, HeapOf
<1>3. <<>> \in Seq(M) /\ [m \in M |-> 0] \in [M -> Int] /\ [m \in M |-> unheaped] \in [M -> Nat]
  BY DEF unheaped
<1>4. h \in Heaps(M) /\ h.heap = <<>> /\ h.index = [m \in M |-> unheaped]
  <2> DEFINE a == <<>>
             d == [m \in M |-> 0]
             i == [m \in M |-> unheaped]
  <2>1. a \in Seq(M) /\ d \in [M -> Int] /\ i \in [M -> Nat] /\ h = HeapOf(a, d, i)
    BY <1>2, <1>3
  <2> HIDE DEF a, d, i, M
  <2>2. h \in Heaps(M) /\ h.heap = a /\ h.index = i
    BY <2>1, HeapRecord
  <2> QED
    BY <2>2 DEF a, i
<1>5. Placed(h) /\ Ordered(h)
  <2>1. Len(h.heap) = 0 /\ DOMAIN h.heap = {}
    BY <1>4
  <2> QED
    BY <1>4, <2>1 DEF Placed, Ordered
<1> QED
  BY <1>1, <1>4, <1>5 DEF Init, SearchInv, Sound

\* The initialization leaves the improving moves of its vertices.
LEMMA StartStep == SearchInv /\ StartCycle => SearchInv'
<1> SUFFICES ASSUME SearchInv, StartCycle PROVE SearchInv'
  OBVIOUS
<1> DEFINE M == MovesOf(inst)
<1>1. PICK svc \in SUBSET vertices \ {{}}, deltas \in TrueDeltas[inst], sym \in BOOLEAN :
        /\ symmetric' = sym /\ truth' = deltas /\ known' = svc
        /\ \E order \in DepotLast(svc) :
              h' = Swept(Sweep(Reset(h), "init", sym, deltas, {}, {}), order)
  BY DEF StartCycle
<1>2. PICK order \in DepotLast(svc) :
        h' = Swept(Sweep(Reset(h), "init", sym, deltas, {}, {}), order)
  BY <1>1
<1>3. pc' = "search" /\ UNCHANGED genVars
  BY DEF StartCycle
<1>4. ListsInv /\ ListsInv' /\ inst' = inst /\ active' = active /\ inst \in Instances
  BY <1>3, StepLists DEF SearchInv, ListsInv, genVars
<1>5. deltas \in [M -> Deltas]
  BY <1>4, DescriptorsAssumption
<1>6. Sound(Reset(h), M) /\ Heaped(Reset(h)) = {}
  <2>1. Holds(Reset(h), M, h.delta, {})
    BY ResetHolds DEF SearchInv
  <2> QED
    BY <2>1, HoldsFacts
<1> DEFINE x == Sweep(Reset(h), "init", sym, deltas, {}, {})
<1>7. /\ x \in Sweeps(M) /\ x.h = Reset(h) /\ x.stamped = {} /\ x.pass = "init"
      /\ x.symmetric = sym /\ x.truth = deltas
  <2>1. "init" \in {"init", "update"} /\ {} \in SUBSET vertices
        /\ x = Sweep(Reset(h), "init", sym, deltas, {}, {})
    OBVIOUS
  <2>2. deltas \in [M -> Int] /\ Reset(h) \in Heaps(M) /\ sym \in BOOLEAN
    BY <1>5, <1>6, DescriptorsAssumption DEF Sound
  <2> HIDE DEF M, x
  <2> QED
    BY <2>1, <2>2 DEF Sweep, Sweeps
<1>8. h' = Swept(x, order)
  BY <1>2
<1> HIDE DEF x, M
<1>9. Served(h', Reset(h), M, deltas, Done(x, svc))
  BY <1>4, <1>6, <1>7, <1>8, SweptServes DEF M
<1>10. Done(x, svc) = {n \in Used(sym) : Ends(n) \cap svc # {}} /\ Used(sym) \subseteq M
  <2>1. \A n \in Used(sym) : Ends(n) = {First(n), Second(inst, n)}
    BY <1>4, MoveFacts DEF Used
  <2> QED
    BY <1>7, <2>1 DEF Done, Named, Used, M
<1>11. Sound(h', M) /\ \A n \in M : IF n \in Done(x, svc) THEN RightAbout(h', deltas, n)
                                    ELSE n \notin Heaped(h')
  BY <1>6, <1>9 DEF Served, Same
<1>12. Heaped(h') \subseteq M
  BY <1>11 DEF Sound, Heaps, Heaped
<1>13. /\ Heaped(h') \subseteq Used(sym)
       /\ \A n \in Used(sym) :
             /\ n \in Heaped(h') => h'.delta[n] = deltas[n]
             /\ Ends(n) \cap svc # {} /\ deltas[n] < 0 - Tolerance => n \in Heaped(h')
  BY <1>10, <1>11, <1>12 DEF RightAbout
<1>14. /\ MovesOf(inst)' = M /\ Used(symmetric)' = Used(sym)
       /\ \A n : Ends(n)' = Ends(n)
  BY <1>1, <1>4 DEF M, Used, Ends, MovesOf, First, ActiveIn
<1>15. Tidy'
  <2>1. Heaped(h)' = Heaped(h')
    BY DEF Heaped
  <2> QED
    BY <1>1, <1>5, <1>13, <1>14, <2>1 DEF Tidy, M
<1>16. Sound(h', MovesOf(inst'))
  BY <1>4, <1>11 DEF M
<1> QED
  BY <1>1, <1>3, <1>4, <1>15, <1>16 DEF SearchInv

\* The update leaves the heap right about the moves whose deltas may have
\* changed; the others have kept theirs.
LEMMA ExecuteStep == SearchInv /\ ExecuteMove => SearchInv'
<1> SUFFICES ASSUME SearchInv, ExecuteMove PROVE SearchInv'
  OBVIOUS
<1> DEFINE M == MovesOf(inst)
           new(first, second, changed) ==
               [m \in DOMAIN truth |-> IF First(m) \in first \/ Second(inst, m) \in second
                                       THEN changed[m] ELSE truth[m]]
<1>1. PICK first \in SUBSET vertices, second \in SUBSET vertices, changed \in NextDeltas(truth) :
        /\ symmetric => first = second
        /\ truth' = new(first, second, changed)
        /\ \E order \in DepotLast(first \cup second) :
              h' = Swept(Sweep(h, "update", symmetric, new(first, second, changed),
                               first, second), order)
  BY DEF ExecuteMove
<1> DEFINE deltas == new(first, second, changed)
           S == first \cup second
           x == Sweep(h, "update", symmetric, deltas, first, second)
<1>2. PICK order \in DepotLast(S) : h' = Swept(x, order)
  BY <1>1
<1>3. /\ pc = "search" /\ pc' = "search" /\ symmetric' = symmetric /\ known' = known
      /\ UNCHANGED genVars
  BY DEF ExecuteMove
<1>4. ListsInv /\ ListsInv' /\ inst' = inst /\ active' = active /\ inst \in Instances
  BY <1>3, StepLists DEF SearchInv, ListsInv, genVars
<1>5. /\ Tidy /\ Sound(h, M) /\ symmetric \in BOOLEAN /\ truth \in [M -> Deltas]
      /\ known \in SUBSET vertices
  BY <1>3 DEF SearchInv, Tidy
<1>6. deltas \in [M -> Deltas]
      /\ \A n \in M : First(n) \notin first /\ Second(inst, n) \notin second
                        => deltas[n] = truth[n]
  <2>1. changed \in [M -> Deltas]
    BY <1>4, <1>5, DescriptorsAssumption
  <2> HIDE DEF M
  <2> QED
    BY <1>5, <2>1
<1> HIDE DEF new
<1> HIDE DEF deltas
<1>7. /\ x \in Sweeps(M) /\ x.h = h /\ x.stamped = {} /\ x.pass = "update"
      /\ x.symmetric = symmetric /\ x.truth = deltas /\ x.first = first /\ x.second = second
  <2>1. "update" \in {"init", "update"}
        /\ x = Sweep(h, "update", symmetric, deltas, first, second)
    OBVIOUS
  <2>2. deltas \in [M -> Int] /\ h \in Heaps(M) /\ symmetric \in BOOLEAN
    BY <1>5, <1>6, DescriptorsAssumption DEF Sound
  <2> HIDE DEF M, x
  <2> QED
    BY <2>1, <2>2 DEF Sweep, Sweeps
<1> HIDE DEF x, M
<1>8. Served(h', h, M, deltas, Done(x, S))
  <2>1. x.pass = "update" /\ x.symmetric => S \subseteq x.first /\ S \subseteq x.second
    BY <1>1, <1>7
  <2>2. x.pass = "init" => Heaped(x.h) = {}
    BY <1>7
  <2> QED
    BY <1>2, <1>4, <1>5, <1>7, <2>1, <2>2, SweptServes DEF M
<1>9. /\ Done(x, S) = {n \in Used(symmetric) :
                          First(n) \in first \/ Second(inst, n) \in second}
      /\ Used(symmetric) \subseteq M
  BY <1>7 DEF Done, Named, Used, M
<1>10. Sound(h', M) /\ \A n \in M : IF n \in Done(x, S) THEN RightAbout(h', deltas, n)
                                    ELSE Same(h', h, n)
  BY <1>8 DEF Served
<1>11. Heaped(h') \subseteq M
  BY <1>10 DEF Sound, Heaps, Heaped
<1>12. ASSUME NEW n \in M, n \notin Done(x, S), n \in Used(symmetric)
       PROVE  deltas[n] = truth[n]
  BY <1>6, <1>9, <1>12
<1>13. /\ Heaped(h') \subseteq Used(symmetric)
       /\ \A n \in Used(symmetric) :
             /\ n \in Heaped(h') => h'.delta[n] = deltas[n]
             /\ Ends(n) \cap known # {} /\ deltas[n] < 0 - Tolerance => n \in Heaped(h')
  BY <1>5, <1>9, <1>10, <1>11, <1>12 DEF Tidy, RightAbout, Same
<1>14. /\ MovesOf(inst)' = M /\ Used(symmetric)' = Used(symmetric)
       /\ \A n : Ends(n)' = Ends(n)
  BY <1>3, <1>4 DEF M, Used, Ends, MovesOf, First, ActiveIn
<1>15. truth' = deltas
  BY <1>1 DEF deltas
<1>16. Tidy'
  <2>1. Heaped(h)' = Heaped(h')
    BY DEF Heaped
  <2> QED
    BY <1>3, <1>6, <1>13, <1>14, <1>15, <2>1 DEF Tidy, M
<1>17. Sound(h', MovesOf(inst'))
  BY <1>4, <1>10 DEF M
<1> QED
  BY <1>3, <1>4, <1>5, <1>16, <1>17 DEF SearchInv

LEMMA StepSearch == SearchInv /\ [Next]_vars => SearchInv'
<1> SUFFICES ASSUME SearchInv, [Next]_vars PROVE SearchInv'
  OBVIOUS
<1>1. CASE ChangeActive
  <2>1. GenNext /\ pc = "idle" /\ UNCHANGED searchVars
    BY <1>1 DEF ChangeActive, GenNext
  <2>2. ListsInv' /\ inst' = inst
    BY <2>1, StepLists DEF SearchInv, GenNext, SetActivePercentage
  <2> QED
    BY <2>1, <2>2 DEF SearchInv, searchVars
<1>2. CASE StartCycle
  BY <1>2, StartStep
<1>3. CASE ExecuteMove
  BY <1>3, ExecuteStep
<1>4. CASE EndCycle
  <2>1. ListsInv'
    BY <1>4, StepLists DEF SearchInv, EndCycle
  <2> QED
    BY <1>4, <2>1 DEF EndCycle, SearchInv, genVars
<1>5. CASE UNCHANGED vars
  <2>1. ListsInv'
    BY <1>5, StepLists DEF SearchInv, vars
  <2>2. Tidy => Tidy'
    BY <1>5 DEF Tidy, vars, genVars, searchVars, Used, Ends, ActiveIn, Heaped
  <2> QED
    BY <1>5, <2>1, <2>2 DEF SearchInv, vars, genVars, searchVars
<1> QED
  BY <1>1, <1>2, <1>3, <1>4, <1>5 DEF Next, Ended

LEMMA SearchInvariant == Spec => []SearchInv
BY InitSearch, StepSearch, PTL DEF Spec

-----------------------------------------------------------------------------
\* For every instance, every assignment of deltas and every choice of the moves
\* that executions update, the array is a heap after each sweep of insertions,
\* removals in the middle and changes of values, and its moves know their places.
THEOREM HeapStaysAHeap == Spec => []HeapIsConsistent
<1>1. SearchInv => HeapIsConsistent
  BY SoundIsHeap DEF SearchInv, HeapIsConsistent
<1> QED
  BY <1>1, SearchInvariant, PTL

\* A move that waits in the heap has its true delta, although the update bits of
\* an execution name vertices one by one and leave out what the other vertex of
\* a move has served.
THEOREM HeapHasTrueDeltas == Spec => []HeapedIsTrue
<1>1. SearchInv => HeapedIsTrue
  <2> SUFFICES ASSUME SearchInv, pc = "search", NEW k \in DOMAIN h.heap
               PROVE  h.delta[h.heap[k]] = truth[h.heap[k]]
    BY DEF HeapedIsTrue
  <2>1. Tidy /\ h \in Heaps(MovesOf(inst)) /\ Placed(h)
    BY DEF SearchInv, Sound
  <2>2. /\ DOMAIN h.heap = 1..Len(h.heap) /\ DOMAIN h.index = MovesOf(inst)
        /\ h.heap[k] \in MovesOf(inst)
    BY <2>1, HeapType
  <2>3. h.index[h.heap[k]] = k /\ k # unheaped
    BY <2>1, <2>2 DEF Placed, unheaped
  <2>4. h.heap[k] \in Heaped(h)
    BY <2>2, <2>3 DEF Heaped
  <2> QED
    BY <2>1, <2>4 DEF Tidy
<1> QED
  BY <1>1, SearchInvariant, PTL

\* No improving move around the known vertices is missing from the heap when
\* the search looks for the next move to execute.
THEOREM NoImprovementIsMissed == Spec => []NoMoveMissed
<1>1. SearchInv => NoMoveMissed
  <2> DEFINE used(m) == IF symmetric THEN {Base(inst, m)} ELSE {m, Twin(inst, m)}
  <2> SUFFICES ASSUME SearchInv, pc = "search", NEW v \in known, NEW m \in lists[v],
                      NEW n \in used(m), truth[n] < 0 - Tolerance
               PROVE  h.index[n] # unheaped
    BY DEF NoMoveMissed
  <2>1. Tidy /\ ListsInv /\ v \in vertices /\ inst \in Instances /\ symmetric \in BOOLEAN
    BY DEF SearchInv, ListsInv
  <2>2. m \in MovesOf(inst) /\ First(m) = v /\ ActiveIn(active, m[1])
    BY <2>1, ListFacts
  <2>3. /\ Twin(inst, m) \in MovesOf(inst) /\ Twin(inst, m)[1] = m[1]
        /\ Base(inst, m) \in {m, Twin(inst, m)}
        /\ Base(inst, Base(inst, m)) = Base(inst, m)
    BY <2>1, <2>2, TwinFacts
  <2>4. n \in {m, Twin(inst, m)} /\ (symmetric => n = Base(inst, m))
    BY <2>1, <2>3
  <2>5. n \in Used(symmetric) /\ n[1] = m[1]
    BY <2>2, <2>3, <2>4 DEF Used
  <2>6. v \in Ends(n)
    <3>1. v \in Ends(m)
      BY <2>1, <2>2, MoveFacts
    <3> QED
      BY <2>5, <3>1 DEF Ends
  <2>7. n \in Heaped(h)
    BY <2>1, <2>5, <2>6 DEF Tidy
  <2> QED
    BY <2>7 DEF Heaped
<1> QED
  BY <1>1, SearchInvariant, PTL
=============================================================================
