--------------------------- MODULE MoveGenerators ---------------------------
(***************************************************************************)
(* The granular neighborhoods (filo2/movegen/MoveGenerators.hpp): a move   *)
(* for every vertex and each of its nearest neighbors, of which each       *)
(* vertex uses a number that varies during the search.                     *)
(*                                                                         *)
(* A base move is named <<i, p>> after the vertex and the position in its  *)
(* list of neighbors that inserted it.  A move <<b, v>> is the base move b *)
(* with v as its first vertex: the base move itself, or its twin.          *)
(***************************************************************************)
EXTENDS Integers, Sequences, FiniteSets, Functions, SequencesExt

CONSTANTS VerticesNum,   (* instance.get_vertices_num() *)
          MaxNeighbors,  (* max_num_neighbors *)
          Instances      (* records of neighbors and costs *)

vertices == 0..(VerticesNum - 1)

\* The neighbors of a vertex, without the vertex itself, are the nearest ones,
\* the nearest first.
ASSUME MoveGeneratorsAssumption ==
    /\ VerticesNum \in Nat /\ VerticesNum > 1
    /\ MaxNeighbors \in Nat \ {0}
    /\ \A w \in Instances :
        /\ w.cost \in [vertices -> [vertices -> Nat]]
        /\ \A u, v \in vertices : w.cost[u][v] = w.cost[v][u]
        /\ w.near \in [vertices -> Seq(vertices)]
        /\ \A v \in vertices :
            /\ Len(w.near[v]) > 0
            /\ \A p \in DOMAIN w.near[v] : w.near[v][p] # v
            /\ \A p, q \in DOMAIN w.near[v] :
                  p < q => /\ w.near[v][p] # w.near[v][q]
                           /\ w.cost[v][w.near[v][p]] <= w.cost[v][w.near[v][q]]
            /\ \A u \in vertices \ {v} :
                  \/ \E p \in DOMAIN w.near[v] : w.near[v][p] = u
                  \/ \A p \in DOMAIN w.near[v] : w.cost[v][w.near[v][p]] <= w.cost[v][u]

VARIABLES
    inst,       (* the instance *)
    involving,  (* vertex -> base_move_indices_involving, by cost *)
    current,    (* vertex -> current_num_neighbors *)
    active,     (* move_active_in_1st, _2nd: base moves with the vertex they are active for *)
    lists       (* vertex -> active_move_indices_involving_1st, as a set *)

genVars == <<inst, involving, current, active, lists>>

-----------------------------------------------------------------------------
(* Construction *)

\* How many neighbors of a vertex are considered.
Considered(w, v) == IF Len(w.near[v]) < MaxNeighbors THEN Len(w.near[v]) ELSE MaxNeighbors

\* The cost of the farthest neighbor considered.
Radius(w, v) == w.cost[v][w.near[v][Considered(w, v)]]

IsNeighbor(w, i, j) == \E p \in 1..Considered(w, j) : w.near[j][p] = i

\* A bug that takes a neighbor at that distance for one not considered.
InsertsTies(w, i, p) ==
    LET j == w.near[i][p]
    IN  i < j \/ w.cost[i][j] >= Radius(w, j)

\* A pair of mutual neighbors is inserted by its smaller vertex, any other pair
\* by the vertex that has the other one as its neighbor.  When i is as far as
\* the farthest neighbor of j, only the moves of j tell whether it is one.
Inserts(w, i, p) ==
    LET j == w.near[i][p]
    IN  \/ i < j
        \/ w.cost[i][j] > Radius(w, j)
        \/ w.cost[i][j] = Radius(w, j) /\ ~IsNeighbor(w, i, j)

BaseMoves(w) == {b \in vertices \X (1..MaxNeighbors) :
                    b[2] <= Considered(w, b[1]) /\ Inserts(w, b[1], b[2])}

Endpoints(w, b) == {b[1], w.near[b[1]][b[2]]}

CostOf(w, b) == w.cost[b[1]][w.near[b[1]][b[2]]]

\* The base moves of a vertex in all orders by cost.
SortedByCost(w, v) ==
    LET all == {b \in BaseMoves(w) : v \in Endpoints(w, b)}
    IN  {s \in [1..Cardinality(all) -> all] :
            /\ Range(s) = all /\ IsInjective(s)
            /\ \A p, q \in DOMAIN s : p < q => CostOf(w, s[p]) <= CostOf(w, s[q])}

-----------------------------------------------------------------------------
(* Moves *)

First(m) == m[2]
Second(w, m) == CHOOSE v \in Endpoints(w, m[1]) : v # m[2]
Twin(w, m) == <<m[1], Second(w, m)>>
Base(w, m) == IF First(m) < Second(w, m) THEN m ELSE Twin(w, m)

\* The list of a vertex: its moves that are active for either vertex, the first
\* one of those with the same vertices.
ListOf(w, v, order, act) ==
    LET used == {p \in DOMAIN order : \E u \in vertices : <<order[p], u>> \in act}
    IN  {<<order[p], v>> : p \in {q \in used :
            \A r \in used : r < q => Endpoints(w, order[r]) # Endpoints(w, order[q])}}

GenInit ==
    /\ inst \in Instances
    /\ \E order \in [vertices -> UNION {SortedByCost(inst, v) : v \in vertices}] :
        /\ \A v \in vertices : order[v] \in SortedByCost(inst, v)
        /\ involving = order
    /\ current = [v \in vertices |-> 0]
    /\ active = {}
    /\ lists = [v \in vertices |-> {}]

\* The base moves of a vertex between two numbers of neighbors.
Between(v, m, n) == {involving[v][p] : p \in (m + 1)..n}

\* A bug that updates the lists of the vertices whose percentage has changed.
TouchedOwners(w, wanted) == {v \in vertices : wanted[v] # current[v]}

\* vertices_in_updated_moves.
Touched(w, wanted) ==
    UNION {Endpoints(w, b) : b \in UNION {Between(v, current[v], wanted[v])
                                          \cup Between(v, wanted[v], current[v]) : v \in vertices}}

\* set_active_percentage: the percentages as numbers of neighbors.
SetActivePercentage(wanted) ==
    LET on  == UNION {Between(v, current[v], wanted[v]) \X {v} : v \in vertices}
        off == UNION {Between(v, wanted[v], current[v]) \X {v} : v \in vertices}
        act == (active \ off) \cup on
    IN  /\ active' = act
        /\ lists' = [v \in vertices |->
                        IF v \in Touched(inst, wanted) THEN ListOf(inst, v, involving[v], act)
                        ELSE lists[v]]
        /\ current' = wanted
        /\ UNCHANGED <<inst, involving>>

\* The numbers of neighbors that percentages can give.
Wanted == {n \in [vertices -> 0..MaxNeighbors] : \A v \in vertices : n[v] <= Considered(inst, v)}

GenNext == \E wanted \in Wanted : SetActivePercentage(wanted)

GenSpec == GenInit /\ [][GenNext]_genVars

-----------------------------------------------------------------------------
(* Properties *)

\* Every vertex and each of its considered neighbors have exactly one base move
\* between them, also when neighbors are as far as the farthest one, for which
\* the constructor (MoveGenerators.hpp 180-230) depends on what it has already
\* inserted.
OneMoveForEachPair ==
    \A i \in vertices : \A p \in 1..Considered(inst, i) :
        \E b \in BaseMoves(inst) :
            /\ Endpoints(inst, b) = {i, inst.near[i][p]}
            /\ \A c \in BaseMoves(inst) : Endpoints(inst, c) = Endpoints(inst, b) => c = b

\* A vertex has as many base moves as the percentage can ask for: the assert of
\* MoveGenerators.hpp 283, without which set_active_percentage leaves the list.
EnoughMoves == \A v \in vertices : Considered(inst, v) <= Len(involving[v])

\* A move is in the list of its first vertex if and only if it is active for
\* one of its vertices; so its twin is in the list of the second one, however
\* the numbers of both went up and down.  The update of the deltas takes the
\* moves (j, i) from the twins of the list of i and skips those that the list of
\* j has served.
ListsHoldTheActive ==
    \A b \in BaseMoves(inst), v \in vertices :
        v \in Endpoints(inst, b) =>
            (<<b, v>> \in lists[v] <=> \E u \in vertices : <<b, u>> \in active)
=============================================================================
