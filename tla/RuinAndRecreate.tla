-------------------------- MODULE RuinAndRecreate --------------------------
(***************************************************************************)
(* Generation of a candidate change (filo2x/SolverCoreopt.cpp 381-426):    *)
(* the ruin walk and the greedy recreate of filo2/opt/RuinAndRecreate.hpp, *)
(* and a move of the local search, for every outcome of the random numbers *)
(* of urnd.                                                                *)
(***************************************************************************)
EXTENDS Exchange

CONSTANTS Neighbors,      (* customer -> instance.get_neighbors_of() from index 1 *)
          LocalOperators  (* bound: the operators the local search tries *)

ASSUME NeighborsAssumption ==
    \A c \in customers : /\ Neighbors[c] \in Seq(vertices)
                         /\ c \notin ToSet(Neighbors[c])
                         /\ \A k \in 2..Len(Neighbors[c]) :
                               ArcCost(c, Neighbors[c][k - 1]) <= ArcCost(c, Neighbors[c][k])

-----------------------------------------------------------------------------
(* ruin *)

NextCustomer(r, c) == IF Succ(r, c) = depot THEN Succ(r, depot) ELSE Succ(r, c)
PrevCustomer(r, c) == IF Pred(r, c) = depot THEN Pred(r, depot) ELSE Pred(r, c)

\* The first neighbor in the list that satisfies the test, if any.
FirstNeighbor(c, Test(_)) ==
    LET found == {k \in DOMAIN Neighbors[c] : Test(Neighbors[c][k])}
    IN  IF found = {} THEN NoVertex ELSE Neighbors[c][Min(found)]

\* Where a walk may go: along a route of several customers, or to the nearest
\* served neighbor, of any route or of a route it has not visited.
WalkTargets(sol, curr, visited) ==
    LET r == RouteOf(sol, curr)
        served(v) == v # depot /\ IsServed(sol, v)
        fresh(v) == served(v) /\ v \notin visited
    IN  {FirstNeighbor(curr, served), FirstNeighbor(curr, fresh)}
        \cup (IF Cardinality(ServedBy(r)) > 1
              THEN {NextCustomer(r, curr), PrevCustomer(r, curr)} ELSE {})

\* One iteration of the walk.  `visited' holds the customers of the visited
\* routes: no customer changes its route during the ruin.
WalkStep(w) ==
    IF w.curr = NoVertex THEN {w}
    ELSE LET r == RouteOf(w.sol, w.curr)
             visited == w.visited \cup ServedBy(r)
         IN  {[Do(w, RemoveVertex(w.curr, Succ(r, w.curr))) EXCEPT
                  !.curr = next, !.visited = visited,
                  !.removed = Append(@, w.curr)] :
                 next \in WalkTargets(w.sol, w.curr, visited)}

\* The walks of length at most n from a seed customer.
Ruin(sol, seed, n) ==
    LET start == [sol |-> sol, curr |-> seed, visited |-> {}, removed |-> <<>>,
                  do |-> <<>>, undo |-> <<>>, svc |-> {}]
        walks[k \in 0..n] ==
            IF k = 0 THEN {start} ELSE UNION {WalkStep(w) : w \in walks[k - 1]}
    IN  walks[n]

-----------------------------------------------------------------------------
(* recreate *)

InsertionCost(r, c, where) ==
    ArcCost(Pred(r, where), c) + ArcCost(c, where) - ArcCost(Pred(r, where), where)

\* The places in routes that serve a neighbor and have room for the customer.
Places(sol, c) ==
    LET near == {r \in sol : (ServedBy(r) \cap ToSet(Neighbors[c])) # {}}
    IN  {p \in near \X vertices :
            Contains(p[1], p[2]) /\ Load(p[1]) + Demand[c] <= Capacity}

\* The actions that put a customer back: at a cheapest place, or in a route of
\* its own when there is none or that is cheaper.
Insertions(sol, c) ==
    LET cost(p) == InsertionCost(p[1], c, p[2])
        best == {p \in Places(sol, c) :
                    /\ \A q \in Places(sol, c) : cost(p) <= cost(q)
                    /\ 2 * ArcCost(c, depot) >= cost(p)}
    IN  IF best = {} THEN {BuildOne(c)}
        ELSE {InsertVertex(p[2], c, Succ(p[1], p[2])) : p \in best}

\* The removed customers are shuffled or sorted: any order.
Recreate(sol, removed, svc) ==
    LET start == [sol |-> sol, do |-> <<>>, undo |-> <<>>, svc |-> svc,
                  order |-> removed]
        orders == {[start EXCEPT !.order = o] :
                      o \in {t \in [DOMAIN removed -> ToSet(removed)] :
                                ToSet(t) = ToSet(removed)}}
        insert(x, c) == {Do(x, a) : a \in Insertions(x.sol, c)}
        after[k \in 0..Len(removed)] ==
            IF k = 0 THEN orders
            ELSE UNION {insert(x, x.order[k]) : x \in after[k - 1]}
    IN  after[Len(removed)]

-----------------------------------------------------------------------------
(* local search *)

\* At most one improving move of an operator with a vertex of the cache: the
\* granular neighborhood decides which of them are tried.  Moves of unserved
\* vertices are skipped.
LocalSearch(x) ==
    LET served == {v \in vertices : IsServed(x.sol, v)}
        tried(o) == {mv \in Moves(o) : {mv[1], mv[2]} \subseteq served
                                       /\ {mv[1], mv[2]} \cap x.svc # {}}
        moved(o) == {Execute(o, x, mv) : mv \in {m \in tried(o) : Feasible(o, x.sol, m)}}
    IN  {x} \cup {y \in UNION {moved(o) : o \in LocalOperators} :
                      TotalCost(y.sol) < TotalCost(x.sol)}

-----------------------------------------------------------------------------
\* The changes that may be generated from a solution with a seed customer and
\* its walk length.
ChangesFrom(sol, seed, n) ==
    UNION {UNION {{[ruin |-> w.do, recreate |-> x.do, localsearch |-> y.do,
                    seed |-> seed] :
                   y \in LocalSearch([x EXCEPT !.do = <<>>])} :
                  x \in Recreate(w.sol, w.removed, w.svc)} :
           w \in Ruin(sol, seed, n)}
=============================================================================
