------------------------------ MODULE Routes ------------------------------
(***************************************************************************)
(* Solutions of the vehicle routing problem and the recorded actions on    *)
(* them (filo2/solution/Solution.hpp), without the route indices: an       *)
(* action names a route by a vertex, since the index of a route differs    *)
(* between the solvers that replay the action.                             *)
(*                                                                         *)
(* A route is the cycle of its vertices, written from its smallest vertex, *)
(* which is the depot unless an action has taken the depot out.  A         *)
(* solution is the set of its routes.                                      *)
(***************************************************************************)
EXTENDS Integers, Sequences, FiniteSets, SequencesExt

CONSTANTS CustomersNum,  (* customers are 1..CustomersNum *)
          Capacity,      (* instance.get_vehicle_capacity() *)
          Demand,        (* customer -> instance.get_demand() *)
          Dist           (* the matrix of instance.get_cost(), of integers *)

ASSUME RoutesAssumption ==
    /\ CustomersNum \in Nat \ {0}
    /\ Capacity \in Nat \ {0}
    /\ Demand \in [1..CustomersNum -> 1..Capacity]
    /\ Dist \in [1..(CustomersNum + 1) -> [1..(CustomersNum + 1) -> Nat]]
    /\ \A u, v \in DOMAIN Dist : Dist[u][v] = Dist[v][u]

depot == 0
customers == 1..CustomersNum
vertices == 0..CustomersNum

NoVertex == -1

ArcCost(u, v) == Dist[u + 1][v + 1]

-----------------------------------------------------------------------------
(* Routes *)

\* The cycle written from its k-th vertex, and from its smallest one.
From(r, k) == SubSeq(r, k, Len(r)) \o SubSeq(r, 1, k - 1)

Position(r, v) == CHOOSE k \in DOMAIN r : r[k] = v

Cycle(r) ==
    IF r = <<>> THEN r ELSE
    From(r, CHOOSE k \in DOMAIN r : \A j \in DOMAIN r : r[k] <= r[j])

\* The customers of a route; its size is their number.
ServedBy(r) == ToSet(r) \ {depot}

Succ(r, v) == r[1 + (Position(r, v) % Len(r))]
Pred(r, v) == r[1 + ((Position(r, v) + Len(r) - 2) % Len(r))]

\* The sum of a quantity over the vertices of a route.
Total(r, Quantity(_)) ==
    LET sum[k \in 0..Len(r)] == IF k = 0 THEN 0 ELSE sum[k - 1] + Quantity(r[k])
    IN  sum[Len(r)]

Load(r) == Total(r, LAMBDA v : IF v = depot THEN 0 ELSE Demand[v])

RouteCost(r) == Total(r, LAMBDA v : ArcCost(v, Succ(r, v)))

MissingDepot(r) == ~Contains(r, depot)

OneCustomerRoute(c) == <<depot, c>>

InsertBefore(r, where, v) == Cycle(<<v>> \o From(r, Position(r, where)))

RemoveFrom(r, v) == Cycle(Tail(From(r, Position(r, v))))

\* The vertices from b to e along the route, in that order.
PathOf(r, b, e) ==
    LET around == From(r, Position(r, b))
    IN  SubSeq(around, 1, Position(around, e))

\* Nothing changes when the path is the whole route.
ReversePath(r, b, e) ==
    LET around == From(r, Position(r, b))
        n == Position(around, e)
    IN  IF n = Len(r) THEN r
        ELSE Cycle(Reverse(SubSeq(around, 1, n)) \o SubSeq(around, n + 1, Len(r)))

-----------------------------------------------------------------------------
(* Solutions *)

RouteOf(sol, c) == CHOOSE r \in sol : Contains(r, c)

\* get_route_index: the depot is in many routes, the fallback tells which.
RouteVia(sol, v, fallback) == RouteOf(sol, IF v = depot THEN fallback ELSE v)

IsServed(sol, v) == v = depot \/ \E r \in sol : Contains(r, v)

TotalCost(sol) == FoldSet(LAMBDA r, sum : sum + RouteCost(r), 0, sol)

LoadFeasible(sol) == \A r \in sol : Load(r) <= Capacity

\* The solution with `new' in the place of `old', or without both when the
\* new route is empty, that is, has no load.
Replace(sol, old, new) ==
    (sol \ {old}) \cup (IF Load(new) = 0 THEN {} ELSE {new})

\* Routes of the depot and a customer or more: an empty route is not kept.
IsSolution(sol) ==
    IsFiniteSet(sol) /\ \A r \in sol : r \in Seq(vertices) /\ Len(r) >= 2

\* is_feasible() without an error or a warning (Solution.cpp): every customer
\* is in one route, every route has the depot and is within the capacity.
IsFeasible(sol) ==
    /\ \A r \in sol : r[1] = depot /\ IsInjective(r)
    /\ \A c \in customers : Cardinality({r \in sol : Contains(r, c)}) = 1
    /\ LoadFeasible(sol)

-----------------------------------------------------------------------------
(* Recorded actions *)

InsertVertex(where, v, fallback) ==
    [type |-> "INSERT_VERTEX", i |-> v, j |-> where, fallback |-> fallback]
RemoveVertex(v, fallback) ==
    [type |-> "REMOVE_VERTEX", i |-> v, j |-> NoVertex, fallback |-> fallback]
ReverseRoutePath(b, e) ==
    [type |-> "REVERSE_ROUTE_PATH", i |-> b, j |-> e, fallback |-> NoVertex]
BuildOne(c) ==
    [type |-> "BUILD_ONE_CUSTOMER_ROUTE", i |-> c, j |-> NoVertex,
     fallback |-> NoVertex]
RemoveOne(c) ==
    [type |-> "REMOVE_ONE_CUSTOMER_ROUTE", i |-> c, j |-> NoVertex,
     fallback |-> NoVertex]

AllActions ==
    {InsertVertex(w, v, f) : w, v, f \in vertices} \cup {RemoveVertex(v, f) : v, f \in vertices}
        \cup {ReverseRoutePath(b, e) : b, e \in vertices}
        \cup {BuildOne(c) : c \in customers} \cup {RemoveOne(c) : c \in customers}

\* is_applicable.
Applicable(sol, a) ==
    CASE a.type = "BUILD_ONE_CUSTOMER_ROUTE" -> ~IsServed(sol, a.i)
      [] a.type = "REMOVE_ONE_CUSTOMER_ROUTE" ->
            IsServed(sol, a.i) /\ Cardinality(ServedBy(RouteOf(sol, a.i))) = 1
      [] a.type = "INSERT_VERTEX" ->
            /\ a.i # depot => ~IsServed(sol, a.i)
            /\ IsServed(sol, a.j) /\ IsServed(sol, a.fallback)
            /\ RouteVia(sol, a.j, a.fallback) = RouteVia(sol, a.fallback, a.j)
            /\ a.i = depot => MissingDepot(RouteVia(sol, a.j, a.fallback))
      [] a.type = "REMOVE_VERTEX" ->
            /\ IsServed(sol, a.i) /\ IsServed(sol, a.fallback)
            /\ RouteVia(sol, a.i, a.fallback) = RouteVia(sol, a.fallback, a.i)
            /\ a.i = depot => ~MissingDepot(RouteVia(sol, a.i, a.fallback))
      [] a.type = "REVERSE_ROUTE_PATH" ->
            /\ IsServed(sol, a.i) /\ IsServed(sol, a.j)
            /\ RouteVia(sol, a.i, a.j) = RouteVia(sol, a.j, a.i)

\* The route an action is about, when there is one.
RouteIn(sol, a) ==
    CASE a.type = "REMOVE_ONE_CUSTOMER_ROUTE" -> RouteOf(sol, a.i)
      [] a.type = "INSERT_VERTEX" -> RouteVia(sol, a.j, a.fallback)
      [] a.type = "REMOVE_VERTEX" -> RouteVia(sol, a.i, a.fallback)
      [] a.type = "REVERSE_ROUTE_PATH" -> RouteVia(sol, a.i, a.j)

\* apply.  A route that gets empty leaves the solution.
ApplyAction(sol, a) ==
    IF a.type = "BUILD_ONE_CUSTOMER_ROUTE" THEN sol \cup {OneCustomerRoute(a.i)}
    ELSE LET r == RouteIn(sol, a)
         IN  Replace(sol, r,
                CASE a.type = "INSERT_VERTEX" -> InsertBefore(r, a.j, a.i)
                  [] a.type = "REVERSE_ROUTE_PATH" -> ReversePath(r, a.i, a.j)
                  [] OTHER -> RemoveFrom(r, a.i))

\* What apply<record> appends to do_list1 and to undo_list1: the action as it
\* is here and now, with fallbacks from this solution, and its inverse.  The
\* fallback of the inverse of a removal must not be the removed vertex.  Then
\* the cache.insert calls of the operation, in their order.
RecordInsert(r, where, v) ==
    [do      |-> <<InsertVertex(where, v, Succ(r, where))>>,
     undo    |-> <<RemoveVertex(v, Succ(r, where))>>,
     touched |-> <<Pred(r, where), where>>]

RecordReverse(r, b, e) ==
    IF Succ(r, e) = b THEN [do |-> <<>>, undo |-> <<>>, touched |-> <<>>]
    ELSE [do      |-> <<ReverseRoutePath(b, e)>>,
          undo    |-> <<ReverseRoutePath(e, b)>>,
          touched |-> <<Pred(r, b), Succ(r, e)>> \o PathOf(r, b, e)]

Fallback(r, v, next) == IF Succ(r, next) = v THEN next ELSE Succ(r, next)

\* A bug that treats the last customer of a route as any other.
RecordRemoveAsOfMany(r, v, next) ==
    [do      |-> <<RemoveVertex(v, next)>>,
     undo    |-> <<InsertVertex(next, v, Fallback(r, v, next))>>,
     touched |-> <<v, Pred(r, v), next>>]

RecordRemove(r, v, next) ==
    LET alone == Cardinality(ServedBy(r)) = 1 /\ v # depot
    IN  [do      |-> <<IF alone THEN RemoveOne(v) ELSE RemoveVertex(v, next)>>,
         undo    |-> <<IF alone THEN BuildOne(v)
                       ELSE InsertVertex(next, v, Fallback(r, v, next))>>,
         touched |-> <<v, Pred(r, v), next>>]

RecordAction(sol, a) ==
    IF a.type = "BUILD_ONE_CUSTOMER_ROUTE"
    THEN [do |-> <<BuildOne(a.i)>>, undo |-> <<RemoveOne(a.i)>>, touched |-> <<a.i>>]
    ELSE LET r == RouteIn(sol, a)
         IN  CASE a.type = "INSERT_VERTEX" -> RecordInsert(r, a.j, a.i)
               [] a.type = "REVERSE_ROUTE_PATH" -> RecordReverse(r, a.i, a.j)
               [] OTHER -> RecordRemove(r, a.i, Succ(r, a.i))

\* Applies an action to a solution, appends what it records to its lists and
\* adds the vertices it inserts in the cache.
Recorded(x, sol, entry) ==
    [x EXCEPT !.sol  = sol,
              !.do   = @ \o entry.do,
              !.undo = @ \o entry.undo,
              !.svc  = @ \cup ToSet(entry.touched)]

Do(x, a) == Recorded(x, ApplyAction(x.sol, a), RecordAction(x.sol, a))

\* The solution after actions of which every one was applicable, if they were.
StepOn(x, a) ==
    IF x.ok /\ Applicable(x.sol, a) THEN [x EXCEPT !.sol = ApplyAction(@, a)]
    ELSE [x EXCEPT !.ok = FALSE]

Steps(sol, actions) == FoldLeft(StepOn, [ok |-> TRUE, sol |-> sol], actions)
=============================================================================
