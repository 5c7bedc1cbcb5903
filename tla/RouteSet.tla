------------------------------ MODULE RouteSet ------------------------------
(***************************************************************************)
(* What filo2/solution/Solution.hpp promises to those who use it: a set of *)
(* routes, and for every change the actions that repeat and revert it.     *)
(* Solution implements it with linked lists and route indices.             *)
(***************************************************************************)
EXTENDS Exchange

VARIABLES
    sol,   (* the set of routes *)
    do,    (* what the last operation has recorded *)
    undo,
    did    (* the last operation *)

abstractVars == <<sol, do, undo, did>>

Apply(a) == [op |-> "apply", action |-> a]
Tails(i, j) == [op |-> "swap_tails", i |-> i, j |-> j]
Splitting(i, j) == [op |-> "split", i |-> i, j |-> j]
Emptying(c) == [op |-> "empty_and_remove_route", i |-> c]
Appending(i, j) == [op |-> "append_route", i |-> i, j |-> j]
Building == [op |-> "build_route"]

Operations ==
    {Apply(a) : a \in AllActions}
    \cup UNION {{Tails(i, j), Splitting(i, j), Appending(i, j)} : i, j \in customers}
    \cup {Emptying(c) : c \in customers}

-----------------------------------------------------------------------------
\* Actions with an outcome: one that names no route (the depot with the depot as
\* fallback), a path of a single vertex and one that reads the depot's neighbors
\* in a route without the depot are never recorded.
Regular(s, a) ==
    CASE a.type = "INSERT_VERTEX" ->
            /\ {a.j, a.fallback} # {depot} /\ a.i # a.j
            /\ MissingDepot(RouteIn(s, a)) => a.j # depot
      [] a.type = "REMOVE_VERTEX" -> {a.i, a.fallback} # {depot}
      [] a.type = "REVERSE_ROUTE_PATH" ->
            /\ a.i # a.j
            /\ MissingDepot(RouteIn(s, a)) => depot \notin {a.i, a.j}
      [] OTHER -> TRUE

\* The routes of two customers are different and have their depot.
Apart(s, i, j) ==
    /\ IsServed(s, i) /\ IsServed(s, j)
    /\ RouteOf(s, i) # RouteOf(s, j)
    /\ ~MissingDepot(RouteOf(s, i)) /\ ~MissingDepot(RouteOf(s, j))

Allowed(s, o) ==
    CASE o.op = "apply" -> Applicable(s, o.action) /\ Regular(s, o.action)
      [] o.op \in {"swap_tails", "split"} -> Apart(s, o.i, o.j)
      [] o.op = "append_route" ->
            /\ Apart(s, o.i, o.j)
            /\ Succ(RouteOf(s, o.i), o.i) = depot /\ Pred(RouteOf(s, o.j), o.j) = depot
      [] o.op = "empty_and_remove_route" ->
            /\ IsServed(s, o.i)
            /\ Pred(RouteOf(s, o.i), o.i) = depot

\* The solution after an operation, with what it records.
Result(s, o) ==
    LET y == [sol |-> s, do |-> <<>>, undo |-> <<>>, svc |-> {}]
        move == <<o.i, o.j>>
        removed(z, c) == Do(z, RemoveVertex(c, Succ(RouteOf(z.sol, c), c)))
        appended(ri, rj) == (s \ {ri, rj}) \cup {ri \o Tail(rj)}
    IN  CASE o.op = "apply" -> Do(y, o.action)
          [] o.op = "swap_tails" -> Execute(TailsExchange, y, move)
          [] o.op = "split" -> Execute(SplitExchange, y, move)
          [] o.op = "empty_and_remove_route" ->
                FoldLeft(removed, y, Tail(RouteOf(s, o.i)))
          [] o.op = "append_route" ->
                [y EXCEPT !.sol = appended(RouteOf(s, o.i), RouteOf(s, o.j))]

-----------------------------------------------------------------------------
\* The operation is the one that the step is said to perform.
Next ==
    \E before \in {sol}, o \in {did'} :
        /\ o # Building /\ Allowed(before, o)
        /\ \E y \in {Result(before, o)} : sol' = y.sol /\ do' = y.do /\ undo' = y.undo

Spec == /\ \A r \in sol : r[1] = depot
        /\ did = Building
        /\ [][Next]_abstractVars
=============================================================================
