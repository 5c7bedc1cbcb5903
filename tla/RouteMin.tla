------------------------------ MODULE RouteMin ------------------------------
(***************************************************************************)
(* Route minimization (filo2/opt/routemin.hpp), which every solver runs    *)
(* before the core optimization when the solution of the savings algorithm *)
(* has more routes than a bin packing of the demands.                      *)
(*                                                                         *)
(* A working solution moves away from the best one by recorded actions,    *)
(* over any number of iterations, and may leave customers unserved on the  *)
(* way.  The best solution follows it by replaying do_list1 only.          *)
(***************************************************************************)
EXTENDS RuinAndRecreate

CONSTANTS Starts,       (* solutions of the savings algorithm *)
          RouteMinIter  (* params.get_routemin_iterations() *)

ASSUME RouteMinAssumption ==
    /\ \A sol \in Starts : IsSolution(sol) /\ IsFeasible(sol)
    /\ LocalOperators \subseteq AllOperators
    /\ RouteMinIter \in Nat

VARIABLES
    pc,
    work,     (* solution with its do_list1, undo_list1 and svc *)
    best,     (* best_solution *)
    removed,  (* the removed customers that wait for their turn *)
    still,    (* still_removed *)
    iter

vars == <<pc, work, best, removed, still, iter>>

-----------------------------------------------------------------------------
(* The number of routes to aim at: filo2/opt/bpp.hpp *)

\* The customers by decreasing demand.
Decreasing == SetToSortSeq(customers, LAMBDA c, d : Demand[c] > Demand[d])

\* First fit: the bins, as many as are used, after the first k customers.
Bins[k \in 0..CustomersNum] ==
    IF k = 0 THEN <<>>
    ELSE LET demand == Demand[Decreasing[k]]
             room == {p \in DOMAIN Bins[k - 1] : Bins[k - 1][p] + demand <= Capacity}
             first == CHOOSE p \in room : \A q \in room : p <= q
         IN  IF room = {} THEN Append(Bins[k - 1], demand)
             ELSE [Bins[k - 1] EXCEPT ![first] = @ + demand]

Kmin == Len(Bins[CustomersNum])

-----------------------------------------------------------------------------
Served(sol) == UNION {ServedBy(r) : r \in sol}

Fresh(sol) == [sol |-> sol, do |-> <<>>, undo |-> <<>>, svc |-> {}]

Init == /\ best \in {sol \in Starts : Kmin < Cardinality(sol)}
        /\ work = Fresh(best)
        /\ pc = "ruin" /\ removed = {} /\ still = {} /\ iter = 0

\* The customers of a route leave it from the first to the last.
Unserve(y, c) == Do(y, RemoveVertex(c, Succ(RouteOf(y.sol, c), c)))
Emptied(x, r) == FoldLeft(Unserve, x, Tail(r))

\* The route of a seed customer and the one of its nearest neighbor elsewhere.
SelectedRoutes(sol, seed) ==
    LET r == RouteOf(sol, seed)
        elsewhere(v) == v # depot /\ IsServed(sol, v) /\ ~Contains(r, v)
        v == FirstNeighbor(seed, elsewhere)
    IN  IF v = NoVertex THEN <<r>> ELSE <<r, RouteOf(sol, v)>>

\* The loop that draws the seed ends only when some customer is served.  The
\* customers that are still unserved get another turn.
RuinRoutes ==
    /\ pc = "ruin" /\ iter < RouteMinIter
    /\ \E seed \in Served(work.sol) :
        LET routes == SelectedRoutes(work.sol, seed)
        IN  /\ work' = FoldLeft(Emptied, [work EXCEPT !.svc = {}], routes)
            /\ removed' = still \cup UNION {ServedBy(routes[k]) : k \in DOMAIN routes}
    /\ still' = {} /\ pc' = "place"
    /\ UNCHANGED <<best, iter>>

\* The places with the lowest cost in routes with room.
CheapestPlaces(sol, c) ==
    LET cost(p) == InsertionCost(p[1], c, p[2])
    IN  {p \in Places(sol, c) : \A q \in Places(sol, c) : cost(p) <= cost(q)}

\* A bug that leaves a customer unserved although routes are missing.
MayLeaveAnyway(sol) == TRUE

\* A customer without a place may remain unserved: r <= t.
MayLeave(sol) == ~(Cardinality(sol) < Kmin)

\* r > t needs t < 1, that is, an iteration after the first.
MustBuild(sol) == Cardinality(sol) < Kmin \/ iter > 0

\* One customer after the other, sorted or shuffled.
Place ==
    /\ pc = "place"
    /\ \E c \in removed :
        LET places == CheapestPlaces(work.sol, c)
        IN  /\ \/ \E p \in places :
                    /\ work' = Do(work, InsertVertex(p[2], c, Succ(p[1], p[2])))
                    /\ UNCHANGED still
               \/ /\ places = {} /\ MustBuild(work.sol)
                  /\ work' = Do(work, BuildOne(c))
                  /\ UNCHANGED still
               \/ /\ places = {} /\ MayLeave(work.sol)
                  /\ still' = still \cup {c}
                  /\ UNCHANGED work
            /\ removed' = removed \ {c}
            /\ pc' = IF removed = {c} THEN "improve" ELSE "place"
    /\ UNCHANGED <<best, iter>>

Improve ==
    /\ pc = "improve"
    /\ work' \in LocalSearch(work)
    /\ pc' = "judge"
    /\ UNCHANGED <<best, removed, still, iter>>

FollowTo(sol, do) == FoldLeft(ApplyAction, sol, do)
UndoTo(sol, undo) == FoldLeft(ApplyAction, sol, Reverse(undo))

Better(sol, other) ==
    \/ TotalCost(sol) < TotalCost(other)
    \/ TotalCost(sol) = TotalCost(other) /\ Cardinality(sol) < Cardinality(other)

\* A bug that forgets that customers may be unserved.
ImprovedAnyway == Better(work.sol, best)

\* A bug that takes any complete solution of the same cost.
ImprovedOrEqual == still = {} /\ TotalCost(work.sol) <= TotalCost(best)

Improved == still = {} /\ Better(work.sol, best)

\* A bug that keeps the lists after the best solution has caught up.
FollowKeepingLists ==
    /\ pc = "judge" /\ Improved
    /\ best' = FollowTo(best, work.do)
    /\ pc' = IF Cardinality(best') <= Kmin THEN "end" ELSE "ruin"
    /\ iter' = iter + 1
    /\ UNCHANGED <<work, removed, still>>

\* The best solution catches up, which ends the procedure when it has few
\* enough routes.  Both solutions are then equal, so there is no reset.
Follow ==
    /\ pc = "judge" /\ Improved
    /\ best' = FollowTo(best, work.do)
    /\ work' = [work EXCEPT !.do = <<>>, !.undo = <<>>]
    /\ IF Cardinality(best') <= Kmin THEN pc' = "end" /\ UNCHANGED iter
       ELSE pc' = "ruin" /\ iter' = iter + 1
    /\ UNCHANGED <<removed, still>>

\* A bug that leaves the customers of the abandoned solution for another turn.
ResetKeepingUnserved ==
    /\ pc = "judge" /\ ~Improved /\ TotalCost(work.sol) > TotalCost(best)
    /\ work' = [work EXCEPT !.sol = UndoTo(@, work.undo), !.do = <<>>, !.undo = <<>>]
    /\ pc' = "ruin" /\ iter' = iter + 1
    /\ UNCHANGED <<best, removed, still>>

\* A worse solution is undone.
Reset ==
    /\ pc = "judge" /\ ~Improved /\ TotalCost(work.sol) > TotalCost(best)
    /\ work' = [work EXCEPT !.sol = UndoTo(@, work.undo), !.do = <<>>, !.undo = <<>>]
    /\ still' = {}
    /\ pc' = "ruin" /\ iter' = iter + 1
    /\ UNCHANGED <<best, removed>>

\* The search goes on from a solution that is not worse, often a partial one.
GoOn ==
    /\ pc = "judge" /\ ~Improved /\ TotalCost(work.sol) <= TotalCost(best)
    /\ pc' = "ruin" /\ iter' = iter + 1
    /\ UNCHANGED <<work, best, removed, still>>

\* best_solution is returned.
Return ==
    /\ pc = "ruin" /\ iter = RouteMinIter
    /\ pc' = "end"
    /\ UNCHANGED <<work, best, removed, still, iter>>

Ended == pc = "end" /\ UNCHANGED vars

Next == RuinRoutes \/ Place \/ Improve \/ Follow \/ Reset \/ GoOn \/ Return \/ Ended

Spec == Init /\ [][Next]_vars

-----------------------------------------------------------------------------
(* Properties *)

\* do_list1 leads from the best solution to the working one and undo_list1
\* back, through partial solutions and over any number of iterations: the
\* asserts of lines 219 and 241 and of Solution.hpp 900-925, at every moment.
ListsLinkTheSolutions ==
    /\ Steps(best, work.do) = [ok |-> TRUE, sol |-> work.sol]
    /\ Steps(work.sol, Reverse(work.undo)) = [ok |-> TRUE, sol |-> best]

\* Every customer is served once, waits for its turn or is still unserved:
\* none is lost when iterations with unserved customers follow each other,
\* and none is left over from a solution that was undone.
NoCustomerLost ==
    /\ Served(work.sol) \cup removed \cup still = customers
    /\ Served(work.sol) \cap (removed \cup still) = {}
    /\ removed \cap still = {}
    /\ \A p, q \in work.sol : p # q => ServedBy(p) \cap ServedBy(q) = {}

\* The working solution never runs out of served customers, so the loop that
\* draws a seed customer among them (101-103) ends.
SeedExists == pc = "ruin" => Served(work.sol) # {}

\* What routemin returns serves all customers within the capacity, although the
\* working solution may be partial when the procedure ends.  The assert of line
\* 252 asks for less: is_feasible only warns of customers that are not served.
BestIsComplete == IsFeasible(best)

\* The best solution becomes the working solution or stays; it never gets
\* more expensive, nor gets more routes at the same cost.
BestImproves ==
    [][best' # best => best' = work.sol /\ Better(best', best)]_vars
=============================================================================
