-------------------------- MODULE LocalSearchCycle --------------------------
(***************************************************************************)
(* One operator at work on a solution: the cycle of AbstractOperator.hpp   *)
(* that keeps a delta for every move and, after the execution of a move,   *)
(* computes again only the deltas that the update bits name.               *)
(***************************************************************************)
EXTENDS Exchange

CONSTANTS Operators,  (* the operators under test *)
          StartSolutions,  (* solutions a cycle may begin with *)
          MaxMoves    (* bound: moves executed in a cycle *)

ASSUME CycleAssumption ==
    /\ MaxMoves \in Nat
    /\ Operators \subseteq AllOperators
    /\ \A sol \in StartSolutions : IsSolution(sol) /\ IsFeasible(sol)

VARIABLES
    op,     (* the operator *)
    start,  (* the solution the cycle begins with *)
    x,      (* solution with do_list1, undo_list1 and svc *)
    delta,  (* move -> get_delta() *)
    moves   (* the moves executed so far *)

vars == <<op, start, x, delta, moves>>

-----------------------------------------------------------------------------
\* apply_rough_best_improvement: every vertex is in the cache: each move gets its delta.
Init == /\ op \in Operators
        /\ start \in StartSolutions
        /\ x = [sol |-> start, do |-> <<>>, undo |-> <<>>, svc |-> vertices]
        /\ delta = [mv \in Moves(op) |-> Delta(op, start, mv)]
        /\ moves = <<>>

\* The moves that may be in the heap: a delta that changes no link is never
\* negative, any other one is for some costs.
Heaped == {mv \in Moves(op) : delta[mv] # {}}

\* A feasible move of the heap is executed and the deltas are updated.
ExecuteMove ==
    /\ Len(moves) < MaxMoves
    /\ \E mv \in Heaped :
        /\ Feasible(op, x.sol, mv)
        /\ x' = Execute(op, x, mv)
        /\ LET e == Around(op, x.sol, mv)
               first == FirstBits(op, e, mv[1], mv[2])
               second == SecondBits(op, e, mv[1], mv[2])
           IN  delta' = [m \in Moves(op) |->
                            IF m[1] \in first \/ m[2] \in second
                            THEN Delta(op, x'.sol, m) ELSE delta[m]]
        /\ moves' = Append(moves, mv)
    /\ UNCHANGED <<op, start>>

\* The heap holds no feasible move, or the bound is reached.
Ended == /\ \/ Len(moves) = MaxMoves
            \/ \A mv \in Heaped : ~Feasible(op, x.sol, mv)
         /\ UNCHANGED vars

Next == ExecuteMove \/ Ended

Spec == Init /\ [][Next]_vars

-----------------------------------------------------------------------------
(* Properties *)

\* The links of a solution, each as often as it is used.
LinksOf(sol) ==
    FoldSet(LAMBDA r, links : links \o [k \in DOMAIN r |-> {r[k], Succ(r, r[k])}], <<>>, sol)

\* The stored delta of an executed move is what the execution does to the cost:
\* compute_cost, a formula of the vertices around i and j, agrees with the
\* removals and insertions of execute whenever is_feasible lets the move pass,
\* also when the two paths touch or wrap around the depot.  If not, the assert
\* that the cost decreases (AbstractOperator.hpp 103) fails and the search may
\* accept worse solutions for ever.
DeltaIsExact ==
    [][x' # x => Net(LinksOf(x'.sol), LinksOf(x.sol)) = delta[Last(moves')]]_vars

\* A move keeps the solution feasible (the assert of AbstractOperator.hpp 104):
\* every customer in one route, every route with its depot and within the
\* capacity.
StaysFeasible == IsFeasible(x.sol)

\* The recorded lists lead from the solution before to the one after and back,
\* through routes that lose their depot, their last customer or all customers
\* at once on the way: what makes an executed move one that other solvers can
\* replay and that this one can undo.
MoveIsReplayable ==
    /\ Steps(start, x.do) = [ok |-> TRUE, sol |-> x.sol]
    /\ Steps(x.sol, Reverse(x.undo)) = [ok |-> TRUE, sol |-> start]

\* After the update every delta is that of the present solution, though only
\* the moves that the update bits name were computed again (the assert of
\* AbstractOperator.hpp 110, __check_deltas).  Moves of the depot are not
\* updated by the exchange of tails, which never finds them feasible; the code
\* updates them only in debug builds.
NoStaleDelta ==
    \A mv \in Moves(op) :
        \/ delta[mv] = Delta(op, x.sol, mv)
        \/ op = TailsExchange /\ depot \in {mv[1], mv[2]} /\ ~Feasible(op, x.sol, mv)
=============================================================================
