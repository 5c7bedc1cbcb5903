---------------------------- MODULE EjectionChain ----------------------------
(***************************************************************************)
(* The ejection chain of filo2/localsearch/EjectionChain.hpp: when a       *)
(* customer moves to a route without room for it, another one leaves that  *)
(* route for a third one, and so on until nothing is overloaded.           *)
(*                                                                         *)
(* Deltas count links, as in Exchange.  The program prunes chains that do  *)
(* not pay off and expands the cheapest first: for some costs any of them. *)
(***************************************************************************)
EXTENDS Exchange

CONSTANTS StartSolutions,
          MaxNodes,    (* max_relocation_nodes *)
          MaxSearches  (* bound: generating moves that are tried *)

ASSUME EjectionAssumption ==
    /\ MaxNodes \in Nat \ {0}
    /\ MaxSearches \in Nat
    /\ \A sol \in StartSolutions : IsSolution(sol) /\ IsFeasible(sol)

VARIABLES
    start,     (* the solution the cycle begins with *)
    x,         (* solution with do_list1, undo_list1 and svc *)
    delta,     (* move -> get_delta() of the heaped moves *)
    computed,  (* the deltas of other moves that is_feasible has computed *)
    nodes,     (* relocation_nodes, with forbidden_i and forbidden_j *)
    open,      (* relo_heap: the nodes to be expanded *)
    curr,      (* the node whose relocations are scanned, or 0 *)
    gain,      (* delta_sum of the chain executed last *)
    searches   (* number of searches begun *)

searchVars == <<nodes, open, curr>>
vars == <<start, x, delta, computed, searchVars, gain, searches>>

-----------------------------------------------------------------------------
(* Moves: i is relocated before j *)

AllMoves == Moves(OneZeroExchange)

\* compute_cost.
RelocationCost(sol, mv) ==
    IF mv[2] = Succ(RouteVia(sol, mv[1], mv[2]), mv[1]) THEN {}
    ELSE Delta(OneZeroExchange, sol, mv)

\* Two deltas one after the other.
Plus(d, e) ==
    LET of(f, l) == FoldSet(LAMBDA p, n : IF p[1] = l THEN p[2] ELSE n, 0, f)
        links == {p[1] : p \in d \cup e}
    IN  {<<l, of(d, l) + of(e, l)>> : l \in {k \in links : of(d, k) + of(e, k) # 0}}

\* The vertices around a move.
Surroundings(sol, mv) ==
    LET ri == RouteVia(sol, mv[1], mv[2])
        rj == RouteVia(sol, mv[2], mv[1])
    IN  [ri |-> ri, rj |-> rj, iPrev |-> Pred(ri, mv[1]), iNext |-> Succ(ri, mv[1]),
         jPrev |-> Pred(rj, mv[2])]

-----------------------------------------------------------------------------
(* is_feasible *)

FitsAtOnce(sol, mv) ==
    LET e == Surroundings(sol, mv)
    IN  e.ri # e.rj => Load(e.rj) + Demand[mv[1]] <= Capacity

\* What becomes of a node, the one before the root included, with a move.  A
\* vertex of forbidden_i may not leave its place and one of forbidden_j may
\* neither leave it nor get another predecessor.
Before(sol) == [sum |-> {}, forbidden_i |-> {}, forbidden_j |-> {},
                load |-> [r \in sol |-> Load(r)]]

\* A bug that allows the vertex before the insertion to be taken out.
RelocationNodeForgetful(sol, from, at, mv, d) ==
    LET e == Surroundings(sol, mv)
    IN  [move |-> mv, predecessor |-> at, sum |-> Plus(from.sum, d),
         forbidden_i |-> from.forbidden_i \cup {e.iPrev},
         forbidden_j |-> from.forbidden_j \cup {mv[1], e.iNext, mv[2]},
         load |-> [from.load EXCEPT ![e.ri] = @ - Demand[mv[1]], ![e.rj] = @ + Demand[mv[1]]]]

RelocationNode(sol, from, at, mv, d) ==
    LET e == Surroundings(sol, mv)
    IN  [move |-> mv, predecessor |-> at, sum |-> Plus(from.sum, d),
         forbidden_i |-> from.forbidden_i \cup {e.iPrev, e.jPrev},
         forbidden_j |-> from.forbidden_j \cup {mv[1], e.iNext, mv[2]},
         load |-> [from.load EXCEPT ![e.ri] = @ - Demand[mv[1]], ![e.rj] = @ + Demand[mv[1]]]]

\* A move that relieves itself: the whole chain is one node.
SingleNode(sol, mv) ==
    LET e == Surroundings(sol, mv)
    IN  [move |-> mv, predecessor |-> 0, sum |-> delta[mv],
         forbidden_i |-> {e.iPrev, mv[1], e.iNext, e.jPrev, mv[2]}, forbidden_j |-> {}]

\* A bug that takes any customer out of an overloaded route.
RelocationsOfAny(sol, node) ==
    LET ri == RouteOf(sol, node.move[2])
        movable == ServedBy(ri) \ (node.forbidden_i \cup node.forbidden_j)
    IN  {mv \in movable \X (customers \ node.forbidden_j) : ~Contains(ri, mv[2])}

\* The relocations that bring the overloaded route of a node back to its
\* capacity, away from the places that the chain has changed.
Relocations(sol, node) ==
    LET ri == RouteOf(sol, node.move[2])
        movable == ServedBy(ri) \ (node.forbidden_i \cup node.forbidden_j)
        enough == {i \in movable : node.load[ri] - Demand[i] <= Capacity}
    IN  {mv \in enough \X (customers \ node.forbidden_j) : ~Contains(ri, mv[2])}

IsRelieved(sol, node) == node.load[RouteOf(sol, node.move[2])] <= Capacity

-----------------------------------------------------------------------------
(* execute *)

\* The moves of a chain, from its last node back to the generating move.
ChainOf(ns, k) ==
    LET back[n \in 0..Len(ns)] == IF n = 0 THEN <<>> ELSE <<ns[n].move>> \o back[ns[n].predecessor]
    IN  back[k]

Relocate(y, mv) ==
    LET e == Surroundings(y.sol, mv)
        z == Do(y, RemoveVertex(mv[1], e.iNext))
        rj == IF e.ri = e.rj THEN RemoveFrom(e.ri, mv[1]) ELSE e.rj
    IN  Do(z, InsertVertex(mv[2], mv[1], Succ(rj, mv[2])))

\* A bug that forgets the vertex behind the removed one.
SecondBitsOfWithoutNext(e, mv) == {mv[1], mv[2]}

FirstBitsOf(e, mv) == {e.iPrev, mv[1], e.iNext, mv[2], e.jPrev}
SecondBitsOf(e, mv) == {mv[1], e.iNext, mv[2]}

\* One move of a chain, with its update bits.
ChainStep(y, mv) ==
    LET e == Surroundings(y.x.sol, mv)
    IN  [x |-> Relocate(y.x, mv), first |-> y.first \cup FirstBitsOf(e, mv),
         second |-> y.second \cup SecondBitsOf(e, mv)]

\* Executes a chain: each node's move, the last one first.  Of the computed
\* deltas remain those of other vertices; the heaped ones get a new value where
\* the bits of an affected vertex ask for it.
ExecuteChain(ns, k) ==
    LET out == FoldLeft(ChainStep, [x |-> x, first |-> {depot}, second |-> {}], ChainOf(ns, k))
        touched == ns[k].forbidden_i \cup ns[k].forbidden_j
        affected == touched \cup {depot}
        renewed(m) == m[1] \in affected \cap out.first \/ m[2] \in affected \cap out.second
        kept == {m \in DOMAIN computed : m[1] \notin touched /\ m[2] \notin touched}
    IN  /\ x' = out.x
        /\ gain' = ns[k].sum
        /\ computed' = [m \in kept |-> computed[m]]
        /\ delta' = [m \in AllMoves |->
                        IF renewed(m) THEN RelocationCost(out.x.sol, m) ELSE delta[m]]

-----------------------------------------------------------------------------
(* A cycle of the search engine *)

Init == /\ start \in StartSolutions
        /\ x = [sol |-> start, do |-> <<>>, undo |-> <<>>, svc |-> {}]
        /\ delta = [mv \in AllMoves |-> RelocationCost(start, mv)]
        /\ computed = <<>>
        /\ nodes = <<>> /\ open = {} /\ curr = 0
        /\ gain = {}
        /\ searches = 0

Idle == nodes = <<>>
SearchEnds == nodes' = <<>> /\ open' = {} /\ curr' = 0

\* A generating move from the heap that is feasible by itself.
ExecuteMove ==
    /\ Idle /\ searches < MaxSearches
    /\ \E mv \in AllMoves :
        /\ delta[mv] # {} /\ FitsAtOnce(x.sol, mv)
        /\ ExecuteChain(<<SingleNode(x.sol, mv)>>, 1)
    /\ searches' = searches + 1
    /\ UNCHANGED <<start, searchVars>>

\* One that is not: the root of a tree of relocations.
BeginSearch ==
    /\ Idle /\ searches < MaxSearches
    /\ \E mv \in AllMoves :
        /\ delta[mv] # {} /\ ~FitsAtOnce(x.sol, mv)
        /\ nodes' = <<RelocationNode(x.sol, Before(x.sol), 0, mv, delta[mv])>>
    /\ open' = {1} /\ curr' = 0
    /\ searches' = searches + 1
    /\ UNCHANGED <<start, x, delta, computed, gain>>

\* The next node of the heap.  Its scan computes what is not there.
Expand ==
    /\ \E k \in open :
        /\ curr' = k /\ open' = open \ {k}
        /\ computed' = [mv \in DOMAIN computed \cup Relocations(x.sol, nodes[k]) |->
                            IF mv \in DOMAIN computed THEN computed[mv]
                            ELSE RelocationCost(x.sol, mv)]
    /\ UNCHANGED <<start, x, delta, nodes, gain, searches>>

\* A relocation that is found in the scan of a node.
Found(mv) ==
    /\ curr # 0 /\ mv \in Relocations(x.sol, nodes[curr])
    /\ \A n \in DOMAIN nodes : nodes[n].predecessor = curr => nodes[n].move # mv

Child(mv) == RelocationNode(x.sol, nodes[curr], curr, mv, computed[mv])

\* It ends the chain.
CompleteChain ==
    /\ \E mv \in AllMoves :
        /\ Found(mv) /\ IsRelieved(x.sol, Child(mv))
        /\ ExecuteChain(Append(nodes, Child(mv)), Len(nodes) + 1)
    /\ SearchEnds
    /\ UNCHANGED <<start, searches>>

\* It overloads another route; with the last node the search is given up.
ExtendChain ==
    /\ \E mv \in AllMoves :
        /\ Found(mv) /\ ~IsRelieved(x.sol, Child(mv))
        /\ IF Len(nodes) + 1 = MaxNodes THEN SearchEnds
           ELSE /\ nodes' = Append(nodes, Child(mv))
                /\ open' = open \cup {Len(nodes) + 1}
                /\ UNCHANGED curr
    /\ UNCHANGED <<start, x, delta, computed, gain, searches>>

\* Nothing is left to be expanded.
GiveUp ==
    /\ curr # 0 /\ open = {}
    /\ SearchEnds
    /\ UNCHANGED <<start, x, delta, computed, gain, searches>>

\* post_processing: the cycle ends without computed deltas.
Ended == Idle /\ computed' = <<>> /\ UNCHANGED <<start, x, delta, searchVars, gain, searches>>

Next == ExecuteMove \/ BeginSearch \/ Expand \/ CompleteChain \/ ExtendChain \/ GiveUp \/ Ended

Spec == Init /\ [][Next]_vars

-----------------------------------------------------------------------------
(* Properties *)

LinksOf(sol) ==
    FoldSet(LAMBDA r, links : links \o [k \in DOMAIN r |-> {r[k], Succ(r, r[k])}], <<>>, sol)

\* The sum of deltas that makes a chain improving, each computed on the solution
\* before the chain, is what the execution of all its moves does to the cost:
\* the forbidden places keep the relocations from touching each other's links,
\* also when a chain comes back to a route or moves to both ends of a gap.
ChainGainIsExact == [][x' # x => Net(LinksOf(x'.sol), LinksOf(x.sol)) = gain']_vars

\* An executed chain leaves a feasible solution (the assert of EjectionChain.hpp
\* 312), and its recorded lists lead there and back: no route that a relocation
\* overloads stays so, none is emptied before a later relocation (which is
\* executed earlier in the chain) needs it.
ChainIsFeasible ==
    /\ IsFeasible(x.sol)
    /\ Steps(start, x.do) = [ok |-> TRUE, sol |-> x.sol]
    /\ Steps(x.sol, Reverse(x.undo)) = [ok |-> TRUE, sol |-> start]

\* After a chain the deltas in the heap and those that is_feasible has left for
\* its next call are those of the present solution, though only some vertices
\* of the chain have update bits and only computed deltas of its vertices are
\* dropped.
NoStaleChainDelta ==
    /\ \A mv \in AllMoves : delta[mv] = RelocationCost(x.sol, mv)
    /\ \A mv \in DOMAIN computed : computed[mv] = RelocationCost(x.sol, mv)
=============================================================================
