-------------------------- MODULE MoveDescriptors --------------------------
(***************************************************************************)
(* The cycles of the local search engine (AbstractOperator.hpp): the moves *)
(* around the recently changed vertices get their deltas and enter the     *)
(* heap if they improve; after the execution of a move the deltas that it  *)
(* may have changed are computed again, each of them once.                 *)
(*                                                                         *)
(* What an operator does to a solution is in Exchange.  Here a cycle has   *)
(* true deltas, and an execution changes those that its update bits name.  *)
(***************************************************************************)
EXTENDS MoveGenerators, MoveHeap

CONSTANTS Tolerance,    (* tolerance *)
          TrueDeltas,   (* instance -> the assignments of deltas to moves it may start with *)
          Deltas,       (* the deltas that moves may have *)
          NextDeltas(_),(* bound: the deltas that an execution may turn deltas into *)
          MaxMoves,     (* bound: moves executed in a cycle *)
          MaxCycles     (* bound: cycles *)


VARIABLES
    pc,         (* "idle" or "search" *)
    symmetric,  (* is_symmetric of the operator *)
    truth,      (* move -> compute_cost in the present solution *)
    h,          (* the heap with the delta and heap_index of the moves *)
    known,      (* the vertices whose moves the cycle has initialized *)
    executed,   (* moves executed in this cycle *)
    cycles

searchVars == <<pc, symmetric, truth, h, known, executed, cycles>>
vars == <<genVars, searchVars>>

depot == 0

MovesOf(w) == {m \in BaseMoves(w) \X vertices : First(m) \in Endpoints(w, m[1])}

ASSUME DescriptorsAssumption ==
    /\ Tolerance \in Nat /\ MaxMoves \in Nat /\ MaxCycles \in Nat
    /\ Deltas \subseteq Int
    /\ \A w \in Instances :
          /\ TrueDeltas[w] \subseteq [MovesOf(w) -> Deltas]
          /\ \A t \in [MovesOf(w) -> Deltas] : NextDeltas(t) \subseteq [MovesOf(w) -> Deltas]

-----------------------------------------------------------------------------
\* The orders of a set of vertices, the depot last (its moves are postponed).
DepotLast(s) ==
    {o \in SetToSeqs(s) : depot \in s => o[Len(o)] = depot}

\* A sweep over vertices: the heap so far, the vertices that were before
\* (vertex_timestamp), the true deltas, and those whose moves they are about:
\* the vertices with each update bit.
Sweep(g, pass, sym, deltas, first, second) ==
    [h |-> g, stamped |-> {}, pass |-> pass, symmetric |-> sym, truth |-> deltas,
     first |-> first, second |-> second]

\* symmetric_init and asymmetric_init for one move.
Initialize(g, m, delta) ==
    LET y == [g EXCEPT !.delta[m] = delta, !.index[m] = unheaped]
    IN  IF delta < 0 - Tolerance THEN HeapInsert(y, m) ELSE y

\* The moves of a pair that the operator uses, unless they have been served.
InitializePair(x, m) ==
    LET base == Base(inst, m)
        twin == Twin(inst, m)
    IN  IF Second(inst, m) \in x.stamped THEN x.h
        ELSE IF x.symmetric THEN Initialize(x.h, base, x.truth[base])
        ELSE Initialize(Initialize(x.h, m, x.truth[m]), twin, x.truth[twin])

\* heap_upsert.
HeapUpsert(g, m, delta) ==
    IF delta > 0 - Tolerance
    THEN LET y == IF g.index[m] # unheaped THEN HeapRemove(g, g.index[m]) ELSE g
         IN  [y EXCEPT !.delta[m] = delta]
    ELSE IF g.index[m] = unheaped THEN HeapInsert([g EXCEPT !.delta[m] = delta], m)
    ELSE ChangeValue(g, g.index[m], delta)

\* symmetric_update for one move.  Only the depot gets a timestamp there: a
\* move may be updated twice.
SymmetricUpdate(x, m) == HeapUpsert(x.h, Base(inst, m), x.truth[Base(inst, m)])

\* A bug that takes the moves with a vertex updated before as all updated.
AsymmetricUpdateOnce(x, m) ==
    LET i == First(m)
        j == Second(inst, m)
        t == Twin(inst, m)
        y == IF i \in x.first /\ j \notin x.stamped
             THEN HeapUpsert(x.h, m, x.truth[m]) ELSE x.h
    IN  IF i \in x.second /\ j \notin x.stamped THEN HeapUpsert(y, t, x.truth[t]) ELSE y

\* asymmetric_update for one move m = (i, j) and its twin (j, i): those that the
\* bits of i name and the bits of j, if j was before, do not.
AsymmetricUpdate(x, m) ==
    LET i == First(m)
        j == Second(inst, m)
        t == Twin(inst, m)
        y == IF i \in x.first /\ ~(j \in x.stamped /\ j \in x.second)
             THEN HeapUpsert(x.h, m, x.truth[m]) ELSE x.h
    IN  IF i \in x.second /\ ~(j \in x.stamped /\ j \in x.first)
        THEN HeapUpsert(y, t, x.truth[t]) ELSE y

\* What a sweep does to the moves of its vertices in turn.
VisitMove(x, m) ==
    [x EXCEPT !.h = CASE x.pass = "init" -> InitializePair(x, m)
                      [] x.pass = "update" /\ x.symmetric -> SymmetricUpdate(x, m)
                      [] OTHER -> AsymmetricUpdate(x, m)]

VisitVertex(x, v) ==
    [FoldLeft(VisitMove, x, SetToSeq(lists[v])) EXCEPT !.stamped = @ \cup {v}]

Swept(x, order) == FoldLeft(VisitVertex, x, order).h

-----------------------------------------------------------------------------
Init ==
    /\ GenInit
    /\ pc = "idle" /\ symmetric = FALSE /\ executed = 0 /\ cycles = 0 /\ known = {}
    /\ h = [heap |-> <<>>, delta |-> [m \in MovesOf(inst) |-> 0],
            index |-> [m \in MovesOf(inst) |-> unheaped]]
    /\ truth = [m \in MovesOf(inst) |-> 0]

\* Between two cycles the solver changes the numbers of active neighbors.
ChangeActive ==
    /\ pc = "idle" /\ cycles < MaxCycles
    /\ \E wanted \in Wanted : SetActivePercentage(wanted)
    /\ UNCHANGED searchVars

\* An operator starts with some vertices in the cache.
StartCycle ==
    /\ pc = "idle" /\ cycles < MaxCycles
    /\ \E svc \in SUBSET vertices \ {{}}, deltas \in TrueDeltas[inst], sym \in BOOLEAN :
        /\ symmetric' = sym
        /\ truth' = deltas
        /\ known' = svc
        /\ \E order \in DepotLast(svc) :
            h' = Swept(Sweep(Reset(h), "init", sym, deltas, {}, {}), order)
    /\ pc' = "search" /\ executed' = 0 /\ cycles' = cycles + 1
    /\ UNCHANGED genVars

\* A feasible move of the heap is executed.  It affects some vertices, in any
\* order, each as first vertex, as second vertex or as both.
ExecuteMove ==
    /\ pc = "search" /\ executed < MaxMoves /\ h.heap # <<>>
    /\ \E first, second \in SUBSET vertices, changed \in NextDeltas(truth) :
        LET deltas == [m \in DOMAIN truth |->
                          IF First(m) \in first \/ Second(inst, m) \in second
                          THEN changed[m] ELSE truth[m]]
        IN  /\ first \cup second # {}
            /\ symmetric => first = second
            /\ truth' = deltas
            /\ \E order \in DepotLast(first \cup second) :
                h' = Swept(Sweep(h, "update", symmetric, deltas, first, second), order)
    /\ executed' = executed + 1
    /\ UNCHANGED <<genVars, pc, symmetric, known, cycles>>

\* No move of the heap is feasible.
EndCycle ==
    /\ pc = "search"
    /\ pc' = "idle"
    /\ UNCHANGED <<genVars, symmetric, truth, h, known, executed, cycles>>

\* The bound on the cycles is reached.
Ended == /\ pc = "idle" /\ cycles = MaxCycles
         /\ UNCHANGED vars

Next == ChangeActive \/ StartCycle \/ ExecuteMove \/ EndCycle \/ Ended

Spec == Init /\ [][Next]_vars

-----------------------------------------------------------------------------
(* Properties *)

\* The heap stays a heap whose moves know their place (is_heap, an assert of
\* every operation), through removals in the middle and moves entered, updated
\* and removed by their heap_index, over cycles that reuse the moves.
HeapIsConsistent == IsHeap(h)

\* A move of the heap has its true delta (__check_deltas, AbstractOperator.hpp
\* 76 and 110), though every execution changes many and updates few.
HeapedIsTrue ==
    pc = "search" => \A k \in DOMAIN h.heap : h.delta[h.heap[k]] = truth[h.heap[k]]

\* No improving active move around the changed vertices is missed, neither when
\* the cycle begins nor after any execution, also when two vertices of a move
\* are updated after each other with different bits.
NoMoveMissed ==
    pc = "search" =>
        \A v \in known : \A m \in lists[v] :
            LET used == IF symmetric THEN {Base(inst, m)} ELSE {m, Twin(inst, m)}
            IN  \A n \in used : truth[n] < 0 - Tolerance => h.index[n] # unheaped
=============================================================================
