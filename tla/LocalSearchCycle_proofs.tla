----------------------- MODULE LocalSearchCycle_proofs -----------------------
(***************************************************************************)
(* Proofs about the cycle of one operator: whatever feasible moves it      *)
(* executes, and in whatever order, the solution stays feasible and the    *)
(* recorded lists lead to it and back.                                     *)
(***************************************************************************)
EXTENDS LocalSearchCycle, Routes_proofs

\* The inductive invariant: the routes stay cycles with their depot within the
\* capacity, nobody is in two of them, everybody is served, and the lists link
\* the solution before the cycle to the present one.
CycleInv ==
    /\ op \in Operators
    /\ IsWork(x) /\ Linked(start, x)
    /\ Good(x.sol) /\ CustomersOf(x.sol) = customers

LEMMA CycleInit == Init => CycleInv
<1> SUFFICES ASSUME Init PROVE CycleInv
  OBVIOUS
<1>1. /\ op \in Operators /\ start \in StartSolutions
      /\ x = [sol |-> start, do |-> <<>>, undo |-> <<>>, svc |-> vertices]
  BY DEF Init
<1>2. Good(start) /\ CustomersOf(start) = customers
  BY <1>1, CycleAssumption, FeasibleIsGood
<1>3. x.sol = start /\ x.do = <<>> /\ x.undo = <<>> /\ IsWork(x)
  BY <1>1 DEF IsWork
<1>4. Linked(start, x)
  BY <1>3, LinkedNowhere
<1> QED
  BY <1>1, <1>2, <1>3, <1>4 DEF CycleInv

LEMMA CycleStep == CycleInv /\ [Next]_vars => CycleInv'
<1> SUFFICES ASSUME CycleInv, [Next]_vars PROVE CycleInv'
  OBVIOUS
<1>1. CASE ExecuteMove
  <2>1. PICK mv \in Heaped : Feasible(op, x.sol, mv) /\ x' = Execute(op, x, mv)
    BY <1>1 DEF ExecuteMove
  <2>2. op' = op /\ start' = start
    BY <1>1 DEF ExecuteMove
  <2>3. op \in AllOperators /\ mv \in Moves(op)
    BY CycleAssumption DEF CycleInv, Heaped
  <2>4. IsServed(x.sol, mv[1]) /\ IsServed(x.sol, mv[2])
    <3>1. mv[1] \in customers \cup {depot} /\ mv[2] \in customers \cup {depot}
      BY <2>3, Numbers DEF Moves
    <3>2. \A v \in customers \cup {depot} : IsServed(x.sol, v)
      BY ServedIs DEF CycleInv, Good, IsServed
    <3> QED
      BY <3>1, <3>2
  <2>5. IsWork(x) /\ Linked(start, x) /\ Good(x.sol)
    BY DEF CycleInv
  <2>6. Keeps(start, x, Execute(op, x, mv))
    BY <2>1, <2>3, <2>4, <2>5, ExecuteKeeps
  <2>7. IsWork(x') /\ Linked(start, x') /\ Good(x'.sol) /\ CustomersOf(x'.sol) = CustomersOf(x.sol)
    BY <2>1, <2>6 DEF Keeps
  <2> QED
    BY <2>2, <2>7 DEF CycleInv
<1>2. CASE UNCHANGED vars
  BY <1>2 DEF vars, CycleInv
<1> QED
  BY <1>1, <1>2 DEF Next, Ended

LEMMA CycleInvariant == Spec => []CycleInv
BY CycleInit, CycleStep, PTL DEF Spec

\* Every move that is_feasible lets pass keeps the solution feasible, for every
\* operator, instance and number of moves (the assert of AbstractOperator.hpp
\* 104).
THEOREM MovesKeepFeasible == Spec => []StaysFeasible
<1>1. CycleInv => StaysFeasible
  BY GoodIsFeasible DEF CycleInv, StaysFeasible
<1> QED
  BY <1>1, CycleInvariant, PTL

\* What the operators record can be replayed by other solvers and undone by
\* this one, for every operator, instance and number of moves.
THEOREM MovesAreReplayable == Spec => []MoveIsReplayable
<1>1. CycleInv => MoveIsReplayable
  BY DEF CycleInv, MoveIsReplayable, Linked, Leads
<1> QED
  BY <1>1, CycleInvariant, PTL
=============================================================================
