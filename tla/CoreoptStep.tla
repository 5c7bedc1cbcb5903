---------------------------- MODULE CoreoptStep ----------------------------
(***************************************************************************)
(* What Solver::parallel_coreopt (filo2x/SolverCoreopt.cpp) computes from  *)
(* one message: the evaluation of a change on the reference solution and   *)
(* the updates of the search parameters.  Solutions are values; their      *)
(* operations are constants, which Routes defines.                         *)
(*                                                                         *)
(* Random numbers: srnd, the generator that all solvers share the seed of, *)
(* is a seed and a position in the stream of that seed.  Costs are         *)
(* integers (Instance::get_cost rounds), hence sums of them are exact.     *)
(***************************************************************************)
EXTENDS Integers, Sequences, FiniteSets, SequencesExt

CONSTANTS
    Customers,           (* vertices other than the depot *)
    Depot,
    Solutions,           (* feasible solutions *)
    Changes,             (* candidate changes, see ChangeType *)
    Candidates(_, _, _), (* the changes that may be generated from a solution,
                            with a seed customer and a length of the ruin walk,
                            in any state of urnd and of the sparsification *)
    Actions,             (* Solution::Action *)
    IsApplicable(_, _),  (* Solution::is_applicable *)
    Apply(_, _),         (* Solution::apply: the solution after an action *)
    Record(_, _),        (* apply<record>: the entries for do_list1 and for
                            undo_list1, the vertices inserted in the cache *)
    IsLoadFeasible(_),   (* Solution::is_load_feasible *)
    Cost(_),             (* Solution::get_cost *)
    RoutesNum(_),        (* Solution::get_routes_num *)
    CacheSize,           (* entries of the cache of modified vertices *)
    MaxIter,             (* params.get_coreopt_iterations() *)
    Coin(_, _),          (* random_choice(srnd) at a position of a stream *)
    Slack(_, _, _),      (* -temperature * log(u): seed, position, coolings *)
    OmegaBase,           (* ceil(log(vertices)) *)
    GammaTop,            (* doublings of gamma_base that reach 1.0 *)
    DeltaPercent,        (* params.get_delta() *)
    LbPercent, UbPercent (* shaking factors *)

Vertices == Customers \cup {Depot}

\* A change: the recorded actions of ruin, recreate and local search, and the
\* customer the ruin started from.
ChangeType == [ruin : Seq(Actions), recreate : Seq(Actions),
               localsearch : Seq(Actions), seed : Customers]

Grades == {"far", "near", "between"}

Message == [finished : {FALSE}, change : Changes, omega : Int, cost : Int,
            grade : Grades]

(***************************************************************************)
(* The cache of recently modified vertices, most recent first.             *)
(***************************************************************************)
CacheInsert(cache, v) ==
    LET moved == <<v>> \o SelectSeq(cache, LAMBDA u : u # v)
    IN  SubSeq(moved, 1, IF Len(moved) > CacheSize THEN CacheSize ELSE Len(moved))

(***************************************************************************)
(* Evaluation of a change.                                                 *)
(***************************************************************************)

\* Solver::solution with its do_list1 and undo_list1, the svc (the cache) and
\* the svc between recreate and local search.
Untouched(sol) == [ok |-> TRUE, sol |-> sol, do |-> <<>>, undo |-> <<>>,
                   svc |-> <<>>, ruined |-> <<>>]

Applied(run, sol, entry) ==
    [run EXCEPT !.sol  = sol,
                !.do   = @ \o entry.do,
                !.undo = @ \o entry.undo,
                !.svc  = FoldLeft(CacheInsert, @, entry.touched)]

\* A run of actions stops at the first one that is not applicable.
RunAction(run, a) ==
    IF run.ok /\ IsApplicable(run.sol, a)
    THEN Applied(run, Apply(run.sol, a), Record(run.sol, a))
    ELSE [run EXCEPT !.ok = FALSE]

RunActions(run, as) == FoldLeft(RunAction, run, as)

Ruined(run) == [run EXCEPT !.ruined = run.svc]

\* The load check of the affected routes.  The others are routes of the reference
\* solution, which is feasible, so it is a check of all routes.
Checked(run) == [run EXCEPT !.ok = run.ok /\ IsLoadFeasible(run.sol)]

Evaluate(sol, c) ==
    Checked(RunActions(
        Ruined(RunActions(RunActions(Untouched(sol), c.ruin), c.recreate)),
        c.localsearch))

\* apply_undo_list1: from the last entry to the first.
Rewind(sol, undo) == FoldLeft(Apply, sol, Reverse(undo))

\* apply_do_list1 and apply_do_list2.
Replay(sol, do) == FoldLeft(Apply, sol, do)

\* A ruin walk of w steps: none when w is not positive, and each step removes
\* a customer, so there are never more steps than customers.
WalkLength(w) ==
    IF w < 0 THEN 0
    ELSE IF w > Cardinality(Customers) THEN Cardinality(Customers) ELSE w

(***************************************************************************)
(* What the search relies on.  The undo list of an evaluation leads back   *)
(* to the solution it began with, wherever the evaluation stopped; an      *)
(* evaluation that does not stop ends in a feasible solution; a change is  *)
(* evaluated to the end on the solution it was generated from.             *)
(***************************************************************************)
ASSUME SolutionAssumption ==
    /\ OmegaBase \in Nat /\ IsFiniteSet(Customers) /\ Changes \subseteq ChangeType
    /\ \A sol \in Solutions : Cost(sol) \in Int /\ Rewind(sol, <<>>) = sol
    /\ \A sol \in Solutions, c \in Changes :
          \E run \in {Evaluate(sol, c)} :
             /\ run.do \in Seq(Actions) /\ run.undo \in Seq(Actions)
             /\ run.ruined \in Seq(Vertices)
             /\ Rewind(run.sol, run.undo) = sol
             /\ run.ok => run.sol \in Solutions

\* A walk without steps removes nobody, and nobody is put back.
ASSUME GenerationAssumption ==
    \A sol \in Solutions, sc \in Customers, n \in 0..Cardinality(Customers) :
        \A c \in Candidates(sol, sc, n) :
            /\ c \in Changes /\ c.seed = sc /\ Evaluate(sol, c).ok
            /\ n = 0 => c.ruin = <<>> /\ c.recreate = <<>>

\* The recorded do list of a change that is evaluated to the end does again what
\* the change has done: it is applicable and leads to the same solution.
ASSUME ReplayAssumption ==
    \A sol \in Solutions, c \in Changes :
        \E run \in {Evaluate(sol, c)} :
        \E replay \in {RunActions(Untouched(sol), run.do)} :
            run.ok => replay.ok /\ replay.sol = run.sol

(***************************************************************************)
(* Updates of the search parameters.                                       *)
(***************************************************************************)

\* Sparsification: gamma = min(gamma_base * 2^level, 1.0), kept as the level.
GammaLevels == 0..GammaTop
Doubled(level) == IF level < GammaTop THEN level + 1 ELSE level

CeilDiv(a, b) == -((-a) \div b)

\* max_non_improving_iterations; seen / n is the mean number of vertices
\* accessed by the n feasible changes so far.
Patience(seen, n) ==
    CeilDiv(DeltaPercent * MaxIter * seen, 100 * n * Cardinality(Vertices))

Sparsify(gamma, counter, svc, improved, patience) ==
    LET hot == ToSet(svc)
        due(v) == v \in hot /\ counter[v] + 1 >= patience
    IN  IF improved
        THEN [gamma   |-> [v \in Vertices |-> IF v \in hot THEN 0 ELSE gamma[v]],
              counter |-> [v \in Vertices |-> IF v \in hot THEN 0 ELSE counter[v]]]
        ELSE [gamma   |-> [v \in Vertices |->
                              IF due(v) THEN Doubled(gamma[v]) ELSE gamma[v]],
              counter |-> [v \in Vertices |->
                              IF due(v) THEN 0
                              ELSE IF v \in hot THEN counter[v] + 1 ELSE counter[v]]]

\* The comparisons of a generated solution with the shaking factors, which are
\* percentages of the mean arc cost of the reference it was generated from.
MeanArcCost(ref) == <<Cost(ref), Cardinality(Customers) + 2 * RoutesNum(ref)>>

Grade(cost, refcost, ref) ==
    LET gap  == cost - refcost
        mean == MeanArcCost(ref)
    IN  IF gap * mean[2] * 100 > UbPercent * mean[1] THEN "far"
        ELSE IF gap >= 0 /\ gap * mean[2] * 100 < LbPercent * mean[1] THEN "near"
        ELSE "between"

\* A bug that lowers omega without the bound of the seed's value.
LoweredUnbounded(w, v) == w - 1

\* omega moves one step towards seed_shake_value - 1 or + 1, never beyond.
Lowered(w, v) == IF w > v - 1 THEN w - 1 ELSE w
Raised(w, v) == IF w < v + 1 THEN w + 1 ELSE w

IndexOf(seq, v) == CHOOSE k \in 1..Len(seq) : seq[k] = v

\* The ruined customers get shorter walks after a poor change, longer walks
\* after a change that stayed close, and a coin decides otherwise.
Shake(omega, ruined, m, srnd) ==
    LET down(v) == \/ m.grade = "far"
                   \/ /\ m.grade = "between"
                      /\ Coin(srnd.seed, srnd.pos + IndexOf(ruined, v))
    IN  [v \in Vertices |->
            IF v \notin ToSet(ruined) THEN omega[v]
            ELSE IF down(v) THEN Lowered(omega[v], m.omega)
            ELSE Raised(omega[v], m.omega)]

\* Only the coins are drawn, one for each ruined customer.
Tossed(srnd, ruined, m) ==
    [srnd EXCEPT !.pos = @ + (IF m.grade = "between" THEN Len(ruined) ELSE 0)]

\* SimulatedAnnealing::accept, at the next position of srnd.
Accepts(cost, refcost, srnd, coolings) ==
    cost < refcost + Slack(srnd.seed, srnd.pos + 1, coolings)
=============================================================================
