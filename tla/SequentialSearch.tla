------------------------- MODULE SequentialSearch -------------------------
(***************************************************************************)
(* The core optimization without its do and undo lists: what a message     *)
(* does to the reference solution, to the best solution and to the search  *)
(* parameters, as plain assignments.  Coreopt is checked to implement a    *)
(* ReplicatedSearch with this step.                                        *)
(***************************************************************************)
EXTENDS CoreoptStep

CONSTANTS Seeds,             (* the values of --seed *)
          StartSolution(_),  (* the solution after routemin, for a seed *)
          StartPosition(_)   (* the numbers drawn from srnd until then *)

ASSUME StartAssumption ==
    \A sd \in Seeds : /\ sd \in Int /\ StartSolution(sd) \in Solutions
                      /\ StartPosition(sd) \in Nat

\* u is drawn from [0, 1), hence -log(u) is not negative: annealing accepts
\* every improvement.  A hypothesis of theorems and not an assumption, because
\* TLC cannot go through the positions of a stream.
SlackIsNatural ==
    \A sd \in Seeds, pos \in Nat, coolings \in Nat : Slack(sd, pos, coolings) \in Nat

\* The search state when parallel_coreopt enters its loop.
StartOf(seed) ==
    [ref      |-> StartSolution(seed),
     best     |-> StartSolution(seed),
     iter     |-> 0,
     srnd     |-> [seed |-> seed,
                   pos  |-> StartPosition(seed) + 2 * Cardinality(Vertices)],
     coolings |-> 0,
     omega    |-> [v \in Vertices |-> OmegaBase],
     gamma    |-> [v \in Vertices |-> 0],
     counter  |-> [v \in Vertices |-> 0],
     seen     |-> 0]

SearchStarts == {StartOf(seed) : seed \in Seeds}

SearchHalted(x) == x.iter = MaxIter

\* A feasible change counts as an iteration.  The last one updates the best
\* solution only; any other also shakes omega and goes through annealing.
SearchStep(x, m) ==
    LET run      == Evaluate(x.ref, m.change)
        improved == Cost(run.sol) < Cost(x.best)
        seen     == x.seen + Len(run.svc)
        sparse   == Sparsify(x.gamma, x.counter, run.svc, improved,
                             Patience(seen, x.iter + 1))
        counted  == [x EXCEPT !.best = IF improved THEN run.sol ELSE @,
                              !.iter = @ + 1, !.seen = seen,
                              !.gamma = sparse.gamma, !.counter = sparse.counter]
        tossed   == Tossed(x.srnd, run.ruined, m)
    IN  IF ~run.ok THEN x
        ELSE IF x.iter + 1 = MaxIter THEN counted
        ELSE [counted EXCEPT
                 !.ref = IF Accepts(Cost(run.sol), Cost(x.ref), tossed, x.coolings)
                         THEN run.sol ELSE @,
                 !.srnd = [tossed EXCEPT !.pos = @ + 1],
                 !.coolings = @ + 1,
                 !.omega = Shake(@, run.ruined, m, x.srnd)]
=============================================================================
