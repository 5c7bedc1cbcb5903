# A TLA+ model of FILO2x

FILO2x is a parallel heuristic for very large capacitated vehicle routing
problems (2025.1772, INFORMS Journal on Computing). A program of about 12600
lines of C++ builds a first solution and then improves it with several solver
threads. The threads share nothing but messages, and yet they have to stay
exact copies of one search. This directory models the program in TLA+, checks
the models with TLC and proves properties of them with TLAPS.

Paths below are relative to the repository's `src/` directory.

## 1. Inventory

| Component | Source | State | Operations | What makes it correct |
|---|---|---|---|---|
| main program | `filo2x/main.cpp` | instance, solution, kmin | read, savings, bpp, dispatcher, join, write | it reports one solution, the best one |
| dispatcher | `filo2x/Dispatcher.*` | solvers, queue, number of active solvers | spawn, get, broadcast, join | one order of messages for all solvers; it stops when, and only when, every solver has |
| solver | `filo2x/Solver.*`, `SolverCoreopt.cpp` | reference solution with do and undo lists, best solution, omega, gamma, annealing, two generators | snapshot, evaluate, discard, adopt, finish, generate | solvers that read the same messages are equal; the lists lead exactly where they should |
| shared queue | `filo2x/SharedQueue.hpp` | list, mutex, condition variable | push, get, size | no lost wakeup; a FIFO channel |
| messages | `filo2x/Message.hpp` | three lists of actions, costs, a flag | none | fit for replay on another solution, or recognised as stale |
| solution | `filo2/solution/Solution.*` | linked routes, route pool, cost, loads, svc, do/undo lists | insert, remove, reverse, build, tails, split, append, apply, is_applicable | a set of routes; recorded actions and their inverses |
| ruin and recreate | `filo2/opt/RuinAndRecreate.hpp` | removed customers, visited routes | ruin, recreate | feasible solution with all customers |
| local search | `filo2/localsearch/*`, `filo2/movegen/*` | moves, cached deltas, heap, update bits | 19 exchange operators, ejection chain, descent over them | improving moves only; no stale delta |
| route minimization | `filo2/opt/routemin.hpp` | working solution, best solution, unserved customers | remove two routes, reinsert, local search, follow, reset | best solution equals what the replay rebuilds; no customer lost or served twice |
| annealing | `filo2/opt/SimulatedAnnealing.hpp` | temperature | accept, cool | the same decision in every solver |
| initial solution, bound | `filo2/solution/savings.hpp`, `filo2/opt/bpp.hpp` | local | Clarke and Wright, first fit decreasing | feasible; a number of bins that suffices |
| containers | `filo2/base/*` | heap, pool, sparse set, flat hash set and map, LRU list | usual ones | refine their abstract types |
| instance | `filo2/instance/*`, `filo2/base/KDTree.*` | coordinates, demands, neighbours | cost, neighbours | neighbours in the order of distance |
| input and output | `Parameters`, `Parser`, `Statistics`, `PrettyPrinter`, ... | none of interest | | not modelled |

How they interact: `main` constructs the dispatcher, whose thread constructs
the solvers, each with a thread. A solver *offers* a change to the dispatcher's
queue, and the dispatcher *broadcasts* it to the queues of all solvers, the
author included. A solver applies a change, its own too, only when the change
comes back. When a solver has seen `coreopt_iterations` feasible changes it
offers a termination message and returns.

What is hard here:

* concurrency: the relay is not atomic, solvers run ahead and behind, changes
  overtake each other and become stale;
* silent divergence: nothing ever compares two solvers, and one wrong entry of
  a do list, one draw too many of the shared generator or one message out of
  order separates them for the rest of the run;
* partial failure: a stale change fails in the middle and is undone;
* termination: the dispatcher, the solvers and main wait for each other;
* boundaries: walk lengths, cache sizes, route indices, empty routes.

`PROJECT.json` lists these hazards at their lines.

## 2. Order of the work

The project grew from the most important behaviour outwards, and each layer
rests on the assumptions that the next one checks:

1. the queue, the core optimization loop over abstract solutions, its abstract
   specification, and the proofs about them;
2. `Routes` and `RuinAndRecreate`, with which the loop runs on real changes;
   route minimization;
3. the exchange operators on routes, the move generators, heap and update
   cycle of the search engine, the ejection chain;
4. `Solution`, the linked lists that implement `Routes`;
5. `Startup`, what happens before the queues exist.

The proofs followed the same order: the queue and the protocol, that `Coreopt`
implements `ReplicatedSearch`, the move lists, the heap and the update cycle of
the search engine, then routes as cycles (an action and its recorded inverse
cancel, every feasible move keeps a solution feasible) and with them
`LocalSearchCycle`, `RouteMin` and the chains of `EjectionChain`. What could
follow: a proof that `Solution` implements `RouteSet`, the selection of savings,
and `BinaryHeap::get` with the order in which the ejection chain expands nodes.

## 3. Modules

`SharedQueue` - one action per access to mutex, list or condition variable in
`push`, `get` and `size`, spurious wakeups included. Any number of producers
push; one owner reads, which is how the program uses its queues. `FifoChannel`
is what it promises.

`CoreoptStep` - what one message does to a solver, as operators: evaluation of
a change (`Evaluate`), undo (`Rewind`), replay (`Replay`), sparsification,
omega (`Shake`), annealing (`Accepts`). Solutions, actions and their operations
are constants. The generator `srnd`, which all solvers share the seed of, is a
position in a stream, so a solver that draws a different number of values than
another one differs from it visibly. `GenerationAssumption`,
`SolutionAssumption` and `ReplayAssumption` say what the search relies on: a
ruin whose walk has length 0 ruins nobody, undo leads back, and the recorded
actions of an evaluated change rebuild what it was evaluated to. Costs are integers, as the
arc costs of the program are (it rounds them); a message carries the outcome
of the comparisons its four costs are used in (`grade`).

`SequentialSearch`, `ReplicatedSearch` - the abstract specification. The first
says what a message does when solutions are plain values: assignments, no
lists. The second says that replicas read one log, each at its own pace.

`Coreopt` - the dispatcher, the solvers and main. One action for each stretch
of a thread between two accesses to a queue:

| Action | Code |
|---|---|
| `Spawn`, `Join` | the two loops of `Dispatcher::loop` |
| `GetChange`, `GetFinished` | `get` in `Dispatcher::parallel_coreopt` |
| `Relay` | one push of `broadcast_coreopt` |
| `Setup(s)` | `Solver::loop` up to the main loop of `parallel_coreopt` |
| `Snapshot(s)` | `coreopt_queue.size()` |
| `Discard(s)` | a message that is not applicable or not feasible |
| `Adopt(s)` | a feasible message that is not the last |
| `Finish(s)` | the last one, with its termination message |
| `Generate(s)` | undo, ruin, recreate, local search, offer |
| `MainJoin` | `dispatcher.join()`, `get_best_solution()` |

`work[s]` is `Solver::solution` with `do_list1` and `undo_list1`; `rep[s]` holds
the best solution, `do_list2`, `reference_solution_cost` and the search
parameters; `left[s]` is `current_queue_size`. The code does not keep the
reference solution once a change is applied to it: it comes back by undoing.
The model does the same, and the history variable `ref` says what it should
be. `log` and `at` are history too. `Generate` may choose any seed customer and
any change that `Candidates` offers for it and its walk length, since `urnd`
differs between solvers.

`Routes` - a solution is a set of cycles; actions name a route by a vertex, with
the fallback of `Solution::Action`; `Applicable`, `ApplyAction` and
`RecordAction` follow `is_applicable`, `apply<false>` and what `apply<true>`
appends to the lists and inserts in the svc.

`RuinAndRecreate` - every ruin walk, every greedy insertion in every order, and
at most one improving move of the exchange operators in `LocalOperators` around
the svc. The code shuffles or sorts the removed customers: the model takes any
order.

`RouteMin` - route minimization, which a solver runs in `Solver::loop` before the
core optimization when the initial solution has more routes than `Kmin`, the
number of bins of `bpp.hpp`. One action for each part of an iteration:

| Action | Code of `routemin` |
|---|---|
| `RuinRoutes` | seed, two routes, their removal (97-138) |
| `Place` | one round of the insertion loop (149-207), for any order of the customers |
| `Improve` | local search (210) |
| `Follow` | the best solution replays `do_list1` (214-226) |
| `Reset` | undo back to the best solution (235-243) |
| `GoOn` | neither: the next iteration starts from where this one ended |
| `Return` | the iterations are over |

A customer without a place stays unserved with a probability that falls from 1 in
the first iteration, where therefore it always stays unserved unless routes are
missing, to 0.01: in later iterations the model allows both. `Improve` uses the
operators in `LocalOperators` as `RuinAndRecreate` does; they skip unserved
vertices. `Kmin` is a
constant of the instance; first fit by decreasing demand is a recursive
function over the sorted customers.

`MCCoreopt` puts the three together for TLC; `MCCoreoptMoves` runs the same
protocol over three numbers, where a change fits one reference only.

`Exchange` - the nineteen exchange operators, each with `compute_cost`
(`Delta`), `is_feasible` (`Feasible`), `execute` (`Execute`) and its update
bits (`FirstBits`, `SecondBits`). Thirteen of the operators are one scheme, a
path of m vertices against one of n, so the module has a plain and a reversing
family with m and n as parameters; 2-opt, split and tails have definitions of
their own. An `execute` that moves vertices one by one is the list of its steps
(`PathSteps`, `TailSteps`, `SplitSteps`), which `MoveAll` runs: a vertex leaves a
route, enters one, or both. A delta is the set of links a move adds and takes away, with how
often. Two deltas that agree so agree for every symmetric cost matrix, so one
run speaks for all costs.

`LocalSearchCycle` - one operator in a cycle: deltas of all moves, execution of
any feasible move whose delta can be negative for some costs, update of the
deltas that the bits name. The exchange of tails is the exception in
`NoStaleDelta`: it updates moves of the depot in debug builds only, and never
executes them.

`MoveGenerators` - which pairs of neighbours get a move, on ties too, and the lists
of active moves that `set_active_percentage` maintains. A base move and the end
it starts from, `<<b, v>>`, stand for the two moves of a pair.

`MoveHeap` - `BinaryHeap` with the index each move keeps of its place. The loops
of `heapify` and `upsift` are recursive functions over their rounds (`Sink`,
`Rise`).
`MoveDescriptors` - `apply_rough_best_improvement` of `AbstractOperator.hpp`:
initialization around the cached vertices, execution, symmetric and asymmetric
update with vertex timestamps. Initialization and update are the same kind of
sweep (`Swept`): over the vertices in any order with the depot last, for each
vertex over its list, for each move what the pass does to it (`VisitMove`).
Solutions are left out: an execution changes the true deltas of the moves that
some set of update bits names (`NextDeltas`), and a move that the engine then
forgets is found by comparing what it stores with the truth. `Exchange` shows
that the bits of the operators name enough moves; this module shows that the
engine does with them what they ask for. Not modelled is
`handle_partial_solutions`, with which the search inside route minimization
skips moves of unserved vertices: the cycles of this module are those of a
complete solution.

`EjectionChain` - the search tree of `is_feasible`, with the vertices forbidden
to each node, its loads and its sum of deltas, and `execute`, from the last
move of a chain to its first. Costs are abstract again: the code prunes chains
that do not pay off and expands the cheapest node first, the model may expand
any node and accept any chain that fits, for which there are costs under which
the code does so.

`RouteSet`, `Solution` - the layer below `Routes`. `RouteSet` is a state
machine whose steps are the operations of `Routes` on a set of cycles, with the
actions they record. `Solution` is what the code does instead: `next`, `prev`,
arc costs and cumulative loads for each customer, first and last customer for
each route, the doubly linked list of routes with indices from a stack
(`FixedSizeValueStack`), a cost that is updated by differences, and the cache
of recent vertices as a linked list. One action for each public operation that
changes anything: insertion, removal, path reversal, the three ways to build a
route, `swap_tails`, `split`, `append_route`, the removal of an emptied route,
replay of a list, reads that recompute cumulative loads, `clear_svc`.
`ImplementsRouteSet` is the refinement. `Regular` says which calls the program
makes: those `is_applicable` allows, with an outcome in `Routes`. In
`reverse_route_path` the case of a path whose ends follow each other across its
own outside (569-575) is therefore never reached by the callers.

`Startup` - the constructors of the dispatcher and the solvers beside the
threads they start, at the moment where `Coreopt` begins with all queues in
place. A queue that is used before its constructor has run is undefined
behaviour: a crash, or memory that passes for an empty queue and is overwritten
later.

`MCSolutions` gives the runs on routes all feasible solutions of an instance.
The other `MC` modules give values to constants only. `*_proofs` hold the
proofs.

## 4. Runs

| Run | What it asks | Answer |
|---|---|---|
| `queue` | Does the queue lose a wakeup, an item or the order of items? | no; every item is received |
| `coreopt` | Do two solvers stay one search, and does the program stop cleanly? | yes |
| `one_solver` | Do the lists keep reference and best solution consistent over many iterations? | yes |
| `termination` | Does every fair schedule end? | yes |
| `routemin` | Do the lists link working and best solution over partial solutions, and is every customer somewhere? | yes |
| `local_search` | Does each exchange operator do what its delta, its feasibility test and its update bits say? | yes |
| `descriptors` | Do move lists, deltas and heap stay consistent through updates? | yes |
| `ejection` | Is a chain of relocations worth what it promises, and does it leave no stale delta? | yes |
| `solution` | Do the linked lists implement a set of routes, with exact caches and inverses? | yes |
| `empty_change` | Is every change non-empty, as an assert says? | **no** |
| `heap_order` | Does the dispatcher take the cheapest change first, as a comment says? | **no** |
| `startup` | Does the dispatcher relay every change that is offered, as a comment says? | **no**, not one offered before its queue is constructed |

Properties, with the code they are about, are stated beside their definitions.
The ones that carry the design are `TotalOrder` (one order of messages),
`Agreement` (equal after equally many messages), `UndoRestoresReference` (undo
is exact, however far a stale change got), `ListsLinkTheSolutions` (the same
for route minimization, over partial solutions), `BestReplaysToReference` and
`BestIsTheEvaluated` (the two do lists), `ResultIsShared` (asking the first
solver is enough), and `ImplementsReplicatedSearch`: the program, with its
lists and its relay, implements replicas of a search written as assignments.
Below the protocol they are `DeltaIsExact` and `ChainGainIsExact` (an executed
move is worth its stored delta, also where paths touch or wrap around the
depot), `MoveIsReplayable` (what it records works elsewhere), `NoStaleDelta`,
`HeapedIsTrue`, `NoMoveMissed` and `NoStaleChainDelta` (partial updates
suffice), and `ImplementsRouteSet`, `CachedIsExact` and `UndoRestores` (the
data structure).

The three findings:

* *Empty changes.* omega of a ruined customer moves towards the value of the
  ruin's seed plus or minus one. Nothing stops it at 1, and when the seed is
  among the ruined customers its value can fall 2, 1, 0. The next ruin from
  that seed removes nobody, recreate and local search have nothing to do, and
  an empty change is offered. The receiver asserts that this does not happen
  (`SolverCoreopt.cpp:183-184`) and then reads `msg.ruin.front()` in the next
  assert. A build without asserts counts the empty change as a feasible
  iteration. omega never becomes negative (`OmegaNonNegative`): the next
  lowering would need a seed with a value below 1 and a customer ruined by it,
  and a walk of length 0 ruins nobody.
* *No heap.* A comment calls the dispatcher's queue a min heap; it is a FIFO.
* *Early threads.* `Dispatcher` and `Solver` start their thread in the
  initialiser list, and their `coreopt_queue` is declared after the thread. The
  queue is constructed while the thread runs; a change pushed before that is
  lost, although the dispatcher "simply relays messages" (`Dispatcher.hpp:15`).
  In practice the setup of a solver takes far longer than the rest of a
  constructor, which hides the race; declaring the thread last would remove it.

## 5. Bounds

* `queue`: 2 producers, 2 items each (`MaxItems`). Two producers are the least
  that compete with each other and with the reader; the second item is needed
  for a notify that arrives when the first item is gone already. The theorems
  hold for any number.
* `coreopt`: 2 solvers, 3 customers, vehicles of capacity 2 (so that changes
  create and empty routes, and loads matter), 2 iterations each (`MaxIter`): the
  first may be accepted or rejected, the second is the last one, which is
  handled differently. `MaxInbox` 1 bounds the messages that wait for the
  dispatcher: a solver goes on generating only while there is room. The bound
  delays solvers; it removes no order of messages, and with 1 there are
  already changes that become stale, because a second one is being relayed.
  `SeedCustomers`, `Breadth` and `Poor` choose, for each solution, seed and walk
  length, some of the changes that `RuinAndRecreate` generates: those with the
  most actions and those that lead to the worst solutions.
* `one_solver`: 4 iterations with two seed customers and poor changes, from a
  good solution, so that the best solution falls behind, `do_list2` grows over
  several accepted changes and the best improves again. Two iterations would
  not reach a `do_list2` of more than one change.
* `routemin`: 4 customers of demands 1, 1, 2, 2 in vehicles of capacity 3, so two
  routes suffice, from the solutions with 3 routes (`StartRoutes`, each route in
  one direction), with 2 iterations (`RouteMinIter`). Two neighbours per customer
  hide routes with room, which leaves customers unserved; the distances make
  some partial solutions dearer than the best one, so that a reset has
  unserved customers to forget; two iterations, since a customer without a place
  may get a route of its own only after the first.
* `local_search`: 8 customers, one of them as heavy as four others, vehicles of
  capacity 8, and routes of 1 to 7 customers (`Sizes`): a path of three and
  another one of three fit beside each other in one route, touch, overlap, wrap
  around the depot or empty a route. One move (`MaxMoves`) from each solution,
  each operator and each move is enough: `NoStaleDelta` says that the deltas
  after it are those of a fresh start, so a second move begins like a first
  one.
* `descriptors`: three vertices (the depot and two customers) with one
  neighbour each, at equal distances and on a line, which already gives pairs
  wanted by one end or by both. Four levels of delta on both sides of the
  tolerance and 0 (`Rotate`), one execution in each of two cycles, any
  percentages before each cycle: the second cycle finds what the first one
  left.
* `ejection`: 7 customers, capacity 3, one customer of demand 2, full routes
  beside one with room; 5 nodes (`MaxNodes`) give chains of three relocations
  and branches. One search (`MaxSearches`) suffices, as no stored delta
  outlives it (`NoStaleChainDelta`).
* `solution`: all pairs of operations (`MaxOps` 2) on one route of four
  customers and on two routes beside an unserved customer, arcs that all differ
  in cost. The second operation meets what the first one may have left wrong:
  stale loads, a route without the depot or without customers, a recycled
  index.
  At most three routes exist at once, so the run checks that no index is lost or
  handed out twice, not the pool at its limit. There the one index beyond
  `routes_list` is safe by counting: the pool is a stack with that index at its
  bottom, so it goes out only while as many routes exist as there are customers;
  each of them serves somebody, and a route is built for an unserved customer.
* `startup`: two solvers that offer once each; the first one shows it.
* `termination`, `heap_order`: the smallest solution space, since they are about
  threads; in `heap_order` two messages may wait (`MaxInbox` 2).
* The finishing of a solver is not bounded by `MaxInbox`: its termination message
  always goes through.

## 6. Fairness

`FairSpec` of `SharedQueue` assumes weak fairness of each thread: a thread that
can go on will. `std::mutex` promises no more. Nothing is assumed of spurious
wakeups. `Fairness` of `Coreopt` assumes the same of the dispatcher, of main and of
each solver; that a blocked `get` wakes up is what `queue` checks. No fairness is
assumed between the actions of one thread or between the changes it may
generate.

## 7. Proofs

All theorems hold for every value of the constants that satisfies the named
assumptions; TLC evaluates the assumptions in the runs.

* `SharedQueue_proofs` - from `ThreadsAssumption`. The inductive invariant `Typed`
  is the type invariant together with `ItemsLeft`, which ties the owner's
  program counter and the snapshot to the list. `NoLostWakeup` needs that the
  owner starts waiting and releases the mutex in one step, and that a producer
  keeps the mutex between append and unlock. `QueueIsFifo` is step simulation.
* `Coreopt_proofs`, the state - from `CoreoptAssumption`, `SolutionAssumption`,
  `GenerationAssumption`, `StartAssumption`. `Typed` strengthens the type
  invariant by `UndoRestoresReference`, without which nothing says that a
  solution reached by undoing is a feasible one, and so nothing that the next
  change is a change. `LogIsDelivered` follows from `Ordered`: what a solver has
  read, its queue and what the dispatcher still holds for it are together the
  log.
* `Coreopt_proofs`, the history - agreement is not inductive: two solvers at
  different places say nothing about each other. `SolversAgree` comes from
  `OneSearch`: there is one history of search states, each the step from the one
  before by the log, and a solver that has processed n messages is in the n-th
  state. The history also tells at which message
  a search ends (`EndsOnce`). `CountIsRight` counts the termination messages in
  the inbox as a set of positions, which a `Tail` shifts by a bijection.
  `NothingIsUnread` needs that the last message of an inbox without living
  senders is a termination message (`LastIsFinished`): each solver ends with
  one, but those of different solvers interleave with changes. `ResultIsOfAll`
  follows from the history: of two solvers that ended at different messages,
  the later one would have passed the end of the earlier one.
* `Folding` - what `FoldLeft` computes, for any operation: over one sequence after
  another (`FoldConcat`), and what every element, or every round of a loop,
  preserves. The library's induction theorems take operators as parameters,
  which the provers cannot instantiate; here a property of numbers is a set, and
  the least number outside of it comes from the well-foundedness of the finite
  subsets of `Nat`. The operation is a constant of the module, so another module
  gets the facts about its own folds by `INSTANCE Folding WITH Op <- ...`.
* `Coreopt_proofs`, the search - what the do lists and omega are for. `OmegaStaysNatural`
  from `Walks`: a change on its way has the walk length that its seed had, so a
  walk of length 0 lowers nobody. `BestIsLinked` and `BestIsRebuilt` from
  `AllLinked`: in each solver, and in the copy it works on, the recorded lists
  lead from the best solution to the reference one and on to the working one;
  appending to a list is composing folds (`FoldConcat`). `SolversAreReplicas`
  is the refinement: `Discard`, `Adopt` and `Finish` of a solver map to the step
  of its replica, every other action to a stutter. The three theorems after
  `OmegaStaysNatural` have a hypothesis beside the named assumptions,
  `SlackIsNatural`: `-log(u)` of a number drawn from [0, 1) is not negative, so
  annealing accepts every improvement (TLC cannot go through the positions of a
  stream, so it is not an assumption). The refinement has one more,
  `MaxIter # 0`: with 0 iterations the comparison of `SolverCoreopt.cpp:287` is
  made for the first time after one feasible change and never succeeds, while
  the specification has ended before it begins. `ReplicasAgree` says that what is
  implemented is worth something: in the abstract specification replicas that
  have processed equally many messages are equal, by a history (`Following`) again.
* `MoveDescriptors_proofs`, the generators - `EveryPairHasOneMove` from the assumptions on
  neighbour lists (sorted by cost, no nearer vertex left out, symmetric costs):
  who inserts a pair of mutual neighbours is decided by their order, any other
  pair by distance and, on a tie, by membership. `ListsAreActive` from the
  invariant `ListsInv`: the lists of all vertices hold the active moves for the
  present numbers, where a change rebuilds the lists of the touched vertices
  only; the step is to show that the others have the same active moves as
  before. `MovesAreEnough`: no percentage reaches past the base moves of a
  vertex.
* `MoveDescriptors_proofs`, the cycle - from `DescriptorsAssumption` and the above. First
  the heap: with `Placed` (the moves know their places and nobody else claims
  one) and an order that may fail at one place only (`AlmostUp`, `AlmostDown`),
  each round of a loop moves the failure towards the top or the end, where none is
  possible (`UpsiftOrders`, `HeapifyOrders`); so insertion, removal in the
  middle, change of a value and reset leave a heap of the right moves
  (`Holds`). Then the sweeps: the moves that a visit is about (`Targets`) get
  their true deltas, all others keep what they have (`VisitMoveServes`), and
  the visits of a sweep are together about exactly the moves that some visited
  vertex names (`SweptServes`, `TargetsAreDone`): skipping what the other vertex
  has served leaves out nothing, and an initialization, which resets the place of
  a move without looking, never meets a move that it has entered before. The
  invariant `SearchInv` ties the heap to the truth during a cycle (`Tidy`): it
  has only moves that the operator uses, with their true deltas, and all
  improving ones with a known vertex. `HeapIsConsistent`, `HeapedIsTrue` and
  `NoMoveMissed` follow. That the heap has no move outside the active lists is
  what makes `HeapedIsTrue` inductive: nobody would update such a move.

* `Routes_proofs` - lemmas about `Routes` and `Exchange`. A route is stored as one
  rotation of a cycle, an operation opens it at a vertex, changes a path and
  closes it again (`Opened`, `CycleOfRotation`), so facts about paths
  (`FromFacts`, `CutFacts`, `ReverseFacts`) become facts about routes. `SuccIs`
  and `StepIs` say who follows whom. The load of a route depends on nothing but
  the set of its vertices (`SameLoad`, by induction over it); `LoadOf` is the
  load of a set. `InsertWorks`, `RemoveWorks`, `BuildWorks` and `ReverseWorks`
  say for each action what it makes of a well-formed solution, and that what it
  records leads there and back (`Revertible`), with the two vertices by which a
  route is named and the one that is left when it vanishes. `DoWorks` carries
  that to a list (`Linked`). On top of it, what the operators of the local
  search do in between: `Held` describes a solution whose vertices are on their
  way, in neither of two routes, and `MoveAllWork` folds it over the steps. That
  the paths of i and of j do not touch the places where they are put follows from
  the arithmetic of positions on a cycle (`ApartPlain`, `ApartReversing`,
  `ApartInter`). `ExecuteKeeps` is the result: a move of any of the nineteen
  operators that `is_feasible` allows keeps every customer, the depot in every
  route and the capacity, and its record leads there and back.
* `LocalSearchCycle_proofs` - from `RoutesAssumption` and `CycleAssumption`.
  `MovesKeepFeasible` and `MovesAreReplayable` from `CycleInv`, for every operator,
  instance and number of moves. Feasibility alone is not inductive: the
  next move needs that routes are cycles that serve somebody (`WellFormed`), and
  the capacity of each is what `is_feasible` starts from.
* `EjectionChain_proofs` - from `RoutesAssumption` and `EjectionAssumption`.
  `ChainsKeepFeasible` says of every tree that a search may grow and every chain
  it executes that the result serves the same customers within the capacity and
  that the record leads there and back. Three things have to be shown of code
  that computes loads by increments in the order of the tree and then executes the
  moves in the opposite order. That a node's loads are those its chain will
  produce: a node stands for an assignment of customers to routes (`HomeOf`,
  `Moved`), and its loads are the loads of the classes of that assignment (`IsTree`,
  `TreeGrows`). That a move executed late still finds its places:
  the moves before it, which were decided after it, leave the vertices of its
  node's `forbidden_j` (`Taken`) where they were, so that none of their routes has
  been emptied and removed, and they have their old successors (`Halfway`,
  `HalfwayStep`). And that a single relocation within a route never empties that route
  first: this happens only to the only customer of a route that is put before
  the depot, a move without gain, which is not heaped; of the stored deltas that
  holds because the update bits renew them when a customer becomes the only one
  of its route (`SinglesIdle`, `IdleAfter`).
  `ChainIsFeasible` alone is therefore not inductive; `ChainInv` adds the tree and
  `SinglesIdle`.
* `RouteMin_proofs` - from `RoutesAssumption` and `RouteMinAssumption`.
  `RouteMinInv` says that the customers are split between the working solution,
  those that wait (`removed`) and those left unserved (`still`), that
  the lists link the best and the working solution (`Serves`), that the best one
  is complete, and that somebody waits exactly while customers are placed.
  `CustomersAreKept`, `ListsAlwaysLink` and `BestStaysComplete` are parts of it.
  `SeedAlwaysExists` needs one more part, that a solution between iterations serves
  somebody: the first customer that is placed after everybody has left finds no
  route and gets one of its own, since there are fewer routes than `Kmin`, which
  first fit makes at least 1 (`KminPositive`). That Follow replays `do_list1`
  without tests is safe because the tests would have passed (`LeadsIsFold`). For
  the same reason the action property `BestOnlyImproves` holds: what the replay
  makes of the best solution is the working one, whose cost was compared.

`SolutionAssumption` and `ReplayAssumption` are the interface between the protocol
and the solutions: undo leads back, replay rebuilds, and a change evaluated to
the end gives a feasible solution. They are about the change that another solver
made and a reference that it may not fit, action by action; TLC checks them on the
instances of the runs, for all their solutions and changes. What is proved
of `Routes` is the side of the author: the lists that a local search, a removal
or an insertion records lead where they should.

Checked by TLC only: `CachedIsExact`, `RouteIndices`, `CacheIsRecent`
and the refinement of `RouteSet` by `Solution`; `DeltaIsExact`, `NoStaleDelta`,
`ChainGainIsExact` and `NoStaleChainDelta`, which compare bags of links before
and after a move. Liveness (`EveryItemReceived`,
`Termination`) is out of the prover's reach, as are ENABLED and what a recursive
operator computes; induction over the length of lists and loops is done in
`Folding`.

## 8. Not modelled

* Reading and writing files, parameters, statistics, progress output and
  wall-clock times: no influence on the search.
* Floating point: costs are sums of rounded distances and therefore exact in the
  program too, while gamma (a level), temperature (a count of coolings) and
  thresholds are abstracted to the decisions they take.
* The k-d tree and the coordinates: neighbour lists are constants, without the
  vertex itself, which the code wants first in its own list: a comment hopes so
  where vertices overlap (`Instance.cpp:63-66`).
* The selection of savings (`savings.hpp`): one pass over a sorted list;
  `append_route`, the operation that it is made of, is part of `Solution`.
* The order in which the ejection chain expands its nodes and which chains it
  prunes, since costs are abstract; with it `BinaryHeap::get`.
* The variable neighbourhood descent over the operators (`LocalSearch.hpp`): a
  loop over them until none improves. In the generation of changes it is at
  most one improving move; each operator is checked by itself from every start.
* Sparse sets, flat sets and maps, bit matrices: sets and functions.
* `empty` of the queue, and `is_change_applicable` and `output_statistics` of
  `Solver.cpp`, which nobody calls.
* Memory: the queues of solvers that have returned grow until the last one stops,
  which has no effect on the search.
