------------------------------ MODULE Coreopt ------------------------------
(***************************************************************************)
(* The parallel core optimization: the dispatcher (filo2x/Dispatcher.cpp), *)
(* its solvers (filo2x/Solver.cpp, filo2x/SolverCoreopt.cpp) and the main  *)
(* thread that waits for them (filo2x/main.cpp).                           *)
(*                                                                         *)
(* Every solver proposes changes to its reference solution.  The           *)
(* dispatcher relays each proposal to all solvers, the author included,    *)
(* and a solver works on its copy of the solutions only through the        *)
(* messages it reads.  Queues are FIFO and atomic here (SharedQueue shows  *)
(* why); between two accesses to a queue a thread touches its own data     *)
(* only, and such a stretch is one step.                                   *)
(***************************************************************************)
EXTENDS SequentialSearch

CONSTANTS SolversNum,        (* params.get_solvers_num() *)
          SavingsSolution,   (* the solution main constructs the solvers with *)
          MaxInbox           (* bound: messages waiting for the dispatcher *)

ASSUME CoreoptAssumption == /\ SolversNum \in Nat \ {0}
                            /\ SavingsSolution \in Solutions

Solvers == 1..SolversNum

VARIABLES
    seed,     (* params.get_seed() *)
    dpc,      (* where the dispatcher thread is *)
    cursor,   (* the solver it spawns, relays to or joins next *)
    active,   (* active_solvers *)
    held,     (* the message it relays *)
    inbox,    (* Dispatcher::coreopt_queue *)
    queue,    (* Solver::coreopt_queue of each solver *)
    pc,       (* where each solver thread is *)
    left,     (* current_queue_size of each solver *)
    work,     (* Solver::solution with its do_list1 and undo_list1 *)
    rep,      (* the rest of a solver's search state *)
    result,   (* the solution main gets, in a sequence: empty until then *)
    ref,      (* history: the solution each solver adopted last *)
    log,      (* history: the messages relayed so far *)
    at        (* history: how many messages each solver has processed *)

dispatcherVars == <<dpc, cursor, active, held>>
solverVars == <<pc, left, work, rep, ref, at>>
vars == <<seed, dispatcherVars, inbox, queue, solverVars, result, log>>

NoMessage == [finished |-> FALSE]
Finished == [finished |-> TRUE]

WorkType == [sol : Solutions, do : Seq(Actions), undo : Seq(Actions)]

TypeOK ==
    /\ seed \in Seeds
    /\ dpc \in {"spawn", "get", "relay", "join", "exit"}
    /\ cursor \in 1..SolversNum
    /\ active \in 0..SolversNum
    /\ held \in Message \cup {NoMessage}
    /\ inbox \in Seq(Message \cup {Finished})
    /\ queue \in [Solvers -> Seq(Message)]
    /\ pc \in [Solvers -> {"unborn", "setup", "sync", "drain", "exit"}]
    /\ left \in [Solvers -> Nat]
    /\ log \in Seq(Message)
    /\ at \in [Solvers -> Nat]
    /\ work \in [Solvers -> WorkType]
    /\ ref \in [Solvers -> Solutions]

-----------------------------------------------------------------------------
(* Solver state *)

\* Solver::solution is the reference plus the changes of do_list1, which the
\* next apply_undo_list1 takes back.  The code stores the reference nowhere;
\* the history variable ref tells which solution it should be.
Reference(s) == Rewind(work[s].sol, work[s].undo)

\* A bug that seeds the generator srnd like urnd, differently in each solver.
UniqueSeed(s) == seed + s - 1

SharedSeed(s) == seed

\* The members of rep: do_list2, reference_solution_cost and the search
\* parameters, which SequentialSearch knows under the same names.
StartRep(sd) ==
    LET start == StartOf(sd)
    IN  [best |-> start.best, do2 |-> <<>>, refcost |-> Cost(start.ref),
         iter |-> 0, srnd |-> start.srnd, coolings |-> 0, omega |-> start.omega,
         gamma |-> start.gamma, counter |-> start.counter, seen |-> 0]

\* A bug that forgets to replay do_list2 before do_list1 on the best solution.
BestWithoutDo2(x, run) == Replay(x.best, run.do)

BestAfter(x, run) == Replay(Replay(x.best, x.do2), run.do)

\* The part of an iteration before the test for the last one.
Counted(x, run) ==
    LET improved == Cost(run.sol) < Cost(x.best)
        seen     == x.seen + Len(run.svc)
        sparse   == Sparsify(x.gamma, x.counter, run.svc, improved,
                             Patience(seen, x.iter + 1))
    IN  [x EXCEPT !.iter = @ + 1,
                  !.seen = seen,
                  !.best = IF improved THEN BestAfter(x, run) ELSE @,
                  !.do2 = IF improved THEN <<>> ELSE @,
                  !.gamma = sparse.gamma,
                  !.counter = sparse.counter]

\* A bug that appends do_list1 to do_list2 after an improvement too.
Do2AfterAlways(x, run) ==
    IF Cost(run.sol) < Cost(x.best) THEN run.do ELSE x.do2 \o run.do

\* The changes that lead from the best solution to the next reference.  They
\* are in the best solution already when it has just been improved.
Do2After(x, run) ==
    IF Cost(run.sol) < Cost(x.best) THEN <<>> ELSE x.do2 \o run.do

AcceptedBy(x, m, run) ==
    Accepts(Cost(run.sol), x.refcost, Tossed(x.srnd, run.ruined, m), x.coolings)

\* The part of an iteration after it: omega, annealing and temperature.
Annealed(x, m, run) ==
    LET tossed == Tossed(x.srnd, run.ruined, m)
        next   == Counted(x, run)
        taken  == AcceptedBy(x, m, run)
    IN  [next EXCEPT
            !.omega = Shake(@, run.ruined, m, x.srnd),
            !.srnd = [tossed EXCEPT !.pos = @ + 1],
            !.coolings = @ + 1,
            !.refcost = IF taken THEN Cost(run.sol) ELSE @,
            !.do2 = IF taken THEN Do2After(x, run) ELSE @]

Settled(sol) == [sol |-> sol, do |-> <<>>, undo |-> <<>>]
Tentative(run) == [sol |-> run.sol, do |-> run.do, undo |-> run.undo]

-----------------------------------------------------------------------------
(* The dispatcher and main *)

Init ==
    /\ seed \in Seeds
    /\ dpc = "spawn" /\ cursor = 1 /\ active = SolversNum /\ held = NoMessage
    /\ inbox = <<>>
    /\ queue = [s \in Solvers |-> <<>>]
    /\ pc = [s \in Solvers |-> "unborn"]
    /\ left = [s \in Solvers |-> 0]
    /\ work = [s \in Solvers |-> Settled(SavingsSolution)]
    /\ rep = [s \in Solvers |-> [best |-> SavingsSolution]]
    /\ ref = [s \in Solvers |-> SavingsSolution]
    /\ at = [s \in Solvers |-> 0]
    /\ result = <<>>
    /\ log = <<>>

\* A bug that goes on to a solver after the last one.
AdvancePast(then) ==
    IF cursor <= SolversNum THEN cursor' = cursor + 1 /\ UNCHANGED dpc
    ELSE cursor' = 1 /\ dpc' = then

\* The dispatcher goes through its solvers, and to dpc `then' after the last one.
Advance(then) ==
    IF cursor < SolversNum THEN cursor' = cursor + 1 /\ UNCHANGED dpc
    ELSE cursor' = 1 /\ dpc' = then

\* The constructor of a solver starts its thread.
Spawn ==
    /\ dpc = "spawn"
    /\ pc' = [pc EXCEPT ![cursor] = "setup"]
    /\ Advance("get")
    /\ UNCHANGED <<seed, active, held, inbox, queue, left, work, rep, ref, at, result, log>>

\* A bug that lets the termination message of a solver pass uncounted.
DropFinished ==
    /\ dpc = "get" /\ inbox # <<>> /\ Head(inbox).finished
    /\ inbox' = Tail(inbox)
    /\ UNCHANGED <<seed, dispatcherVars, queue, solverVars, result, log>>

\* A bug that leaves the loop at the first termination message.
GetFirstFinished ==
    /\ dpc = "get" /\ inbox # <<>> /\ Head(inbox).finished
    /\ inbox' = Tail(inbox)
    /\ active' = active - 1
    /\ dpc' = "join"
    /\ UNCHANGED <<seed, cursor, held, queue, solverVars, result, log>>

GetFinished ==
    /\ dpc = "get" /\ inbox # <<>> /\ Head(inbox).finished
    /\ inbox' = Tail(inbox)
    /\ active' = active - 1
    /\ dpc' = IF active = 1 THEN "join" ELSE "get"
    /\ UNCHANGED <<seed, cursor, held, queue, solverVars, result, log>>

GetChange ==
    /\ dpc = "get" /\ inbox # <<>> /\ ~Head(inbox).finished
    /\ inbox' = Tail(inbox)
    /\ held' = Head(inbox)
    /\ log' = Append(log, Head(inbox))
    /\ dpc' = "relay"
    /\ UNCHANGED <<seed, cursor, active, queue, solverVars, result>>

\* A bug that skips the solvers that are not in their loop yet.
RelayToStarted ==
    /\ dpc = "relay"
    /\ queue' = [queue EXCEPT ![cursor] =
                    IF pc[cursor] = "setup" THEN @ ELSE Append(@, held)]
    /\ Advance("get")
    /\ UNCHANGED <<seed, active, held, inbox, solverVars, result, log>>

Relay ==
    /\ dpc = "relay"
    /\ queue' = [queue EXCEPT ![cursor] = Append(@, held)]
    /\ Advance("get")
    /\ UNCHANGED <<seed, active, held, inbox, solverVars, result, log>>

Join ==
    /\ dpc = "join"
    /\ pc[cursor] = "exit"
    /\ Advance("exit")
    /\ UNCHANGED <<seed, active, held, inbox, queue, solverVars, result, log>>

\* dispatcher.join() and get_best_solution(), which asks the first solver.
MainJoin ==
    /\ dpc = "exit" /\ result = <<>>
    /\ result' = <<rep[1].best>>
    /\ UNCHANGED <<seed, dispatcherVars, inbox, queue, solverVars, log>>

-----------------------------------------------------------------------------
(* The solvers *)

\* routemin, then the part of parallel_coreopt before its loop.
Setup(s) ==
    /\ pc[s] = "setup"
    /\ pc' = [pc EXCEPT ![s] = "sync"]
    /\ work' = [work EXCEPT ![s] = Settled(StartSolution(SharedSeed(s)))]
    /\ rep' = [rep EXCEPT ![s] = StartRep(SharedSeed(s))]
    /\ ref' = [ref EXCEPT ![s] = StartSolution(SharedSeed(s))]
    /\ UNCHANGED <<seed, dispatcherVars, inbox, queue, left, at, result, log>>

\* A bug that reads one message more than the size just taken.
SnapshotOneMore(s) ==
    /\ pc[s] = "sync"
    /\ left' = [left EXCEPT ![s] = Len(queue[s]) + 1]
    /\ pc' = [pc EXCEPT ![s] = "drain"]
    /\ UNCHANGED <<seed, dispatcherVars, inbox, queue, work, rep, ref, at, result, log>>

Snapshot(s) ==
    /\ pc[s] = "sync"
    /\ left' = [left EXCEPT ![s] = Len(queue[s])]
    /\ pc' = [pc EXCEPT ![s] = "drain"]
    /\ UNCHANGED <<seed, dispatcherVars, inbox, queue, work, rep, ref, at, result, log>>

\* A bug that applies a message without taking back the last change first.
RunWithoutUndo(s) == Evaluate(work[s].sol, Head(queue[s]).change)

\* The evaluation of the oldest message on the restored reference; the steps
\* bind its value as \E run \in {Run(s)}.
Run(s) == Evaluate(Reference(s), Head(queue[s]).change)

IsLast(s) == rep[s].iter + 1 = MaxIter

\* get() waits while the queue is empty.
Receive(s) ==
    /\ pc[s] = "drain" /\ left[s] > 0 /\ queue[s] # <<>>
    /\ left' = [left EXCEPT ![s] = @ - 1]
    /\ queue' = [queue EXCEPT ![s] = Tail(@)]
    /\ at' = [at EXCEPT ![s] = @ + 1]
    /\ UNCHANGED <<seed, dispatcherVars, result, log>>

\* A bug that leaves the part of an infeasible change that was applied.
DiscardWithoutUndo(s) ==
    /\ Receive(s)
    /\ \E run \in {Run(s)} :
        /\ ~run.ok
        /\ work' = [work EXCEPT ![s] = Settled(run.sol)]
        /\ UNCHANGED <<pc, rep, ref, inbox>>

\* The change does not fit the reference any more: undo_and_continue.
Discard(s) ==
    /\ Receive(s)
    /\ \E run \in {Run(s)} :
        /\ ~run.ok
        /\ work' = [work EXCEPT ![s] = Settled(Rewind(run.sol, run.undo))]
        /\ UNCHANGED <<pc, rep, ref, inbox>>

\* A feasible change, accepted as the next reference or kept until undone.
Adopt(s) ==
    /\ Receive(s)
    /\ \E run \in {Run(s)}, m \in {Head(queue[s])} :
        LET taken == AcceptedBy(rep[s], m, run)
        IN  /\ run.ok /\ ~IsLast(s)
            /\ rep' = [rep EXCEPT ![s] = Annealed(@, m, run)]
            /\ work' = [work EXCEPT ![s] = IF taken THEN Settled(run.sol)
                                           ELSE Tentative(run)]
            /\ ref' = [ref EXCEPT ![s] = IF taken THEN run.sol ELSE @]
            /\ UNCHANGED <<pc, inbox>>

\* The last change: only the best solution is updated.
Finish(s) ==
    /\ Receive(s)
    /\ \E run \in {Run(s)} :
        /\ run.ok /\ IsLast(s)
        /\ rep' = [rep EXCEPT ![s] = Counted(@, run)]
        /\ work' = [work EXCEPT ![s] = Tentative(run)]
        /\ inbox' = Append(inbox, Finished)
        /\ pc' = [pc EXCEPT ![s] = "exit"]
        /\ UNCHANGED ref

\* Ruin, recreate and local search on the reference, offered to the dispatcher.
Generate(s) ==
    /\ pc[s] = "drain" /\ left[s] = 0
    /\ Len(inbox) < MaxInbox
    /\ \E base \in {Reference(s)} :
       \E sc \in Customers :
       \E c \in Candidates(base, sc, WalkLength(rep[s].omega[sc])) :
       \E run \in {Evaluate(base, c)} :
          /\ work' = [work EXCEPT ![s] = Tentative(run)]
          /\ inbox' = Append(inbox,
                          [finished |-> FALSE,
                           change   |-> c,
                           omega    |-> rep[s].omega[sc],
                           cost     |-> Cost(run.sol),
                           grade    |-> Grade(Cost(run.sol), rep[s].refcost, base)])
    /\ pc' = [pc EXCEPT ![s] = "sync"]
    /\ UNCHANGED <<seed, dispatcherVars, queue, left, rep, ref, at, result, log>>

-----------------------------------------------------------------------------
Dispatch == Spawn \/ GetFinished \/ GetChange \/ Relay \/ Join

Solve(s) == \/ Setup(s) \/ Snapshot(s) \/ Generate(s)
            \/ Discard(s) \/ Adopt(s) \/ Finish(s)

\* The program has ended.
Ended == result # <<>> /\ UNCHANGED vars

Next == Dispatch \/ MainJoin \/ (\E s \in Solvers : Solve(s)) \/ Ended

Spec == Init /\ [][Next]_vars

\* Threads run; get() wakes up when there is a message (SharedQueue).
Fairness == /\ WF_vars(Dispatch)
            /\ WF_vars(MainJoin)
            /\ \A s \in Solvers : WF_vars(Solve(s))

FairSpec == Spec /\ Fairness

-----------------------------------------------------------------------------
(* Properties *)

Running(s) == pc[s] \notin {"unborn", "setup"}

\* What the threads of the dispatcher still has to hand to a solver.
Pending(s) == IF dpc = "relay" /\ cursor <= s THEN <<held>> ELSE <<>>

\* Every solver receives every message in one order, the order of the
\* dispatcher's get() (Dispatcher.cpp 24-32), although the relay takes a step
\* for each solver and the solvers read their queues meanwhile.
TotalOrder ==
    \A s \in Solvers :
        queue[s] \o Pending(s) = SubSeq(log, at[s] + 1, Len(log))

\* Solvers that have processed equally many messages have equal reference
\* solutions, best solutions, do_list2 and search parameters: the solvers
\* never exchange them (SolverCoreopt.cpp 169-366), so nothing else makes a
\* change generated by one of them meaningful to the others.
Agreement ==
    \A s, t \in Solvers :
        Running(s) /\ Running(t) /\ at[s] = at[t]
            => rep[s] = rep[t] /\ ref[s] = ref[t]

\* undo_list1 takes Solver::solution back to the reference, whatever the last
\* change was, how far it was applied and what became of it: the asserted
\* feasibility of SolverCoreopt.cpp 175, 362 and 375, and more.
UndoRestoresReference == \A s \in Solvers : Reference(s) = ref[s]

\* do_list2 leads from the best solution to the reference, action by action
\* applicable (the asserts of Solution.hpp 908-914), reference_solution_cost
\* is the cost of the reference and the best solution costs at most as much.
BestReplaysToReference ==
    \A s \in Solvers : Running(s) =>
        LET replay == RunActions(Untouched(rep[s].best), rep[s].do2)
        IN  /\ rep[s].best \in Solutions
            /\ pc[s] # "exit" =>
                /\ replay.ok /\ replay.sol = ref[s]
                /\ rep[s].refcost = Cost(ref[s])
                /\ Cost(rep[s].best) <= rep[s].refcost

\* The best solution, rebuilt from do_list2 and do_list1, becomes exactly the
\* solution just evaluated (the assert of SolverCoreopt.cpp 261) and a
\* cheaper one.
BestIsTheEvaluated ==
    [][\A s \in Solvers : Running(s) /\ rep'[s].best # rep[s].best =>
            /\ rep'[s].best = Run(s).sol
            /\ Cost(rep'[s].best) < Cost(rep[s].best)]_vars

\* A solver that took a snapshot of its queue size finds that many messages,
\* so the get() of line 177 never waits (comment of SolverCoreopt.cpp 164).
SnapshotNeverBlocks ==
    \A s \in Solvers : pc[s] = "drain" => left[s] <= Len(queue[s])

\* active_solvers counts the solvers that run or whose termination message
\* is on its way, so the dispatcher leaves its loop with an empty queue
\* (Dispatcher.cpp 23-32): no message of a solver comes after its last.
ActiveCount ==
    active = Cardinality({s \in Solvers : pc[s] # "exit"})
             + Cardinality({k \in DOMAIN inbox : inbox[k].finished})

NothingUnread == dpc \in {"join", "exit"} => inbox = <<>>

\* A change takes part in the search only if it does something: "We are not
\* expecting empty changes" (SolverCoreopt.cpp 183-184).
NoEmptyChange ==
    \A s \in Solvers : \A k \in 1..Len(queue[s]) :
        LET c == queue[s][k].change
        IN  c.ruin \o c.recreate \o c.localsearch # <<>>

\* "Candidate coreopt changes organized into a min heap" (Dispatcher.hpp 60):
\* the change the dispatcher takes next costs no more than one that waits.
CheapestFirst ==
    dpc = "get" =>
        \A k \in 1..Len(inbox) :
            ~inbox[1].finished /\ ~inbox[k].finished => inbox[1].cost <= inbox[k].cost

\* The best solution of the first solver (Dispatcher.hpp 29-31), which main
\* reports, is the best solution of all: the solvers stop at one message.
ResultIsShared ==
    result # <<>> =>
        \A s \in Solvers : /\ pc[s] = "exit"
                           /\ at[s] = at[1]
                           /\ rep[s].best = result[1]

\* A walk length never becomes negative, however often it is lowered.
OmegaNonNegative ==
    \A s \in Solvers : Running(s) => \A v \in Vertices : rep[s].omega[v] >= 0

\* The program ends: no schedule keeps the solvers from completing their
\* iterations with changes that are stale for the others.
Termination == <>(result # <<>>)

-----------------------------------------------------------------------------
(* The solvers are replicas of one sequential search. *)

SearchState(s) ==
    IF Running(s)
    THEN [ref |-> ref[s], best |-> rep[s].best, iter |-> rep[s].iter,
          srnd |-> rep[s].srnd, coolings |-> rep[s].coolings,
          omega |-> rep[s].omega, gamma |-> rep[s].gamma,
          counter |-> rep[s].counter, seen |-> rep[s].seen]
    ELSE StartOf(seed)

Replicas == INSTANCE ReplicatedSearch
    WITH Replicas <- Solvers, Messages <- Message, Starts <- SearchStarts,
         Step <- SearchStep, Halted <- SearchHalted,
         state <- [s \in Solvers |-> SearchState(s)]

\* do_list1, undo_list1 and do_list2 implement plain assignments: a message
\* takes every solver from one state of the search to the next.
ImplementsReplicatedSearch == Replicas!Spec
=============================================================================
