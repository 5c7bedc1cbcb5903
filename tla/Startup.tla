------------------------------ MODULE Startup ------------------------------
(***************************************************************************)
(* How the threads come up.  A Dispatcher starts its thread from the       *)
(* initialiser list (filo2x/Dispatcher.cpp:6), and so does each Solver     *)
(* (filo2x/Solver.cpp:21).  In both classes the member thread is declared  *)
(* before coreopt_queue (Dispatcher.hpp:58-61, Solver.hpp:81-84), and      *)
(* members are initialised in the order of their declarations: the new     *)
(* thread runs while the queue of its object is not constructed yet.       *)
(* Coreopt starts where all queues exist; this module is about before.     *)
(***************************************************************************)
EXTENDS Naturals, Sequences, SequencesExt

CONSTANT SolversNum  (* params.get_solvers_num() *)

Solvers == 1..SolversNum
Dispatcher == 0

VARIABLES
    main,     (* where the constructor of the dispatcher is, run by main *)
    dpc,      (* where the dispatcher thread is *)
    spawned,  (* the solver it has constructed last or is constructing *)
    pc,       (* where each solver thread is *)
    built,    (* the objects whose coreopt_queue is constructed *)
    queue,    (* the queue of each object, once it is constructed *)
    crashed,  (* a thread ran into the members of a queue that does not exist *)
    offered,  (* history: the solvers that have offered a change *)
    relayed   (* history: the changes the dispatcher took, as their authors *)

vars == <<main, dpc, spawned, pc, built, queue, crashed, offered, relayed>>

Init ==
    /\ main = "thread"
    /\ dpc = "unborn"
    /\ spawned = 0
    /\ pc = [s \in Solvers |-> "unborn"]
    /\ built = {}
    /\ queue = [o \in Solvers \cup {Dispatcher} |-> <<>>]
    /\ crashed = FALSE
    /\ offered = {}
    /\ relayed = {}

\* The dispatcher's constructor, in the main thread: the thread starts first.
StartDispatcher ==
    /\ main = "thread"
    /\ main' = "queue"
    /\ dpc' = "spawn"
    /\ UNCHANGED <<spawned, pc, built, queue, crashed, offered, relayed>>

\* A default constructor gives an empty list, whatever was there before.
ConstructDispatcherQueue ==
    /\ main = "queue"
    /\ main' = "join"
    /\ built' = built \cup {Dispatcher}
    /\ queue' = [queue EXCEPT ![Dispatcher] = <<>>]
    /\ UNCHANGED <<dpc, spawned, pc, crashed, offered, relayed>>

\* The constructor of the next solver, in the dispatcher thread.
StartSolver ==
    /\ dpc = "spawn"
    /\ spawned < SolversNum
    /\ spawned' = spawned + 1
    /\ pc' = [pc EXCEPT ![spawned + 1] = "setup"]
    /\ dpc' = "construct"
    /\ UNCHANGED <<main, built, queue, crashed, offered, relayed>>

ConstructSolverQueue ==
    /\ dpc = "construct"
    /\ built' = built \cup {spawned}
    /\ queue' = [queue EXCEPT ![spawned] = <<>>]
    /\ dpc' = IF spawned = SolversNum THEN "get" ELSE "spawn"
    /\ UNCHANGED <<main, spawned, pc, crashed, offered, relayed>>

-----------------------------------------------------------------------------
(* What a thread meets at a queue that is not constructed is undefined: the *)
(* program may crash, or the memory passes for an idle mutex and an empty   *)
(* list, on which a push leaves an entry that the constructor wipes out.    *)

Crash == crashed' = TRUE /\ UNCHANGED queue

Push(o, m) ==
    \/ o \notin built /\ Crash
    \/ queue' = [queue EXCEPT ![o] = Append(@, m)] /\ UNCHANGED crashed

\* broadcast_coreopt: one push for each solver; all of them are constructed.
Broadcast(m) ==
    queue' = [o \in DOMAIN queue |->
                IF o = Dispatcher THEN Tail(queue[o]) ELSE Append(queue[o], m)]

\* get and broadcast.
GetAndRelay ==
    /\ dpc = "get"
    /\ \/ Dispatcher \notin built /\ Crash /\ UNCHANGED relayed
       \/ /\ queue[Dispatcher] # <<>>
          /\ relayed' = relayed \cup {Head(queue[Dispatcher])}
          /\ Broadcast(Head(queue[Dispatcher]))
          /\ UNCHANGED crashed
    /\ UNCHANGED <<main, dpc, spawned, pc, built, offered>>

\* A solver builds its data and enters the loop of parallel_coreopt, where it
\* asks for the size of its own queue before anything else.
Sync(s) ==
    /\ pc[s] = "setup"
    /\ \/ s \notin built /\ Crash
       \/ UNCHANGED <<queue, crashed>>
    /\ pc' = [pc EXCEPT ![s] = "offer"]
    /\ UNCHANGED <<main, dpc, spawned, built, offered, relayed>>

\* offer_coreopt_msg; one change for each solver is enough here.
Offer(s) ==
    /\ pc[s] = "offer"
    /\ Push(Dispatcher, s)
    /\ offered' = offered \cup {s}
    /\ pc' = [pc EXCEPT ![s] = "offered"]
    /\ UNCHANGED <<main, dpc, spawned, built, relayed>>

Next ==
    /\ ~crashed
    /\ \/ StartDispatcher \/ ConstructDispatcherQueue
       \/ StartSolver \/ ConstructSolverQueue \/ GetAndRelay
       \/ \E s \in Solvers : Sync(s) \/ Offer(s)

Spec == Init /\ [][Next]_vars

-----------------------------------------------------------------------------
\* "Dispatcher thread. Simply relays messages to solvers." (Dispatcher.hpp:15):
\* a change that a solver has offered waits for the dispatcher or was taken and
\* sent to the solvers, in every run that does not crash.  A change that
\* meets the queue before its constructor is lost without a trace.
OffersAreRelayed ==
    ~crashed => offered = relayed \cup ToSet(queue[Dispatcher])
=============================================================================
