--------------------------- MODULE Coreopt_proofs ---------------------------
(***************************************************************************)
(* Coreopt for any number of solvers, any iterations and any solutions     *)
(* that satisfy the assumptions of CoreoptStep.  First types, the order of *)
(* the messages, and that the undo lists keep every reference solution.    *)
(* Then the one search behind all solvers: they agree, end at the same     *)
(* message and find what main gets from the first of them; the dispatcher  *)
(* counts right and leaves its loop with nothing to read.  Last, the lists *)
(* of a solver do what assignments would do: the best solution that is     *)
(* rebuilt from do_list2 and do_list1 is the one just evaluated, and the   *)
(* solvers implement ReplicatedSearch, whose replicas agree.               *)
(***************************************************************************)
EXTENDS Coreopt, FiniteSetTheorems, FunctionTheorems, SequenceTheorems, TLAPS

USE CoreoptAssumption DEF Solvers

-----------------------------------------------------------------------------
(* Facts about the data *)

\* The oldest message of a queue and the rest of it.
LEMMA TakeFacts ==
    ASSUME NEW S, NEW q \in Seq(S), q # <<>>
    PROVE  /\ Head(q) \in S /\ Tail(q) \in Seq(S)
           /\ Len(q) > 0 /\ Len(Tail(q)) = Len(q) - 1
OBVIOUS

\* A message that is not the last of a solver carries a change.
LEMMA MessageFacts ==
    ASSUME NEW m \in Message
    PROVE  m.finished = FALSE /\ m.change \in Changes
BY DEF Message

\* SolutionAssumption, of one solution and one change.
LEMMA EvaluateFacts ==
    ASSUME NEW sol \in Solutions, NEW c \in Changes
    PROVE  LET run == Evaluate(sol, c)
           IN  /\ run.do \in Seq(Actions) /\ run.undo \in Seq(Actions)
               /\ Rewind(run.sol, run.undo) = sol
               /\ run.ok => run.sol \in Solutions
<1>1. PICK run \in {Evaluate(sol, c)} :
          /\ run.do \in Seq(Actions) /\ run.undo \in Seq(Actions)
          /\ Rewind(run.sol, run.undo) = sol
          /\ run.ok => run.sol \in Solutions
  BY SolutionAssumption DEF SolutionAssumption
<1> QED
  BY <1>1

\* A solution with empty lists is its own reference.
LEMMA SettledFacts ==
    ASSUME NEW sol \in Solutions
    PROVE  /\ Settled(sol) \in WorkType
           /\ Rewind(Settled(sol).sol, Settled(sol).undo) = sol
BY SolutionAssumption DEF Settled, WorkType, SolutionAssumption

\* Shaking keeps the walk lengths integers.
LEMMA ShakeType ==
    ASSUME NEW omega \in [Vertices -> Int], NEW ruined, NEW m \in Message, NEW srnd
    PROVE  Shake(omega, ruined, m, srnd) \in [Vertices -> Int]
BY DEF Shake, Lowered, Raised

-----------------------------------------------------------------------------
(* The inductive invariant behind the types *)

\* While the dispatcher may still wait for termination messages, one is due.
\* What it relays is a message.
DispatcherTyped ==
    /\ dpc \in {"spawn", "get", "relay"} => active > 0
    /\ dpc = "relay" => held \in Message

\* The walk lengths are integers once a solver has set its search up.
OmegaTyped ==
    /\ DOMAIN rep = Solvers
    /\ \A s \in Solvers : Running(s) => /\ "omega" \in DOMAIN rep[s]
                                       /\ rep[s].omega \in [Vertices -> Int]

Typed == TypeOK /\ DispatcherTyped /\ OmegaTyped /\ UndoRestoresReference

\* The initial state is well typed.
LEMMA InitTyped == Init => Typed
<1> SUFFICES ASSUME Init PROVE Typed
  OBVIOUS
<1>1. Settled(SavingsSolution) \in WorkType
  BY SettledFacts
<1>2. TypeOK
  BY <1>1 DEF Init, TypeOK
<1>3. DispatcherTyped /\ OmegaTyped
  BY DEF Init, DispatcherTyped, OmegaTyped, Running
<1>4. UndoRestoresReference
  BY SettledFacts DEF Init, UndoRestoresReference, Reference
<1> QED
  BY <1>2, <1>3, <1>4 DEF Typed

\* The dispatcher's steps, which touch no search.
LEMMA AdvanceTyped ==
    ASSUME TypeOK, NEW then, Advance(then), then \in {"get", "join", "exit"}
    PROVE  /\ cursor' \in 1..SolversNum
           /\ dpc' \in {dpc, then}
<1>1. CASE cursor < SolversNum
  <2>1. cursor \in 1..SolversNum /\ cursor' = cursor + 1 /\ dpc' = dpc
    BY <1>1 DEF TypeOK, Advance
  <2> QED
    BY <1>1, <2>1
<1>2. CASE ~(cursor < SolversNum)
  BY <1>2 DEF Advance
<1> QED
  BY <1>1, <1>2

\* The dispatcher starts a solver.
LEMMA SpawnTyped == Typed /\ Spawn => Typed'
<1> SUFFICES ASSUME Typed, Spawn PROVE Typed'
  OBVIOUS
<1>1. cursor' \in 1..SolversNum /\ dpc' \in {"spawn", "get"}
  BY AdvanceTyped DEF Typed, Spawn
<1>2. TypeOK'
  BY <1>1 DEF Typed, TypeOK, Spawn
<1>3. DispatcherTyped'
  BY <1>1 DEF Typed, TypeOK, DispatcherTyped, Spawn
<1>4. OmegaTyped'
  BY DEF Typed, TypeOK, OmegaTyped, Running, Spawn
<1>5. UndoRestoresReference'
  BY DEF Typed, UndoRestoresReference, Reference, Spawn
<1> QED
  BY <1>2, <1>3, <1>4, <1>5 DEF Typed

\* The dispatcher takes a message from its queue.
LEMMA GetTyped == Typed /\ (GetFinished \/ GetChange) => Typed'
<1> SUFFICES ASSUME Typed, GetFinished \/ GetChange PROVE Typed'
  OBVIOUS
<1>1. inbox' \in Seq(Message \cup {Finished})
  <2>1. inbox \in Seq(Message \cup {Finished}) /\ inbox # <<>> /\ inbox' = Tail(inbox)
    BY DEF Typed, TypeOK, GetFinished, GetChange
  <2> QED
    BY <2>1, TakeFacts
<1>2. CASE GetFinished
  <2>1. active' \in 0..SolversNum /\ dpc' \in {"get", "join"}
    <3>1. active \in 0..SolversNum /\ active > 0 /\ active' = active - 1
      BY <1>2 DEF Typed, TypeOK, DispatcherTyped, GetFinished
    <3> QED
      BY <1>2, <3>1 DEF GetFinished
  <2>2. TypeOK'
    <3>1. /\ UNCHANGED <<seed, cursor, held, queue, log>>
          /\ UNCHANGED <<pc, left, work, ref, at>>
      BY <1>2 DEF GetFinished, solverVars
    <3> QED
      BY <1>1, <2>1, <3>1 DEF Typed, TypeOK
  <2>3. DispatcherTyped'
    BY <1>2 DEF Typed, TypeOK, DispatcherTyped, GetFinished
  <2>4. OmegaTyped' /\ UndoRestoresReference'
    BY <1>2 DEF Typed, OmegaTyped, Running, UndoRestoresReference, Reference, GetFinished,
                solverVars
  <2> QED
    BY <2>2, <2>3, <2>4 DEF Typed
<1>3. CASE GetChange
  <2>1. Head(inbox) \in Message
    BY <1>3, TakeFacts DEF Typed, TypeOK, GetChange, Finished
  <2>2. log' \in Seq(Message)
    BY <1>3, <2>1 DEF Typed, TypeOK, GetChange
  <2>3. TypeOK'
    BY <1>1, <1>3, <2>1, <2>2 DEF Typed, TypeOK, GetChange, solverVars
  <2>4. DispatcherTyped'
    BY <1>3, <2>1 DEF Typed, DispatcherTyped, GetChange
  <2>5. OmegaTyped' /\ UndoRestoresReference'
    BY <1>3 DEF Typed, OmegaTyped, Running, UndoRestoresReference, Reference, GetChange,
                solverVars
  <2> QED
    BY <2>3, <2>4, <2>5 DEF Typed
<1> QED
  BY <1>2, <1>3

\* The dispatcher hands a message to a solver.
LEMMA RelayTyped == Typed /\ Relay => Typed'
<1> SUFFICES ASSUME Typed, Relay PROVE Typed'
  OBVIOUS
<1>1. cursor' \in 1..SolversNum /\ dpc' \in {"relay", "get"}
  BY AdvanceTyped DEF Typed, Relay
<1>2. Append(queue[cursor], held) \in Seq(Message)
  BY DEF Typed, TypeOK, DispatcherTyped, Relay
<1>3. queue' \in [Solvers -> Seq(Message)]
  BY <1>2 DEF Typed, TypeOK, Relay
<1>4. TypeOK'
  BY <1>1, <1>3 DEF Typed, TypeOK, Relay, solverVars
<1>5. DispatcherTyped'
  BY <1>1 DEF Typed, DispatcherTyped, Relay
<1>6. OmegaTyped' /\ UndoRestoresReference'
  BY DEF Typed, OmegaTyped, Running, UndoRestoresReference, Reference, Relay, solverVars
<1> QED
  BY <1>4, <1>5, <1>6 DEF Typed

\* The dispatcher joins a solver, main joins the dispatcher.
LEMMA JoinTyped == Typed /\ (Join \/ MainJoin) => Typed'
<1> SUFFICES ASSUME Typed, Join \/ MainJoin PROVE Typed'
  OBVIOUS
<1>1. CASE Join
  <2>1. cursor' \in 1..SolversNum /\ dpc' \in {"join", "exit"}
    BY <1>1, AdvanceTyped DEF Typed, Join
  <2>2. TypeOK'
    BY <1>1, <2>1 DEF Typed, TypeOK, Join, solverVars
  <2>3. DispatcherTyped'
    BY <1>1, <2>1 DEF Typed, DispatcherTyped, Join
  <2>4. OmegaTyped' /\ UndoRestoresReference'
    BY <1>1 DEF Typed, OmegaTyped, Running, UndoRestoresReference, Reference, Join, solverVars
  <2> QED
    BY <2>2, <2>3, <2>4 DEF Typed
<1>2. CASE MainJoin
  <2>1. TypeOK'
    BY <1>2 DEF Typed, TypeOK, MainJoin, dispatcherVars, solverVars
  <2>2. DispatcherTyped'
    BY <1>2 DEF Typed, DispatcherTyped, MainJoin, dispatcherVars
  <2>3. OmegaTyped' /\ UndoRestoresReference'
    BY <1>2 DEF Typed, OmegaTyped, Running, UndoRestoresReference, Reference, MainJoin,
                solverVars
  <2> QED
    BY <2>1, <2>2, <2>3 DEF Typed
<1> QED
  BY <1>1, <1>2

\* The solvers' steps.

\* A solver starts its search with the solution that routemin left.
LEMMA SetupTyped == ASSUME NEW s \in Solvers PROVE Typed /\ Setup(s) => Typed'
<1> SUFFICES ASSUME Typed, Setup(s) PROVE Typed'
  OBVIOUS
<1> DEFINE start == StartSolution(SharedSeed(s))
<1>1. start \in Solutions
  BY StartAssumption DEF Typed, TypeOK, SharedSeed
<1>2. Settled(start) \in WorkType /\ Rewind(Settled(start).sol, Settled(start).undo) = start
  BY <1>1, SettledFacts
<1>3. work' = [work EXCEPT ![s] = Settled(start)] /\ ref' = [ref EXCEPT ![s] = start]
  BY DEF Setup
<1> HIDE DEF start
<1>4. TypeOK'
  <2>1. work' \in [Solvers -> WorkType] /\ ref' \in [Solvers -> Solutions]
    BY <1>1, <1>2, <1>3 DEF Typed, TypeOK
  <2>2. pc' \in [Solvers -> {"unborn", "setup", "sync", "drain", "exit"}]
    BY DEF Typed, TypeOK, Setup
  <2> QED
    BY <2>1, <2>2 DEF Typed, TypeOK, Setup, dispatcherVars
<1>5. DispatcherTyped'
  BY DEF Typed, DispatcherTyped, Setup, dispatcherVars
<1>6. OmegaTyped'
  <2>1. /\ "omega" \in DOMAIN StartRep(SharedSeed(s))
        /\ StartRep(SharedSeed(s)).omega = [v \in Vertices |-> OmegaBase]
    BY DEF StartRep, StartOf
  <2>2. OmegaBase \in Int
    BY SolutionAssumption DEF SolutionAssumption
  <2>3. StartRep(SharedSeed(s)).omega \in [Vertices -> Int]
    BY <2>1, <2>2
  <2>4. /\ DOMAIN rep = Solvers /\ rep' = [rep EXCEPT ![s] = StartRep(SharedSeed(s))]
        /\ pc \in [Solvers -> {"unborn", "setup", "sync", "drain", "exit"}]
        /\ pc' = [pc EXCEPT ![s] = "sync"]
    BY DEF Typed, TypeOK, OmegaTyped, Setup
  <2>5. rep'[s] = StartRep(SharedSeed(s))
    BY <2>4
  <2>6. \A t \in Solvers : t # s => rep'[t] = rep[t] /\ pc'[t] = pc[t]
    BY <2>4
  <2> QED
    BY <2>1, <2>3, <2>4, <2>5, <2>6 DEF Typed, OmegaTyped, Running
<1>7. UndoRestoresReference'
  BY <1>2, <1>3 DEF Typed, TypeOK, UndoRestoresReference, Reference
<1> QED
  BY <1>4, <1>5, <1>6, <1>7 DEF Typed

\* A solver reads the size of its queue.
LEMMA SnapshotTyped == ASSUME NEW s \in Solvers PROVE Typed /\ Snapshot(s) => Typed'
<1> SUFFICES ASSUME Typed, Snapshot(s) PROVE Typed'
  OBVIOUS
<1>1. Len(queue[s]) \in Nat
  BY DEF Typed, TypeOK
<1>2. TypeOK'
  BY <1>1 DEF Typed, TypeOK, Snapshot, dispatcherVars
<1>3. DispatcherTyped' /\ OmegaTyped' /\ UndoRestoresReference'
  BY DEF Typed, TypeOK, DispatcherTyped, OmegaTyped, Running, UndoRestoresReference, Reference,
         Snapshot, dispatcherVars
<1> QED
  BY <1>2, <1>3 DEF Typed

\* The message a solver takes and its evaluation on the reference solution.
LEMMA RunFacts ==
    ASSUME Typed, NEW s \in Solvers, queue[s] # <<>>
    PROVE  /\ Head(queue[s]) \in Message /\ Tail(queue[s]) \in Seq(Message)
           /\ Run(s) = Evaluate(ref[s], Head(queue[s]).change)
           /\ Run(s).do \in Seq(Actions) /\ Run(s).undo \in Seq(Actions)
           /\ Rewind(Run(s).sol, Run(s).undo) = ref[s]
           /\ Run(s).ok => Run(s).sol \in Solutions
           /\ ref[s] \in Solutions
<1>1. Head(queue[s]) \in Message /\ Tail(queue[s]) \in Seq(Message)
  <2>1. queue[s] \in Seq(Message)
    BY DEF Typed, TypeOK
  <2> QED
    BY <2>1, TakeFacts
<1>2. ref[s] \in Solutions /\ Reference(s) = ref[s]
  BY DEF Typed, TypeOK, UndoRestoresReference
<1>3. Head(queue[s]).change \in Changes
  BY <1>1, MessageFacts
<1> QED
  BY <1>1, <1>2, <1>3, EvaluateFacts DEF Run

\* What the three ways to deal with a message have in common.
LEMMA ReceiveTyped ==
    ASSUME Typed, NEW s \in Solvers, Receive(s)
    PROVE  /\ left' \in [Solvers -> Nat]
           /\ queue' \in [Solvers -> Seq(Message)]
           /\ at' \in [Solvers -> Nat]
           /\ UNCHANGED <<seed, dispatcherVars, result, log>>
<1>1. Tail(queue[s]) \in Seq(Message)
  BY RunFacts DEF Receive
<1>2. left[s] - 1 \in Nat /\ at[s] + 1 \in Nat
  <2>1. left[s] \in Nat /\ at[s] \in Nat
    BY DEF Typed, TypeOK
  <2>2. left[s] > 0
    BY DEF Receive
  <2> QED
    BY <2>1, <2>2
<1>3. /\ left' = [left EXCEPT ![s] = @ - 1] /\ queue' = [queue EXCEPT ![s] = Tail(@)]
      /\ at' = [at EXCEPT ![s] = @ + 1] /\ UNCHANGED <<seed, dispatcherVars, result, log>>
  BY DEF Receive
<1>4. left' \in [Solvers -> Nat] /\ at' \in [Solvers -> Nat]
  <2>1. left \in [Solvers -> Nat] /\ at \in [Solvers -> Nat]
    BY DEF Typed, TypeOK
  <2>2. left' \in [Solvers -> Nat]
    BY <1>2, <1>3, <2>1
  <2>3. at' \in [Solvers -> Nat]
    BY <1>2, <1>3, <2>1
  <2> QED
    BY <2>2, <2>3
<1>5. queue' \in [Solvers -> Seq(Message)]
  BY <1>1, <1>3 DEF Typed, TypeOK
<1> QED
  BY <1>3, <1>4, <1>5

\* A change that fails on the way is undone.
LEMMA DiscardTyped == ASSUME NEW s \in Solvers PROVE Typed /\ Discard(s) => Typed'
<1> SUFFICES ASSUME Typed, Discard(s) PROVE Typed'
  OBVIOUS
<1>1. /\ Receive(s) /\ UNCHANGED <<pc, rep, ref, inbox>>
      /\ work' = [work EXCEPT ![s] = Settled(Rewind(Run(s).sol, Run(s).undo))]
  BY DEF Discard
<1>2. work' = [work EXCEPT ![s] = Settled(ref[s])] /\ ref[s] \in Solutions
  BY <1>1, RunFacts DEF Receive
<1>3. /\ Settled(ref[s]) \in WorkType
      /\ Rewind(Settled(ref[s]).sol, Settled(ref[s]).undo) = ref[s]
  BY <1>2, SettledFacts
<1>4. TypeOK'
  <2>1. /\ left' \in [Solvers -> Nat] /\ queue' \in [Solvers -> Seq(Message)]
        /\ at' \in [Solvers -> Nat] /\ UNCHANGED <<seed, dpc, cursor, active, held, log>>
    BY <1>1, ReceiveTyped DEF dispatcherVars
  <2>2. work' \in [Solvers -> WorkType] /\ UNCHANGED <<pc, ref, inbox>>
    BY <1>1, <1>2, <1>3 DEF Typed, TypeOK
  <2> QED
    BY <2>1, <2>2 DEF Typed, TypeOK
<1>5. DispatcherTyped' /\ OmegaTyped'
  BY <1>1, ReceiveTyped DEF Typed, DispatcherTyped, OmegaTyped, Running, dispatcherVars
<1>6. UndoRestoresReference'
  BY <1>1, <1>2, <1>3 DEF Typed, TypeOK, UndoRestoresReference, Reference
<1> QED
  BY <1>4, <1>5, <1>6 DEF Typed

\* The parameters after an iteration, of which only omega is typed.
LEMMA IterationTyped ==
    ASSUME NEW x, "omega" \in DOMAIN x, x.omega \in [Vertices -> Int],
           NEW m \in Message, NEW run
    PROVE  /\ "omega" \in DOMAIN Counted(x, run)
           /\ Counted(x, run).omega \in [Vertices -> Int]
           /\ "omega" \in DOMAIN Annealed(x, m, run)
           /\ Annealed(x, m, run).omega \in [Vertices -> Int]
<1>1. /\ "omega" \in DOMAIN Counted(x, run)
      /\ Counted(x, run).omega = x.omega
  BY DEF Counted
<1>2. Shake(x.omega, run.ruined, m, x.srnd) \in [Vertices -> Int]
  BY ShakeType
<1>3. /\ "omega" \in DOMAIN Annealed(x, m, run)
      /\ Annealed(x, m, run).omega = Shake(x.omega, run.ruined, m, x.srnd)
  BY <1>1 DEF Annealed
<1> QED
  BY <1>1, <1>2, <1>3

\* A solution with the lists of an evaluation still leads to its reference.
LEMMA TentativeFacts ==
    ASSUME NEW sol \in Solutions, NEW run, run.sol \in Solutions,
           run.do \in Seq(Actions), run.undo \in Seq(Actions),
           Rewind(run.sol, run.undo) = sol
    PROVE  /\ Tentative(run) \in WorkType
           /\ Rewind(Tentative(run).sol, Tentative(run).undo) = sol
BY DEF Tentative, WorkType

\* A feasible change is evaluated and perhaps becomes the reference.
LEMMA AdoptTyped == ASSUME NEW s \in Solvers PROVE Typed /\ Adopt(s) => Typed'
<1> SUFFICES ASSUME Typed, Adopt(s) PROVE Typed'
  OBVIOUS
<1> DEFINE m == Head(queue[s])
           run == Run(s)
           taken == AcceptedBy(rep[s], m, run)
           next == IF taken THEN Settled(run.sol) ELSE Tentative(run)
           nextref == IF taken THEN run.sol ELSE ref[s]
<1>1. /\ Receive(s) /\ UNCHANGED <<pc, inbox>> /\ run.ok
      /\ rep' = [rep EXCEPT ![s] = Annealed(@, m, run)]
      /\ work' = [work EXCEPT ![s] = next]
      /\ ref' = [ref EXCEPT ![s] = nextref]
  BY DEF Adopt
<1>2. /\ m \in Message /\ run.sol \in Solutions /\ ref[s] \in Solutions
      /\ run.do \in Seq(Actions) /\ run.undo \in Seq(Actions)
      /\ Rewind(run.sol, run.undo) = ref[s]
  BY <1>1, RunFacts DEF Receive
<1> HIDE DEF m, run, taken
<1>3. /\ next \in WorkType /\ nextref \in Solutions
      /\ Rewind(next.sol, next.undo) = nextref
  BY <1>2, SettledFacts, TentativeFacts
<1> HIDE DEF next, nextref
<1>4. TypeOK'
  BY <1>1, <1>3, ReceiveTyped DEF Typed, TypeOK, dispatcherVars
<1>5. DispatcherTyped'
  BY <1>1, ReceiveTyped DEF Typed, DispatcherTyped, dispatcherVars
<1>6. OmegaTyped'
  <2>1. pc[s] = "drain" /\ "omega" \in DOMAIN rep[s] /\ rep[s].omega \in [Vertices -> Int]
    BY <1>1 DEF Typed, OmegaTyped, Running, Receive
  <2>2. /\ "omega" \in DOMAIN Annealed(rep[s], m, run)
        /\ Annealed(rep[s], m, run).omega \in [Vertices -> Int]
    BY <1>2, <2>1, IterationTyped
  <2> QED
    BY <1>1, <2>2 DEF Typed, OmegaTyped, Running
<1>7. UndoRestoresReference'
  BY <1>1, <1>3 DEF Typed, TypeOK, UndoRestoresReference, Reference
<1> QED
  BY <1>4, <1>5, <1>6, <1>7 DEF Typed

\* The last change is kept as it is, the reference stays.
LEMMA FinishTyped == ASSUME NEW s \in Solvers PROVE Typed /\ Finish(s) => Typed'
<1> SUFFICES ASSUME Typed, Finish(s) PROVE Typed'
  OBVIOUS
<1> DEFINE m == Head(queue[s])
           run == Run(s)
<1>1. /\ Receive(s) /\ UNCHANGED ref /\ run.ok
      /\ rep' = [rep EXCEPT ![s] = Counted(@, run)]
      /\ work' = [work EXCEPT ![s] = Tentative(run)]
      /\ inbox' = Append(inbox, Finished)
      /\ pc' = [pc EXCEPT ![s] = "exit"]
  BY DEF Finish
<1>2. /\ m \in Message /\ run.sol \in Solutions /\ ref[s] \in Solutions
      /\ run.do \in Seq(Actions) /\ run.undo \in Seq(Actions)
      /\ Rewind(run.sol, run.undo) = ref[s]
  BY <1>1, RunFacts DEF Receive
<1> HIDE DEF m, run
<1>3. /\ Tentative(run) \in WorkType
      /\ Rewind(Tentative(run).sol, Tentative(run).undo) = ref[s]
  BY <1>2, TentativeFacts
<1>4. inbox' \in Seq(Message \cup {Finished})
  BY <1>1 DEF Typed, TypeOK
<1>5. TypeOK'
  BY <1>1, <1>3, <1>4, ReceiveTyped DEF Typed, TypeOK, dispatcherVars
<1>6. DispatcherTyped'
  BY <1>1, ReceiveTyped DEF Typed, DispatcherTyped, dispatcherVars
<1>7. OmegaTyped'
  <2>1. pc[s] = "drain" /\ "omega" \in DOMAIN rep[s] /\ rep[s].omega \in [Vertices -> Int]
    BY <1>1 DEF Typed, OmegaTyped, Running, Receive
  <2>2. /\ "omega" \in DOMAIN Counted(rep[s], run)
        /\ Counted(rep[s], run).omega \in [Vertices -> Int]
    BY <1>2, <2>1, IterationTyped
  <2> QED
    BY <1>1, <2>1, <2>2 DEF Typed, TypeOK, OmegaTyped, Running
<1>8. UndoRestoresReference'
  BY <1>1, <1>3 DEF Typed, TypeOK, UndoRestoresReference, Reference
<1> QED
  BY <1>5, <1>6, <1>7, <1>8 DEF Typed

\* A walk of any length is one of the walks that changes are generated with.
LEMMA WalkLengthType ==
    ASSUME NEW w \in Int PROVE WalkLength(w) \in 0..Cardinality(Customers)
<1>1. Cardinality(Customers) \in Nat
  BY SolutionAssumption, FS_CardinalityType DEF SolutionAssumption
<1> QED
  BY <1>1 DEF WalkLength

\* A generated change is a message, and can be undone.
LEMMA GenerateTyped == ASSUME NEW s \in Solvers PROVE Typed /\ Generate(s) => Typed'
<1> SUFFICES ASSUME Typed, Generate(s) PROVE Typed'
  OBVIOUS
<1>1. ref[s] \in Solutions /\ Reference(s) = ref[s]
  BY DEF Typed, TypeOK, UndoRestoresReference
<1>2. PICK sc \in Customers :
      \E c \in Candidates(ref[s], sc, WalkLength(rep[s].omega[sc])) :
      \E run \in {Evaluate(ref[s], c)} :
          /\ work' = [work EXCEPT ![s] = Tentative(run)]
          /\ inbox' = Append(inbox,
                          [finished |-> FALSE,
                           change   |-> c,
                           omega    |-> rep[s].omega[sc],
                           cost     |-> Cost(run.sol),
                           grade    |-> Grade(Cost(run.sol), rep[s].refcost, ref[s])])
  BY <1>1 DEF Generate
<1>3. rep[s].omega[sc] \in Int
  <2>1. Running(s) /\ sc \in Vertices
    BY DEF Generate, Running, Vertices
  <2> QED
    BY <2>1 DEF Typed, OmegaTyped
<1>4. PICK c \in Candidates(ref[s], sc, WalkLength(rep[s].omega[sc])) :
      \E run \in {Evaluate(ref[s], c)} :
          /\ work' = [work EXCEPT ![s] = Tentative(run)]
          /\ inbox' = Append(inbox,
                          [finished |-> FALSE,
                           change   |-> c,
                           omega    |-> rep[s].omega[sc],
                           cost     |-> Cost(run.sol),
                           grade    |-> Grade(Cost(run.sol), rep[s].refcost, ref[s])])
  BY <1>2
<1> DEFINE run == Evaluate(ref[s], c)
           m == [finished |-> FALSE, change |-> c, omega |-> rep[s].omega[sc],
                 cost |-> Cost(run.sol),
                 grade |-> Grade(Cost(run.sol), rep[s].refcost, ref[s])]
<1>5. c \in Changes /\ run.ok
  BY <1>1, <1>3, WalkLengthType, GenerationAssumption DEF GenerationAssumption
<1>6. /\ run.sol \in Solutions
      /\ run.do \in Seq(Actions) /\ run.undo \in Seq(Actions)
      /\ Rewind(run.sol, run.undo) = ref[s]
  BY <1>1, <1>5, EvaluateFacts
<1>7. work' = [work EXCEPT ![s] = Tentative(run)] /\ inbox' = Append(inbox, m)
  BY <1>4
<1>8. m \in Message
  <2>1. Cost(run.sol) \in Int
    BY <1>6, SolutionAssumption DEF SolutionAssumption
  <2>2. Grade(Cost(run.sol), rep[s].refcost, ref[s]) \in Grades
    BY DEF Grade, Grades
  <2> QED
    BY <1>3, <1>5, <2>1, <2>2 DEF Message
<1> HIDE DEF run, m
<1>9. /\ Tentative(run) \in WorkType
      /\ Rewind(Tentative(run).sol, Tentative(run).undo) = ref[s]
  BY <1>1, <1>6, TentativeFacts
<1>10. inbox' \in Seq(Message \cup {Finished})
  BY <1>7, <1>8 DEF Typed, TypeOK
<1>11. TypeOK'
  BY <1>7, <1>9, <1>10 DEF Typed, TypeOK, Generate, dispatcherVars
<1>12. DispatcherTyped'
  BY DEF Typed, DispatcherTyped, Generate, dispatcherVars
<1>13. OmegaTyped'
  BY DEF Typed, TypeOK, OmegaTyped, Running, Generate
<1>14. UndoRestoresReference'
  BY <1>7, <1>9 DEF Typed, TypeOK, UndoRestoresReference, Reference, Generate
<1> QED
  BY <1>11, <1>12, <1>13, <1>14 DEF Typed

\* Every step keeps the types.
LEMMA NextTyped == Typed /\ [Next]_vars => Typed'
<1> SUFFICES ASSUME Typed, [Next]_vars PROVE Typed'
  OBVIOUS
<1>1. CASE UNCHANGED vars
  BY <1>1 DEF vars, dispatcherVars, solverVars, Typed, TypeOK, DispatcherTyped, OmegaTyped,
              Running, UndoRestoresReference, Reference
<1>2. CASE Dispatch \/ MainJoin
  BY <1>2, SpawnTyped, GetTyped, RelayTyped, JoinTyped DEF Dispatch
<1>3. ASSUME NEW s \in Solvers, Solve(s) PROVE Typed'
  BY <1>3, SetupTyped, SnapshotTyped, GenerateTyped, DiscardTyped, AdoptTyped, FinishTyped
     DEF Solve
<1> QED
  BY <1>1, <1>2, <1>3 DEF Next, Ended

\* The types hold in every state.
LEMMA AlwaysTyped == Spec => []Typed
BY InitTyped, NextTyped, PTL DEF Spec

\* Queues, counters, solutions and lists keep their types.
THEOREM TypeCorrect == Spec => []TypeOK
<1>1. Typed => TypeOK
  BY DEF Typed
<1> QED
  BY <1>1, AlwaysTyped, PTL

\* Whatever a solver does with a change, its undo list leads back to the
\* solution it adopted last.
THEOREM ReferenceIsRestored == Spec => []UndoRestoresReference
<1>1. Typed => UndoRestoresReference
  BY DEF Typed
<1> QED
  BY <1>1, AlwaysTyped, PTL

-----------------------------------------------------------------------------
(* The order of the messages *)

\* The number of relayed messages that the dispatcher has yet to push to s.
Due(s) == IF dpc = "relay" /\ cursor <= s THEN 1 ELSE 0

\* TotalOrder message by message: the queue of a solver is the part of the log
\* between what it has processed and what it is still due.
Delivered(s) ==
    /\ at[s] + Len(queue[s]) + Due(s) = Len(log)
    /\ \A k \in 1..Len(queue[s]) : queue[s][k] = log[at[s] + k]

RelayState ==
    /\ dpc = "get" => cursor = 1
    /\ dpc = "relay" => Len(log) > 0 /\ held = log[Len(log)]

Ordered == RelayState /\ \A s \in Solvers : Delivered(s)

\* The part of the type invariant that the order of the messages rests on.
LEMMA RelayTyping ==
    Typed => /\ cursor \in 1..SolversNum
             /\ queue \in [Solvers -> Seq(Message)]
             /\ log \in Seq(Message)
             /\ at \in [Solvers -> Nat]
BY DEF Typed, TypeOK

\* Nothing is relayed or queued at first.
LEMMA InitOrdered == Init => Ordered
BY DEF Init, Ordered, RelayState, Delivered, Due

\* Elements of the rest of a queue.
LEMMA TailFacts ==
    ASSUME NEW S, NEW q \in Seq(S), q # <<>>
    PROVE  /\ Len(q) \in Nat /\ Len(Tail(q)) = Len(q) - 1
           /\ \A k \in 1..Len(Tail(q)) : Tail(q)[k] = q[k + 1]
OBVIOUS

\* A sequence that is the end of another one, element by element.
LEMMA SuffixFacts ==
    ASSUME NEW S, NEW q \in Seq(S), NEW l \in Seq(S), NEW a \in Nat,
           a + Len(q) = Len(l), \A k \in 1..Len(q) : q[k] = l[a + k]
    PROVE  q = SubSeq(l, a + 1, Len(l))
<1> DEFINE r == SubSeq(l, a + 1, Len(l))
<1>1. Len(q) \in Nat /\ Len(l) \in Nat
  OBVIOUS
<1>2. r \in Seq(S) /\ Len(r) = Len(q)
  BY <1>1
<1>3. ASSUME NEW k \in 1..Len(q) PROVE r[k] = q[k]
  BY <1>1, <1>2, <1>3
<1> HIDE DEF r
<1>4. r = q
  BY <1>2, <1>3, SeqEqual
<1> QED
  BY <1>4 DEF r

\* Nothing is appended.
LEMMA EmptySuffix == ASSUME NEW S, NEW q \in Seq(S) PROVE q \o <<>> = q
OBVIOUS

\* Elements of a queue with a message more.
LEMMA AppendFacts ==
    ASSUME NEW S, NEW q \in Seq(S), NEW e \in S
    PROVE  /\ Len(Append(q, e)) = Len(q) + 1
           /\ Append(q, e)[Len(q) + 1] = e
           /\ \A k \in 1..Len(q) : Append(q, e)[k] = q[k]
OBVIOUS

\* A message enters the log: it is due to all solvers, from the first on.
LEMMA GetChangeOrdered == Typed /\ Ordered /\ GetChange => Ordered'
<1> SUFFICES ASSUME Typed, Ordered, GetChange PROVE Ordered'
  OBVIOUS
<1>1. /\ log \in Seq(Message) /\ Head(inbox) \in Message /\ cursor = 1
      /\ log' = Append(log, Head(inbox)) /\ held' = Head(inbox)
      /\ dpc = "get" /\ dpc' = "relay" /\ UNCHANGED <<cursor, queue, at>>
  <2>1. inbox \in Seq(Message \cup {Finished}) /\ inbox # <<>> /\ ~Head(inbox).finished
    BY DEF Typed, TypeOK, GetChange
  <2>2. Head(inbox) \in Message
    BY <2>1, TakeFacts DEF Finished
  <2> QED
    BY <2>2 DEF Typed, TypeOK, Ordered, RelayState, GetChange, solverVars
<1>2. /\ Len(log') = Len(log) + 1 /\ log'[Len(log) + 1] = held' /\ Len(log) \in Nat
      /\ \A k \in 1..Len(log) : log'[k] = log[k]
  BY <1>1, AppendFacts
<1>3. RelayState'
  BY <1>1, <1>2 DEF RelayState
<1>4. ASSUME NEW s \in Solvers PROVE Delivered(s)'
  <2>1. at[s] \in Nat /\ Len(queue[s]) \in Nat
    BY DEF Typed, TypeOK
  <2>2. at[s] + Len(queue[s]) = Len(log)
    <3>1. at[s] + Len(queue[s]) + Due(s) = Len(log)
      BY DEF Ordered, Delivered
    <3>2. Due(s) = 0
      BY <1>1 DEF Due
    <3> QED
      BY <2>1, <3>1, <3>2
  <2>3. \A k \in 1..Len(queue[s]) : queue[s][k] = log[at[s] + k]
    BY DEF Ordered, Delivered
  <2>4. Due(s)' = 1
    BY <1>1 DEF Due
  <2>5. \A k \in 1..Len(queue[s]) : queue[s][k] = log'[at[s] + k]
    <3> TAKE k \in 1..Len(queue[s])
    <3>1. at[s] + k \in 1..Len(log)
      BY <1>2, <2>1, <2>2
    <3> QED
      BY <1>2, <2>3, <3>1
  <2>6. at[s] + Len(queue[s]) + 1 = Len(log')
    BY <1>2, <2>1, <2>2
  <2> QED
    BY <1>1, <2>4, <2>5, <2>6 DEF Delivered
<1> QED
  BY <1>3, <1>4 DEF Ordered

\* The message goes to one solver, and is due to the ones after it.
LEMMA RelayOrdered == Typed /\ Ordered /\ Relay => Ordered'
<1> SUFFICES ASSUME Typed, Ordered, Relay PROVE Ordered'
  OBVIOUS
<1>1. /\ cursor \in 1..SolversNum /\ held \in Message /\ dpc = "relay"
      /\ queue' = [queue EXCEPT ![cursor] = Append(@, held)]
      /\ Len(log) > 0 /\ held = log[Len(log)]
      /\ UNCHANGED <<log, at, held>> /\ Advance("get")
  BY DEF Typed, TypeOK, DispatcherTyped, Ordered, RelayState, Relay, solverVars
<1>2. RelayState'
  BY <1>1 DEF RelayState, Advance
<1>3. ASSUME NEW s \in Solvers PROVE Delivered(s)'
  <2>1. at[s] \in Nat /\ Len(queue[s]) \in Nat /\ queue[s] \in Seq(Message)
    BY DEF Typed, TypeOK
  <2>2. CASE s = cursor
    <3>1. queue'[s] = Append(queue[s], held) /\ Due(s) = 1 /\ Due(s)' = 0
      <4>1. queue'[s] = Append(queue[s], held)
        BY <1>1, <2>2 DEF Typed, TypeOK
      <4>2. Due(s) = 1
        BY <1>1, <2>2 DEF Due
      <4>3. dpc' # "relay" \/ cursor' = cursor + 1
        BY <1>1 DEF Advance
      <4>4. Due(s)' = 0
        BY <1>1, <2>2, <4>3 DEF Due
      <4> QED
        BY <4>1, <4>2, <4>4
    <3>2. at[s] + Len(queue[s]) + 1 = Len(log)
      BY <3>1 DEF Ordered, Delivered
    <3>3. \A k \in 1..Len(queue[s]) : queue[s][k] = log[at[s] + k]
      BY DEF Ordered, Delivered
    <3>4. /\ Len(queue'[s]) = Len(queue[s]) + 1 /\ queue'[s][Len(queue[s]) + 1] = held
          /\ \A k \in 1..Len(queue[s]) : queue'[s][k] = queue[s][k]
      BY <1>1, <2>1, <3>1, AppendFacts
    <3>5. ASSUME NEW k \in 1..(Len(queue[s]) + 1) PROVE queue'[s][k] = log[at[s] + k]
      <4>1. CASE k \in 1..Len(queue[s])
        BY <3>3, <3>4, <4>1
      <4>2. CASE k = Len(queue[s]) + 1
        <5>1. at[s] + k = Len(log)
          BY <2>1, <3>2, <4>2
        <5> QED
          BY <1>1, <3>4, <4>2, <5>1
      <4> QED
        BY <2>1, <4>1, <4>2
    <3> QED
      BY <1>1, <2>1, <3>1, <3>2, <3>4, <3>5 DEF Delivered
  <2>3. CASE s # cursor
    <3>1. queue'[s] = queue[s]
      BY <1>1, <2>3, RelayTyping
    <3>2. Due(s)' = Due(s)
      BY <1>1, <2>3, RelayTyping DEF Due, Advance
    <3>3. Delivered(s)
      BY DEF Ordered
    <3> QED
      BY <1>1, <3>1, <3>2, <3>3 DEF Delivered
  <2> QED
    BY <2>2, <2>3
<1> QED
  BY <1>2, <1>3 DEF Ordered

\* A solver takes the oldest message of its queue.
LEMMA ReceiveOrdered ==
    ASSUME NEW s \in Solvers PROVE Typed /\ Ordered /\ Receive(s) => Ordered'
<1> SUFFICES ASSUME Typed, Ordered, Receive(s) PROVE Ordered'
  OBVIOUS
<1>1. /\ queue[s] \in Seq(Message) /\ queue[s] # <<>> /\ at[s] \in Nat
      /\ queue' = [queue EXCEPT ![s] = Tail(@)] /\ at' = [at EXCEPT ![s] = @ + 1]
      /\ UNCHANGED <<dpc, cursor, held, log>>
  <2>1. queue[s] \in Seq(Message) /\ at[s] \in Nat
    BY DEF Typed, TypeOK
  <2> QED
    BY <2>1 DEF Receive, dispatcherVars
<1>2. RelayState'
  BY <1>1 DEF Ordered, RelayState
<1>3. ASSUME NEW t \in Solvers PROVE Delivered(t)'
  <2>1. Due(t)' = Due(t) /\ Due(t) \in {0, 1}
    BY <1>1 DEF Due
  <2>2. CASE t = s
    <3>1. queue'[s] = Tail(queue[s]) /\ at'[s] = at[s] + 1
      <4>1. queue'[s] = Tail(queue[s])
        BY <1>1, RelayTyping
      <4>2. at'[s] = at[s] + 1
        BY <1>1, RelayTyping
      <4> QED
        BY <4>1, <4>2
    <3>2. /\ Len(queue[s]) \in Nat /\ Len(queue'[s]) = Len(queue[s]) - 1
          /\ \A k \in 1..Len(queue'[s]) : queue'[s][k] = queue[s][k + 1]
      <4>1. queue[s] \in Seq(Message) /\ queue[s] # <<>>
        BY <1>1
      <4> QED
        BY <3>1, <4>1, TailFacts
    <3>3. at[s] + Len(queue[s]) + Due(s) = Len(log)
      BY DEF Ordered, Delivered
    <3>4. \A k \in 1..Len(queue[s]) : queue[s][k] = log[at[s] + k]
      BY DEF Ordered, Delivered
    <3>5. ASSUME NEW k \in 1..Len(queue'[s]) PROVE queue'[s][k] = log[at'[s] + k]
      <4>1. /\ at[s] \in Nat /\ at'[s] = at[s] + 1 /\ Len(queue[s]) \in Nat
            /\ Len(queue'[s]) = Len(queue[s]) - 1
        BY <1>1, <3>1, <3>2
      <4>2. k + 1 \in 1..Len(queue[s]) /\ at[s] + (k + 1) = at'[s] + k
        BY <4>1
      <4> QED
        BY <3>2, <3>4, <4>2
    <3>6. at'[s] + Len(queue'[s]) + Due(s)' = Len(log')
      BY <1>1, <2>1, <2>2, <3>1, <3>2, <3>3
    <3> QED
      BY <1>1, <2>2, <3>5, <3>6 DEF Delivered
  <2>3. CASE t # s
    <3>1. queue'[t] = queue[t] /\ at'[t] = at[t]
      BY <1>1, <2>3, RelayTyping
    <3>2. Delivered(t)
      BY DEF Ordered
    <3> QED
      BY <1>1, <2>1, <3>1, <3>2 DEF Delivered
  <2> QED
    BY <2>2, <2>3
<1> QED
  BY <1>2, <1>3 DEF Ordered

\* Every step of the dispatcher, of main and of the solvers keeps the order.
LEMMA NextOrdered == Typed /\ Ordered /\ [Next]_vars => Ordered'
<1> SUFFICES ASSUME Typed, Ordered, [Next]_vars PROVE Ordered'
  OBVIOUS
<1>1. CASE Spawn \/ Join
  <2>1. /\ dpc \in {"spawn", "join"} /\ dpc' \in {"spawn", "get", "join", "exit"}
        /\ dpc' = "get" => cursor' = 1
        /\ UNCHANGED <<held, queue, at, log>>
    BY <1>1 DEF Spawn, Join, Advance, solverVars
  <2>2. RelayState'
    BY <2>1 DEF RelayState
  <2>3. \A s \in Solvers : Due(s) = 0 /\ Due(s)' = 0
    BY <2>1 DEF Due
  <2> QED
    BY <2>1, <2>2, <2>3 DEF Ordered, Delivered
<1>2. CASE GetFinished
  BY <1>2 DEF Ordered, RelayState, Delivered, Due, GetFinished, solverVars
<1>3. CASE GetChange \/ Relay
  BY <1>3, GetChangeOrdered, RelayOrdered
<1>4. ASSUME UNCHANGED <<dpc, cursor, held, queue, at, log>> PROVE Ordered'
  BY <1>4 DEF Ordered, RelayState, Delivered, Due
<1>5. CASE MainJoin \/ UNCHANGED vars
  BY <1>4, <1>5 DEF MainJoin, vars, dispatcherVars, solverVars
<1>6. ASSUME NEW s \in Solvers, Solve(s) PROVE Ordered'
  <2>1. CASE Setup(s) \/ Snapshot(s) \/ Generate(s)
    BY <1>4, <2>1 DEF Setup, Snapshot, Generate, dispatcherVars
  <2>2. CASE Discard(s) \/ Adopt(s) \/ Finish(s)
    BY <2>2, ReceiveOrdered DEF Discard, Adopt, Finish
  <2> QED
    BY <1>6, <2>1, <2>2 DEF Solve
<1> QED
  BY <1>1, <1>2, <1>3, <1>5, <1>6 DEF Next, Dispatch, Ended

\* The queues and the log fit together in every state.
LEMMA AlwaysOrdered == Spec => []Ordered
BY InitOrdered, NextOrdered, AlwaysTyped, PTL DEF Spec

\* Every solver is sent the log: no message is lost, doubled or overtaken by
\* another on its way to a solver.
THEOREM LogIsDelivered == Spec => []TotalOrder
<1>1. Typed /\ Ordered => TotalOrder
  <2> SUFFICES ASSUME Typed, Ordered, NEW s \in Solvers
               PROVE  queue[s] \o Pending(s) = SubSeq(log, at[s] + 1, Len(log))
    BY DEF TotalOrder
  <2>1. /\ queue[s] \in Seq(Message) /\ log \in Seq(Message) /\ at[s] \in Nat
        /\ at[s] + Len(queue[s]) + Due(s) = Len(log)
        /\ \A k \in 1..Len(queue[s]) : queue[s][k] = log[at[s] + k]
    BY DEF Typed, TypeOK, Ordered, Delivered
  <2>2. CASE Due(s) = 0
    <3>1. at[s] + Len(queue[s]) = Len(log)
      <4>1. at[s] \in Nat /\ Len(queue[s]) \in Nat /\ at[s] + Len(queue[s]) + Due(s) = Len(log)
        BY <2>1
      <4> QED
        BY <2>2, <4>1
    <3>2. Pending(s) = <<>>
      BY <2>2 DEF Due, Pending
    <3>3. queue[s] \o Pending(s) = queue[s]
      <4>1. queue[s] \o <<>> = queue[s]
        BY <2>1, EmptySuffix
      <4> QED
        BY <3>2, <4>1
    <3> QED
      BY <2>1, <3>1, <3>3, SuffixFacts
  <2>3. CASE Due(s) = 1
    <3>1. /\ Pending(s) = <<held>> /\ held = log[Len(log)] /\ held \in Message
          /\ at[s] + Len(queue[s]) + 1 = Len(log)
      <4>1. dpc = "relay" /\ cursor <= s
        BY <2>3 DEF Due
      <4>2. Pending(s) = <<held>>
        BY <4>1 DEF Pending
      <4>3. held = log[Len(log)]
        BY <4>1 DEF Ordered, RelayState
      <4>4. held \in Message
        BY <4>1 DEF Typed, DispatcherTyped
      <4>5. at[s] + Len(queue[s]) + 1 = Len(log)
        BY <2>1, <2>3
      <4> QED
        BY <4>2, <4>3, <4>4, <4>5
    <3> DEFINE q == queue[s] \o <<held>>
    <3>2. q = Append(queue[s], held)
      BY <2>1, <3>1
    <3>3. q \in Seq(Message) /\ Len(q) = Len(queue[s]) + 1
      BY <2>1, <3>1, <3>2
    <3>4. ASSUME NEW k \in 1..Len(q) PROVE q[k] = log[at[s] + k]
      <4> HIDE DEF q
      <4>1. /\ q[Len(queue[s]) + 1] = held
            /\ \A j \in 1..Len(queue[s]) : q[j] = queue[s][j]
        BY <2>1, <3>1, <3>2, AppendFacts
      <4>2. CASE k \in 1..Len(queue[s])
        BY <2>1, <4>1, <4>2
      <4>3. CASE k = Len(queue[s]) + 1
        <5>1. /\ at[s] \in Nat /\ Len(queue[s]) \in Nat
              /\ at[s] + Len(queue[s]) + 1 = Len(log)
          BY <2>1, <3>1
        <5>2. at[s] + k = Len(log)
          BY <4>3, <5>1
        <5> QED
          BY <3>1, <4>1, <4>3, <5>2
      <4> QED
        BY <2>1, <3>3, <4>2, <4>3
    <3>5. at[s] + Len(q) = Len(log)
      BY <2>1, <3>1, <3>3
    <3> HIDE DEF q
    <3>6. q = SubSeq(log, at[s] + 1, Len(log))
      BY <2>1, <3>3, <3>4, <3>5, SuffixFacts
    <3> QED
      BY <3>1, <3>6 DEF q
  <2> QED
    BY <2>2, <2>3 DEF Due
<1> QED
  BY <1>1, AlwaysTyped, AlwaysOrdered, PTL

-----------------------------------------------------------------------------
(* The snapshot of the queue size *)

\* However many messages arrive meanwhile: a solver finds the ones it counted.
THEOREM SnapshotIsThere == Spec => []SnapshotNeverBlocks
<1>1. Init => SnapshotNeverBlocks
  BY DEF Init, SnapshotNeverBlocks
<1>2. Typed /\ SnapshotNeverBlocks /\ [Next]_vars => SnapshotNeverBlocks'
  <2> SUFFICES ASSUME Typed, SnapshotNeverBlocks, [Next]_vars PROVE SnapshotNeverBlocks'
    OBVIOUS
  <2>1. ASSUME UNCHANGED <<pc, left, queue>> PROVE SnapshotNeverBlocks'
    BY <2>1 DEF SnapshotNeverBlocks
  <2>2. CASE GetFinished \/ GetChange \/ Join \/ MainJoin \/ UNCHANGED vars
    BY <2>1, <2>2 DEF GetFinished, GetChange, Join, MainJoin, vars, solverVars
  <2>3. CASE Spawn
    BY <2>3 DEF Typed, TypeOK, SnapshotNeverBlocks, Spawn
  <2>4. CASE Relay
    <3>1. /\ cursor \in Solvers /\ queue[cursor] \in Seq(Message) /\ held \in Message
          /\ queue' = [queue EXCEPT ![cursor] = Append(@, held)] /\ UNCHANGED <<pc, left>>
      BY <2>4 DEF Typed, TypeOK, DispatcherTyped, Relay, solverVars
    <3>2. Len(Append(queue[cursor], held)) = Len(queue[cursor]) + 1
      BY <3>1, AppendFacts
    <3>3. \A s \in Solvers : Len(queue'[s]) \in Nat /\ Len(queue'[s]) >= Len(queue[s])
      BY <3>1, <3>2 DEF Typed, TypeOK
    <3> QED
      BY <3>1, <3>3 DEF Typed, TypeOK, SnapshotNeverBlocks
  <2>5. ASSUME NEW s \in Solvers, Setup(s) \/ Snapshot(s) \/ Generate(s)
        PROVE  SnapshotNeverBlocks'
    <3>1. UNCHANGED queue /\ Len(queue[s]) \in Nat
      BY <2>5 DEF Typed, TypeOK, Setup, Snapshot, Generate
    <3>2. \/ UNCHANGED left /\ pc' = [pc EXCEPT ![s] = "sync"]
          \/ left' = [left EXCEPT ![s] = Len(queue[s])] /\ pc' = [pc EXCEPT ![s] = "drain"]
      BY <2>5 DEF Setup, Snapshot, Generate
    <3>3. \A t \in Solvers : t # s => pc'[t] = pc[t] /\ left'[t] = left[t]
      BY <3>2 DEF Typed, TypeOK
    <3>4. pc'[s] = "drain" => left'[s] = Len(queue[s])
      BY <3>2 DEF Typed, TypeOK
    <3> QED
      BY <3>1, <3>3, <3>4 DEF SnapshotNeverBlocks
  <2>6. ASSUME NEW s \in Solvers, Discard(s) \/ Adopt(s) \/ Finish(s)
        PROVE  SnapshotNeverBlocks'
    <3>1. /\ Receive(s) /\ pc[s] = "drain"
          /\ \A t \in Solvers : pc'[t] = "drain" => pc[t] = "drain"
      BY <2>6 DEF Typed, TypeOK, Discard, Adopt, Finish, Receive
    <3>2. /\ queue[s] \in Seq(Message) /\ queue[s] # <<>>
          /\ queue' = [queue EXCEPT ![s] = Tail(@)] /\ left' = [left EXCEPT ![s] = @ - 1]
      BY <3>1 DEF Typed, TypeOK, Receive
    <3>3. Len(queue[s]) \in Nat /\ Len(Tail(queue[s])) = Len(queue[s]) - 1
      BY <3>2, TailFacts
    <3>4. left'[s] = left[s] - 1 /\ Len(queue'[s]) = Len(queue[s]) - 1 /\ left[s] \in Nat
      BY <3>2, <3>3 DEF Typed, TypeOK
    <3>5. \A t \in Solvers : t # s => left'[t] = left[t] /\ queue'[t] = queue[t]
      BY <3>2 DEF Typed, TypeOK
    <3>6. left[s] <= Len(queue[s])
      BY <3>1 DEF SnapshotNeverBlocks
    <3>7. left'[s] <= Len(queue'[s])
      BY <3>3, <3>4, <3>6
    <3> QED
      BY <3>1, <3>5, <3>7 DEF SnapshotNeverBlocks
  <2> QED
    BY <2>2, <2>3, <2>4, <2>5, <2>6 DEF Next, Dispatch, Solve, Ended
<1> QED
  BY <1>1, <1>2, AlwaysTyped, PTL DEF Spec

-----------------------------------------------------------------------------
(* The history *)

\* What a message does to the reference solution and the rest of the search
\* state: the three ways a solver deals with it are one function.
StepOf(x, m) ==
    LET run == Evaluate(x.ref, m.change)
    IN  IF ~run.ok THEN x
        ELSE IF x.rep.iter + 1 = MaxIter THEN [rep |-> Counted(x.rep, run), ref |-> x.ref]
        ELSE [rep |-> Annealed(x.rep, m, run),
              ref |-> IF AcceptedBy(x.rep, m, run) THEN run.sol ELSE x.ref]

SearchOf(s) == [rep |-> rep[s], ref |-> ref[s]]

FirstSearch == [rep |-> StartRep(seed), ref |-> StartSolution(seed)]

\* h is the search after each prefix of the log; every solver is somewhere on
\* it.  Agreement is not inductive without it: it tells nothing of a solver
\* that is behind the others and catches up.
OnHistory(h, s) ==
    /\ ~Running(s) => at[s] = 0
    /\ Running(s) => SearchOf(s) = h[at[s]]

\* The message m ends the search x.
Ends(x, m) == Evaluate(x.ref, m.change).ok /\ x.rep.iter + 1 = MaxIter

\* A solver has ended with the last message it has processed, and with none
\* before.
EndsOnce(h, s) ==
    /\ pc[s] = "exit" => at[s] > 0
    /\ \A k \in 1..at[s] : Ends(h[k - 1], log[k]) <=> k = at[s] /\ pc[s] = "exit"

IsHistory(h) ==
    /\ h[0] = FirstSearch
    /\ \A n \in 0..(Len(log) - 1) : h[n + 1] = StepOf(h[n], log[n + 1])
    /\ \A s \in Solvers : OnHistory(h, s) /\ EndsOnce(h, s)

\* A solver is born when it is its turn, and has processed nothing until then.
Unborn == dpc = "spawn" => \A s \in Solvers : s >= cursor => pc[s] = "unborn"

OneSearch == Unborn /\ \E h : IsHistory(h)

\* The history begins with the search that every solver sets up.
LEMMA InitOneSearch == Init => OneSearch
<1> SUFFICES ASSUME Init PROVE OneSearch
  OBVIOUS
<1>1. PICK h : h = [n \in {0} |-> FirstSearch]
  OBVIOUS
<1>2. IsHistory(h)
  BY <1>1 DEF Init, IsHistory, OnHistory, EndsOnce, Running
<1>3. Unborn
  BY DEF Init, Unborn
<1> QED
  BY <1>2, <1>3 DEF OneSearch

\* Steps that leave the log and the searches alone.
LEMMA QuietOneSearch ==
    ASSUME OneSearch, UNCHANGED <<seed, log, at, rep, ref>>,
           \A s \in Solvers : /\ Running(s)' = Running(s)
                              /\ pc'[s] = "exit" <=> pc[s] = "exit"
    PROVE  \E h : IsHistory(h)'
<1>1. PICK h : IsHistory(h)
  BY DEF OneSearch
<1>2. IsHistory(h)'
  <2>1. ASSUME NEW s \in Solvers PROVE OnHistory(h, s)' /\ EndsOnce(h, s)'
    <3>1. OnHistory(h, s)'
      BY <1>1 DEF IsHistory, OnHistory, SearchOf
    <3>2. EndsOnce(h, s)'
      BY <1>1 DEF IsHistory, EndsOnce
    <3> QED
      BY <3>1, <3>2
  <2> QED
    BY <1>1, <2>1 DEF IsHistory, FirstSearch
<1> QED
  BY <1>2

\* A solver that is born has not begun its search.
LEMMA SpawnOneSearch == Typed /\ OneSearch /\ Spawn => OneSearch'
<1> SUFFICES ASSUME Typed, OneSearch, Spawn PROVE OneSearch'
  OBVIOUS
<1>1. cursor \in Solvers /\ pc[cursor] = "unborn" /\ pc' = [pc EXCEPT ![cursor] = "setup"]
  BY DEF Typed, TypeOK, OneSearch, Unborn, Spawn
<1>2. \A s \in Solvers : Running(s)' = Running(s) /\ (pc'[s] = "exit" <=> pc[s] = "exit")
  BY <1>1 DEF Typed, TypeOK, Running
<1>3. \E h : IsHistory(h)'
  BY <1>2, QuietOneSearch DEF Spawn
<1>4. Unborn'
  BY <1>1 DEF Typed, TypeOK, OneSearch, Unborn, Spawn, Advance
<1> QED
  BY <1>3, <1>4 DEF OneSearch

\* The history gets longer with the log.
LEMMA GetChangeOneSearch == Typed /\ Ordered /\ OneSearch /\ GetChange => OneSearch'
<1> SUFFICES ASSUME Typed, Ordered, OneSearch, GetChange PROVE OneSearch'
  OBVIOUS
<1>1. PICK h : IsHistory(h)
  BY DEF OneSearch
<1>2. PICK g : g = [n \in 0..(Len(log) + 1) |->
                       IF n <= Len(log) THEN h[n] ELSE StepOf(h[n - 1], Head(inbox))]
  OBVIOUS
<1>3. /\ Len(log) \in Nat /\ Len(log') = Len(log) + 1
      /\ log'[Len(log) + 1] = Head(inbox)
      /\ \A k \in 1..Len(log) : log'[k] = log[k]
  <2>1. inbox \in Seq(Message \cup {Finished}) /\ inbox # <<>> /\ ~Head(inbox).finished
        /\ log' = Append(log, Head(inbox)) /\ log \in Seq(Message)
    BY DEF Typed, TypeOK, GetChange
  <2>2. Head(inbox) \in Message
    BY <2>1, TakeFacts DEF Finished
  <2> QED
    BY <2>1, <2>2, AppendFacts
<1>4. UNCHANGED <<seed, pc, rep, ref, at>>
  BY DEF GetChange, solverVars
<1>5. ASSUME NEW n \in 0..(Len(log') - 1) PROVE g[n + 1] = StepOf(g[n], log'[n + 1])
  <2>1. CASE n < Len(log)
    <3>1. h[n + 1] = StepOf(h[n], log[n + 1])
      BY <1>1, <1>3, <2>1 DEF IsHistory
    <3> QED
      BY <1>2, <1>3, <2>1, <3>1
  <2>2. CASE n = Len(log)
    BY <1>2, <1>3, <2>2
  <2> QED
    BY <1>3, <2>1, <2>2
<1>6. ASSUME NEW s \in Solvers PROVE at[s] \in 0..Len(log)
  <2>1. at[s] \in Nat /\ Len(queue[s]) \in Nat /\ Due(s) \in Nat
    BY DEF Typed, TypeOK, Due
  <2> QED
    BY <1>3, <2>1 DEF Ordered, Delivered
<1>7. ASSUME NEW s \in Solvers PROVE OnHistory(g, s)'
  <2>1. at[s] \in 0..Len(log)
    BY <1>6
  <2>2. g[at[s]] = h[at[s]]
    BY <1>2, <1>3, <2>1
  <2> QED
    BY <1>1, <1>4, <2>2 DEF IsHistory, OnHistory, Running, SearchOf
<1>8. g[0] = FirstSearch'
  BY <1>1, <1>2, <1>3, <1>4 DEF IsHistory, FirstSearch
<1>9. ASSUME NEW s \in Solvers PROVE EndsOnce(g, s)'
  <2>1. at[s] \in 0..Len(log)
    BY <1>6
  <2>2. \A k \in 1..at[s] : g[k - 1] = h[k - 1] /\ log'[k] = log[k]
    BY <1>2, <1>3, <2>1
  <2>3. EndsOnce(h, s)
    BY <1>1 DEF IsHistory
  <2> QED
    BY <1>4, <2>2, <2>3 DEF EndsOnce
<1>10. IsHistory(g)'
  BY <1>5, <1>7, <1>8, <1>9 DEF IsHistory
<1>11. Unborn'
  BY DEF GetChange, Unborn
<1> QED
  BY <1>10, <1>11 DEF OneSearch

\* A solver enters the history at its beginning.
LEMMA SetupOneSearch ==
    ASSUME NEW s \in Solvers PROVE Typed /\ OneSearch /\ Setup(s) => OneSearch'
<1> SUFFICES ASSUME Typed, OneSearch, Setup(s) PROVE OneSearch'
  OBVIOUS
<1>1. PICK h : IsHistory(h)
  BY DEF OneSearch
<1>2. /\ ~Running(s) /\ Running(s)' /\ at[s] = 0
      /\ rep'[s] = StartRep(seed) /\ ref'[s] = StartSolution(seed)
      /\ UNCHANGED <<seed, log, at, dpc, cursor>>
  BY <1>1 DEF Typed, TypeOK, OmegaTyped, IsHistory, OnHistory, Setup, Running, SharedSeed,
              dispatcherVars
<1>3. ASSUME NEW t \in Solvers, t # s
      PROVE  Running(t)' = Running(t) /\ SearchOf(t)' = SearchOf(t)
  BY <1>3 DEF Typed, TypeOK, OmegaTyped, Running, SearchOf, Setup
<1>4. SearchOf(s)' = h[at'[s]]
  BY <1>1, <1>2 DEF IsHistory, SearchOf, FirstSearch
<1>5. ASSUME NEW t \in Solvers PROVE EndsOnce(h, t)'
  <2>1. pc'[t] = "exit" <=> pc[t] = "exit"
    BY DEF Typed, TypeOK, Setup
  <2> QED
    BY <1>1, <1>2, <2>1 DEF IsHistory, EndsOnce
<1>6. IsHistory(h)'
  BY <1>1, <1>2, <1>3, <1>4, <1>5 DEF IsHistory, OnHistory, FirstSearch
<1>7. Unborn'
  BY <1>2 DEF Typed, TypeOK, OneSearch, Unborn, Setup
<1> QED
  BY <1>6, <1>7 DEF OneSearch

\* The three ways to deal with a message are StepOf, on the message that
\* follows in the log.
LEMMA MessageStep ==
    ASSUME Typed, Ordered, NEW s \in Solvers, Discard(s) \/ Adopt(s) \/ Finish(s)
    PROVE  /\ SearchOf(s)' = StepOf(SearchOf(s), log[at[s] + 1])
           /\ Running(s) /\ Running(s)'
           /\ pc[s] # "exit" /\ (pc'[s] = "exit" <=> Ends(SearchOf(s), log[at[s] + 1]))
           /\ at[s] \in 0..(Len(log) - 1) /\ at'[s] = at[s] + 1
           /\ \A t \in Solvers : t # s => /\ Running(t)' = Running(t)
                                        /\ pc'[t] = pc[t]
                                        /\ SearchOf(t)' = SearchOf(t)
                                        /\ at'[t] = at[t]
           /\ UNCHANGED <<seed, log, dpc, cursor>>
<1> DEFINE m == Head(queue[s])
           run == Run(s)
<1>1. Receive(s) /\ queue[s] # <<>> /\ queue[s] \in Seq(Message) /\ pc[s] = "drain"
  BY RelayTyping DEF Discard, Adopt, Finish, Receive
<1>2. run = Evaluate(ref[s], m.change)
  BY <1>1, RunFacts
<1>3. m = log[at[s] + 1] /\ at[s] \in 0..(Len(log) - 1)
  <2>1. Len(queue[s]) \in Nat \ {0} /\ m = queue[s][1] /\ at[s] \in Nat /\ Due(s) \in {0, 1}
    <3>1. Len(queue[s]) \in Nat \ {0} /\ m = queue[s][1]
      BY <1>1
    <3>2. at[s] \in Nat /\ Due(s) \in {0, 1}
      BY RelayTyping DEF Due
    <3> QED
      BY <3>1, <3>2
  <2>2. at[s] + Len(queue[s]) + Due(s) = Len(log) /\ queue[s][1] = log[at[s] + 1]
    BY <2>1 DEF Ordered, Delivered
  <2> QED
    BY <2>1, <2>2
<1>4. at'[s] = at[s] + 1 /\ \A t \in Solvers : t # s => at'[t] = at[t]
  BY <1>1, RelayTyping DEF Receive
<1>5. UNCHANGED <<seed, log, dpc, cursor>>
  BY <1>1 DEF Receive, dispatcherVars
<1>6. \A t \in Solvers : t # s => pc'[t] = pc[t] /\ rep'[t] = rep[t] /\ ref'[t] = ref[t]
  BY DEF Typed, TypeOK, OmegaTyped, Discard, Adopt, Finish
<1>7. pc'[s] \in {"drain", "exit"}
  BY <1>1 DEF Typed, TypeOK, Discard, Adopt, Finish
<1>8. SearchOf(s)' = StepOf(SearchOf(s), m)
  <2>1. CASE Discard(s)
    <3>1. ~run.ok /\ UNCHANGED <<rep, ref>>
      BY <2>1 DEF Discard
    <3> QED
      BY <1>2, <3>1 DEF SearchOf, StepOf
  <2>2. CASE Adopt(s)
    <3>1. /\ run.ok /\ rep[s].iter + 1 # MaxIter
          /\ rep'[s] = Annealed(rep[s], m, run)
          /\ ref'[s] = IF AcceptedBy(rep[s], m, run) THEN run.sol ELSE ref[s]
      BY <2>2 DEF Typed, TypeOK, OmegaTyped, Adopt, IsLast
    <3> QED
      BY <1>2, <3>1 DEF SearchOf, StepOf
  <2>3. CASE Finish(s)
    <3>1. /\ run.ok /\ rep[s].iter + 1 = MaxIter
          /\ rep'[s] = Counted(rep[s], run) /\ ref'[s] = ref[s]
      BY <2>3 DEF Typed, TypeOK, OmegaTyped, Finish, IsLast
    <3> QED
      BY <1>2, <3>1 DEF SearchOf, StepOf
  <2> QED
    BY <2>1, <2>2, <2>3
<1>9. pc'[s] = "exit" <=> Ends(SearchOf(s), m)
  <2>1. CASE Discard(s)
    <3>1. ~run.ok /\ pc' = pc
      BY <2>1 DEF Discard
    <3> QED
      BY <1>1, <1>2, <3>1 DEF SearchOf, Ends
  <2>2. CASE Adopt(s)
    <3>1. rep[s].iter + 1 # MaxIter /\ pc' = pc
      BY <2>2 DEF Adopt, IsLast
    <3> QED
      BY <1>1, <3>1 DEF SearchOf, Ends
  <2>3. CASE Finish(s)
    <3>1. run.ok /\ rep[s].iter + 1 = MaxIter /\ pc'[s] = "exit"
      BY <2>3 DEF Typed, TypeOK, Finish, IsLast
    <3> QED
      BY <1>2, <3>1 DEF SearchOf, Ends
  <2> QED
    BY <2>1, <2>2, <2>3
<1> QED
  BY <1>1, <1>3, <1>4, <1>5, <1>6, <1>7, <1>8, <1>9 DEF Running, SearchOf

\* A solver moves on along the history by one message.
LEMMA MessageOneSearch ==
    ASSUME NEW s \in Solvers
    PROVE  Typed /\ Ordered /\ OneSearch /\ (Discard(s) \/ Adopt(s) \/ Finish(s)) => OneSearch'
<1> SUFFICES ASSUME Typed, Ordered, OneSearch, Discard(s) \/ Adopt(s) \/ Finish(s)
             PROVE  OneSearch'
  OBVIOUS
<1>1. PICK h : IsHistory(h)
  BY DEF OneSearch
<1>2. h[at[s] + 1] = StepOf(SearchOf(s), log[at[s] + 1])
  BY <1>1, MessageStep DEF IsHistory, OnHistory
<1>3. \A t \in Solvers : OnHistory(h, t)'
  BY <1>1, <1>2, MessageStep DEF IsHistory, OnHistory
<1>4. ASSUME NEW t \in Solvers PROVE EndsOnce(h, t)'
  <2>1. EndsOnce(h, t) /\ OnHistory(h, t)
    BY <1>1 DEF IsHistory
  <2>2. CASE t # s
    BY <2>1, <2>2, MessageStep DEF EndsOnce
  <2>3. CASE t = s
    <3>1. /\ at[s] \in Nat /\ at'[s] = at[s] + 1 /\ pc[s] # "exit" /\ log' = log
          /\ pc'[s] = "exit" <=> Ends(h[at[s]], log[at[s] + 1])
      BY <2>1, <2>3, MessageStep DEF OnHistory
    <3>2. \A k \in 1..at[s] : ~Ends(h[k - 1], log[k])
      BY <2>1, <2>3, <3>1 DEF EndsOnce
    <3>3. ASSUME NEW k \in 1..at'[s]
          PROVE  Ends(h[k - 1], log[k]) <=> k = at'[s] /\ pc'[s] = "exit"
      <4>1. CASE k = at[s] + 1
        <5>1. k - 1 = at[s]
          BY <3>1, <4>1
        <5> QED
          BY <3>1, <4>1, <5>1
      <4>2. CASE k \in 1..at[s]
        <5>1. k # at'[s]
          BY <3>1, <4>2
        <5> QED
          BY <3>2, <4>2, <5>1
      <4> QED
        BY <3>1, <4>1, <4>2
    <3>4. at'[s] > 0
      BY <3>1
    <3> QED
      BY <2>3, <3>1, <3>3, <3>4 DEF EndsOnce, Ends
  <2> QED
    BY <2>2, <2>3
<1>5. IsHistory(h)'
  BY <1>1, <1>3, <1>4, MessageStep DEF IsHistory, FirstSearch
<1>6. Unborn'
  <2>1. UNCHANGED <<dpc, cursor>>
    BY MessageStep
  <2>2. pc[s] = "drain" /\ \A t \in Solvers : t # s => pc'[t] = pc[t]
    BY DEF Typed, TypeOK, Discard, Adopt, Finish, Receive
  <2> QED
    BY <2>1, <2>2 DEF OneSearch, Unborn
<1> QED
  BY <1>5, <1>6 DEF OneSearch

\* Every step keeps the solvers on one history.
LEMMA NextOneSearch == Typed /\ Ordered /\ OneSearch /\ [Next]_vars => OneSearch'
<1> SUFFICES ASSUME Typed, Ordered, OneSearch, [Next]_vars PROVE OneSearch'
  OBVIOUS
<1>1. ASSUME UNCHANGED <<seed, log, at, rep, ref>>,
             \A s \in Solvers : /\ Running(s)' = Running(s)
                                /\ pc'[s] = "exit" <=> pc[s] = "exit",
             Unborn'
      PROVE  OneSearch'
  BY <1>1, QuietOneSearch DEF OneSearch
<1>2. CASE Spawn \/ GetChange
  BY <1>2, SpawnOneSearch, GetChangeOneSearch
<1>3. CASE GetFinished \/ Relay \/ Join \/ MainJoin \/ UNCHANGED vars
  <2>1. UNCHANGED <<seed, log, at, rep, ref, pc>>
    BY <1>3 DEF GetFinished, Relay, Join, MainJoin, vars, solverVars
  <2>2. Unborn'
    BY <1>3 DEF OneSearch, Unborn, GetFinished, Relay, Join, Advance, MainJoin, vars,
                dispatcherVars, solverVars
  <2> QED
    BY <1>1, <2>1, <2>2 DEF Running
<1>4. ASSUME NEW s \in Solvers, Setup(s) \/ Discard(s) \/ Adopt(s) \/ Finish(s)
      PROVE  OneSearch'
  BY <1>4, SetupOneSearch, MessageOneSearch
<1>5. ASSUME NEW s \in Solvers, Snapshot(s) \/ Generate(s) PROVE OneSearch'
  <2>1. /\ UNCHANGED <<seed, log, at, rep, ref, dpc, cursor>> /\ pc[s] \in {"sync", "drain"}
        /\ pc' \in {[pc EXCEPT ![s] = "sync"], [pc EXCEPT ![s] = "drain"]}
    BY <1>5 DEF Snapshot, Generate, dispatcherVars
  <2>2. \A t \in Solvers : /\ Running(t)' = Running(t)
                           /\ pc'[t] = "exit" <=> pc[t] = "exit"
    BY <2>1 DEF Typed, TypeOK, Running
  <2>3. Unborn'
    BY <2>1 DEF Typed, TypeOK, OneSearch, Unborn
  <2> QED
    BY <1>1, <2>1, <2>2, <2>3
<1> QED
  BY <1>2, <1>3, <1>4, <1>5 DEF Next, Dispatch, Solve, Ended

\* In every state the solvers are on one history.
LEMMA AlwaysOneSearch == Spec => []OneSearch
BY InitOneSearch, NextOneSearch, AlwaysTyped, AlwaysOrdered, PTL DEF Spec

\* Solvers that have processed equally many messages are in the same state of
\* the search, whatever the number of solvers and the schedule.
THEOREM SolversAgree == Spec => []Agreement
<1>1. OneSearch => Agreement
  <2> SUFFICES ASSUME OneSearch, NEW s \in Solvers, NEW t \in Solvers,
                      Running(s), Running(t), at[s] = at[t]
               PROVE  rep[s] = rep[t] /\ ref[s] = ref[t]
    BY DEF Agreement
  <2>1. PICK h : IsHistory(h)
    BY DEF OneSearch
  <2>2. SearchOf(s) = SearchOf(t)
    BY <2>1 DEF IsHistory, OnHistory
  <2> QED
    BY <2>2 DEF SearchOf
<1> QED
  BY <1>1, AlwaysOneSearch, PTL

-----------------------------------------------------------------------------
(* Termination messages in a queue *)

IsInbox(q) == q \in Seq(Message \cup {Finished})

FinishedIn(q) == {k \in DOMAIN q : q[k].finished}

\* There are finitely many.
LEMMA FinishedFinite ==
    ASSUME NEW q, IsInbox(q)
    PROVE  IsFiniteSet(FinishedIn(q)) /\ Cardinality(FinishedIn(q)) \in Nat
<1>1. FinishedIn(q) \in SUBSET (1..Len(q)) /\ Len(q) \in Nat
  BY DEF IsInbox, FinishedIn
<1>2. IsFiniteSet(1..Len(q))
  BY <1>1, FS_Interval
<1>3. IsFiniteSet(FinishedIn(q))
  BY <1>1, <1>2, FS_Subset
<1> QED
  BY <1>3, FS_CardinalityType

\* A change appended does not count.
LEMMA AppendChange ==
    ASSUME NEW q, IsInbox(q), NEW m \in Message
    PROVE  FinishedIn(Append(q, m)) = FinishedIn(q)
<1>1. m.finished = FALSE
  BY MessageFacts
<1>2. q \in Seq(Message \cup {Finished}) /\ Len(q) \in Nat
  BY DEF IsInbox
<1>3. /\ DOMAIN q = 1..Len(q) /\ DOMAIN Append(q, m) = 1..(Len(q) + 1)
      /\ Append(q, m)[Len(q) + 1] = m
      /\ \A k \in 1..Len(q) : Append(q, m)[k] = q[k]
  BY <1>2
<1> QED
  BY <1>1, <1>2, <1>3 DEF FinishedIn

\* A termination message appended counts once.
LEMMA AppendFinished ==
    ASSUME NEW q, IsInbox(q)
    PROVE  Cardinality(FinishedIn(Append(q, Finished))) = Cardinality(FinishedIn(q)) + 1
<1>1. q \in Seq(Message \cup {Finished}) /\ Len(q) \in Nat
  BY DEF IsInbox
<1>2. /\ DOMAIN q = 1..Len(q) /\ DOMAIN Append(q, Finished) = 1..(Len(q) + 1)
      /\ Append(q, Finished)[Len(q) + 1] = Finished
      /\ \A k \in 1..Len(q) : Append(q, Finished)[k] = q[k]
  BY <1>1
<1>3. FinishedIn(Append(q, Finished)) = FinishedIn(q) \cup {Len(q) + 1}
  BY <1>1, <1>2 DEF FinishedIn, Finished
<1>4. Len(q) + 1 \notin FinishedIn(q)
  BY <1>1, <1>2 DEF FinishedIn
<1> QED
  BY <1>3, <1>4, FinishedFinite, FS_AddElement

\* A message taken counts if it is a termination message.
LEMMA TakeFinished ==
    ASSUME NEW q, IsInbox(q), q # <<>>
    PROVE  /\ Head(q).finished =>
                  Cardinality(FinishedIn(q)) = Cardinality(FinishedIn(Tail(q))) + 1
           /\ ~Head(q).finished =>
                  Cardinality(FinishedIn(q)) = Cardinality(FinishedIn(Tail(q)))
<1> DEFINE M == FinishedIn(q) \ {1}
           N == FinishedIn(Tail(q))
           f == [k \in N |-> k + 1]
<1>1. /\ q \in Seq(Message \cup {Finished}) /\ Len(q) \in Nat \ {0}
      /\ DOMAIN q = 1..Len(q) /\ Head(q) = q[1]
  BY DEF IsInbox
<1>2. /\ DOMAIN Tail(q) = 1..(Len(q) - 1)
      /\ \A k \in 1..(Len(q) - 1) : Tail(q)[k] = q[k + 1]
  BY <1>1
<1>3. IsInbox(Tail(q))
  BY <1>1, TakeFacts DEF IsInbox
<1>4. f \in Bijection(N, M)
  <2>1. ASSUME NEW k \in N PROVE k \in Nat /\ k + 1 \in M
    BY <1>1, <1>2 DEF FinishedIn
  <2>2. ASSUME NEW j \in M PROVE j - 1 \in N /\ j \in Nat
    <3>1. j \in 1..Len(q) /\ q[j].finished /\ j # 1
      BY <1>1 DEF FinishedIn
    <3>2. j - 1 \in 1..(Len(q) - 1) /\ (j - 1) + 1 = j
      BY <1>1, <3>1
    <3>3. Tail(q)[j - 1] = q[j]
      BY <1>2, <3>2
    <3> QED
      BY <1>2, <3>1, <3>2, <3>3 DEF FinishedIn
  <2> HIDE DEF M, N
  <2>3. f \in [N -> M]
    BY <2>1
  <2>4. \A j, k \in N : f[j] = f[k] => j = k
    BY <2>1
  <2>5. \A j \in M : \E k \in N : f[k] = j
    <3> TAKE j \in M
    <3>1. j - 1 \in N /\ j \in Nat
      BY <2>2
    <3>2. f[j - 1] = j
      BY <3>1
    <3> QED
      BY <3>1, <3>2
  <2> HIDE DEF f
  <2> QED
    BY <2>3, <2>4, <2>5, Fun_IsBij
<1>5. Cardinality(M) = Cardinality(N)
  BY <1>3, <1>4, FinishedFinite, FS_Bijection, Fun_ExistsBij
<1>6. Cardinality(M) = IF 1 \in FinishedIn(q) THEN Cardinality(FinishedIn(q)) - 1
                       ELSE Cardinality(FinishedIn(q))
  BY FinishedFinite, FS_RemoveElement
<1>7. 1 \in FinishedIn(q) <=> Head(q).finished
  BY <1>1 DEF FinishedIn
<1>8. Cardinality(FinishedIn(q)) \in Nat
  BY FinishedFinite
<1> HIDE DEF M, N, f
<1> QED
  BY <1>5, <1>6, <1>7, <1>8 DEF N

-----------------------------------------------------------------------------
(* The inductive invariant *)

Alive == {s \in Solvers : pc[s] # "exit"}

\* The last message of the solver that ends last is the last of all: a solver
\* sends nothing after its termination message, but the others may.
LastIsFinished ==
    Alive = {} /\ inbox # <<>> => inbox[Len(inbox)].finished

LeftAtZero == dpc \in {"join", "exit"} => active = 0

Ending == ActiveCount /\ LastIsFinished /\ LeftAtZero

\* There are finitely many solvers, SolversNum of them.
LEMMA AliveFinite ==
    /\ IsFiniteSet(Solvers) /\ Cardinality(Solvers) = SolversNum
    /\ IsFiniteSet(Alive) /\ Cardinality(Alive) \in Nat
<1>1. IsFiniteSet(Solvers) /\ Cardinality(Solvers) = SolversNum
  BY FS_Interval
<1>2. Alive \in SUBSET Solvers
  BY DEF Alive
<1>3. IsFiniteSet(Alive)
  BY <1>1, <1>2, FS_Subset
<1> QED
  BY <1>1, <1>3, FS_CardinalityType

\* ActiveCount in the words of this module.
LEMMA CountFacts ==
    ActiveCount <=> active = Cardinality(Alive) + Cardinality(FinishedIn(inbox))
BY DEF ActiveCount, Alive, FinishedIn

\* All solvers are alive at first.
LEMMA InitEnding == Init => Ending
<1> SUFFICES ASSUME Init PROVE Ending
  OBVIOUS
<1>1. Alive = Solvers /\ FinishedIn(inbox) = {} /\ active = SolversNum /\ dpc = "spawn"
      /\ inbox = <<>>
  BY DEF Init, Alive, FinishedIn
<1>2. ActiveCount
  BY <1>1, AliveFinite, CountFacts, FS_EmptySet
<1> QED
  BY <1>1, <1>2 DEF Ending, LastIsFinished, LeftAtZero

\* Steps that do not touch the inbox nor end a solver.
LEMMA QuietEnding ==
    ASSUME Ending, UNCHANGED <<active, inbox>>, Alive' = Alive,
           dpc' \in {"join", "exit"} => dpc \in {"join", "exit"}
    PROVE  Ending'
<1>1. ActiveCount'
  BY CountFacts DEF Ending, ActiveCount, Alive
<1> QED
  BY <1>1 DEF Ending, LastIsFinished, LeftAtZero

\* The dispatcher takes a message.
LEMMA GetEnding == Typed /\ Ending /\ (GetFinished \/ GetChange) => Ending'
<1> SUFFICES ASSUME Typed, Ending, GetFinished \/ GetChange PROVE Ending'
  OBVIOUS
<1>1. /\ IsInbox(inbox) /\ inbox # <<>> /\ inbox' = Tail(inbox) /\ dpc = "get"
      /\ active \in Nat
  <2>1. IsInbox(inbox) /\ active \in Nat
    BY DEF Typed, TypeOK, IsInbox
  <2> QED
    BY <2>1 DEF GetFinished, GetChange
<1>2. Alive' = Alive
  BY DEF Alive, GetFinished, GetChange, solverVars
<1>3. /\ active = Cardinality(Alive) + Cardinality(FinishedIn(inbox))
      /\ Cardinality(Alive) \in Nat /\ Cardinality(FinishedIn(inbox)) \in Nat
      /\ Cardinality(FinishedIn(Tail(inbox))) \in Nat
  <2>1. IsInbox(Tail(inbox))
    BY <1>1, TakeFacts DEF IsInbox
  <2> QED
    BY <1>1, <2>1, CountFacts, AliveFinite, FinishedFinite DEF Ending
<1>4. active' = Cardinality(Alive) + Cardinality(FinishedIn(Tail(inbox)))
  <2>1. CASE GetFinished
    <3>1. Head(inbox).finished /\ active' = active - 1
      BY <2>1 DEF GetFinished
    <3> QED
      BY <1>1, <1>3, <3>1, TakeFinished
  <2>2. CASE GetChange
    <3>1. ~Head(inbox).finished /\ active' = active
      BY <2>2 DEF GetChange
    <3> QED
      BY <1>1, <1>3, <3>1, TakeFinished
  <2> QED
    BY <2>1, <2>2
<1>5. ActiveCount'
  <2>1. Cardinality(Alive)' = Cardinality(Alive)
    BY <1>2
  <2>2. Cardinality(FinishedIn(inbox))' = Cardinality(FinishedIn(Tail(inbox)))
    BY <1>1 DEF FinishedIn
  <2> QED
    BY <1>4, <2>1, <2>2 DEF ActiveCount, Alive, FinishedIn
<1>6. LastIsFinished'
  <2> SUFFICES ASSUME Alive = {}, Tail(inbox) # <<>>
               PROVE  Tail(inbox)[Len(Tail(inbox))].finished
    BY <1>1, <1>2 DEF LastIsFinished
  <2>1. inbox[Len(inbox)].finished
    BY <1>1 DEF Ending, LastIsFinished
  <2>2. Tail(inbox)[Len(Tail(inbox))] = inbox[Len(inbox)]
    BY <1>1 DEF IsInbox
  <2> QED
    BY <2>1, <2>2
<1>7. LeftAtZero'
  BY <1>1 DEF Ending, LeftAtZero, GetFinished, GetChange
<1> QED
  BY <1>5, <1>6, <1>7 DEF Ending

\* A solver sends its termination message and ends.
LEMMA FinishEnding == ASSUME NEW s \in Solvers PROVE Typed /\ Ending /\ Finish(s) => Ending'
<1> SUFFICES ASSUME Typed, Ending, Finish(s) PROVE Ending'
  OBVIOUS
<1>1. /\ IsInbox(inbox) /\ inbox' = Append(inbox, Finished)
      /\ pc[s] = "drain" /\ pc' = [pc EXCEPT ![s] = "exit"]
      /\ UNCHANGED <<active, dpc>>
  BY DEF Typed, TypeOK, IsInbox, Finish, Receive, dispatcherVars
<1>2. Alive' = Alive \ {s} /\ s \in Alive
  BY <1>1 DEF Typed, TypeOK, Alive
<1>3. Cardinality(Alive') = Cardinality(Alive) - 1
  BY <1>2, AliveFinite, FS_RemoveElement
<1>4. /\ active = Cardinality(Alive) + Cardinality(FinishedIn(inbox))
      /\ Cardinality(Alive) \in Nat /\ Cardinality(FinishedIn(inbox)) \in Nat
  BY <1>1, CountFacts, AliveFinite, FinishedFinite DEF Ending
<1>5. active' = Cardinality(Alive') + Cardinality(FinishedIn(inbox'))
  <2>1. Cardinality(FinishedIn(inbox')) = Cardinality(FinishedIn(inbox)) + 1
    BY <1>1, AppendFinished
  <2> QED
    BY <1>1, <1>3, <1>4, <2>1
<1>6. ActiveCount'
  BY <1>5 DEF ActiveCount, Alive, FinishedIn
<1>7. LastIsFinished'
  <2>1. inbox'[Len(inbox')] = Finished
    BY <1>1 DEF IsInbox
  <2> QED
    BY <2>1 DEF LastIsFinished, Finished
<1>8. LeftAtZero'
  BY <1>1 DEF Ending, LeftAtZero
<1> QED
  BY <1>6, <1>7, <1>8 DEF Ending

\* A solver sends a change, and goes on.
LEMMA GenerateEnding ==
    ASSUME NEW s \in Solvers PROVE Typed /\ Ending /\ Typed' /\ Generate(s) => Ending'
<1> SUFFICES ASSUME Typed, Typed', Ending, Generate(s) PROVE Ending'
  OBVIOUS
<1>1. PICK m : inbox' = Append(inbox, m) /\ m.finished = FALSE
  BY DEF Generate
<1>2. /\ IsInbox(inbox) /\ IsInbox(inbox') /\ pc[s] = "drain"
      /\ pc' = [pc EXCEPT ![s] = "sync"] /\ UNCHANGED <<active, dpc>>
  BY DEF Typed, TypeOK, IsInbox, Generate, dispatcherVars
<1>3. Alive' = Alive /\ Alive # {}
  BY <1>2 DEF Typed, TypeOK, Alive
<1>4. m \in Message
  <2>1. inbox'[Len(inbox) + 1] = m /\ Len(inbox) + 1 \in 1..Len(inbox')
    BY <1>1, <1>2 DEF IsInbox
  <2>2. m \in Message \cup {Finished}
    BY <1>2, <2>1 DEF IsInbox
  <2> QED
    BY <1>1, <2>2 DEF Finished
<1>5. FinishedIn(inbox') = FinishedIn(inbox)
  BY <1>1, <1>2, <1>4, AppendChange
<1>6. ActiveCount'
  BY <1>2, <1>3, <1>5, CountFacts DEF Ending, ActiveCount, Alive, FinishedIn
<1> QED
  BY <1>2, <1>3, <1>6 DEF Ending, LastIsFinished, LeftAtZero

\* No step of any thread breaks the count.
LEMMA NextEnding == Typed /\ Typed' /\ Unborn /\ Ending /\ [Next]_vars => Ending'
<1> SUFFICES ASSUME Typed, Typed', Unborn, Ending, [Next]_vars PROVE Ending'
  OBVIOUS
<1>1. CASE GetFinished \/ GetChange
  BY <1>1, GetEnding
<1>2. CASE Spawn
  <2>1. pc' = [pc EXCEPT ![cursor] = "setup"] /\ pc[cursor] = "unborn"
    BY <1>2 DEF Typed, TypeOK, Unborn, Spawn
  <2>2. Alive' = Alive
    BY <2>1 DEF Typed, TypeOK, Alive
  <2> QED
    BY <1>2, <2>2, QuietEnding DEF Spawn, Advance
<1>3. CASE Relay
  <2>1. Alive' = Alive
    BY <1>3 DEF Alive, Relay, solverVars
  <2> QED
    BY <1>3, <2>1, QuietEnding DEF Relay, Advance, solverVars
<1>4. CASE Join \/ MainJoin \/ UNCHANGED vars
  <2>1. Alive' = Alive
    BY <1>4 DEF Alive, Join, MainJoin, vars, solverVars
  <2>2. dpc' \in {"join", "exit"} => dpc \in {"join", "exit"}
    BY <1>4 DEF Join, Advance, MainJoin, vars, dispatcherVars
  <2> QED
    BY <1>4, <2>1, <2>2, QuietEnding DEF Join, MainJoin, vars, dispatcherVars
<1>5. ASSUME NEW s \in Solvers, Setup(s) \/ Snapshot(s) \/ Discard(s) \/ Adopt(s)
      PROVE  Ending'
  <2>1. /\ pc[s] # "exit" /\ pc' \in {pc, [pc EXCEPT ![s] = "sync"], [pc EXCEPT ![s] = "drain"]}
        /\ UNCHANGED <<active, inbox, dpc>>
    BY <1>5 DEF Setup, Snapshot, Discard, Adopt, Receive, dispatcherVars
  <2>2. Alive' = Alive
    BY <2>1 DEF Typed, TypeOK, Alive
  <2> QED
    BY <2>1, <2>2, QuietEnding
<1>6. ASSUME NEW s \in Solvers, Generate(s) \/ Finish(s) PROVE Ending'
  BY <1>6, GenerateEnding, FinishEnding
<1> QED
  BY <1>1, <1>2, <1>3, <1>4, <1>5, <1>6 DEF Next, Dispatch, Solve, Ended

\* The count is right in every state.
LEMMA AlwaysEnding == Spec => []Ending
<1>1. Spec => []Unborn
  BY AlwaysOneSearch, PTL DEF OneSearch
<1> QED
  BY <1>1, InitEnding, NextEnding, AlwaysTyped, PTL DEF Spec

\* The counter of the dispatcher is the number of solvers whose termination
\* message it has not taken, wherever the message is.
THEOREM CountIsRight == Spec => []ActiveCount
BY AlwaysEnding, PTL DEF Ending

\* A counter of 0 leaves no solver alive.
LEMMA NoneAlive ==
    ASSUME Typed, Ending, dpc \in {"join", "exit"}
    PROVE  Alive = {} /\ FinishedIn(inbox) = {}
<1>1. IsInbox(inbox) /\ active = 0
  BY DEF Typed, TypeOK, IsInbox, Ending, LeftAtZero
<1>2. Cardinality(Alive) = 0 /\ Cardinality(FinishedIn(inbox)) = 0
  <2>1. /\ Cardinality(Alive) \in Nat /\ Cardinality(FinishedIn(inbox)) \in Nat
        /\ active = Cardinality(Alive) + Cardinality(FinishedIn(inbox))
    BY <1>1, AliveFinite, FinishedFinite, CountFacts DEF Ending
  <2> QED
    BY <1>1, <2>1
<1> QED
  BY <1>1, <1>2, AliveFinite, FinishedFinite, FS_EmptySet

\* The dispatcher never leaves a change behind: it stops at the last message.
THEOREM NothingIsUnread == Spec => []NothingUnread
<1>1. Typed /\ Ending => NothingUnread
  <2> SUFFICES ASSUME Typed, Ending, dpc \in {"join", "exit"} PROVE inbox = <<>>
    BY DEF NothingUnread
  <2>1. Alive = {} /\ FinishedIn(inbox) = {}
    BY NoneAlive
  <2>2. inbox # <<>> => Len(inbox) \in DOMAIN inbox
    BY DEF Typed, TypeOK
  <2> QED
    BY <2>1, <2>2 DEF Ending, LastIsFinished, FinishedIn
<1> QED
  BY <1>1, AlwaysTyped, AlwaysEnding, PTL

-----------------------------------------------------------------------------
(* The result *)

\* Solvers that have ended have ended at the same message: an earlier end of
\* one is on the history of the other.
LEMMA SameEnd ==
    ASSUME Typed, OneSearch, NEW s \in Solvers, NEW t \in Solvers,
           pc[s] = "exit", pc[t] = "exit"
    PROVE  at[s] = at[t] /\ rep[s] = rep[t]
<1>1. PICK h : IsHistory(h)
  BY DEF OneSearch
<1>2. /\ at[s] \in Nat \ {0} /\ at[t] \in Nat \ {0}
      /\ \A k \in 1..at[s] : Ends(h[k - 1], log[k]) <=> k = at[s]
      /\ \A k \in 1..at[t] : Ends(h[k - 1], log[k]) <=> k = at[t]
  <2>1. at[s] \in Nat /\ at[t] \in Nat
    BY RelayTyping
  <2>2. EndsOnce(h, s) /\ EndsOnce(h, t)
    BY <1>1 DEF IsHistory
  <2> QED
    BY <2>1, <2>2 DEF EndsOnce
<1>3. Ends(h[at[s] - 1], log[at[s]]) /\ Ends(h[at[t] - 1], log[at[t]])
  BY <1>2
<1>4. at[s] = at[t]
  <2>1. CASE at[s] < at[t]
    BY <1>2, <1>3, <2>1
  <2>2. CASE at[t] < at[s]
    BY <1>2, <1>3, <2>2
  <2> QED
    BY <1>2, <2>1, <2>2
<1>5. SearchOf(s) = SearchOf(t)
  BY <1>1, <1>4 DEF IsHistory, OnHistory, Running
<1> QED
  BY <1>4, <1>5 DEF SearchOf

\* Once main has the result no thread runs that could change its source.
Reported == result # <<>> => dpc = "exit" /\ result = <<rep[1].best>>

\* The result is read when no solver runs any more.
LEMMA NextReported == Typed /\ Ending /\ Reported /\ [Next]_vars => Reported'
<1> SUFFICES ASSUME Typed, Ending, Reported, [Next]_vars, result' # <<>>
             PROVE  dpc' = "exit" /\ result' = <<rep'[1].best>>
  BY DEF Reported
<1>1. CASE MainJoin
  BY <1>1 DEF MainJoin, dispatcherVars, solverVars
<1>2. CASE UNCHANGED vars
  BY <1>2 DEF Reported, vars, dispatcherVars, solverVars
<1>3. CASE Dispatch
  <2>1. result' = result /\ dpc # "exit"
    BY <1>3 DEF Dispatch, Spawn, GetFinished, GetChange, Relay, Join
  <2> QED
    BY <2>1 DEF Reported
<1>4. ASSUME NEW s \in Solvers, Solve(s) PROVE FALSE
  <2>1. result' = result /\ pc[s] # "exit"
    BY <1>4 DEF Solve, Setup, Snapshot, Generate, Discard, Adopt, Finish, Receive
  <2>2. dpc = "exit"
    BY <2>1 DEF Reported
  <2> QED
    BY <2>1, <2>2, NoneAlive DEF Alive
<1> QED
  BY <1>1, <1>2, <1>3, <1>4 DEF Next, Ended

\* Main asks the first solver for the best solution; every solver has it, and
\* has found it with the same messages.
THEOREM ResultIsOfAll == Spec => []ResultIsShared
<1>1. Init => Reported
  BY DEF Init, Reported
<1>2. Typed /\ OneSearch /\ Ending /\ Reported => ResultIsShared
  <2> SUFFICES ASSUME Typed, OneSearch, Ending, Reported, result # <<>>, NEW s \in Solvers
               PROVE  pc[s] = "exit" /\ at[s] = at[1] /\ rep[s].best = result[1]
    BY DEF ResultIsShared
  <2>1. dpc = "exit" /\ result[1] = rep[1].best
    BY DEF Reported
  <2>2. pc[s] = "exit" /\ pc[1] = "exit" /\ 1 \in Solvers
    BY <2>1, NoneAlive DEF Alive
  <2> QED
    BY <2>1, <2>2, SameEnd
<1> QED
  BY <1>1, <1>2, NextReported, AlwaysTyped, AlwaysOneSearch, AlwaysEnding, PTL DEF Spec

Replays == INSTANCE Folding WITH Op <- Apply
Runs == INSTANCE Folding WITH Op <- RunAction

-----------------------------------------------------------------------------
(* Runs of actions *)

RunShape(run) == /\ DOMAIN run = {"ok", "sol", "do", "undo", "svc", "ruined"}
                 /\ run.ok \in BOOLEAN

\* Replay and RunActions are the folds that module Folding speaks of.
LEMMA TheyFold ==
    /\ \A sol, do : Replay(sol, do) = Replays!Folded(sol, do)
    /\ \A run, acts : RunActions(run, acts) = Runs!Folded(run, acts)
<1>1. ASSUME NEW sol, NEW do PROVE Replay(sol, do) = Replays!Folded(sol, do)
  BY DEF Replay, FoldLeft, MapThenFoldSet, Max, Replays!Folded, Replays!FoldLeft,
         Replays!MapThenFoldSet, Replays!Max
<1>2. ASSUME NEW run, NEW acts PROVE RunActions(run, acts) = Runs!Folded(run, acts)
  BY DEF RunActions, FoldLeft, MapThenFoldSet, Max, Runs!Folded, Runs!FoldLeft,
         Runs!MapThenFoldSet, Runs!Max
<1> QED
  BY <1>1, <1>2

\* Replaying two lists is replaying one after the other.
LEMMA ConcatFacts ==
    ASSUME NEW s \in Seq(Actions), NEW t \in Seq(Actions)
    PROVE  /\ \A sol : Replay(sol, s \o t) = Replay(Replay(sol, s), t)
           /\ \A run : RunActions(run, s \o t) = RunActions(RunActions(run, s), t)
<1>1. \A sol : Replays!Folded(sol, s \o t) = Replays!Folded(Replays!Folded(sol, s), t)
  BY Replays!FoldConcat
<1>2. \A run : Runs!Folded(run, s \o t) = Runs!Folded(Runs!Folded(run, s), t)
  BY Runs!FoldConcat
<1> QED
  BY <1>1, <1>2, TheyFold

\* No actions do nothing.
LEMMA EmptyFacts == /\ \A sol : Replay(sol, <<>>) = sol
                    /\ \A run : RunActions(run, <<>>) = run
<1>1. \A sol : Replays!Folded(sol, <<>>) = sol
  BY Replays!FoldShort
<1>2. \A run : Runs!Folded(run, <<>>) = run
  BY Runs!FoldShort
<1> QED
  BY <1>1, <1>2, TheyFold

\* Two runs that have come equally far, whatever lists they have filled.
SameRun(x, y) == /\ RunShape(x) /\ RunShape(y)
                 /\ x.ok = y.ok /\ x.sol = y.sol

\* An action takes them equally far, and leaves the vertices of the ruin.
LEMMA SameAfterAction ==
    ASSUME NEW x, NEW y, SameRun(x, y), NEW a
    PROVE  SameRun(RunAction(x, a), RunAction(y, a)) /\ RunAction(x, a).ruined = x.ruined
<1>1. RunShape(x) /\ RunShape(y) /\ x.ok = y.ok /\ x.sol = y.sol
  BY DEF SameRun
<1>2. CASE x.ok /\ IsApplicable(x.sol, a)
  BY <1>1, <1>2 DEF SameRun, RunShape, RunAction, Applied
<1>3. CASE ~(x.ok /\ IsApplicable(x.sol, a))
  BY <1>1, <1>3 DEF SameRun, RunShape, RunAction, Applied
<1> QED
  BY <1>2, <1>3

\* What a run does to a solution does not depend on the lists it appends to,
\* and it leaves the vertices of the ruin as they are.
LEMMA RunsAlike ==
    ASSUME NEW acts \in Seq(Actions), NEW x, NEW y, SameRun(x, y)
    PROVE  /\ SameRun(RunActions(x, acts), RunActions(y, acts))
           /\ RunActions(x, acts).ruined = x.ruined
<1>1. PICK g : Runs!IsTrace(g, x, acts) /\ Runs!Folded(x, acts) = g[Len(acts)]
  BY Runs!FoldHasTrace
<1>2. PICK h : Runs!IsTrace(h, y, acts) /\ Runs!Folded(y, acts) = h[Len(acts)]
  BY Runs!FoldHasTrace
<1> DEFINE P == {n \in Nat : n <= Len(acts) => SameRun(g[n], h[n]) /\ g[n].ruined = x.ruined}
<1>3. 0 \in P
  BY <1>1, <1>2 DEF Runs!IsTrace
<1>4. ASSUME NEW n \in Nat, n \in P PROVE n + 1 \in P
  <2>1. CASE n + 1 <= Len(acts)
    <3>1. n + 1 \in 1..Len(acts) /\ (n + 1) - 1 = n /\ n <= Len(acts)
      BY <2>1, LenProperties
    <3>2. SameRun(g[n], h[n]) /\ g[n].ruined = x.ruined
      BY <1>4, <3>1
    <3>3. g[n + 1] = RunAction(g[n], acts[n + 1]) /\ h[n + 1] = RunAction(h[n], acts[n + 1])
      BY <1>1, <1>2, <3>1 DEF Runs!IsTrace
    <3>4. SameRun(g[n + 1], h[n + 1]) /\ g[n + 1].ruined = x.ruined
      BY <3>2, <3>3, SameAfterAction
    <3> QED
      BY <3>4
  <2>2. CASE ~(n + 1 <= Len(acts))
    BY <2>2
  <2> QED
    BY <2>1, <2>2
<1> HIDE DEF P
<1>5. \A n \in Nat : n \in P
  BY <1>3, <1>4, Runs!Induction
<1> QED
  BY <1>1, <1>2, <1>5, TheyFold, LenProperties DEF P

\* A run that has gone through so far has replayed its actions.
Replayed(run, sol) == RunShape(run) /\ (run.ok => run.sol = sol)

\* One action more.
LEMMA ReplayedAction ==
    ASSUME NEW run, NEW sol, Replayed(run, sol), NEW a
    PROVE  Replayed(RunAction(run, a), Apply(sol, a))
<1>1. RunShape(run) /\ (run.ok => run.sol = sol)
  BY DEF Replayed
<1>2. CASE run.ok /\ IsApplicable(run.sol, a)
  BY <1>1, <1>2 DEF Replayed, RunShape, RunAction, Applied
<1>3. CASE ~(run.ok /\ IsApplicable(run.sol, a))
  BY <1>1, <1>3 DEF Replayed, RunShape, RunAction, Applied
<1> QED
  BY <1>2, <1>3

\* A run that goes through to its end applies its actions one after the other.
LEMMA RunReplays ==
    ASSUME NEW acts \in Seq(Actions), NEW x, RunShape(x)
    PROVE  Replayed(RunActions(x, acts), Replay(x.sol, acts))
<1>1. PICK g : Runs!IsTrace(g, x, acts) /\ Runs!Folded(x, acts) = g[Len(acts)]
  BY Runs!FoldHasTrace
<1>2. PICK h : Replays!IsTrace(h, x.sol, acts) /\ Replays!Folded(x.sol, acts) = h[Len(acts)]
  BY Replays!FoldHasTrace
<1> DEFINE P == {n \in Nat : n <= Len(acts) => Replayed(g[n], h[n])}
<1>3. 0 \in P
  <2>1. Replayed(x, x.sol)
    BY DEF Replayed
  <2> QED
    BY <1>1, <1>2, <2>1 DEF Runs!IsTrace, Replays!IsTrace
<1>4. ASSUME NEW n \in Nat, n \in P PROVE n + 1 \in P
  <2>1. CASE n + 1 <= Len(acts)
    <3>1. n + 1 \in 1..Len(acts) /\ (n + 1) - 1 = n /\ n <= Len(acts)
      BY <2>1, LenProperties
    <3>2. Replayed(g[n], h[n])
      BY <1>4, <3>1
    <3>3. g[n + 1] = RunAction(g[n], acts[n + 1]) /\ h[n + 1] = Apply(h[n], acts[n + 1])
      BY <1>1, <1>2, <3>1 DEF Runs!IsTrace, Replays!IsTrace
    <3>4. Replayed(g[n + 1], h[n + 1])
      BY <3>2, <3>3, ReplayedAction
    <3> QED
      BY <3>4
  <2>2. CASE ~(n + 1 <= Len(acts))
    BY <2>2
  <2> QED
    BY <2>1, <2>2
<1> HIDE DEF P
<1>5. \A n \in Nat : n \in P
  BY <1>3, <1>4, Runs!Induction
<1> QED
  BY <1>1, <1>2, <1>5, TheyFold, LenProperties DEF P

\* A change whose ruin and recreate are empty has ruined nobody.
LEMMA NobodyRuined ==
    ASSUME NEW sol, NEW c \in Changes, c.ruin = <<>>, c.recreate = <<>>
    PROVE  Evaluate(sol, c).ruined = <<>>
<1> DEFINE first == Ruined(RunActions(RunActions(Untouched(sol), c.ruin), c.recreate))
           run == RunActions(first, c.localsearch)
<1>1. first = Ruined(Untouched(sol))
  BY EmptyFacts
<1>2. SameRun(first, first) /\ first.ruined = <<>>
  BY <1>1 DEF SameRun, RunShape, Ruined, Untouched
<1>3. c.localsearch \in Seq(Actions)
  BY SolutionAssumption DEF SolutionAssumption, ChangeType
<1> HIDE DEF first
<1>4. SameRun(run, run) /\ run.ruined = <<>>
  BY <1>2, <1>3, RunsAlike
<1>5. Evaluate(sol, c) = Checked(run)
  BY DEF Evaluate, first
<1> HIDE DEF run
<1> QED
  BY <1>4, <1>5 DEF SameRun, RunShape, Checked

-----------------------------------------------------------------------------
(* Walk lengths *)

\* The messages of walks that have a length.  A change of a walk without steps
\* touches no omega: without this the next shake could make one negative.
WalkMessages ==
    {m \in Message : /\ m.omega \in Nat
                     /\ m.omega = 0 => m.change.ruin = <<>> /\ m.change.recreate = <<>>}

Walks ==
    /\ \A s \in Solvers : Running(s) => rep[s].omega \in [Vertices -> Nat]
    /\ inbox \in Seq(WalkMessages \cup {Finished})
    /\ log \in Seq(WalkMessages)

\* Shaking towards a positive length, or for nobody, keeps lengths natural.
LEMMA ShakeNatural ==
    ASSUME NEW omega \in [Vertices -> Nat], NEW ruined, NEW m, m.omega \in Nat,
           m.omega = 0 => ruined = <<>>, NEW srnd
    PROVE  Shake(omega, ruined, m, srnd) \in [Vertices -> Nat]
<1>1. CASE m.omega = 0
  <2>1. ToSet(ruined) = {}
    BY <1>1 DEF ToSet
  <2> QED
    BY <2>1 DEF Shake
<1>2. CASE m.omega > 0
  <2>1. \A w \in Nat : Lowered(w, m.omega) \in Nat /\ Raised(w, m.omega) \in Nat
    BY <1>2 DEF Lowered, Raised
  <2> HIDE DEF Vertices
  <2> QED
    BY <2>1 DEF Shake
<1> QED
  BY <1>1, <1>2

\* A message keeps the walk lengths natural.
LEMMA StepWalks ==
    ASSUME NEW x, x.ref \in Solutions, "omega" \in DOMAIN x.rep,
           x.rep.omega \in [Vertices -> Nat], NEW m \in WalkMessages
    PROVE  StepOf(x, m).rep.omega \in [Vertices -> Nat]
<1> DEFINE run == Evaluate(x.ref, m.change)
<1>1. m.omega \in Nat /\ m.change \in Changes
  BY MessageFacts DEF WalkMessages
<1>2. m.omega = 0 => run.ruined = <<>>
  BY <1>1, NobodyRuined DEF WalkMessages
<1> HIDE DEF run
<1>3. Counted(x.rep, run).omega = x.rep.omega /\ "omega" \in DOMAIN Counted(x.rep, run)
  BY DEF Counted
<1>4. Annealed(x.rep, m, run).omega = Shake(x.rep.omega, run.ruined, m, x.rep.srnd)
  BY <1>3 DEF Annealed
<1>5. Annealed(x.rep, m, run).omega \in [Vertices -> Nat]
  <2>1. ASSUME NEW omega \in [Vertices -> Nat], NEW ruined, NEW srnd,
               m.omega = 0 => ruined = <<>>
        PROVE  Shake(omega, ruined, m, srnd) \in [Vertices -> Nat]
    BY <1>1, <2>1, ShakeNatural
  <2>2. Shake(x.rep.omega, run.ruined, m, x.rep.srnd) \in [Vertices -> Nat]
    BY <1>2, <2>1
  <2> QED
    BY <1>4, <2>2
<1>6. /\ ~run.ok => StepOf(x, m) = x
      /\ run.ok /\ x.rep.iter + 1 = MaxIter => StepOf(x, m).rep = Counted(x.rep, run)
      /\ run.ok /\ x.rep.iter + 1 # MaxIter => StepOf(x, m).rep = Annealed(x.rep, m, run)
  BY DEF StepOf, run
<1> QED
  BY <1>3, <1>5, <1>6

\* The message that a solver offers.
LEMMA OfferFacts ==
    ASSUME Typed, Typed', NEW s \in Solvers, Generate(s)
    PROVE  \E sc \in Customers, m \in Message :
              /\ inbox' = Append(inbox, m)
              /\ m.omega = rep[s].omega[sc]
              /\ m.change \in Candidates(ref[s], sc, WalkLength(rep[s].omega[sc]))
<1>1. Reference(s) = ref[s]
  BY DEF Typed, UndoRestoresReference
<1>2. PICK sc \in Customers :
      \E c \in Candidates(ref[s], sc, WalkLength(rep[s].omega[sc])) :
      \E run \in {Evaluate(ref[s], c)} :
          inbox' = Append(inbox,
                      [finished |-> FALSE,
                       change   |-> c,
                       omega    |-> rep[s].omega[sc],
                       cost     |-> Cost(run.sol),
                       grade    |-> Grade(Cost(run.sol), rep[s].refcost, ref[s])])
  BY <1>1 DEF Generate
<1>3. PICK c \in Candidates(ref[s], sc, WalkLength(rep[s].omega[sc])) :
      \E run \in {Evaluate(ref[s], c)} :
          inbox' = Append(inbox,
                      [finished |-> FALSE,
                       change   |-> c,
                       omega    |-> rep[s].omega[sc],
                       cost     |-> Cost(run.sol),
                       grade    |-> Grade(Cost(run.sol), rep[s].refcost, ref[s])])
  BY <1>2
<1> DEFINE m == [finished |-> FALSE, change |-> c, omega |-> rep[s].omega[sc],
                 cost |-> Cost(Evaluate(ref[s], c).sol),
                 grade |-> Grade(Cost(Evaluate(ref[s], c).sol), rep[s].refcost, ref[s])]
<1>4. inbox' = Append(inbox, m)
  BY <1>3
<1>5. m.omega = rep[s].omega[sc] /\ m.change = c /\ m.finished = FALSE
  OBVIOUS
<1> HIDE DEF m
<1>6. m \in Message
  <2>1. inbox \in Seq(Message \cup {Finished}) /\ inbox' \in Seq(Message \cup {Finished})
    BY DEF Typed, TypeOK
  <2>2. Len(inbox) \in Nat /\ inbox' = inbox \o <<m>>
    BY <1>4, <2>1
  <2>3. inbox'[Len(inbox')] = m /\ Len(inbox') \in DOMAIN inbox'
    BY <1>4, <2>1
  <2>4. m \in Message \cup {Finished}
    BY <2>1, <2>3
  <2> QED
    BY <1>5, <2>4 DEF Finished
<1> QED
  BY <1>3, <1>4, <1>5, <1>6
\* A step that sends, relays and processes nothing keeps the lengths.
LEMMA QuietWalks ==
    ASSUME Walks, inbox' = inbox \/ (inbox # <<>> /\ inbox' = Tail(inbox)), log' = log,
           \A s \in Solvers : Running(s)' => Running(s) /\ rep'[s] = rep[s]
    PROVE  Walks'
<1>1. inbox' \in Seq(WalkMessages \cup {Finished})
  BY TakeFacts DEF Walks
<1> QED
  BY <1>1 DEF Walks

\* The dispatcher takes a message over into the log.
LEMMA GetChangeWalks == Typed /\ Walks /\ GetChange => Walks'
<1> SUFFICES ASSUME Typed, Walks, GetChange PROVE Walks'
  OBVIOUS
<1>1. Head(inbox) \in WalkMessages /\ inbox' \in Seq(WalkMessages \cup {Finished})
  <2>1. /\ inbox # <<>> /\ ~Head(inbox).finished /\ inbox' = Tail(inbox)
        /\ inbox \in Seq(WalkMessages \cup {Finished})
    BY DEF Walks, GetChange
  <2> QED
    BY <2>1, TakeFacts DEF Finished
<1>2. log' \in Seq(WalkMessages)
  <2>1. log' = Append(log, Head(inbox)) /\ log \in Seq(WalkMessages)
    BY DEF Walks, GetChange
  <2> QED
    BY <1>1, <2>1
<1> QED
  BY <1>1, <1>2 DEF Walks, GetChange, solverVars, Running

\* A solver starts with the lengths of a natural number.
LEMMA SetupWalks == ASSUME NEW s \in Solvers PROVE Typed /\ Walks /\ Setup(s) => Walks'
<1> SUFFICES ASSUME Typed, Walks, Setup(s) PROVE Walks'
  OBVIOUS
<1>1. rep'[s].omega \in [Vertices -> Nat]
  <2>1. rep'[s] = StartRep(seed)
    BY DEF Typed, OmegaTyped, Setup, SharedSeed
  <2>2. StartRep(seed).omega = [v \in Vertices |-> OmegaBase]
    BY DEF StartRep, StartOf
  <2>3. OmegaBase \in Nat
    BY SolutionAssumption DEF SolutionAssumption
  <2> QED
    BY <2>1, <2>2, <2>3
<1>2. ASSUME NEW t \in Solvers, t # s PROVE rep'[t] = rep[t] /\ Running(t)' = Running(t)
  BY <1>2 DEF Typed, TypeOK, OmegaTyped, Setup, Running
<1> QED
  BY <1>1, <1>2 DEF Walks, Setup

\* A solver that deals with a message keeps the lengths, and the last message
\* it may send carries none.
LEMMA MessageWalks ==
    ASSUME NEW s \in Solvers
    PROVE  Typed /\ Ordered /\ Walks /\ (Discard(s) \/ Adopt(s) \/ Finish(s)) => Walks'
<1> SUFFICES ASSUME Typed, Ordered, Walks, Discard(s) \/ Adopt(s) \/ Finish(s) PROVE Walks'
  OBVIOUS
<1> DEFINE m == log[at[s] + 1]
<1>1. m \in WalkMessages
  <2>1. at[s] \in 0..(Len(log) - 1) /\ log \in Seq(WalkMessages)
    BY MessageStep DEF Walks
  <2> QED
    BY <2>1
<1> HIDE DEF m
<1>2. /\ SearchOf(s).ref \in Solutions /\ "omega" \in DOMAIN SearchOf(s).rep
      /\ SearchOf(s).rep.omega \in [Vertices -> Nat]
  BY MessageStep DEF SearchOf, Typed, TypeOK, OmegaTyped, Walks
<1>3. StepOf(SearchOf(s), m).rep.omega \in [Vertices -> Nat]
  BY <1>1, <1>2, StepWalks
<1>4. rep'[s].omega \in [Vertices -> Nat]
  <2>1. SearchOf(s)' = StepOf(SearchOf(s), m)
    BY MessageStep DEF m
  <2>2. rep'[s] = SearchOf(s)'.rep
    BY DEF SearchOf
  <2> QED
    BY <1>3, <2>1, <2>2
<1>5. \A t \in Solvers : t # s => rep'[t] = rep[t] /\ Running(t)' = Running(t)
  BY MessageStep DEF SearchOf
<1>6. inbox' \in Seq(WalkMessages \cup {Finished})
  <2>1. inbox' \in {inbox, Append(inbox, Finished)}
    BY DEF Discard, Adopt, Finish
  <2>2. inbox \in Seq(WalkMessages \cup {Finished})
    BY DEF Walks
  <2> QED
    BY <2>1, <2>2
<1>7. log' = log
  BY MessageStep
<1> QED
  BY <1>4, <1>5, <1>6, <1>7 DEF Walks

\* The message that a solver offers is of a walk of one of its lengths.
LEMMA GenerateWalks ==
    ASSUME NEW s \in Solvers PROVE Typed /\ Typed' /\ Walks /\ Generate(s) => Walks'
<1> SUFFICES ASSUME Typed, Typed', Walks, Generate(s) PROVE Walks'
  OBVIOUS
<1>1. PICK sc \in Customers, m \in Message :
          /\ inbox' = Append(inbox, m)
          /\ m.omega = rep[s].omega[sc]
          /\ m.change \in Candidates(ref[s], sc, WalkLength(rep[s].omega[sc]))
  BY OfferFacts
<1>2. m.omega \in Nat
  <2>1. Running(s) /\ sc \in Vertices
    BY DEF Generate, Running, Vertices
  <2>2. rep[s].omega \in [Vertices -> Nat]
    BY <2>1 DEF Walks
  <2> QED
    BY <1>1, <2>1, <2>2
<1>3. m.omega = 0 => m.change.ruin = <<>> /\ m.change.recreate = <<>>
  <2> SUFFICES ASSUME m.omega = 0 PROVE m.change.ruin = <<>> /\ m.change.recreate = <<>>
    OBVIOUS
  <2>1. Cardinality(Customers) \in Nat
    BY SolutionAssumption, FS_CardinalityType DEF SolutionAssumption
  <2>2. WalkLength(rep[s].omega[sc]) = 0
    BY <1>1, <2>1 DEF WalkLength
  <2>3. ref[s] \in Solutions /\ 0 \in 0..Cardinality(Customers)
    BY <2>1 DEF Typed, TypeOK
  <2> QED
    BY <1>1, <2>2, <2>3, GenerationAssumption DEF GenerationAssumption
<1>4. inbox' \in Seq(WalkMessages \cup {Finished})
  <2>1. m \in WalkMessages
    BY <1>2, <1>3 DEF WalkMessages
  <2> QED
    BY <1>1, <2>1 DEF Walks
<1>5. UNCHANGED <<rep, log>> /\ \A t \in Solvers : Running(t)' => Running(t)
  BY DEF Generate, Running, Typed, TypeOK
<1> QED
  BY <1>4, <1>5 DEF Walks

\* Every step keeps the walk lengths natural.
LEMMA NextWalks == Typed /\ Typed' /\ Ordered /\ Walks /\ [Next]_vars => Walks'
<1> SUFFICES ASSUME Typed, Typed', Ordered, Walks, [Next]_vars PROVE Walks'
  OBVIOUS
<1>1. CASE Spawn
  <2>1. ASSUME NEW s \in Solvers, Running(s)' PROVE Running(s)
    BY <1>1, <2>1 DEF Typed, TypeOK, Spawn, Running
  <2> QED
    BY <1>1, <2>1, QuietWalks DEF Spawn
<1>2. CASE GetChange
  BY <1>2, GetChangeWalks
<1>3. CASE GetFinished \/ Relay \/ Join \/ MainJoin \/ UNCHANGED vars
  <2>1. UNCHANGED <<pc, rep, log>> /\ (inbox' = inbox \/ (inbox # <<>> /\ inbox' = Tail(inbox)))
    BY <1>3 DEF GetFinished, Relay, Join, MainJoin, vars, solverVars
  <2> QED
    BY <2>1, QuietWalks DEF Running
<1>4. ASSUME NEW s \in Solvers, Snapshot(s) PROVE Walks'
  <2>1. UNCHANGED <<rep, log, inbox>> /\ \A t \in Solvers : Running(t)' => Running(t)
    BY <1>4 DEF Typed, TypeOK, Snapshot, Running, dispatcherVars
  <2> QED
    BY <2>1, QuietWalks
<1>5. ASSUME NEW s \in Solvers, Setup(s) \/ Generate(s) \/ Discard(s) \/ Adopt(s) \/ Finish(s)
      PROVE  Walks'
  BY <1>5, SetupWalks, GenerateWalks, MessageWalks
<1> QED
  BY <1>1, <1>2, <1>3, <1>4, <1>5 DEF Next, Dispatch, Solve, Ended

\* No walk length becomes negative, however often it is lowered, because a walk
\* of length 0 ruins nobody whose length could be lowered towards -1.
THEOREM OmegaStaysNatural == Spec => []OmegaNonNegative
<1>1. Init => Walks
  BY DEF Init, Walks, Running
<1>2. Walks => OmegaNonNegative
  BY DEF Walks, OmegaNonNegative
<1> QED
  BY <1>1, <1>2, NextWalks, AlwaysTyped, AlwaysOrdered, PTL DEF Spec
-----------------------------------------------------------------------------
(* The lists that stand for solutions *)

RepFields == {"best", "do2", "refcost", "iter", "srnd", "coolings", "omega", "gamma",
              "counter", "seen"}

\* What holds of a search from the first message to the last.
Shaped(x) ==
    /\ DOMAIN x.rep = RepFields
    /\ x.ref \in Solutions /\ x.rep.best \in Solutions
    /\ x.rep.srnd \in [seed : Seeds, pos : Nat] /\ x.rep.coolings \in Nat

\* The run that replays do_list2 on the best solution, and what holds of a
\* search that goes on.  After the last message the reference is left behind.
Replaying(x) == RunActions(Untouched(x.rep.best), x.rep.do2)

Linked(x) ==
    /\ x.rep.do2 \in Seq(Actions)
    /\ SameRun(Replaying(x), Untouched(x.ref))
    /\ x.rep.refcost = Cost(x.ref) /\ Cost(x.rep.best) <= Cost(x.ref)
    /\ MaxIter # 0 => x.rep.iter # MaxIter

\* No actions have been applied.
LEMMA UntouchedFacts ==
    ASSUME NEW sol
    PROVE  /\ RunShape(Untouched(sol)) /\ Untouched(sol).ok /\ Untouched(sol).sol = sol
           /\ SameRun(RunActions(Untouched(sol), <<>>), Untouched(sol))
<1>1. RunShape(Untouched(sol)) /\ Untouched(sol).ok /\ Untouched(sol).sol = sol
  BY DEF RunShape, Untouched
<1>2. RunActions(Untouched(sol), <<>>) = Untouched(sol)
  BY EmptyFacts
<1> QED
  BY <1>1, <1>2 DEF SameRun

\* What SolutionAssumption and ReplayAssumption say of a change that is
\* evaluated to the end.
LEMMA ChangeFacts ==
    ASSUME NEW sol \in Solutions, NEW c \in Changes, Evaluate(sol, c).ok
    PROVE  LET run == Evaluate(sol, c)
           IN  /\ run.do \in Seq(Actions) /\ run.sol \in Solutions
               /\ run.ruined \in Seq(Vertices)
               /\ Cost(sol) \in Int /\ Cost(run.sol) \in Int
               /\ SameRun(RunActions(Untouched(sol), run.do), Untouched(run.sol))
<1> DEFINE run == Evaluate(sol, c)
           again == RunActions(Untouched(sol), run.do)
<1>1. run.do \in Seq(Actions) /\ run.sol \in Solutions /\ run.ruined \in Seq(Vertices)
  <2>1. PICK r \in {run} : /\ r.do \in Seq(Actions) /\ r.ruined \in Seq(Vertices)
                           /\ r.ok => r.sol \in Solutions
    BY SolutionAssumption DEF SolutionAssumption
  <2> QED
    BY <2>1
<1>2. Cost(sol) \in Int /\ Cost(run.sol) \in Int
  BY <1>1, SolutionAssumption DEF SolutionAssumption
<1>3. again.ok /\ again.sol = run.sol
  <2>1. PICK r \in {run} :
        \E replay \in {RunActions(Untouched(sol), r.do)} :
            r.ok => replay.ok /\ replay.sol = r.sol
    BY ReplayAssumption DEF ReplayAssumption
  <2> QED
    BY <2>1
<1>4. SameRun(Untouched(sol), Untouched(sol))
  BY DEF SameRun, RunShape, Untouched
<1> HIDE DEF run
<1>5. SameRun(again, again)
  BY <1>1, <1>4, RunsAlike
<1> HIDE DEF again
<1>6. SameRun(again, Untouched(run.sol))
  BY <1>3, <1>5 DEF SameRun, RunShape, Untouched
<1> QED
  BY <1>1, <1>2, <1>6 DEF run, again

\* The best solution, moved on by do_list2 and do_list1, is the one evaluated.
LEMMA BestFacts ==
    ASSUME NEW x, Shaped(x), Linked(x), NEW c \in Changes, Evaluate(x.ref, c).ok
    PROVE  LET run == Evaluate(x.ref, c)
           IN  /\ BestAfter(x.rep, run) = run.sol
               /\ x.rep.do2 \o run.do \in Seq(Actions)
               /\ SameRun(RunActions(Untouched(x.rep.best), x.rep.do2 \o run.do),
                          Untouched(run.sol))
<1> DEFINE run == Evaluate(x.ref, c)
           first == Replaying(x)
           again == RunActions(Untouched(x.ref), run.do)
<1>1. /\ x.ref \in Solutions /\ x.rep.do2 \in Seq(Actions)
      /\ SameRun(first, Untouched(x.ref))
  BY DEF Shaped, Linked
<1>2. run.do \in Seq(Actions) /\ SameRun(again, Untouched(run.sol))
  BY <1>1, ChangeFacts
<1> HIDE DEF run
<1>3. \A sol : RunShape(Untouched(sol)) /\ Untouched(sol).ok /\ Untouched(sol).sol = sol
  BY UntouchedFacts
<1>4. Replay(x.rep.best, x.rep.do2) = x.ref
  <2>1. Replayed(first, Replay(x.rep.best, x.rep.do2))
    BY <1>1, <1>3, RunReplays DEF Replaying
  <2> HIDE DEF first
  <2>2. first.ok /\ first.sol = x.ref
    BY <1>1, <1>3 DEF SameRun
  <2> QED
    BY <2>1, <2>2 DEF Replayed
<1>5. Replay(x.ref, run.do) = run.sol
  <2>1. Replayed(again, Replay(x.ref, run.do))
    BY <1>2, <1>3, RunReplays
  <2> HIDE DEF again
  <2>2. again.ok /\ again.sol = run.sol
    BY <1>2, <1>3 DEF SameRun
  <2> QED
    BY <2>1, <2>2 DEF Replayed
<1>6. SameRun(RunActions(Untouched(x.rep.best), x.rep.do2 \o run.do), Untouched(run.sol))
  <2>1. RunActions(Untouched(x.rep.best), x.rep.do2 \o run.do) = RunActions(first, run.do)
    BY <1>1, <1>2, ConcatFacts DEF Replaying
  <2> HIDE DEF first
  <2>2. SameRun(RunActions(first, run.do), again)
    BY <1>1, <1>2, RunsAlike
  <2> HIDE DEF again
  <2> QED
    BY <1>2, <2>1, <2>2 DEF SameRun
<1>7. x.rep.do2 \o run.do \in Seq(Actions)
  BY <1>1, <1>2
<1>8. BestAfter(x.rep, run) = run.sol
  BY <1>4, <1>5 DEF BestAfter
<1> QED
  BY <1>6, <1>7, <1>8 DEF run
\* The records of a search after a message, field by field.
LEMMA CountedFields ==
    ASSUME NEW rp, DOMAIN rp = RepFields, NEW run
    PROVE  LET improved == Cost(run.sol) < Cost(rp.best)
               seen     == rp.seen + Len(run.svc)
               sparse   == Sparsify(rp.gamma, rp.counter, run.svc, improved,
                                    Patience(seen, rp.iter + 1))
               next     == Counted(rp, run)
           IN  /\ DOMAIN next = RepFields
               /\ next.iter = rp.iter + 1 /\ next.seen = seen
               /\ next.best = IF improved THEN BestAfter(rp, run) ELSE rp.best
               /\ next.do2 = IF improved THEN <<>> ELSE rp.do2
               /\ next.gamma = sparse.gamma /\ next.counter = sparse.counter
               /\ next.refcost = rp.refcost /\ next.srnd = rp.srnd
               /\ next.coolings = rp.coolings /\ next.omega = rp.omega
BY DEF RepFields, Counted

\* The same for an iteration that is not the last.
LEMMA AnnealedFields ==
    ASSUME NEW rp, DOMAIN rp = RepFields, NEW m, NEW run
    PROVE  LET next == Annealed(rp, m, run)
               mid  == Counted(rp, run)
           IN  /\ DOMAIN next = RepFields
               /\ next.iter = mid.iter /\ next.seen = mid.seen /\ next.best = mid.best
               /\ next.gamma = mid.gamma /\ next.counter = mid.counter
               /\ next.do2 = IF AcceptedBy(rp, m, run) THEN Do2After(rp, run) ELSE mid.do2
               /\ next.refcost = IF AcceptedBy(rp, m, run) THEN Cost(run.sol) ELSE rp.refcost
               /\ next.srnd = [Tossed(rp.srnd, run.ruined, m) EXCEPT !.pos = @ + 1]
               /\ next.coolings = rp.coolings + 1
               /\ next.omega = Shake(rp.omega, run.ruined, m, rp.srnd)
<1> DEFINE mid == Counted(rp, run)
<1>1. DOMAIN mid = RepFields /\ mid.refcost = rp.refcost /\ mid.coolings = rp.coolings
      /\ mid.omega = rp.omega
  BY CountedFields
<1> HIDE DEF mid
<1> QED
  BY <1>1 DEF RepFields, Annealed, mid

\* The coins that were tossed leave the generator in its stream.
LEMMA TossedFacts ==
    ASSUME NEW srnd \in [seed : Seeds, pos : Nat], NEW ruined \in Seq(Vertices), NEW m
    PROVE  LET tossed == Tossed(srnd, ruined, m)
           IN  /\ tossed \in [seed : Seeds, pos : Nat]
               /\ [tossed EXCEPT !.pos = @ + 1] \in [seed : Seeds, pos : Nat]
<1> DEFINE coins == IF m.grade = "between" THEN Len(ruined) ELSE 0
<1>1. coins \in Nat
  BY LenProperties
<1>2. Tossed(srnd, ruined, m) = [srnd EXCEPT !.pos = @ + coins]
  BY DEF Tossed
<1> HIDE DEF coins
<1>3. \A n \in Nat : [srnd EXCEPT !.pos = @ + n] \in [seed : Seeds, pos : Nat]
  OBVIOUS
<1>4. Tossed(srnd, ruined, m) \in [seed : Seeds, pos : Nat]
  BY <1>1, <1>2, <1>3
<1>5. \A r \in [seed : Seeds, pos : Nat] : [r EXCEPT !.pos = @ + 1] \in [seed : Seeds, pos : Nat]
  OBVIOUS
<1> QED
  BY <1>4, <1>5

\* A change that improves the best solution is accepted as the next reference.
LEMMA ImprovementsAccepted ==
    ASSUME SlackIsNatural, NEW x, Shaped(x), Linked(x), NEW m, NEW run,
           run.ruined \in Seq(Vertices), Cost(run.sol) \in Int,
           Cost(run.sol) < Cost(x.rep.best)
    PROVE  AcceptedBy(x.rep, m, run)
<1> DEFINE tossed == Tossed(x.rep.srnd, run.ruined, m)
<1>1. x.rep.srnd \in [seed : Seeds, pos : Nat] /\ x.rep.coolings \in Nat
  BY DEF Shaped
<1>2. tossed \in [seed : Seeds, pos : Nat]
  BY <1>1, TossedFacts
<1> HIDE DEF tossed
<1>3. Slack(tossed.seed, tossed.pos + 1, x.rep.coolings) \in Nat
  <2>1. tossed.seed \in Seeds /\ tossed.pos + 1 \in Nat
    BY <1>2
  <2> QED
    BY <1>1, <2>1 DEF SlackIsNatural
<1>4. /\ Cost(x.rep.best) \in Int /\ Cost(x.ref) \in Int
      /\ Cost(x.rep.best) <= Cost(x.ref) /\ x.rep.refcost = Cost(x.ref)
  BY SolutionAssumption DEF SolutionAssumption, Shaped, Linked
<1>5. Cost(run.sol) < x.rep.refcost + Slack(tossed.seed, tossed.pos + 1, x.rep.coolings)
  BY <1>3, <1>4
<1> QED
  BY <1>5 DEF AcceptedBy, Accepts, tossed

\* A message keeps a search in shape, and linked unless it was the last.
LEMMA StepLinked ==
    ASSUME SlackIsNatural, NEW x, Shaped(x), Linked(x), NEW m \in Message
    PROVE  Shaped(StepOf(x, m)) /\ (~Ends(x, m) => Linked(StepOf(x, m)))
<1> DEFINE run == Evaluate(x.ref, m.change)
           y == StepOf(x, m)
           improved == Cost(run.sol) < Cost(x.rep.best)
           taken == AcceptedBy(x.rep, m, run)
<1>1. x.ref \in Solutions /\ m.change \in Changes /\ DOMAIN x.rep = RepFields
  BY MessageFacts DEF Shaped
<1>2. CASE ~run.ok
  <2>1. y = x
    BY <1>2 DEF StepOf
  <2> QED
    BY <2>1
<1>3. ASSUME run.ok PROVE Shaped(y) /\ (~Ends(x, m) => Linked(y))
  <2>1. /\ run.sol \in Solutions /\ run.ruined \in Seq(Vertices)
        /\ Cost(run.sol) \in Int /\ Cost(x.ref) \in Int
    BY <1>1, <1>3, ChangeFacts
  <2>2. /\ BestAfter(x.rep, run) = run.sol /\ x.rep.do2 \o run.do \in Seq(Actions)
        /\ SameRun(RunActions(Untouched(x.rep.best), x.rep.do2 \o run.do), Untouched(run.sol))
    BY <1>1, <1>3, BestFacts
  <2>3. improved => taken
    BY <2>1, ImprovementsAccepted
  <2>4. SameRun(RunActions(Untouched(run.sol), <<>>), Untouched(run.sol))
    BY UntouchedFacts
  <2>5. /\ Cost(x.rep.best) \in Int /\ Cost(x.rep.best) <= Cost(x.ref)
        /\ x.rep.srnd \in [seed : Seeds, pos : Nat] /\ x.rep.coolings \in Nat
        /\ x.rep.best \in Solutions /\ x.rep.do2 \in Seq(Actions)
        /\ SameRun(Replaying(x), Untouched(x.ref)) /\ x.rep.refcost = Cost(x.ref)
    BY SolutionAssumption DEF SolutionAssumption, Shaped, Linked
  <2>6. Ends(x, m) <=> x.rep.iter + 1 = MaxIter
    BY <1>3 DEF Ends
  <2>7. /\ x.rep.iter + 1 = MaxIter => y = [rep |-> Counted(x.rep, run), ref |-> x.ref]
        /\ x.rep.iter + 1 # MaxIter =>
              y = [rep |-> Annealed(x.rep, m, run), ref |-> IF taken THEN run.sol ELSE x.ref]
    BY <1>3 DEF StepOf
  <2>8. [Tossed(x.rep.srnd, run.ruined, m) EXCEPT !.pos = @ + 1] \in [seed : Seeds, pos : Nat]
    BY <2>1, <2>5, TossedFacts
  <2> HIDE DEF run, y, taken
  <2>9. CASE x.rep.iter + 1 = MaxIter
    <3>1. y.rep = Counted(x.rep, run) /\ y.ref = x.ref
      BY <2>7, <2>9
    <3>2. /\ DOMAIN y.rep = RepFields
          /\ y.rep.best = IF improved THEN run.sol ELSE x.rep.best
          /\ y.rep.srnd = x.rep.srnd /\ y.rep.coolings = x.rep.coolings
      <4>1. LET next == Counted(x.rep, run)
            IN  /\ DOMAIN next = RepFields
                /\ next.best = IF improved THEN BestAfter(x.rep, run) ELSE x.rep.best
                /\ next.srnd = x.rep.srnd /\ next.coolings = x.rep.coolings
        BY <1>1, CountedFields
      <4> HIDE DEF improved
      <4> QED
        BY <2>2, <3>1, <4>1
    <3>3. Shaped(y)
      BY <1>1, <2>1, <2>5, <3>1, <3>2 DEF Shaped
    <3> QED
      BY <2>6, <2>9, <3>3
  <2>10. CASE x.rep.iter + 1 # MaxIter
    <3>1. y.rep = Annealed(x.rep, m, run) /\ y.ref = IF taken THEN run.sol ELSE x.ref
      BY <2>7, <2>10
    <3>2. /\ DOMAIN y.rep = RepFields
          /\ y.rep.iter = x.rep.iter + 1
          /\ y.rep.best = IF improved THEN run.sol ELSE x.rep.best
          /\ y.rep.do2 = IF taken THEN Do2After(x.rep, run)
                         ELSE IF improved THEN <<>> ELSE x.rep.do2
          /\ y.rep.refcost = IF taken THEN Cost(run.sol) ELSE x.rep.refcost
          /\ y.rep.srnd = [Tossed(x.rep.srnd, run.ruined, m) EXCEPT !.pos = @ + 1]
          /\ y.rep.coolings = x.rep.coolings + 1
      <4>1. LET mid == Counted(x.rep, run)
            IN  /\ mid.iter = x.rep.iter + 1
                /\ mid.best = IF improved THEN BestAfter(x.rep, run) ELSE x.rep.best
                /\ mid.do2 = IF improved THEN <<>> ELSE x.rep.do2
        BY <1>1, CountedFields, ZenonT(40)
      <4>2. LET mid  == Counted(x.rep, run)
                next == Annealed(x.rep, m, run)
            IN  /\ DOMAIN next = RepFields
                /\ next.iter = mid.iter /\ next.best = mid.best
                /\ next.do2 = IF taken THEN Do2After(x.rep, run) ELSE mid.do2
                /\ next.refcost = IF taken THEN Cost(run.sol) ELSE x.rep.refcost
                /\ next.srnd = [Tossed(x.rep.srnd, run.ruined, m) EXCEPT !.pos = @ + 1]
                /\ next.coolings = x.rep.coolings + 1
        BY <1>1, AnnealedFields DEF taken
      <4> HIDE DEF improved
      <4> QED
        BY <2>2, <3>1, <4>1, <4>2
    <3>3. Shaped(y)
      BY <1>1, <2>1, <2>5, <2>8, <3>1, <3>2 DEF Shaped
    <3>4. CASE improved
      <4>1. y.rep.do2 = <<>> /\ y.rep.best = run.sol /\ y.ref = run.sol
            /\ y.rep.refcost = Cost(run.sol)
        BY <2>3, <3>1, <3>2, <3>4 DEF Do2After
      <4>2. SameRun(Replaying(y), Untouched(y.ref)) /\ y.rep.do2 \in Seq(Actions)
        BY <2>4, <4>1 DEF Replaying
      <4>3. Cost(y.rep.best) <= Cost(y.ref) /\ y.rep.refcost = Cost(y.ref)
        BY <2>1, <4>1
      <4>4. y.rep.iter # MaxIter
        BY <2>10, <3>2
      <4> QED
        BY <3>3, <4>2, <4>3, <4>4 DEF Linked
    <3>5. CASE ~improved /\ taken
      <4>1. y.rep.do2 = x.rep.do2 \o run.do /\ y.rep.best = x.rep.best /\ y.ref = run.sol
            /\ y.rep.refcost = Cost(run.sol)
        BY <3>1, <3>2, <3>5 DEF Do2After
      <4>2. Cost(x.rep.best) <= Cost(run.sol)
        BY <2>1, <2>5, <3>5
      <4> QED
        BY <2>2, <2>10, <3>2, <3>3, <4>1, <4>2 DEF Linked, Replaying
    <3>6. CASE ~improved /\ ~taken
      <4>1. y.rep.do2 = x.rep.do2 /\ y.rep.best = x.rep.best /\ y.ref = x.ref
            /\ y.rep.refcost = x.rep.refcost
        BY <3>1, <3>2, <3>6
      <4> QED
        BY <2>5, <2>10, <3>2, <3>3, <4>1 DEF Linked, Replaying
    <3> QED
      BY <3>4, <3>5, <3>6
  <2> QED
    BY <2>9, <2>10
<1> QED
  BY <1>2, <1>3
\* A new best solution is the one evaluated, and cheaper.
LEMMA StepBest ==
    ASSUME NEW x, Shaped(x), Linked(x), NEW m \in Message,
           StepOf(x, m).rep.best # x.rep.best
    PROVE  /\ StepOf(x, m).rep.best = Evaluate(x.ref, m.change).sol
           /\ Cost(StepOf(x, m).rep.best) < Cost(x.rep.best)
<1> DEFINE run == Evaluate(x.ref, m.change)
           improved == Cost(run.sol) < Cost(x.rep.best)
<1>1. m.change \in Changes /\ DOMAIN x.rep = RepFields
  BY MessageFacts DEF Shaped
<1>2. run.ok
  BY DEF StepOf
<1>3. BestAfter(x.rep, run) = run.sol
  BY <1>1, <1>2, BestFacts
<1>4. StepOf(x, m).rep \in {Counted(x.rep, run), Annealed(x.rep, m, run)}
  BY <1>2 DEF StepOf
<1> HIDE DEF run
<1>5. Counted(x.rep, run).best = IF improved THEN BestAfter(x.rep, run) ELSE x.rep.best
  BY <1>1, CountedFields
<1> HIDE DEF improved
<1>6. Annealed(x.rep, m, run).best = Counted(x.rep, run).best
  <2> DEFINE mid == Counted(x.rep, run)
  <2>1. DOMAIN mid = RepFields
    BY <1>1, CountedFields
  <2> HIDE DEF mid
  <2> QED
    BY <2>1 DEF Annealed, mid
<1>7. improved /\ StepOf(x, m).rep.best = run.sol
  BY <1>3, <1>4, <1>5, <1>6
<1> QED
  BY <1>7 DEF run, improved

-----------------------------------------------------------------------------
(* The inductive invariant *)

AllLinked ==
    \A s \in Solvers : Running(s) =>
        /\ Shaped(SearchOf(s))
        /\ pc[s] # "exit" => Linked(SearchOf(s))

\* Steps that leave the searches alone.
LEMMA QuietLinked ==
    ASSUME AllLinked,
           \A s \in Solvers : Running(s)' =>
              /\ Running(s) /\ SearchOf(s)' = SearchOf(s)
              /\ pc[s] = "exit" => pc'[s] = "exit"
    PROVE  AllLinked'
BY DEF AllLinked, Shaped, Linked, Replaying

\* A search begins with its best solution as reference and nothing to replay.
LEMMA SetupLinked == ASSUME NEW s \in Solvers PROVE Typed /\ AllLinked /\ Setup(s) => AllLinked'
<1> SUFFICES ASSUME Typed, AllLinked, Setup(s) PROVE AllLinked'
  OBVIOUS
<1> DEFINE x == [rep |-> StartRep(seed), ref |-> StartSolution(seed)]
<1>1. SearchOf(s)' = x
  BY DEF Typed, TypeOK, OmegaTyped, Setup, SearchOf, SharedSeed
<1>2. /\ seed \in Seeds /\ StartSolution(seed) \in Solutions /\ StartPosition(seed) \in Nat
      /\ Cost(StartSolution(seed)) \in Int
  BY StartAssumption, SolutionAssumption DEF Typed, TypeOK, StartAssumption, SolutionAssumption
<1>3. /\ x.ref = StartSolution(seed) /\ x.rep.best = StartSolution(seed)
      /\ x.rep.do2 = <<>> /\ x.rep.refcost = Cost(StartSolution(seed)) /\ x.rep.iter = 0
      /\ x.rep.srnd = [seed |-> seed,
                       pos |-> StartPosition(seed) + 2 * Cardinality(Vertices)]
      /\ x.rep.coolings = 0 /\ DOMAIN x.rep = RepFields
  BY DEF StartRep, StartOf, RepFields
<1> HIDE DEF x
<1>4. Cardinality(Vertices) \in Nat
  BY SolutionAssumption, FS_Union, FS_Singleton, FS_CardinalityType
     DEF SolutionAssumption, Vertices
<1>5. x.rep.srnd \in [seed : Seeds, pos : Nat]
  BY <1>2, <1>3, <1>4
<1>6. Shaped(x)
  BY <1>2, <1>3, <1>5 DEF Shaped
<1>7. SameRun(Replaying(x), Untouched(x.ref))
  BY <1>3, UntouchedFacts DEF Replaying
<1>8. Linked(x)
  BY <1>2, <1>3, <1>7 DEF Linked
<1>9. ASSUME NEW t \in Solvers, t # s
      PROVE  Running(t)' = Running(t) /\ SearchOf(t)' = SearchOf(t) /\ pc'[t] = pc[t]
  BY <1>9 DEF Typed, TypeOK, OmegaTyped, Running, SearchOf, Setup
<1>10. ASSUME NEW t \in Solvers, Running(t)'
       PROVE  Shaped(SearchOf(t)') /\ (pc'[t] # "exit" => Linked(SearchOf(t)'))
  BY <1>1, <1>6, <1>8, <1>9, <1>10 DEF AllLinked
<1> QED
  BY <1>10 DEF AllLinked, Shaped, Linked, Replaying

\* A message moves one search on.
LEMMA MessageLinked ==
    ASSUME SlackIsNatural, NEW s \in Solvers
    PROVE  Typed /\ Ordered /\ AllLinked /\ (Discard(s) \/ Adopt(s) \/ Finish(s)) => AllLinked'
<1> SUFFICES ASSUME Typed, Ordered, AllLinked, Discard(s) \/ Adopt(s) \/ Finish(s)
             PROVE  AllLinked'
  OBVIOUS
<1> DEFINE m == log[at[s] + 1]
           x == SearchOf(s)
<1>1. m \in Message
  <2>1. at[s] \in 0..(Len(log) - 1) /\ log \in Seq(Message)
    BY MessageStep, RelayTyping
  <2> QED
    BY <2>1
<1>2. /\ Shaped(x) /\ Linked(x) /\ SearchOf(s)' = StepOf(x, m)
      /\ pc'[s] = "exit" <=> Ends(x, m)
  BY MessageStep DEF AllLinked
<1> HIDE DEF m, x
<1>3. Shaped(StepOf(x, m)) /\ (~Ends(x, m) => Linked(StepOf(x, m)))
  BY <1>1, <1>2, StepLinked
<1>4. ASSUME NEW t \in Solvers, Running(t)'
      PROVE  Shaped(SearchOf(t)') /\ (pc'[t] # "exit" => Linked(SearchOf(t)'))
  <2>1. CASE t = s
    BY <1>2, <1>3, <2>1
  <2>2. CASE t # s
    <3>1. Running(t)' = Running(t) /\ SearchOf(t)' = SearchOf(t) /\ pc'[t] = pc[t]
      BY <2>2, MessageStep
    <3> QED
      BY <1>4, <3>1 DEF AllLinked
  <2> QED
    BY <2>1, <2>2
<1> QED
  BY <1>4 DEF AllLinked, Shaped, Linked, Replaying

\* Every other step of the threads leaves the searches that run alone.
LEMMA SearchesAlone ==
    ASSUME Typed, Unborn, [Next]_vars,
           \A s \in Solvers : ~Setup(s) /\ ~Discard(s) /\ ~Adopt(s) /\ ~Finish(s)
    PROVE  /\ UNCHANGED <<seed, at>>
           /\ \A s \in Solvers : /\ Running(s)' = Running(s) /\ SearchOf(s)' = SearchOf(s)
                                 /\ pc[s] = "exit" <=> pc'[s] = "exit"
<1>1. CASE Spawn
  <2>1. pc[cursor] = "unborn" /\ pc' = [pc EXCEPT ![cursor] = "setup"] /\ cursor \in Solvers
    BY <1>1 DEF Typed, TypeOK, Unborn, Spawn
  <2> QED
    BY <1>1, <2>1 DEF Typed, TypeOK, Spawn, Running, SearchOf
<1>2. CASE GetFinished \/ GetChange \/ Relay \/ Join \/ MainJoin \/ UNCHANGED vars
  BY <1>2 DEF GetFinished, GetChange, Relay, Join, MainJoin, vars, solverVars, Running, SearchOf
<1>3. ASSUME NEW s \in Solvers, Snapshot(s) \/ Generate(s)
      PROVE  /\ UNCHANGED <<seed, at>>
             /\ \A t \in Solvers : /\ Running(t)' = Running(t) /\ SearchOf(t)' = SearchOf(t)
                                   /\ pc[t] = "exit" <=> pc'[t] = "exit"
  <2>1. /\ UNCHANGED <<seed, at, rep, ref>> /\ pc[s] \in {"sync", "drain"}
        /\ pc' \in {[pc EXCEPT ![s] = "sync"], [pc EXCEPT ![s] = "drain"]}
    BY <1>3 DEF Snapshot, Generate
  <2> QED
    BY <2>1 DEF Typed, TypeOK, Running, SearchOf
<1> QED
  BY <1>1, <1>2, <1>3 DEF Next, Dispatch, Solve, Ended

\* Every step keeps the searches linked.
LEMMA NextLinked ==
    ASSUME SlackIsNatural
    PROVE  Typed /\ Ordered /\ OneSearch /\ AllLinked /\ [Next]_vars => AllLinked'
<1> SUFFICES ASSUME Typed, Ordered, OneSearch, AllLinked, [Next]_vars PROVE AllLinked'
  OBVIOUS
<1>1. CASE \A s \in Solvers : ~Setup(s) /\ ~Discard(s) /\ ~Adopt(s) /\ ~Finish(s)
  BY <1>1, SearchesAlone, QuietLinked DEF OneSearch
<1>2. ASSUME NEW s \in Solvers, Setup(s) \/ Discard(s) \/ Adopt(s) \/ Finish(s)
      PROVE  AllLinked'
  BY <1>2, SetupLinked, MessageLinked
<1> QED
  BY <1>1, <1>2

\* In every state.
LEMMA AlwaysLinked == ASSUME SlackIsNatural PROVE Spec => []AllLinked
<1>1. Init => AllLinked
  BY DEF Init, AllLinked, Running
<1>2. Typed /\ Ordered /\ OneSearch /\ AllLinked /\ [Next]_vars => AllLinked'
  BY NextLinked
<1> QED
  BY <1>1, <1>2, AlwaysTyped, AlwaysOrdered, AlwaysOneSearch, PTL DEF Spec

\* do_list2 leads from the best solution to the reference, in any schedule.
THEOREM BestIsLinked == ASSUME SlackIsNatural PROVE Spec => []BestReplaysToReference
<1>1. AllLinked => BestReplaysToReference
  <2> SUFFICES ASSUME AllLinked, NEW s \in Solvers, Running(s)
               PROVE  LET replay == RunActions(Untouched(rep[s].best), rep[s].do2)
                      IN  /\ rep[s].best \in Solutions
                          /\ pc[s] # "exit" =>
                              /\ replay.ok /\ replay.sol = ref[s]
                              /\ rep[s].refcost = Cost(ref[s])
                              /\ Cost(rep[s].best) <= rep[s].refcost
    BY DEF BestReplaysToReference
  <2>1. Shaped(SearchOf(s)) /\ (pc[s] # "exit" => Linked(SearchOf(s)))
    BY DEF AllLinked
  <2>2. SearchOf(s).rep = rep[s] /\ SearchOf(s).ref = ref[s]
    BY DEF SearchOf
  <2>3. rep[s].best \in Solutions
    BY <2>1, <2>2 DEF Shaped
  <2>4. ASSUME pc[s] # "exit"
        PROVE  LET replay == RunActions(Untouched(rep[s].best), rep[s].do2)
               IN  /\ replay.ok /\ replay.sol = ref[s]
                   /\ rep[s].refcost = Cost(ref[s])
                   /\ Cost(rep[s].best) <= rep[s].refcost
    <3>1. SameRun(RunActions(Untouched(rep[s].best), rep[s].do2), Untouched(ref[s]))
      BY <2>1, <2>2, <2>4 DEF Linked, Replaying
    <3>2. Untouched(ref[s]).ok /\ Untouched(ref[s]).sol = ref[s]
      BY UntouchedFacts
    <3>3. rep[s].refcost = Cost(ref[s]) /\ Cost(rep[s].best) <= Cost(ref[s])
      BY <2>1, <2>2, <2>4 DEF Linked
    <3> QED
      BY <3>1, <3>2, <3>3 DEF SameRun
  <2> QED
    BY <2>3, <2>4
<1> QED
  BY <1>1, AlwaysLinked, PTL

\* A solver replaces its best solution by the one it has just evaluated, though
\* it never assigns one to the other, and only by a cheaper one.
THEOREM BestIsRebuilt == ASSUME SlackIsNatural PROVE Spec => BestIsTheEvaluated
<1> DEFINE Rebuilt(s) == Running(s) /\ rep'[s].best # rep[s].best =>
                            /\ rep'[s].best = Run(s).sol
                            /\ Cost(rep'[s].best) < Cost(rep[s].best)
<1>1. ASSUME Typed, Ordered, OneSearch, AllLinked, [Next]_vars, NEW s \in Solvers
      PROVE  Rebuilt(s)
  <2> SUFFICES ASSUME Running(s), rep'[s].best # rep[s].best
               PROVE  rep'[s].best = Run(s).sol /\ Cost(rep'[s].best) < Cost(rep[s].best)
    OBVIOUS
  <2>1. PICK t \in Solvers : Setup(t) \/ Discard(t) \/ Adopt(t) \/ Finish(t)
    BY <1>1, SearchesAlone DEF OneSearch, SearchOf
  <2>2. CASE Setup(t)
    BY <1>1, <2>2 DEF Typed, TypeOK, OmegaTyped, Setup, Running
  <2>3. CASE Discard(t) \/ Adopt(t) \/ Finish(t)
    <3>1. t = s
      BY <1>1, <2>3, MessageStep DEF SearchOf
    <3> DEFINE m == log[at[s] + 1]
    <3>2. /\ SearchOf(s)' = StepOf(SearchOf(s), m)
          /\ pc[s] # "exit" /\ at[s] \in 0..(Len(log) - 1)
      BY <1>1, <2>3, <3>1, MessageStep
    <3>3. m \in Message
      BY <1>1, <3>2, RelayTyping
    <3>4. Shaped(SearchOf(s)) /\ Linked(SearchOf(s))
      BY <1>1, <3>2 DEF AllLinked
    <3>5. Run(s) = Evaluate(ref[s], m.change)
      <4>1. queue[s] # <<>> /\ queue[s] \in Seq(Message)
        BY <1>1, <2>3, <3>1, RelayTyping DEF Discard, Adopt, Finish, Receive
      <4>2. Head(queue[s]) = m
        <5>1. 1 \in 1..Len(queue[s]) /\ Head(queue[s]) = queue[s][1]
          BY <4>1
        <5> QED
          BY <1>1, <5>1 DEF Ordered, Delivered
      <4> QED
        BY <1>1, <4>1, <4>2, RunFacts
    <3>6. SearchOf(s).rep = rep[s] /\ SearchOf(s).ref = ref[s] /\ SearchOf(s)'.rep = rep'[s]
      BY DEF SearchOf
    <3> HIDE DEF m
    <3> QED
      BY <3>2, <3>3, <3>4, <3>5, <3>6, StepBest
  <2> QED
    BY <2>1, <2>2, <2>3
<1>2. Typed /\ Ordered /\ OneSearch /\ AllLinked /\ [Next]_vars => [\A s \in Solvers : Rebuilt(s)]_vars
  BY <1>1
<1> QED
  BY <1>2, AlwaysTyped, AlwaysOrdered, AlwaysOneSearch, AlwaysLinked, PTL
     DEF Spec, BestIsTheEvaluated
-----------------------------------------------------------------------------
(* The refinement *)

\* A search of Coreopt as a state of SequentialSearch, which has no lists.
AsSearch(x) ==
    [ref |-> x.ref, best |-> x.rep.best, iter |-> x.rep.iter, srnd |-> x.rep.srnd,
     coolings |-> x.rep.coolings, omega |-> x.rep.omega, gamma |-> x.rep.gamma,
     counter |-> x.rep.counter, seen |-> x.rep.seen]

SearchFields == {"ref", "best", "iter", "srnd", "coolings", "omega", "gamma", "counter", "seen"}

IsSearch(z) == z = [f \in SearchFields |-> z[f]]

\* Two searches are equal when their fields are.
LEMMA SameSearch ==
    ASSUME NEW y, NEW z, IsSearch(y), IsSearch(z),
           y.ref = z.ref, y.best = z.best, y.iter = z.iter, y.srnd = z.srnd,
           y.coolings = z.coolings, y.omega = z.omega, y.gamma = z.gamma,
           y.counter = z.counter, y.seen = z.seen
    PROVE  y = z
<1>1. \A f \in SearchFields : y[f] = z[f]
  BY DEF SearchFields
<1> QED
  BY <1>1 DEF IsSearch

\* What has become of a search of Coreopt is a search.
LEMMA AsSearchFields ==
    ASSUME NEW x
    PROVE  LET z == AsSearch(x)
           IN  /\ IsSearch(z)
               /\ z.ref = x.ref /\ z.best = x.rep.best /\ z.iter = x.rep.iter
               /\ z.srnd = x.rep.srnd /\ z.coolings = x.rep.coolings
               /\ z.omega = x.rep.omega /\ z.gamma = x.rep.gamma
               /\ z.counter = x.rep.counter /\ z.seen = x.rep.seen
BY DEF AsSearch, IsSearch, SearchFields

\* The last change of a search without lists.
Concluded(z, run) ==
    LET improved == Cost(run.sol) < Cost(z.best)
        seen     == z.seen + Len(run.svc)
        sparse   == Sparsify(z.gamma, z.counter, run.svc, improved,
                             Patience(seen, z.iter + 1))
    IN  [z EXCEPT !.best = IF improved THEN run.sol ELSE @,
                  !.iter = @ + 1, !.seen = seen,
                  !.gamma = sparse.gamma, !.counter = sparse.counter]

\* Any other change.
Continued(z, m, run) ==
    LET tossed == Tossed(z.srnd, run.ruined, m)
    IN  [Concluded(z, run) EXCEPT
            !.ref = IF Accepts(Cost(run.sol), Cost(z.ref), tossed, z.coolings)
                    THEN run.sol ELSE @,
            !.srnd = [tossed EXCEPT !.pos = @ + 1],
            !.coolings = @ + 1,
            !.omega = Shake(@, run.ruined, m, z.srnd)]

\* The two of them make up a step.
LEMMA SearchStepIs ==
    ASSUME NEW z, NEW m
    PROVE  LET run == Evaluate(z.ref, m.change)
           IN  SearchStep(z, m) = IF ~run.ok THEN z
                                  ELSE IF z.iter + 1 = MaxIter THEN Concluded(z, run)
                                  ELSE Continued(z, m, run)
BY Zenon DEF SearchStep, Concluded, Continued

\* How the next record of a search comes from the old one when a change counts,
\* whatever else the records hold.
CountsAs(old, run, better, next) ==
    LET improved == Cost(run.sol) < Cost(old.best)
        seen     == old.seen + Len(run.svc)
        sparse   == Sparsify(old.gamma, old.counter, run.svc, improved,
                             Patience(seen, old.iter + 1))
    IN  /\ next.iter = old.iter + 1 /\ next.seen = seen
        /\ next.best = IF improved THEN better ELSE old.best
        /\ next.gamma = sparse.gamma /\ next.counter = sparse.counter
        /\ next.srnd = old.srnd /\ next.coolings = old.coolings /\ next.omega = old.omega

\* Both searches count in this way.
LEMMA CountedCounts ==
    ASSUME NEW rp, DOMAIN rp = RepFields, NEW run
    PROVE  CountsAs(rp, run, BestAfter(rp, run), Counted(rp, run))
BY DEF RepFields, Counted, CountsAs

\* The search without lists, too.
LEMMA ConcludedCounts ==
    ASSUME NEW z, IsSearch(z), NEW run
    PROVE  /\ CountsAs(z, run, run.sol, Concluded(z, run))
           /\ IsSearch(Concluded(z, run)) /\ Concluded(z, run).ref = z.ref
BY DEF IsSearch, SearchFields, Concluded, CountsAs

\* What equal records count up to.
LEMMA CountsAlike ==
    ASSUME NEW x, NEW z, NEW run, NEW better, NEW y, NEW w,
           CountsAs(x, run, better, y), CountsAs(z, run, better, w),
           x.best = z.best, x.iter = z.iter, x.srnd = z.srnd, x.coolings = z.coolings,
           x.omega = z.omega, x.gamma = z.gamma, x.counter = z.counter, x.seen = z.seen
    PROVE  /\ y.best = w.best /\ y.iter = w.iter /\ y.srnd = w.srnd /\ y.coolings = w.coolings
           /\ y.omega = w.omega /\ y.gamma = w.gamma /\ y.counter = w.counter
           /\ y.seen = w.seen
BY DEF CountsAs

\* A search that goes on, field by field.
LEMMA ContinuedFields ==
    ASSUME NEW z, IsSearch(z), NEW m, NEW run
    PROVE  LET tossed == Tossed(z.srnd, run.ruined, m)
               mid    == Concluded(z, run)
               y      == Continued(z, m, run)
           IN  /\ IsSearch(y) /\ y.iter = mid.iter /\ y.seen = mid.seen /\ y.best = mid.best
               /\ y.gamma = mid.gamma /\ y.counter = mid.counter
               /\ y.ref = IF Accepts(Cost(run.sol), Cost(z.ref), tossed, z.coolings)
                          THEN run.sol ELSE z.ref
               /\ y.srnd = [tossed EXCEPT !.pos = @ + 1]
               /\ y.coolings = z.coolings + 1
               /\ y.omega = Shake(z.omega, run.ruined, m, z.srnd)
<1> DEFINE mid == Concluded(z, run)
<1>1. IsSearch(mid) /\ mid.ref = z.ref /\ mid.coolings = z.coolings /\ mid.omega = z.omega
  BY ConcludedCounts DEF CountsAs
<1> HIDE DEF mid
<1> QED
  BY <1>1 DEF IsSearch, SearchFields, Continued, mid
\* A message takes a search with lists where it takes one without.
LEMMA StepsAgree ==
    ASSUME NEW x, Shaped(x), Linked(x), NEW m \in Message
    PROVE  AsSearch(StepOf(x, m)) = SearchStep(AsSearch(x), m)
<1> DEFINE run == Evaluate(x.ref, m.change)
           z == AsSearch(x)
           y == StepOf(x, m)
<1>1. m.change \in Changes /\ DOMAIN x.rep = RepFields /\ x.rep.refcost = Cost(x.ref)
  BY MessageFacts DEF Shaped, Linked
<1>2. /\ IsSearch(z) /\ z.ref = x.ref /\ z.best = x.rep.best /\ z.iter = x.rep.iter
      /\ z.srnd = x.rep.srnd /\ z.coolings = x.rep.coolings /\ z.omega = x.rep.omega
      /\ z.gamma = x.rep.gamma /\ z.counter = x.rep.counter /\ z.seen = x.rep.seen
  BY AsSearchFields
<1> HIDE DEF z
<1>3. SearchStep(z, m) = IF ~run.ok THEN z
                         ELSE IF z.iter + 1 = MaxIter THEN Concluded(z, run)
                         ELSE Continued(z, m, run)
  BY <1>2, SearchStepIs
<1>4. CASE ~run.ok
  BY <1>3, <1>4 DEF StepOf, z
<1>5. ASSUME run.ok PROVE AsSearch(y) = SearchStep(z, m)
  <2>1. BestAfter(x.rep, run) = run.sol
    BY <1>1, <1>5, BestFacts
  <2>2. /\ x.rep.iter + 1 = MaxIter => y = [rep |-> Counted(x.rep, run), ref |-> x.ref]
        /\ x.rep.iter + 1 # MaxIter =>
              y = [rep |-> Annealed(x.rep, m, run),
                   ref |-> IF AcceptedBy(x.rep, m, run) THEN run.sol ELSE x.ref]
    BY <1>5 DEF StepOf
  <2>3. LET w == AsSearch(y)
        IN  /\ IsSearch(w) /\ w.ref = y.ref /\ w.best = y.rep.best /\ w.iter = y.rep.iter
            /\ w.srnd = y.rep.srnd /\ w.coolings = y.rep.coolings
            /\ w.omega = y.rep.omega /\ w.gamma = y.rep.gamma
            /\ w.counter = y.rep.counter /\ w.seen = y.rep.seen
    BY AsSearchFields
  <2> HIDE DEF run, y
  <2> DEFINE counted == Counted(x.rep, run)
             done == Concluded(z, run)
  <2>4. /\ counted.best = done.best /\ counted.iter = done.iter /\ counted.seen = done.seen
        /\ counted.gamma = done.gamma /\ counted.counter = done.counter
        /\ counted.srnd = done.srnd /\ counted.coolings = done.coolings
        /\ counted.omega = done.omega /\ done.ref = x.ref /\ IsSearch(done)
    <3>1. CountsAs(x.rep, run, run.sol, counted)
      BY <1>1, <2>1, CountedCounts
    <3>2. CountsAs(z, run, run.sol, done) /\ IsSearch(done) /\ done.ref = x.ref
      BY <1>2, ConcludedCounts
    <3> HIDE DEF counted, done
    <3> QED
      BY <1>2, <3>1, <3>2, CountsAlike
  <2>5. CASE x.rep.iter + 1 = MaxIter
    <3>1. y.rep = counted /\ y.ref = x.ref
      BY <2>2, <2>5
    <3>2. SearchStep(z, m) = done
      BY <1>2, <1>3, <1>5, <2>5 DEF run
    <3> HIDE DEF counted, done
    <3> QED
      BY <2>3, <2>4, <3>1, <3>2, SameSearch
  <2>6. CASE x.rep.iter + 1 # MaxIter
    <3> DEFINE next == Annealed(x.rep, m, run)
               more == Continued(z, m, run)
               tossed == Tossed(x.rep.srnd, run.ruined, m)
               taken == AcceptedBy(x.rep, m, run)
    <3>1. y.rep = next /\ y.ref = IF taken THEN run.sol ELSE x.ref
      BY <2>2, <2>6
    <3>2. SearchStep(z, m) = more
      BY <1>2, <1>3, <1>5, <2>6 DEF run
    <3>3. /\ next.iter = counted.iter /\ next.seen = counted.seen /\ next.best = counted.best
          /\ next.gamma = counted.gamma /\ next.counter = counted.counter
          /\ next.srnd = [tossed EXCEPT !.pos = @ + 1]
          /\ next.coolings = x.rep.coolings + 1
          /\ next.omega = Shake(x.rep.omega, run.ruined, m, x.rep.srnd)
      BY <1>1, AnnealedFields
    <3>4. /\ IsSearch(more) /\ more.iter = done.iter /\ more.seen = done.seen
          /\ more.best = done.best /\ more.gamma = done.gamma /\ more.counter = done.counter
          /\ more.ref = IF Accepts(Cost(run.sol), Cost(x.ref), tossed, x.rep.coolings)
                        THEN run.sol ELSE x.ref
          /\ more.srnd = [tossed EXCEPT !.pos = @ + 1]
          /\ more.coolings = x.rep.coolings + 1
          /\ more.omega = Shake(x.rep.omega, run.ruined, m, x.rep.srnd)
      BY <1>2, ContinuedFields
    <3>5. taken <=> Accepts(Cost(run.sol), Cost(x.ref), tossed, x.rep.coolings)
      BY <1>1 DEF AcceptedBy
    <3> HIDE DEF counted, done, next, more, tossed, taken
    <3>6. more.ref = y.ref
      BY <3>1, <3>4, <3>5
    <3> QED
      BY <2>3, <2>4, <3>1, <3>2, <3>3, <3>4, <3>6, SameSearch
  <2> QED
    BY <2>5, <2>6
<1> QED
  BY <1>4, <1>5 DEF z
\* The state that a solver is in as a replica.
LEMMA StateFacts ==
    ASSUME NEW s \in Solvers
    PROVE  /\ Running(s) => SearchState(s) = AsSearch(SearchOf(s))
           /\ ~Running(s) => SearchState(s) = StartOf(seed)
BY DEF SearchState, AsSearch, SearchOf

\* A solver that begins its loop has the search that all begin with.
LEMMA StartAgrees ==
    ASSUME NEW sd
    PROVE  AsSearch([rep |-> StartRep(sd), ref |-> StartSolution(sd)]) = StartOf(sd)
<1> DEFINE x == [rep |-> StartRep(sd), ref |-> StartSolution(sd)]
           y == AsSearch(x)
           z == StartOf(sd)
<1>1. /\ IsSearch(y) /\ y.ref = x.ref /\ y.best = x.rep.best /\ y.iter = x.rep.iter
      /\ y.srnd = x.rep.srnd /\ y.coolings = x.rep.coolings
      /\ y.omega = x.rep.omega /\ y.gamma = x.rep.gamma
      /\ y.counter = x.rep.counter /\ y.seen = x.rep.seen
  BY AsSearchFields
<1>2. IsSearch(z) /\ z.ref = StartSolution(sd) /\ z.iter = 0 /\ z.coolings = 0 /\ z.seen = 0
  BY DEF StartOf, IsSearch, SearchFields
<1>3. /\ x.ref = StartSolution(sd) /\ x.rep.best = z.best /\ x.rep.iter = 0
      /\ x.rep.srnd = z.srnd /\ x.rep.coolings = 0 /\ x.rep.omega = z.omega
      /\ x.rep.gamma = z.gamma /\ x.rep.counter = z.counter /\ x.rep.seen = 0
  BY DEF StartRep
<1> HIDE DEF x, y, z
<1>4. y = z
  BY <1>1, <1>2, <1>3, SameSearch
<1> QED
  BY <1>4 DEF x, y, z

\* At first all replicas are at the start of one search.
LEMMA InitRefines == Init => Replicas!Init
<1> SUFFICES ASSUME Init PROVE Replicas!Init
  OBVIOUS
<1>1. seed \in Seeds /\ log = <<>> /\ at = [s \in Solvers |-> 0]
  BY DEF Init
<1>2. \A s \in Solvers : SearchState(s) = StartOf(seed)
  BY DEF Init, Running, SearchState
<1>3. StartOf(seed) \in SearchStarts
  BY <1>1 DEF SearchStarts
<1> QED
  BY <1>1, <1>2, <1>3 DEF Replicas!Init

\* A solver that deals with a message delivers it to its replica.
LEMMA MessageRefines ==
    ASSUME MaxIter # 0, Typed, Ordered, AllLinked, NEW s \in Solvers,
           Discard(s) \/ Adopt(s) \/ Finish(s)
    PROVE  Replicas!Deliver(s)
<1> DEFINE m == log[at[s] + 1]
           x == SearchOf(s)
<1>1. /\ at[s] \in 0..(Len(log) - 1) /\ log \in Seq(Message) /\ log' = log
      /\ at \in [Solvers -> Nat] /\ seed' = seed
  BY MessageStep, RelayTyping
<1>2. m \in Message
  BY <1>1
<1>3. /\ Running(s) /\ Running(s)' /\ SearchOf(s)' = StepOf(x, m)
      /\ Shaped(x) /\ Linked(x)
  BY MessageStep DEF AllLinked
<1>4. SearchState(s) = AsSearch(x) /\ SearchState(s)' = AsSearch(StepOf(x, m))
  <2>1. SearchState(s) = AsSearch(x)
    BY <1>3, StateFacts
  <2>2. SearchState(s)' = AsSearch(SearchOf(s)')
    BY <1>3 DEF SearchState, AsSearch, SearchOf
  <2> QED
    BY <1>3, <2>1, <2>2
<1> HIDE DEF m, x
<1>5. SearchState(s)' = SearchStep(SearchState(s), m)
  BY <1>2, <1>3, <1>4, StepsAgree
<1>6. ~SearchHalted(SearchState(s))
  <2>1. SearchState(s).iter = x.rep.iter
    BY <1>4, AsSearchFields
  <2> QED
    BY <1>3, <2>1 DEF Linked, SearchHalted
<1>7. ASSUME NEW t \in Solvers, t # s PROVE SearchState(t)' = SearchState(t)
  <2>1. Running(t)' = Running(t) /\ SearchOf(t)' = SearchOf(t)
    BY <1>7, MessageStep
  <2> QED
    BY <1>1, <2>1 DEF SearchState, SearchOf
<1>8. at' = [at EXCEPT ![s] = @ + 1]
  BY DEF Discard, Adopt, Finish, Receive
<1>9. /\ [t \in Solvers |-> SearchState(t)]' =
            [[t \in Solvers |-> SearchState(t)] EXCEPT ![s] = SearchStep(@, m)]
  BY <1>5, <1>7
<1> QED
  BY <1>1, <1>6, <1>8, <1>9 DEF Replicas!Deliver, m

\* Whatever else happens to the threads, no replica is concerned.
LEMMA QuietRefines ==
    ASSUME UNCHANGED seed,
           \A s \in Solvers : Running(s)' = Running(s) /\ SearchOf(s)' = SearchOf(s)
    PROVE  UNCHANGED [s \in Solvers |-> SearchState(s)]
<1>1. ASSUME NEW s \in Solvers PROVE SearchState(s)' = SearchState(s)
  BY DEF SearchState, SearchOf
<1> QED
  BY <1>1

\* A solver that sets its search up stays where its replica is already.
LEMMA SetupRefines ==
    ASSUME Typed, NEW s \in Solvers, Setup(s)
    PROVE  UNCHANGED <<log, at, [t \in Solvers |-> SearchState(t)]>>
<1>1. UNCHANGED <<seed, log, at>> /\ ~Running(s) /\ Running(s)'
  BY DEF Typed, TypeOK, Setup, Running
<1>2. SearchOf(s)' = [rep |-> StartRep(seed), ref |-> StartSolution(seed)]
  BY DEF Typed, TypeOK, OmegaTyped, Setup, SearchOf, SharedSeed
<1>3. SearchState(s)' = SearchState(s)
  <2>1. SearchState(s)' = AsSearch(SearchOf(s)')
    BY <1>1 DEF SearchState, AsSearch, SearchOf
  <2>2. SearchState(s) = StartOf(seed)
    BY <1>1, StateFacts
  <2> QED
    BY <1>2, <2>1, <2>2, StartAgrees
<1>4. ASSUME NEW t \in Solvers, t # s PROVE SearchState(t)' = SearchState(t)
  <2>1. Running(t)' = Running(t) /\ SearchOf(t)' = SearchOf(t)
    BY <1>4 DEF Typed, TypeOK, OmegaTyped, Running, SearchOf, Setup
  <2> QED
    BY <1>1, <2>1 DEF SearchState, SearchOf
<1> QED
  BY <1>1, <1>3, <1>4

\* The dispatcher orders a message when it takes a change from its queue.
LEMMA GetChangeRefines ==
    ASSUME Typed, Unborn, GetChange
    PROVE  Replicas!Order
<1>1. Head(inbox) \in Message /\ log' = Append(log, Head(inbox)) /\ log \in Seq(Message)
  <2>1. inbox \in Seq(Message \cup {Finished}) /\ inbox # <<>> /\ ~Head(inbox).finished
        /\ log' = Append(log, Head(inbox)) /\ log \in Seq(Message)
    BY DEF Typed, TypeOK, GetChange
  <2> QED
    BY <2>1, TakeFacts DEF Finished
<1>2. Len(log') = Len(log) + 1 /\ log'[Len(log')] = Head(inbox)
  BY <1>1, AppendFacts
<1>3. UNCHANGED <<seed, at>> /\ \A s \in Solvers : Running(s)' = Running(s) /\ SearchOf(s)' = SearchOf(s)
  BY DEF GetChange, solverVars, Running, SearchOf
<1>4. UNCHANGED <<at, [s \in Solvers |-> SearchState(s)]>>
  BY <1>3, QuietRefines
<1> QED
  BY <1>1, <1>2, <1>4 DEF Replicas!Order

\* Every step of the threads is a step of the replicas, or none.
LEMMA NextRefines ==
    ASSUME MaxIter # 0
    PROVE  Typed /\ Ordered /\ OneSearch /\ AllLinked /\ [Next]_vars
              => [Replicas!Next]_(Replicas!replicaVars)
<1> SUFFICES ASSUME Typed, Ordered, OneSearch, AllLinked, [Next]_vars
             PROVE  Replicas!Next \/ UNCHANGED Replicas!replicaVars
  OBVIOUS
<1>1. CASE GetChange
  BY <1>1, GetChangeRefines DEF OneSearch, Replicas!Next
<1>2. ASSUME NEW s \in Solvers, Discard(s) \/ Adopt(s) \/ Finish(s) PROVE Replicas!Next
  BY <1>2, MessageRefines DEF Replicas!Next
<1>3. ASSUME NEW s \in Solvers, Setup(s) PROVE UNCHANGED Replicas!replicaVars
  BY <1>3, SetupRefines DEF Replicas!replicaVars
<1>4. ASSUME ~GetChange,
             \A s \in Solvers : ~Setup(s) /\ ~Discard(s) /\ ~Adopt(s) /\ ~Finish(s)
      PROVE  UNCHANGED Replicas!replicaVars
  <2>1. /\ UNCHANGED <<seed, at>>
        /\ \A s \in Solvers : Running(s)' = Running(s) /\ SearchOf(s)' = SearchOf(s)
    BY <1>4, SearchesAlone DEF OneSearch
  <2>2. log' = log
    BY <1>4 DEF Next, Dispatch, Solve, Spawn, GetFinished, Relay, Join, MainJoin, Snapshot,
                Generate, Ended, vars
  <2> QED
    BY <2>1, <2>2, QuietRefines DEF Replicas!replicaVars
<1> QED
  BY <1>1, <1>2, <1>3, <1>4

\* The solvers are replicas of one search that knows no lists and no threads:
\* with at least one iteration, because a search of none halts at its start
\* and the loop of the solver, which compares after counting, does not.
THEOREM SolversAreReplicas ==
    ASSUME SlackIsNatural, MaxIter # 0 PROVE Spec => ImplementsReplicatedSearch
<1>1. Typed /\ Ordered /\ OneSearch /\ AllLinked /\ [Next]_vars
         => [Replicas!Next]_(Replicas!replicaVars)
  BY NextRefines
<1> QED
  BY <1>1, InitRefines, AlwaysTyped, AlwaysOrdered, AlwaysOneSearch, AlwaysLinked, PTL
     DEF Spec, ImplementsReplicatedSearch, Replicas!Spec

-----------------------------------------------------------------------------
(* The replicas agree                                                      *)

\* The log is empty at first.
LEMMA InitLogged == Replicas!Init => Replicas!TypeOK
BY DEF Replicas!Init, Replicas!TypeOK

\* The log grows at its end.
LEMMA Extended ==
    ASSUME Replicas!TypeOK, Replicas!Order
    PROVE  /\ log' \in Seq(Message)
           /\ Len(log') = Len(log) + 1
           /\ \A n \in 1..Len(log) : log'[n] = log[n]
<1> DEFINE m == log'[Len(log')]
<1>1. m \in Message /\ log' = Append(log, m) /\ log \in Seq(Message)
  BY DEF Replicas!Order, Replicas!TypeOK
<1> HIDE DEF m
<1> QED
  BY <1>1

\* Every step keeps the types.
LEMMA NextLogged ==
    Replicas!TypeOK /\ [Replicas!Next]_(Replicas!replicaVars) => Replicas!TypeOK'
<1> SUFFICES ASSUME Replicas!TypeOK, Replicas!Next \/ UNCHANGED Replicas!replicaVars
             PROVE  Replicas!TypeOK'
  OBVIOUS
<1>1. CASE Replicas!Order
  <2>1. log' \in Seq(Message) /\ Len(log') = Len(log) + 1
    BY <1>1, Extended
  <2>2. at' = at
    BY <1>1 DEF Replicas!Order
  <2>3. Len(log) \in Nat
    BY DEF Replicas!TypeOK
  <2> QED
    BY <2>1, <2>2, <2>3 DEF Replicas!TypeOK
<1>2. ASSUME NEW r \in Solvers, Replicas!Deliver(r) PROVE Replicas!TypeOK'
  BY <1>2 DEF Replicas!TypeOK, Replicas!Deliver
<1>3. CASE UNCHANGED Replicas!replicaVars
  BY <1>3 DEF Replicas!TypeOK, Replicas!replicaVars
<1> QED
  BY <1>1, <1>2, <1>3 DEF Replicas!Next

\* The log is well formed and no replica is ahead of it.
THEOREM AlwaysLogged == Replicas!Spec => []Replicas!TypeOK
BY InitLogged, NextLogged, PTL DEF Replicas!Spec

\* h gives the state of the one search after each prefix of the log.
IsReplay(h) ==
    /\ \A n \in 0..(Len(log) - 1) : h[n + 1] = SearchStep(h[n], log[n + 1])
    /\ \A r \in Solvers : SearchState(r) = h[at[r]]

\* Each replica is in the state the one search had after as many messages.
\* Agreement alone is not inductive: it says nothing of a replica that is
\* behind the others and catches up.
Following == /\ Replicas!TypeOK
             /\ \E h : IsReplay(h)

\* All replicas start where the one search starts.
LEMMA InitFollowing == Replicas!Init => Following
<1> SUFFICES ASSUME Replicas!Init PROVE Following
  OBVIOUS
<1>1. PICK start \in SearchStarts : \A r \in Solvers : SearchState(r) = start
  BY DEF Replicas!Init
<1> DEFINE h == [n \in {0} |-> start]
<1>2. IsReplay(h)
  BY <1>1 DEF Replicas!Init, IsReplay
<1> QED
  BY <1>1, <1>2, InitLogged DEF Following

\* The one search goes on with the message that enters the log.
LEMMA OrderFollowing == Following /\ Replicas!Order => Following'
<1> SUFFICES ASSUME Following, Replicas!Order PROVE Following'
  OBVIOUS
<1>1. PICK h : IsReplay(h)
  BY DEF Following
<1> DEFINE last == SearchStep(h[Len(log)], log'[Len(log')])
           longer == [n \in 0..(Len(log) + 1) |->
                         IF n <= Len(log) THEN h[n] ELSE last]
<1>2. /\ Len(log') = Len(log) + 1 /\ Len(log) \in Nat
      /\ \A n \in 1..Len(log) : log'[n] = log[n]
  BY Extended DEF Following, Replicas!TypeOK
<1>3. PICK g : g = longer
  OBVIOUS
<1>4. ASSUME NEW n \in 0..(Len(log') - 1)
      PROVE  g[n + 1] = SearchStep(g[n], log'[n + 1])
  <2>1. CASE n < Len(log)
    BY <1>1, <1>2, <1>3, <2>1 DEF IsReplay
  <2>2. CASE n = Len(log)
    BY <1>2, <1>3, <2>2
  <2> QED
    BY <1>2, <2>1, <2>2
<1>5. ASSUME NEW r \in Solvers PROVE SearchState(r)' = g[at'[r]]
  BY <1>1, <1>2, <1>3 DEF IsReplay, Following, Replicas!TypeOK, Replicas!Order
<1>6. IsReplay(g)'
  BY <1>4, <1>5 DEF IsReplay
<1>7. Replicas!TypeOK'
  BY NextLogged DEF Following, Replicas!Next, Replicas!Order
<1> QED
  BY <1>6, <1>7 DEF Following

\* A replica moves on along the one search.
LEMMA DeliverFollowing ==
    ASSUME NEW r \in Solvers PROVE Following /\ Replicas!Deliver(r) => Following'
<1> SUFFICES ASSUME Following, Replicas!Deliver(r) PROVE Following'
  OBVIOUS
<1>1. PICK h : IsReplay(h)
  BY DEF Following
<1>2. /\ SearchState(r) = h[at[r]] /\ at[r] \in 0..(Len(log) - 1)
      /\ log' = log
  BY <1>1 DEF IsReplay, Following, Replicas!TypeOK, Replicas!Deliver
<1>3. SearchState(r)' = h[at[r] + 1] /\ at'[r] = at[r] + 1
  <2>1. SearchState(r)' = SearchStep(SearchState(r), log[at[r] + 1])
    BY DEF Following, Replicas!Deliver
  <2>2. h[at[r] + 1] = SearchStep(h[at[r]], log[at[r] + 1])
    BY <1>1, <1>2 DEF IsReplay
  <2> QED
    BY <1>2, <2>1, <2>2 DEF Following, Replicas!TypeOK, Replicas!Deliver
<1>4. ASSUME NEW q \in Solvers, q # r
      PROVE  SearchState(q)' = SearchState(q) /\ at'[q] = at[q]
  BY <1>4 DEF Following, Replicas!TypeOK, Replicas!Deliver
<1>5. IsReplay(h)'
  BY <1>1, <1>2, <1>3, <1>4 DEF IsReplay
<1>6. Replicas!TypeOK'
  BY NextLogged DEF Following, Replicas!Next, Replicas!Deliver
<1> QED
  BY <1>5, <1>6 DEF Following

\* Every replica follows one and the same search.
LEMMA AlwaysFollowing == Replicas!Spec => []Following
<1>1. Following /\ [Replicas!Next]_(Replicas!replicaVars) => Following'
  <2>1. Following /\ UNCHANGED Replicas!replicaVars => Following'
    BY DEF Following, Replicas!TypeOK, IsReplay, Replicas!replicaVars
  <2> QED
    BY <2>1, OrderFollowing, DeliverFollowing DEF Replicas!Next
<1> QED
  BY <1>1, InitFollowing, PTL DEF Replicas!Spec

\* Replicas that have processed equally many messages are in the same state,
\* however the messages of the others interleave with theirs.
THEOREM ReplicasAgree == Replicas!Spec => []Replicas!Agreement
<1>1. Following => Replicas!Agreement
  BY DEF Following, IsReplay, Replicas!Agreement
<1> QED
  BY <1>1, AlwaysFollowing, PTL
=============================================================================
