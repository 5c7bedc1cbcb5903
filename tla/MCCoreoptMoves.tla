-------------------------- MODULE MCCoreoptMoves --------------------------
(***************************************************************************)
(* Coreopt over the smallest solutions there are: numbers, which are their *)
(* own cost, and moves between them.  A move fits one solution only, so    *)
(* every change that another one has overtaken is stale.  For the runs     *)
(* about threads and queues, where the shape of the solutions is of no     *)
(* account.                                                                *)
(***************************************************************************)
EXTENDS Coreopt

Numbers == 0..2
Start == 1

Moves == [from : Numbers, to : Numbers]
Fits(sol, move) == sol = move.from
Moved(sol, move) == move.to
MoveRecord(sol, move) ==
    [do      |-> <<move>>,
     undo    |-> <<[from |-> move.to, to |-> move.from]>>,
     touched |-> <<1>>]
Always(sol) == TRUE
Itself(sol) == sol
OneRoute(sol) == 1

ChangeOf(x, y) ==
    [ruin |-> <<>>, recreate |-> <<>>,
     localsearch |-> <<[from |-> x, to |-> y]>>, seed |-> 1]
MoveChanges == {ChangeOf(x, y) : x, y \in Numbers}

\* The next number, round and round: better and worse solutions in turn.
NextNumber(sol, sc, n) == {ChangeOf(sol, (sol + 2) % 3)}

Tails(sd, pos) == FALSE
SomeSlack(sd, pos, coolings) == (pos + coolings) % 3
StartAt(sd) == Start
NoDraws(sd) == 0
=============================================================================
