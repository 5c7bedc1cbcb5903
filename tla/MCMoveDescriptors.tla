------------------------- MODULE MCMoveDescriptors -------------------------
(***************************************************************************)
(* Instances of MoveDescriptors for TLC: three vertices at equal distances *)
(* with one neighbor each, where ties decide, and three on a line.         *)
(***************************************************************************)
EXTENDS MoveDescriptors

Costs(d) == [u \in vertices |-> [v \in vertices |-> d[u + 1][v + 1]]]
Near(n) == [v \in vertices |-> n[v + 1]]

Equal == <<<<0, 1, 1>>, <<1, 0, 1>>, <<1, 1, 0>>>>
Line  == <<<<0, 1, 3>>, <<1, 0, 2>>, <<3, 2, 0>>>>

MCInstances ==
    {[near |-> Near(<<<<a, 3 - a>>, <<b, 2 - b>>, <<c, 1 - c>>>>), cost |-> Costs(Equal)] :
        a \in {1}, b \in {0, 2}, c \in {0}}
    \cup {[near |-> Near(<<<<1, 2>>, <<0, 2>>, <<1, 0>>>>), cost |-> Costs(Line)]}

MCDeltas == -3..0

\* Improving much turns into not at all, into some, into just not, into much.
Rotate(t) ==
    LET next(d) == CASE d = -3 -> 0 [] d = 0 -> -2 [] d = -2 -> -1 [] d = -1 -> -3
    IN  {[m \in DOMAIN t |-> next(t[m])]}

\* All deltas for a start, spread over the moves.
Patterns(w) ==
    LET rank(m) == 3 * m[1][1] + m[1][2] + m[2]
    IN  {[m \in MovesOf(w) |-> 0 - ((rank(m) + s) % 4)] : s \in {1}}

MCTrueDeltas == [w \in Instances |-> Patterns(w)]
=============================================================================
