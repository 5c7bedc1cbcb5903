---------------------------- MODULE MCLocalSearch ----------------------------
(***************************************************************************)
(* An instance of LocalSearchCycle for TLC.  Neither the operators nor the *)
(* demands tell apart customers with the same demand, so the solutions     *)
(* whose routes serve the light customers in their order stand for all.    *)
(***************************************************************************)
EXTENDS LocalSearchCycle

\* Deltas count links: the costs of the arcs are of no account.
NoDist == [u \in 1..(CustomersNum + 1) |-> [v \in 1..(CustomersNum + 1) |-> 0]]

\* The last customer weighs as much as four others.
Heavy == CustomersNum
OneHeavy == [c \in customers |-> IF c = Heavy THEN 4 ELSE 1]

\* The customers with the heavy one in some place.
OrderWith(k) == InsertAt([c \in 1..(CustomersNum - 1) |-> c], k, Heavy)

\* An order cut into routes of the given sizes.
CutInto(order, sizes) ==
    LET before(p) == FoldLeft(+, 0, SubSeq(sizes, 1, p - 1))
    IN  {<<depot>> \o SubSeq(order, before(p) + 1, before(p) + sizes[p]) : p \in DOMAIN sizes}

\* The sizes of two routes, and of three of which two may be merged.
Sizes == {<<7, 1>>, <<6, 2>>, <<5, 3>>, <<4, 4>>, <<6, 1, 1>>, <<4, 3, 1>>, <<3, 3, 2>>}

MCStarts == {sol \in {CutInto(OrderWith(k), sizes) : k \in customers, sizes \in Sizes} :
                LoadFeasible(sol)}
=============================================================================
