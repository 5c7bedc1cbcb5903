--------------------------- MODULE MCEjectionChain ---------------------------
(***************************************************************************)
(* An instance of EjectionChain for TLC: full routes of two customers, or  *)
(* of one heavy customer, and a shorter route that has room.               *)
(***************************************************************************)
EXTENDS EjectionChain

\* Deltas count links: the costs of the arcs are of no account.
NoDist == [u \in 1..(CustomersNum + 1) |-> [v \in 1..(CustomersNum + 1) |-> 0]]

OneHeavy == [c \in customers |-> IF c = CustomersNum THEN 2 ELSE 1]

MCStarts ==
    {{<<0, 1, 2, 3>>, <<0, 4, 5, 6>>, <<0, 7>>},
     {<<0, 1, 2>>, <<0, 3, 7>>, <<0, 4, 5, 6>>},
     {<<0, 1>>, <<0, 2, 7>>, <<0, 3, 4, 5>>, <<0, 6>>}}
=============================================================================
