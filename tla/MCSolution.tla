----------------------------- MODULE MCSolution -----------------------------
(***************************************************************************)
(* An instance of Solution for TLC.                                        *)
(***************************************************************************)
EXTENDS Solution

UnitDemand == [c \in customers |-> c]

\* Every arc has a cost of its own.
MCDist == [u \in 1..(CustomersNum + 1) |->
              [v \in 1..(CustomersNum + 1) |-> IF u = v THEN 0 ELSE 2 ^ (u + v) + u * v]]

MCLists == {<<<<1, 2, 3, 4>>>>, <<<<1, 2>>, <<3>>>>}
=============================================================================
