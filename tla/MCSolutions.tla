---------------------------- MODULE MCSolutions ----------------------------
(***************************************************************************)
(* The feasible solutions of a small instance, for TLC to begin with, and  *)
(* the operators its local search needs to reach one from another.         *)
(***************************************************************************)
EXTENDS RuinAndRecreate

BasicOperators == {OneZeroExchange, TwoOptExchange}

\* The routes that serve exactly the customers of a set, in any order.
RoutesOver(cs) ==
    {<<depot>> \o order : order \in
        {o \in [1..Cardinality(cs) -> cs] : ToSet(o) = cs}}

\* All feasible solutions, each in all directions of its routes.
FeasibleSolutions ==
    LET routes == UNION {RoutesOver(cs) : cs \in SUBSET customers \ {{}}}
        small  == {r \in routes : Load(r) <= Capacity}
        serving[cs \in SUBSET customers] ==
            IF cs = {} THEN {{}}
            ELSE LET c == CHOOSE x \in cs : TRUE
                     first == {r \in small : c \in ServedBy(r) /\ ServedBy(r) \subseteq cs}
                 IN  UNION {{{r} \cup rest : rest \in serving[cs \ ServedBy(r)]} : r \in first}
    IN  serving[customers]
=============================================================================
