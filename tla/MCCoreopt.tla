----------------------------- MODULE MCCoreopt -----------------------------
(***************************************************************************)
(* Instances of Coreopt for TLC: Routes are the solutions, RuinAndRecreate *)
(* generates the changes.                                                  *)
(***************************************************************************)
EXTENDS Coreopt, MCSolutions

CONSTANTS SeedCustomers,  (* bound: the customers a ruin starts from *)
          Breadth, Poor,  (* bound: changes generated from a solution and a seed *)
          SlackLevels,    (* annealing slacks, drawn in turn *)
          Table           (* MCTable, which TLC then evaluates only once *)

\* Customers in different directions and at different distances of the depot.
DistThree == <<<<0, 2, 3, 4>>, <<2, 0, 2, 5>>, <<3, 2, 0, 3>>, <<4, 5, 3, 0>>>>
NeighborsThree == <<<<0, 2, 3>>, <<1, 0, 3>>, <<2, 0, 1>>>>
UnitDemands == <<1, 1, 1>>

\* Streams of random numbers: any function of seed and position will do.
MCCoin(sd, pos) == (sd + pos) % 3 # 0
MCSlack(sd, pos, coolings) ==
    SlackLevels[1 + ((sd + pos + coolings) % Len(SlackLevels))]

TenThree == <<10, 0, 3>>

\* The most expensive solution: each customer in its own route.
MCSavings == {OneCustomerRoute(c) : c \in customers}

\* At most n elements of a set, those of the highest rank first.
Foremost(S, n, Rank(_)) ==
    LET first[k \in 0..n] ==
            IF k = 0 THEN {}
            ELSE LET rest == S \ first[k - 1]
                 IN  first[k - 1] \cup
                     (IF rest = {} THEN {}
                      ELSE {CHOOSE c \in rest : \A d \in rest : Rank(c) >= Rank(d)})
    IN  first[n]

\* After routemin: a seed is the rank of a solution, the most expensive first.
MCStart(sd) ==
    CHOOSE sol \in FeasibleSolutions :
        /\ sol \in Foremost(FeasibleSolutions, sd + 1, TotalCost)
        /\ sol \notin Foremost(FeasibleSolutions, sd, TotalCost)
MCStartPosition(sd) == sd

ActionsOf(c) == c.ruin \o c.recreate \o c.localsearch

\* Some changes with many actions and some that lead to poor solutions.
Selected(sol, cs) ==
    LET longest == Foremost(cs, Breadth,
                            LAMBDA c : Len(ActionsOf(c)) + Len(c.localsearch))
    IN  longest \cup Foremost(cs \ longest, Poor,
                             LAMBDA c : TotalCost(Replay(sol, ActionsOf(c))))

\* The changes generated from each solution, seed customer and walk length.
\* TLC evaluates MCTable once, as the value of Table.
MCTable ==
    {[from |-> sol, start |-> sc, length |-> n,
      changes |-> Selected(sol, ChangesFrom(sol, sc, n))] :
        sol \in FeasibleSolutions, sc \in SeedCustomers, n \in 0..CustomersNum}

MCSolutions == FeasibleSolutions
MCChanges == UNION {g.changes : g \in MCTable}

MCCandidates(sol, sc, n) ==
    UNION {g.changes : g \in {x \in MCTable :
               x.from = sol /\ x.start = sc /\ x.length = n}}

MCRoutesNum(sol) == Cardinality(sol)
=============================================================================
