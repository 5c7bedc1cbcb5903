----------------------------- MODULE MCRouteMin -----------------------------
(***************************************************************************)
(* An instance of RouteMin for TLC: four customers that fit in two routes  *)
(* only when each long one goes with a short one.                          *)
(***************************************************************************)
EXTENDS RouteMin, MCSolutions

CONSTANT StartRoutes  (* bound: routes of the solutions it begins with *)

\* Two customers near the depot and two far from it.
DistFour == <<<<0, 5, 5, 3, 2>>,
              <<5, 0, 5, 6, 4>>,
              <<5, 5, 0, 6, 5>>,
              <<3, 6, 6, 0, 3>>,
              <<2, 4, 5, 3, 0>>>>

\* The two nearest vertices: there may be room in a route that is not tried.
NeighborsFour == <<<<4, 0>>, <<1, 0>>, <<4, 0>>, <<0, 3>>>>

DemandsFour == <<1, 1, 2, 2>>

\* Solutions of that many routes, each in one of its two directions.
MCStarts == {sol \in FeasibleSolutions :
                /\ Cardinality(sol) \in StartRoutes
                /\ \A r \in sol : r[2] <= r[Len(r)]}
=============================================================================
