----------------------------- MODULE Exchange -----------------------------
(***************************************************************************)
(* The operators of the local search (filo2/localsearch), all but the      *)
(* ejection chain: what they do to a solution with a move <<i, j>>.        *)
(*                                                                         *)
(* Costs are abstract: a delta is the change in how often each link        *)
(* between two vertices is used.  Two deltas that are equal so are equal   *)
(* for every symmetric matrix of costs, and an exact delta for all of them *)
(* is exact.  A link of a vertex with itself costs nothing.                *)
(***************************************************************************)
EXTENDS Routes

-----------------------------------------------------------------------------
(* The operators                                                           *)
(*                                                                         *)
(* The path of m vertices that ends at i and a path of n vertices next to  *)
(* j change places.  A plain operator takes the n vertices before j and    *)
(* keeps both directions.  A reversing one takes the n vertices after j,   *)
(* reverses the path of i, and also the path of j when `both' says so.     *)

Plain(m, n) == [kind |-> "plain", m |-> m, n |-> n, both |-> FALSE]
Reversing(m, n, both) == [kind |-> "reversing", m |-> m, n |-> n, both |-> both]
Other(kind) == [kind |-> kind, m |-> 1, n |-> 0, both |-> FALSE]

OneZeroExchange   == Plain(1, 0)
OneOneExchange    == Plain(1, 1)
TwoZeroExchange   == Plain(2, 0)
TwoOneExchange    == Plain(2, 1)
TwoTwoExchange    == Plain(2, 2)
ThreeZeroExchange == Plain(3, 0)
ThreeOneExchange  == Plain(3, 1)
ThreeTwoExchange  == Plain(3, 2)
ThreeThreeExchange == Plain(3, 3)
RevTwoZeroExchange == Reversing(2, 0, FALSE)
RevTwoOneExchange == Reversing(2, 1, FALSE)
RevTwoTwoExchange == {Reversing(2, 2, both) : both \in BOOLEAN}
RevThreeZeroExchange == Reversing(3, 0, FALSE)
RevThreeOneExchange == Reversing(3, 1, FALSE)
RevThreeTwoExchange == {Reversing(3, 2, both) : both \in BOOLEAN}
RevThreeThreeExchange == {Reversing(3, 3, both) : both \in BOOLEAN}
TwoOptExchange == Other("2-opt")
SplitExchange  == Other("split")
TailsExchange  == Other("tails")

AllOperators ==
    {OneZeroExchange, OneOneExchange, TwoZeroExchange, TwoOneExchange, TwoTwoExchange,
     ThreeZeroExchange, ThreeOneExchange, ThreeTwoExchange, ThreeThreeExchange,
     RevTwoZeroExchange, RevTwoOneExchange, RevThreeZeroExchange, RevThreeOneExchange,
     TwoOptExchange, SplitExchange, TailsExchange}
    \cup RevTwoTwoExchange \cup RevThreeTwoExchange \cup RevThreeThreeExchange

IsSymmetric(o) == o.kind \in {"2-opt", "split"}

Exchanging(o) == o.kind \in {"plain", "reversing"}

\* A symmetric operator uses one of the moves <<i, j>> and <<j, i>>.
Moves(o) ==
    {mv \in vertices \X vertices :
        mv[1] # mv[2] /\ (IsSymmetric(o) => mv[1] < mv[2])}

-----------------------------------------------------------------------------
(* The vertices around i and j *)

\* The vertex k steps after v, or before it when k is negative.
Step(r, v, k) == r[1 + ((Position(r, v) - 1 + k) % Len(r))]

\* Of the n steps that begin a after v.
Stretch(r, v, a, n) == [k \in 1..n |-> Step(r, v, a + k - 1)]

\* The two routes, their paths and the neighbors of the paths.
Around(o, sol, mv) ==
    LET i  == mv[1]
        j  == mv[2]
        ri == RouteVia(sol, i, j)
        rj == RouteVia(sol, j, i)
        before == IF o.kind = "reversing" THEN 0 ELSE o.n + 1
    IN  [ri |-> ri, rj |-> rj,
         ipath |-> Stretch(ri, i, 1 - o.m, o.m),
         il |-> Step(ri, i, 0 - o.m), ir |-> Succ(ri, i),
         jpath |-> Stretch(rj, j, 1 - before, o.n),
         jl |-> Step(rj, j, 0 - before), jr |-> Step(rj, j, o.n + 1 - before)]

\* The paths as they are put in their new places.
PlacedI(o, e) == IF o.kind = "reversing" THEN Reverse(e.ipath) ELSE e.ipath
PlacedJ(o, e) == IF o.both THEN Reverse(e.jpath) ELSE e.jpath

-----------------------------------------------------------------------------
(* compute_cost *)

\* How much more often each link is in the first sequence.
Net(added, removed) ==
    LET count(s, l) == Cardinality({k \in DOMAIN s : s[k] = l})
        net(l) == count(added, l) - count(removed, l)
        links == {l \in ToSet(added) \cup ToSet(removed) : Cardinality(l) = 2}
    IN  {<<l, net(l)>> : l \in {k \in links : net(k) # 0}}

\* The links at both ends of a path between l and r.
Ends(l, path, r) ==
    IF path = <<>> THEN <<{l, r}>> ELSE <<{l, path[1]}, {Last(path), r}>>

Delta(o, sol, mv) ==
    LET e  == Around(o, sol, mv)
        i  == mv[1]
        j  == mv[2]
        jp == Pred(e.rj, j)
        jn == Succ(e.rj, j)
    IN  CASE Exchanging(o) ->
                Net(Ends(e.jl, PlacedI(o, e), e.jr) \o Ends(e.il, PlacedJ(o, e), e.ir),
                    Ends(e.il, e.ipath, e.ir) \o Ends(e.jl, e.jpath, e.jr))
          [] IsSymmetric(o) -> Net(<<{i, j}, {e.ir, jn}>>, <<{i, e.ir}, {j, jn}>>)
          [] o.kind = "tails" -> Net(<<{i, j}, {jp, e.ir}>>, <<{i, e.ir}, {jp, j}>>)

-----------------------------------------------------------------------------
(* is_feasible *)

\* The load of the vertices before v, and from v on, to the depot.
LoadBefore(r, v) == Load(SubSeq(r, 1, Position(r, v) - 1))
LoadFrom(r, v) == Load(SubSeq(r, Position(r, v), Len(r)))

\* A bug that checks the load of one route only.
InterFeasibleOneSided(o, e) ==
    /\ depot \notin ToSet(e.ipath) \cup ToSet(e.jpath)
    /\ Load(e.rj) - Load(e.jpath) + Load(e.ipath) <= Capacity

\* Between two routes: no depot in the paths, and the loads fit.
InterFeasible(o, e) ==
    /\ depot \notin ToSet(e.ipath) \cup ToSet(e.jpath)
    /\ Load(e.rj) - Load(e.jpath) + Load(e.ipath) <= Capacity
    /\ o.n > 0 => Load(e.ri) + Load(e.jpath) - Load(e.ipath) <= Capacity

\* A bug that checks one vertex too few between the paths.
IntraFeasibleOffByOne(o, e, i, j) ==
    IF o.kind = "reversing" THEN j \notin ToSet(Stretch(e.ri, i, 0 - (o.m + o.n - 1), o.m + o.n - 1))
    ELSE /\ i \notin ToSet(Stretch(e.ri, j, 0 - o.n, o.n))
         /\ j \notin ToSet(Stretch(e.ri, i, 1 - o.m, o.m - 1))

\* Within a route: the paths do not meet.
IntraFeasible(o, e, i, j) ==
    IF o.kind = "reversing" THEN j \notin ToSet(Stretch(e.ri, i, 0 - (o.m + o.n), o.m + o.n))
    ELSE /\ i \notin ToSet(Stretch(e.ri, j, 0 - (o.n + 1), o.n + 1))
         /\ j \notin ToSet(Stretch(e.ri, i, 1 - o.m, o.m - 1))

Feasible(o, sol, mv) ==
    LET e  == Around(o, sol, mv)
        i  == mv[1]
        j  == mv[2]
        di == IF i = depot THEN 0 ELSE Demand[i]
        dj == IF j = depot THEN 0 ELSE Demand[j]
    IN  CASE Exchanging(o) -> IF e.ri = e.rj THEN IntraFeasible(o, e, i, j)
                              ELSE InterFeasible(o, e)
          [] o.kind = "2-opt" -> e.ri = e.rj
          [] o.kind = "split" ->
                /\ e.ri # e.rj
                /\ LoadBefore(e.ri, i) + di + LoadBefore(e.rj, j) + dj <= Capacity
                /\ LoadFrom(e.rj, j) - dj + LoadFrom(e.ri, i) - di <= Capacity
          [] o.kind = "tails" ->
                /\ e.ri # e.rj
                /\ LoadBefore(e.ri, i) + di + LoadFrom(e.rj, j) <= Capacity
                /\ LoadBefore(e.rj, j) + LoadFrom(e.ri, i) - di <= Capacity

-----------------------------------------------------------------------------
(* execute, by remove_vertex<true> and insert_vertex_before<true>.  `route'
   holds the routes of i and of j while their vertices leave and arrive:
   routes 1 and 2, or route 1 only for a move within a route.              *)

Take(y, s, v) ==
    [Do(y, RemoveVertex(v, Succ(y.route[s], v))) EXCEPT !.route[s] = RemoveFrom(@, v)]

\* An empty route is gone for those who replay the move: it is built anew.
Put(y, s, where, v) ==
    IF y.route[s] = <<depot>>
    THEN [Do(y, BuildOne(v)) EXCEPT !.route[s] = OneCustomerRoute(v),
                                    !.svc = y.svc \cup {depot}]
    ELSE [Do(y, InsertVertex(where, v, Succ(y.route[s], where))) EXCEPT
             !.route[s] = InsertBefore(@, where, v)]

\* execute is a list of steps: a vertex leaves route `from' and enters route
\* `to' before `where'; route 0 stands for neither.
Leaving(s, vs) ==
    [k \in DOMAIN vs |-> [from |-> s, to |-> 0, where |-> NoVertex, v |-> vs[k]]]
Entering(t, where, vs) ==
    [k \in DOMAIN vs |-> [from |-> 0, to |-> t, where |-> where, v |-> vs[k]]]

\* Vertices that move to the end of one route, or each before the one that
\* moved before it.
Carried(s, t, where, vs) ==
    [k \in DOMAIN vs |-> [from |-> s, to |-> t, where |-> where, v |-> vs[k]]]
CarriedBack(s, t, where, vs) ==
    [k \in DOMAIN vs |-> [from |-> s, to |-> t, v |-> vs[k],
                          where |-> IF k = 1 THEN where ELSE vs[k - 1]]]

MoveVertex(y, m) ==
    LET z == IF m.from = 0 THEN y ELSE Take(y, m.from, m.v)
    IN  IF m.to = 0 THEN z ELSE Put(z, m.to, m.where, m.v)

MoveAll(y, ms) == FoldLeft(MoveVertex, y, ms)

\* 2-0 takes its vertices from the first one, the others from i backwards.
\* 2-1 with reversal moves the vertex of j first.
PathSteps(o, e, two) ==
    LET outI == IF o.m = 2 /\ o.n = 0 THEN e.ipath ELSE Reverse(e.ipath)
        outJ == IF o.kind = "reversing" THEN e.jpath ELSE Reverse(e.jpath)
        moveI == Leaving(1, outI) \o Entering(two, e.jr, PlacedI(o, e))
        moveJ == Leaving(two, outJ) \o Entering(1, e.ir, PlacedJ(o, e))
    IN  IF o.kind = "reversing" /\ o.m = 2 /\ o.n = 1 THEN moveJ \o moveI
        ELSE moveI \o moveJ

\* The customers of a route after, or up to, a vertex.
After(r, v) == SubSeq(r, Position(r, v) + 1, Len(r))
UpTo(r, v) == SubSeq(r, 2, Position(r, v))

\* swap_tails: the tail of j goes behind i, then the tail of i ends the other.
TailSteps(e, i, j) ==
    Carried(2, 1, e.ir, <<j>> \o After(e.rj, j)) \o Carried(1, 2, depot, After(e.ri, i))

\* split: the head of j goes behind i backwards, then the tail of i goes
\* backwards to where that head was.
SplitSteps(e, i, j) ==
    Carried(2, 1, e.ir, Reverse(UpTo(e.rj, j)))
        \o CarriedBack(1, 2, Succ(e.rj, j), After(e.ri, i))

\* The paths or tails change places between the routes of e.
Exchanged(o, z, e, i, j) ==
    CASE Exchanging(o) -> MoveAll(z, PathSteps(o, e, IF e.ri = e.rj THEN 1 ELSE 2))
      [] o.kind = "2-opt" -> Do(z, ReverseRoutePath(e.ir, j))
      [] o.kind = "split" -> MoveAll(z, SplitSteps(e, i, j))
      [] o.kind = "tails" -> MoveAll(z, TailSteps(e, i, j))

WithRoutes(y, e) == [sol |-> y.sol, do |-> y.do, undo |-> y.undo, svc |-> y.svc,
                     route |-> <<e.ri, e.rj>>]

Settle(y, z) ==
    [y EXCEPT !.sol = z.sol, !.do = z.do, !.undo = z.undo, !.svc = z.svc]

ExecuteIn(o, y, e, i, j) == Settle(y, Exchanged(o, WithRoutes(y, e), e, i, j))

Execute(o, y, mv) == ExecuteIn(o, y, Around(o, y.sol, mv), mv[1], mv[2])

-----------------------------------------------------------------------------
(* The update bits: the vertices whose moves as first vertex, and as second
   vertex, get a new delta.                                                *)

\* From v to the vertex before `stop', all when that is v itself.
Until(r, v, stop) ==
    LET n == (Position(r, stop) - Position(r, v)) % Len(r)
    IN  ToSet(Stretch(r, v, 0, IF n = 0 THEN Len(r) ELSE n))

FirstBits(o, e, i, j) ==
    CASE Exchanging(o) ->
            {e.il, e.jl} \cup ToSet(e.ipath) \cup ToSet(e.jpath)
            \cup ToSet(Stretch(e.ri, e.ir, 0, o.m)) \cup ToSet(Stretch(e.rj, e.jr, 0, o.m))
            \cup (IF e.ri = e.rj THEN {} ELSE {depot})
      [] o.kind = "2-opt" -> Until(e.ri, i, Succ(e.ri, Succ(e.ri, j)))
      [] o.kind = "split" ->
            {depot, i, Succ(e.rj, j)} \cup ToSet(After(e.ri, i)) \cup ToSet(UpTo(e.rj, j))
      [] o.kind = "tails" -> {i, Pred(e.rj, j)}

\* A bug that forgets the farthest vertices after the paths.
SecondBitsTooFew(o, e, i, j) ==
    CASE o.kind = "plain" ->
            ToSet(SubSeq(e.ipath, 1, Min({o.m, o.n + 1}))) \cup ToSet(e.jpath)
            \cup ToSet(Stretch(e.ri, e.ir, 0, o.n)) \cup ToSet(Stretch(e.rj, e.jr, 0, o.n))
      [] o.kind = "reversing" ->
            ToSet(e.ipath) \cup ToSet(e.jpath)
            \cup ToSet(Stretch(e.ri, e.il, 1 - o.n, o.n)) \cup ToSet(Stretch(e.rj, e.jl, 1 - o.n, o.n))
      [] IsSymmetric(o) -> FirstBits(o, e, i, j)
      [] o.kind = "tails" -> {e.ir, j}

SecondBits(o, e, i, j) ==
    CASE o.kind = "plain" ->
            ToSet(SubSeq(e.ipath, 1, Min({o.m, o.n + 1}))) \cup ToSet(e.jpath)
            \cup ToSet(Stretch(e.ri, e.ir, 0, o.n + 1))
            \cup ToSet(Stretch(e.rj, e.jr, 0, o.n + 1))
      [] o.kind = "reversing" ->
            ToSet(e.ipath) \cup ToSet(e.jpath)
            \cup ToSet(Stretch(e.ri, e.il, 0 - o.n, o.n + 1))
            \cup ToSet(Stretch(e.rj, e.jl, 0 - o.n, o.n + 1))
      [] IsSymmetric(o) -> FirstBits(o, e, i, j)
      [] o.kind = "tails" -> {e.ir, j}
=============================================================================
