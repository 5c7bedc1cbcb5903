------------------------------ MODULE Solution ------------------------------
(***************************************************************************)
(* A solution as filo2/solution/Solution.hpp keeps it: routes as linked    *)
(* lists of customers, closed by the depot, with cached costs and loads;   *)
(* the routes in a linked list of their own, with indices from a stack;    *)
(* and the recently changed vertices in a linked list (base/LRUCache.hpp). *)
(*                                                                         *)
(* For a route, `next' and `prev' are first_customer and last_customer,    *)
(* that is, the neighbors of the depot.  `arc' is c_prev_curr.             *)
(***************************************************************************)
EXTENDS Routes

CONSTANTS HistoryLen,  (* capacity of the cache *)
          StartLists,  (* the lists of routes that a run starts with *)
          MaxOps       (* bound: operations *)

ASSUME SolutionAssumption == HistoryLen \in Nat \ {0} /\ MaxOps \in Nat

VARIABLES s,    (* the solution *)
          did,  (* the last operation *)
          ops   (* number of operations *)

vars == <<s, did, ops>>

NoRoute == 0
routesList == 0..CustomersNum   (* routes_list; index 0 is dummy_route *)

-----------------------------------------------------------------------------
(* The cache of recently changed vertices; `recent' is what it stands for  *)

CacheClear == [counter |-> 0, head |-> NoVertex, tail |-> NoVertex,
               prev |-> [v \in vertices |-> NoVertex],
               next |-> [v \in vertices |-> NoVertex],
               used |-> [v \in vertices |-> FALSE], recent |-> <<>>]

\* A bug that does not move the tail.
CacheRemoveHeadOnly(q, v) ==
    LET p == q.prev[v]
        n == q.next[v]
    IN  [q EXCEPT !.head = IF p = NoVertex THEN n ELSE @,
                  !.next = [u \in vertices |-> CASE u = v -> NoVertex [] u = p -> n [] OTHER -> @[u]],
                  !.prev = [u \in vertices |-> CASE u = v -> NoVertex [] u = n -> p [] OTHER -> @[u]],
                  !.used[v] = FALSE]

CacheRemove(q, v) ==
    LET p == q.prev[v]
        n == q.next[v]
    IN  [q EXCEPT !.head = IF p = NoVertex THEN n ELSE @,
                  !.tail = IF n = NoVertex THEN p ELSE @,
                  !.next = [u \in vertices |-> CASE u = v -> NoVertex [] u = p -> n [] OTHER -> @[u]],
                  !.prev = [u \in vertices |-> CASE u = v -> NoVertex [] u = n -> p [] OTHER -> @[u]],
                  !.used[v] = FALSE]

SplayOnTop(q, v) ==
    [q EXCEPT !.used[v] = TRUE, !.next[v] = q.head,
              !.prev = [u \in vertices |-> IF u = q.head THEN v ELSE IF u = v THEN NoVertex ELSE @[u]],
              !.head = v,
              !.tail = IF @ = NoVertex THEN v ELSE @]

\* The vertex gets the most recent one, in the place of the oldest if need be.
CacheInsert(q, v) ==
    LET room == CASE q.used[v] -> CacheRemove(q, v)
                  [] ~q.used[v] /\ q.counter = HistoryLen -> CacheRemove(q, q.tail)
                  [] OTHER -> [q EXCEPT !.counter = @ + 1]
        others == SelectSeq(q.recent, LAMBDA u : u # v)
    IN  [SplayOnTop(room, v) EXCEPT
            !.recent = SubSeq(<<v>> \o others, 1, Min({HistoryLen, Len(others) + 1}))]

Touch(x, vs) == [x EXCEPT !.cache = FoldLeft(CacheInsert, @, vs)]

-----------------------------------------------------------------------------
(* Vertices of a route *)

At(x, r, v) == IF v = depot THEN x.route[r] ELSE x.node[v]

SetNext(x, r, v, w) ==
    IF v = depot THEN [x EXCEPT !.route[r].next = w] ELSE [x EXCEPT !.node[v].next = w]
SetPrev(x, r, v, w) ==
    IF v = depot THEN [x EXCEPT !.route[r].prev = w] ELSE [x EXCEPT !.node[v].prev = w]
SetArc(x, r, v, c) ==
    IF v = depot THEN [x EXCEPT !.route[r].arc = c] ELSE [x EXCEPT !.node[v].arc = c]

\* Links u to v in the route, with the cost of the arc.
Link(x, r, u, v) == SetArc(SetPrev(SetNext(x, r, u, v), r, v, u), r, v, ArcCost(u, v))

Charge(x, r, delta) == [x EXCEPT !.cost = @ + delta, !.route[r].stale = TRUE]

IndexOf(x, v, fallback) == x.node[IF v = depot THEN fallback ELSE v].route

IsEmpty(x, r) == x.route[r].load = 0

\* The vertices of a route from v on, until it comes back to v.
Around(x, r, v) ==
    LET next == [u \in vertices \cup {NoVertex} |->
                    IF u = NoVertex THEN NoVertex ELSE At(x, r, u).next]
        at[k \in 0..CustomersNum] == IF k = 0 THEN v ELSE next[at[k - 1]]
        back == {k \in 1..CustomersNum : at[k] \in {v, NoVertex}}
    IN  [k \in 1..Min(back \cup {CustomersNum + 1}) |-> at[k - 1]]

-----------------------------------------------------------------------------
(* Routes and their indices *)

NoRouteNode == [next |-> NoVertex, prev |-> NoVertex, arc |-> 0, load |-> 0, size |-> 0,
                stale |-> TRUE, in |-> FALSE, after |-> NoRoute, before |-> NoRoute]

Reset == [pool |-> [k \in 1..(CustomersNum + 1) |-> k],
          first |-> NoRoute, num |-> 0, cost |-> 0,
          route |-> [r \in routesList |-> NoRouteNode],
          node |-> [v \in vertices |->
                       [next |-> NoVertex, prev |-> NoVertex, route |-> NoRoute, arc |-> 0,
                        upTo |-> 0, from |-> 0]],
          cache |-> CacheClear, do |-> <<>>, undo |-> <<>>]

Record(x, redo, inverse) ==
    [x EXCEPT !.do = Append(@, redo), !.undo = Append(@, inverse)]

\* build_one_customer_route.
BuildOneCustomerRoute(x, c) ==
    LET r == x.pool[1]
        d == ArcCost(depot, c)
        y == Record(x, BuildOne(c), RemoveOne(c))
    IN  Touch([y EXCEPT
            !.pool = Tail(@), !.num = @ + 1, !.first = r, !.cost = @ + 2 * d,
            !.node[c] = [@ EXCEPT !.next = depot, !.prev = depot, !.route = r, !.arc = d],
            !.route[x.first].before = r,
            !.route[r] = [next |-> c, prev |-> c, arc |-> d, load |-> Demand[c], size |-> 1,
                          stale |-> TRUE, in |-> TRUE, after |-> x.first, before |-> NoRoute]],
          <<c>>)

\* A bug that leaves the head of the list of routes.
ReleaseRouteInside(x, r) ==
    [x EXCEPT !.pool = <<r>> \o @, !.num = @ - 1,
              !.route = [k \in routesList |->
                  CASE k = r -> NoRouteNode
                    [] k = x.route[r].before -> [@[k] EXCEPT !.after = x.route[r].after]
                    [] k = x.route[r].after -> [@[k] EXCEPT !.before = x.route[r].before]
                    [] OTHER -> @[k]]]

\* release_route: entry 0 takes what is written to the route that is not there.
ReleaseRoute(x, r) ==
    LET before == x.route[r].before
        after == x.route[r].after
        unlinked == [[x EXCEPT !.route[before].after = after] EXCEPT !.route[after].before = before]
    IN  [unlinked EXCEPT !.pool = <<r>> \o @, !.num = @ - 1,
                         !.first = IF @ = r THEN after ELSE @,
                         !.route[r] = NoRouteNode]

RemoveIfEmpty(x, r) == IF IsEmpty(x, r) THEN ReleaseRoute(x, r) ELSE x

-----------------------------------------------------------------------------
(* remove_vertex and insert_vertex_before *)

\* A bug that treats the last customer of a route as any other.
RecordRemovalAsOfMany(x, r, v) ==
    LET next == At(x, r, v).next
        nextnext == At(x, r, next).next
    IN  Record(x, RemoveVertex(v, next),
               InsertVertex(next, v, IF nextnext = v THEN next ELSE nextnext))

RecordRemoval(x, r, v) ==
    LET next == At(x, r, v).next
        nextnext == At(x, r, next).next
    IN  IF x.route[r].size = 1 /\ v # depot THEN Record(x, RemoveOne(v), BuildOne(v))
        ELSE Record(x, RemoveVertex(v, next),
                    InsertVertex(next, v, IF nextnext = v THEN next ELSE nextnext))

RemoveVertexFrom(x, r, v) ==
    LET p == At(x, r, v).prev
        n == At(x, r, v).next
        delta == ArcCost(p, n) - ArcCost(p, v) - ArcCost(v, n)
        y == Charge(Link(Touch(RecordRemoval(x, r, v), <<v, p, n>>), r, p, n), r, delta)
    IN  IF v = depot THEN [y EXCEPT !.route[r].next = NoVertex, !.route[r].prev = NoVertex]
        ELSE [y EXCEPT !.route[r].load = @ - Demand[v], !.route[r].size = @ - 1,
                       !.node[v] = [@ EXCEPT !.next = NoVertex, !.prev = NoVertex, !.route = NoRoute]]

RecordInsertion(x, r, where, v) ==
    LET fallback == At(x, r, where).next
    IN  IF IsEmpty(x, r) THEN Record(x, BuildOne(v), RemoveOne(v))
        ELSE Record(x, InsertVertex(where, v, fallback), RemoveVertex(v, fallback))

\* A bug that leaves the cumulative loads of the route as they are.
InsertKeepingLoads(x, r, where, v) ==
    LET p == At(x, r, where).prev
        y == Link(Link(Touch(RecordInsertion(x, r, where, v), <<p, where>>), r, p, v), r, v, where)
        z == [y EXCEPT !.cost = @ + ArcCost(p, v) + ArcCost(v, where) - At(x, r, where).arc]
    IN  IF v = depot THEN z
        ELSE [z EXCEPT !.route[r].load = @ + Demand[v], !.route[r].size = @ + 1,
                       !.node[v].route = r]

InsertVertexBefore(x, r, where, v) ==
    LET p == At(x, r, where).prev
        delta == ArcCost(p, v) + ArcCost(v, where) - At(x, r, where).arc
        y == Link(Link(Touch(RecordInsertion(x, r, where, v), <<p, where>>), r, p, v), r, v, where)
        z == Charge(y, r, delta)
    IN  IF v = depot THEN z
        ELSE [z EXCEPT !.route[r].load = @ + Demand[v], !.route[r].size = @ + 1,
                       !.node[v].route = r]

-----------------------------------------------------------------------------
(* reverse_route_path *)

\* The vertex of a path with its neighbors exchanged; the arc from its old
\* successor is now the one into it.
Turned(x, r, y, v) ==
    LET p == At(x, r, v).prev
        n == At(x, r, v).next
    IN  SetArc(SetNext(SetPrev(y, r, v, n), r, v, p), r, v, At(x, r, n).arc)

\* A bug that forgets to turn the last vertex of the path.
ReverseSubPathShort(x, r, b, e) ==
    LET stop == At(x, r, e).next
        pre == At(x, r, b).prev
        around == Around(x, r, b)
        path == SubSeq(around, 1, Position(around, e))
        y == Touch(Record(x, ReverseRoutePath(b, e), ReverseRoutePath(e, b)), <<pre, stop>> \o path)
        turned == FoldLeft(LAMBDA z, v : Turned(x, r, z, v), y, Front(path))
        delta == ArcCost(pre, e) + ArcCost(stop, b) - ArcCost(pre, b) - ArcCost(e, stop)
    IN  IF stop = b THEN x ELSE Charge(Link(Link(turned, r, b, stop), r, pre, e), r, delta)

\* Nothing happens when the path is the whole route.
ReverseSubPath(x, r, b, e) ==
    LET stop == At(x, r, e).next
        pre == At(x, r, b).prev
        around == Around(x, r, b)
        path == SubSeq(around, 1, Position(around, e))
        y == Touch(Record(x, ReverseRoutePath(b, e), ReverseRoutePath(e, b)), <<pre, stop>> \o path)
        turned == FoldLeft(LAMBDA z, v : Turned(x, r, z, v), y, path)
        delta == ArcCost(pre, e) + ArcCost(stop, b) - ArcCost(pre, b) - ArcCost(e, stop)
    IN  IF stop = b THEN x ELSE Charge(Link(Link(turned, r, b, stop), r, pre, e), r, delta)
-----------------------------------------------------------------------------
(* Operations of several removals and insertions *)

\* Customers that leave their route one by one for another one, each before
\* `where', or before the one that came before it.
MoveBefore(x, r, t, where, cs) ==
    FoldLeft(LAMBDA y, c : InsertVertexBefore(RemoveVertexFrom(y, r, c), t, where, c), x, cs)

\* The customers of a route from v on, and from v back, to the depot.
Onwards(x, r, v) ==
    LET around == Around(x, r, v)
    IN  IF v = depot THEN <<>> ELSE SubSeq(around, 1, Position(around, depot) - 1)
Backwards(x, r, v) == Reverse(SubSeq(Around(x, r, depot), 2, Position(Around(x, r, depot), v)))

\* swap_tails, and what TailsExchange does about empty routes.
SwapTails(x, i, j) ==
    LET ri == x.node[i].route
        rj == x.node[j].route
        inext == x.node[i].next
        y == MoveBefore(x, rj, ri, inext, Onwards(x, rj, j))
        z == MoveBefore(y, ri, rj, depot, Onwards(y, ri, inext))
    IN  RemoveIfEmpty(RemoveIfEmpty(z, ri), rj)

\* split, and what SplitExchange does about empty routes.
Split(x, i, j) ==
    LET ri == x.node[i].route
        rj == x.node[j].route
        inext == x.node[i].next
        jnext == x.node[j].next
        y == MoveBefore(x, rj, ri, inext, Backwards(x, rj, j))
        tail == Onwards(y, ri, inext)
        one(z, k) == MoveBefore(z, ri, rj, IF k = 1 THEN jnext ELSE tail[k - 1], <<tail[k]>>)
        z == FoldLeftDomain(one, y, tail)
    IN  RemoveIfEmpty(RemoveIfEmpty(z, ri), rj)

\* empty_and_remove_route.
EmptyRoute(x, r) ==
    ReleaseRoute(FoldLeft(LAMBDA y, c : RemoveVertexFrom(y, r, c), x,
                          Onwards(x, r, x.route[r].next)), r)

\* append_route records nothing.
AppendRoute(x, r, t) ==
    LET end == x.route[r].prev
        start == x.route[t].next
        appended == Onwards(x, t, start)
        arc == ArcCost(end, start)
        y == Touch([x EXCEPT
                !.node = [v \in vertices |->
                    LET n == [@[v] EXCEPT !.route = IF v \in ToSet(appended) THEN r ELSE @]
                    IN  CASE v = end -> [n EXCEPT !.next = start]
                          [] v = start -> [n EXCEPT !.prev = end, !.arc = arc]
                          [] OTHER -> n],
                !.route[r] = [@ EXCEPT !.prev = x.route[t].prev, !.arc = x.route[t].arc,
                                       !.load = @ + x.route[t].load, !.size = @ + x.route[t].size]],
              <<end>> \o appended)
    IN  ReleaseRoute(Charge(y, r, arc - ArcCost(end, depot) - ArcCost(depot, start)), t)

\* apply<true>.
Applied(x, a) ==
    CASE a.type = "BUILD_ONE_CUSTOMER_ROUTE" -> BuildOneCustomerRoute(x, a.i)
      [] a.type = "REMOVE_ONE_CUSTOMER_ROUTE" ->
            ReleaseRoute(RemoveVertexFrom(x, x.node[a.i].route, a.i), x.node[a.i].route)
      [] a.type = "INSERT_VERTEX" ->
            InsertVertexBefore(x, IndexOf(x, a.j, a.fallback), a.j, a.i)
      [] a.type = "REMOVE_VERTEX" ->
            LET r == IndexOf(x, a.i, a.fallback) IN RemoveIfEmpty(RemoveVertexFrom(x, r, a.i), r)
      [] a.type = "REVERSE_ROUTE_PATH" -> ReverseSubPath(x, IndexOf(x, a.i, a.j), a.i, a.j)

\* is_applicable, and the actions with an outcome (see Regular in RouteSet).
Served(x, v) == v = depot \/ x.node[v].route # NoRoute
DepotMissing(x, r) == x.route[r].next = NoVertex

SameRoute(x, u, v) ==
    {u, v} # {depot} /\ Served(x, u) /\ Served(x, v) /\ IndexOf(x, u, v) = IndexOf(x, v, u)

CanApply(x, a) ==
    CASE a.type = "BUILD_ONE_CUSTOMER_ROUTE" -> ~Served(x, a.i)
      [] a.type = "REMOVE_ONE_CUSTOMER_ROUTE" ->
            Served(x, a.i) /\ x.route[x.node[a.i].route].size = 1
      [] a.type = "INSERT_VERTEX" ->
            /\ SameRoute(x, a.j, a.fallback)
            /\ LET missing == DepotMissing(x, IndexOf(x, a.j, a.fallback))
               IN  IF a.i = depot THEN missing /\ a.j # depot
                   ELSE ~Served(x, a.i) /\ (missing => a.j # depot)
      [] a.type = "REMOVE_VERTEX" ->
            /\ SameRoute(x, a.i, a.fallback)
            /\ a.i = depot => ~DepotMissing(x, IndexOf(x, a.i, a.fallback))
      [] a.type = "REVERSE_ROUTE_PATH" ->
            /\ SameRoute(x, a.i, a.j) /\ a.i # a.j
            /\ DepotMissing(x, IndexOf(x, a.i, a.j)) => depot \notin {a.i, a.j}

-----------------------------------------------------------------------------
(* The program *)

Unrecorded(x) == [x EXCEPT !.do = <<>>, !.undo = <<>>]

\* build_route.
BuildRoute(x, cs) ==
    FoldLeft(LAMBDA y, c : InsertVertexBefore(y, y.first, depot, c),
             BuildOneCustomerRoute(x, cs[1]), Tail(cs))

Init == /\ \E lists \in StartLists : s = Unrecorded(FoldLeft(BuildRoute, Reset, lists))
        /\ did = [op |-> "build_route"]
        /\ ops = 0

Perform(o, after) == ops < MaxOps /\ s' = after /\ did' = o /\ ops' = ops + 1

Apply ==
    \E a \in AllActions :
        /\ CanApply(s, a)
        /\ Perform([op |-> "apply", action |-> a], Applied(Unrecorded(s), a))

\* Two customers of different routes that have their depot.
Apart(i, j) ==
    /\ Served(s, i) /\ Served(s, j)
    /\ s.node[i].route # s.node[j].route
    /\ ~DepotMissing(s, s.node[i].route) /\ ~DepotMissing(s, s.node[j].route)

ExchangeTails ==
    \E i, j \in customers :
        /\ Apart(i, j)
        /\ \/ Perform([op |-> "swap_tails", i |-> i, j |-> j], SwapTails(Unrecorded(s), i, j))
           \/ Perform([op |-> "split", i |-> i, j |-> j], Split(Unrecorded(s), i, j))

\* The savings algorithm appends the route of j to the one that ends with i.
AppendRoutes ==
    \E i, j \in customers :
        /\ Apart(i, j)
        /\ s.route[s.node[i].route].prev = i /\ s.route[s.node[j].route].next = j
        /\ Perform([op |-> "append_route", i |-> i, j |-> j],
                   AppendRoute(Unrecorded(s), s.node[i].route, s.node[j].route))

\* routemin empties the route of its seed.
EmptyAndRemove ==
    \E c \in customers :
        /\ Served(s, c) /\ s.route[s.node[c].route].next = c
        /\ Perform([op |-> "empty_and_remove_route", i |-> c],
                   EmptyRoute(Unrecorded(s), s.node[c].route))

\* get_route_load_before_included and _after_included: when the route has
\* changed since, update_cumulative_route_loads.
ReadLoads ==
    \E r \in {k \in routesList \ {NoRoute} : s.route[k].in} :
        /\ s.route[r].stale /\ ~DepotMissing(s, r)
        /\ LET cs == Tail(Around(s, r, depot))
               upTo(v) == Load(SubSeq(cs, 1, Position(cs, v)))
               node(v) == [s.node[v] EXCEPT !.upTo = upTo(v),
                                            !.from = s.route[r].load - upTo(v) + Demand[v]]
           IN  s' = [s EXCEPT !.route[r].stale = FALSE,
                              !.node = [v \in vertices |-> IF v \in ToSet(cs) THEN node(v) ELSE @[v]]]
    /\ UNCHANGED <<did, ops>>

\* clear_svc.
ClearSvc == /\ s.cache.counter > 0
            /\ s' = [s EXCEPT !.cache = CacheClear]
            /\ UNCHANGED <<did, ops>>

Ended == ops = MaxOps /\ UNCHANGED vars

Next == Apply \/ ExchangeTails \/ AppendRoutes \/ EmptyAndRemove \/ ReadLoads \/ ClearSvc \/ Ended

Spec == Init /\ [][Next]_vars

-----------------------------------------------------------------------------
(* Properties *)

\* The routes in the list, and the cycle of each.
Listed(x) ==
    LET next == [r \in routesList |-> IF r = NoRoute THEN NoRoute ELSE x.route[r].after]
        at[k \in 1..(CustomersNum + 1)] == IF k = 1 THEN x.first ELSE next[at[k - 1]]
    IN  SelectSeq([k \in 1..(CustomersNum + 1) |-> at[k]], LAMBDA r : r # NoRoute)

CycleOf(x, r) ==
    Cycle(IF DepotMissing(x, r)
          THEN Around(x, r, CHOOSE c \in customers : x.node[c].route = r)
          ELSE Around(x, r, depot))

RouteSetOf(x) == {CycleOf(x, r) : r \in ToSet(Listed(x))}

Abstract == INSTANCE RouteSet WITH sol <- RouteSetOf(s), do <- s.do, undo <- s.undo

\* The linked lists implement the set of routes, the recorded actions included:
\* every operation that Coreopt, RouteMin and the operators of Exchange use has
\* here the effect that it has there, also on routes without the depot, on
\* paths across the depot and on routes that get empty within an operation.
ImplementsRouteSet == Abstract!Spec

\* What is cached is what the lists say: the cost of the solution and of every
\* arc, load and size of every route, and the cumulative loads unless the route
\* is marked.  The feasibility tests of the search read nothing else.
CachedIsExact ==
    /\ s.cost = TotalCost(RouteSetOf(s))
    /\ \A r \in ToSet(Listed(s)) :
        LET cycle == CycleOf(s, r)
        IN  /\ s.route[r].load = Load(cycle)
            /\ s.route[r].size = Cardinality(ServedBy(cycle))
            /\ \A v \in ToSet(cycle) : /\ At(s, r, v).arc = ArcCost(Pred(cycle, v), v)
                                       /\ At(s, r, v).prev = Pred(cycle, v)
            /\ ~s.route[r].stale =>
                \A k \in 2..Len(cycle) :
                    /\ s.node[cycle[k]].upTo = Load(SubSeq(cycle, 2, k))
                    /\ s.node[cycle[k]].from = Load(SubSeq(cycle, k, Len(cycle)))

\* Every index is either in the list of routes, whose customers name it, or free,
\* and never beyond the routes there is room for (Solution.hpp 38 makes one more
\* index than routes_list has entries for).
RouteIndices ==
    LET list == Listed(s)
    IN  /\ Len(list) = s.num /\ IsInjective(list \o s.pool)
        /\ ToSet(list) \cup ToSet(s.pool) = 1..(CustomersNum + 1)
        /\ ToSet(list) = {r \in routesList : s.route[r].in}
        /\ \A k \in DOMAIN list : s.route[list[k]].before = IF k = 1 THEN NoRoute ELSE list[k - 1]
        /\ \A c \in customers : Served(s, c) => s.node[c].route \in ToSet(list)

\* The recorded inverses, applied backwards where they are applicable, give the
\* lists back as they were (operator==), though the routes may get other
\* indices.  The last customer of a route without the depot would come back
\* with the depot: no operator removes it.
Undone(x) == FoldLeft(LAMBDA y, a : IF CanApply(y, a) THEN Applied(y, a) ELSE y,
                      Unrecorded(x), Reverse(x.undo))

UndoRestores ==
    [][ops' # ops /\ did'.op # "append_route" /\ (\A r \in ToSet(Listed(s)) :
            DepotMissing(s, r) => s.route[r].size > 1) =>
        LET back == Undone(s')
        IN  RouteSetOf(back) = RouteSetOf(s) /\ back.cost = s.cost]_vars

\* The linked list of the cache, forwards and backwards, is the sequence of the
\* most recently inserted vertices.
CacheIsRecent ==
    LET q == s.cache
        n == Len(q.recent)
        at(k) == IF k \in 1..n THEN q.recent[k] ELSE NoVertex
    IN  /\ q.counter = n /\ q.head = at(1) /\ q.tail = at(n)
        /\ \A k \in 1..n : q.next[at(k)] = at(k + 1) /\ q.prev[at(k)] = at(k - 1)
        /\ \A v \in vertices : q.used[v] <=> v \in ToSet(q.recent)
=============================================================================
