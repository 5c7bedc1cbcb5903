--------------------------- MODULE RouteMin_proofs ---------------------------
(***************************************************************************)
(* Proofs about RouteMin: over any number of iterations, through partial   *)
(* solutions and whatever the random numbers, no customer is lost, the     *)
(* recorded actions lead from the best solution to the working one and     *)
(* back, and the best solution is complete and never gets worse.           *)
(***************************************************************************)
EXTENDS RouteMin, Routes_proofs

Taking == INSTANCE Folding WITH Op <- Unserve

-----------------------------------------------------------------------------
(* What the steps do to a solution                                         *)

LEMMA ServedIsCustomersOf == \A sol : Served(sol) = CustomersOf(sol)
BY DEF Served, CustomersOf

LEMMA FreshServes ==
    ASSUME NEW sol, Good(sol)
    PROVE  Serves(sol, Fresh(sol), CustomersOf(sol))
<1>1. Fresh(sol).sol = sol /\ Fresh(sol).do = <<>> /\ Fresh(sol).undo = <<>> /\ IsWork(Fresh(sol))
  BY DEF Fresh, IsWork
<1>2. Linked(sol, Fresh(sol))
  BY <1>1, LinkedNowhere
<1> QED
  BY <1>1, <1>2 DEF Serves

\* Customers leave, one after the other.
LEMMA AllLeave ==
    ASSUME NEW from, NEW x, NEW cs, Serves(from, x, cs), NEW vs, IsPath(vs),
           ToSet(vs) \subseteq cs
    PROVE  Serves(from, FoldLeft(Unserve, x, vs), cs \ ToSet(vs))
<1> DEFINE n == Len(vs)
<1>1. /\ vs \in Seq(vertices) /\ n \in Nat
      /\ First(vs, 0) = {} /\ First(vs, n) = ToSet(vs)
      /\ \A k \in 1..n : /\ First(vs, k) = First(vs, k - 1) \cup {vs[k]}
                         /\ vs[k] \notin First(vs, k - 1)
                         /\ vs[k] \in ToSet(vs)
  BY PathFacts, PathSet, FirstFacts
<1>2. PICK g : Taking!IsTrace(g, x, vs) /\ Taking!Folded(x, vs) = g[n]
  BY <1>1, Taking!FoldHasTrace
<1>3. g[0] = x /\ \A k \in 1..n : g[k] = Unserve(g[k - 1], vs[k])
  BY <1>2 DEF Taking!IsTrace
<1>4. FoldLeft(Unserve, x, vs) = Taking!Folded(x, vs)
  BY DEF FoldLeft, MapThenFoldSet, Max, Taking!Folded, Taking!FoldLeft,
         Taking!MapThenFoldSet, Taking!Max
<1> HIDE DEF n
<1> DEFINE P == {k \in Nat : k <= n => Serves(from, g[k], cs \ First(vs, k))}
<1>5. 0 \in P
  BY <1>1, <1>3
<1>6. ASSUME NEW k \in Nat, k \in P PROVE k + 1 \in P
  <2>1. CASE k + 1 <= n
    <3> DEFINE l == k + 1
    <3>1. l \in 1..n /\ l - 1 = k /\ k <= n /\ l \in Nat
      BY <1>1, <2>1
    <3> HIDE DEF l
    <3>2. Serves(from, g[k], cs \ First(vs, k))
      BY <1>6, <3>1
    <3>3. g[l] = Unserve(g[k], vs[l]) /\ vs[l] \in cs \ First(vs, k)
      BY <1>1, <1>3, <3>1
    <3>4. Serves(from, g[l], (cs \ First(vs, k)) \ {vs[l]})
      BY <3>2, <3>3, CustomerLeaves DEF Unserve
    <3>5. (cs \ First(vs, k)) \ {vs[l]} = cs \ First(vs, l)
      BY <1>1, <3>1
    <3>6. l \in P
      BY <3>1, <3>4, <3>5
    <3> QED
      BY <3>6 DEF l
  <2>2. CASE ~(k + 1 <= n)
    BY <2>2
  <2> QED
    BY <2>1, <2>2
<1> HIDE DEF P
<1>7. \A k \in Nat : k \in P
  BY <1>5, <1>6, Taking!Induction
<1>8. n \in P /\ n \in Nat /\ n <= n
  BY <1>1, <1>7
<1>9. Serves(from, g[n], cs \ First(vs, n))
  BY <1>8 DEF P
<1> QED
  BY <1>1, <1>2, <1>4, <1>9

\* A route is emptied: its customers are no longer served, all others are.
LEMMA EmptiedServes ==
    ASSUME NEW from, NEW x, NEW cs, Serves(from, x, cs), NEW r, IsRoute(r), depot \in ToSet(r),
           ServedBy(r) \subseteq cs
    PROVE  Serves(from, Emptied(x, r), cs \ ServedBy(r))
<1>1. r[1] = depot /\ IsPath(r) /\ r # <<>>
  BY BeginsAtDepot DEF IsRoute
<1>2. IsPath(Tail(r)) /\ ToSet(Tail(r)) = ServedBy(r)
  <2>1. IsPath(Tail(r)) /\ r[1] \notin ToSet(Tail(r)) /\ ToSet(r) = ToSet(Tail(r)) \cup {r[1]}
    BY <1>1, TailFacts
  <2> QED
    BY <1>1, <2>1 DEF ServedBy
<1> DEFINE vs == Tail(r)
<1>3. Emptied(x, r) = FoldLeft(Unserve, x, vs)
  BY DEF Emptied
<1> HIDE DEF vs
<1>4. IsPath(vs) /\ ToSet(vs) = ServedBy(r)
  BY <1>2 DEF vs
<1>5. Serves(from, FoldLeft(Unserve, x, vs), cs \ ToSet(vs))
  BY <1>4, AllLeave
<1> QED
  BY <1>3, <1>4, <1>5

Emptying == INSTANCE Folding WITH Op <- Emptied

LEMMA EmptyingIs ==
    /\ \A x, r : Emptying!Folded(x, <<r>>) = Emptied(x, r)
    /\ \A x, p, q : Emptying!Folded(x, <<p, q>>) = Emptied(Emptied(x, p), q)
<1>1. ASSUME NEW x, NEW p, NEW q PROVE Emptying!Folded(x, <<p, q>>) = Emptied(Emptied(x, p), q)
  <2>1. <<p>> \in Seq({p, q}) /\ <<q>> \in Seq({p, q})
    OBVIOUS
  <2>2. <<p, q>> = <<p>> \o <<q>>
    <3> DEFINE S == {p, q}
               s == <<p>> \o <<q>>
               t == <<p, q>>
    <3>1. s \in Seq(S) /\ Len(s) = 2 /\ s[1] = p /\ s[2] = q
      BY <2>1
    <3>2. t \in Seq(S) /\ Len(t) = 2 /\ t[1] = p /\ t[2] = q
      OBVIOUS
    <3> HIDE DEF s, t, S
    <3>3. \A k \in 1..Len(s) : s[k] = t[k]
      BY <3>1, <3>2
    <3>4. s = t
      BY <3>1, <3>2, <3>3, SeqEqual
    <3> QED
      BY <3>4 DEF s, t
  <2>3. Emptying!Folded(x, <<p>> \o <<q>>) = Emptying!Folded(Emptying!Folded(x, <<p>>), <<q>>)
    BY <2>1, Emptying!FoldConcat
  <2>4. Emptying!Folded(x, <<p>>) = Emptied(x, p)
    BY Emptying!FoldShort
  <2> QED
    BY <2>2, <2>3, <2>4, Emptying!FoldShort
<1> QED
  BY <1>1, Emptying!FoldShort

\* The neighbor that is found satisfies the test: the second route is another
\* one of the solution.
LEMMA SelectedAre ==
    ASSUME NEW sol, Good(sol), NEW seed \in CustomersOf(sol)
    PROVE  LET routes == SelectedRoutes(sol, seed)
           IN  \/ \E r \in sol : routes = <<r>> /\ seed \in ServedBy(r)
               \/ \E r, q \in sol : routes = <<r, q>> /\ r # q /\ seed \in ServedBy(r)
<1> DEFINE r == RouteOf(sol, seed)
           elsewhere(v) == v # depot /\ IsServed(sol, v) /\ ~Contains(r, v)
           found == {k \in DOMAIN Neighbors[seed] : elsewhere(Neighbors[seed][k])}
           v == IF found = {} THEN NoVertex ELSE Neighbors[seed][Min(found)]
<1>1. r \in sol /\ seed \in ServedBy(r) /\ seed \in customers
  BY RouteOfFacts DEF Good
<1>2. SelectedRoutes(sol, seed) = IF v = NoVertex THEN <<r>> ELSE <<r, RouteOf(sol, v)>>
  BY DEF SelectedRoutes, FirstNeighbor
<1>3. CASE v = NoVertex
  BY <1>1, <1>2, <1>3
<1>4. CASE v # NoVertex
  <2>1. found \in SUBSET Nat /\ found # {}
    <3>1. DOMAIN Neighbors[seed] \in SUBSET Nat
      BY <1>1, NeighborsAssumption
    <3> QED
      BY <1>4, <3>1
  <2>2. Min(found) \in found
    <3> HIDE DEF found
    <3>1. PICK n \in found : \A m \in found : n <= m
      BY <2>1, Taking!LeastNumber
    <3> QED
      BY <3>1 DEF Min
  <2>3. v = Neighbors[seed][Min(found)] /\ elsewhere(v)
    BY <2>1, <2>2
  <2> HIDE DEF v, found
  <2>4. v \in CustomersOf(sol) /\ ~Contains(r, v)
    BY <2>3, ServedIs DEF Good
  <2>5. RouteOf(sol, v) \in sol /\ v \in ToSet(RouteOf(sol, v))
    BY <2>4, RouteOfFacts DEF Good
  <2>6. IsPath(r) /\ (Contains(r, v) <=> v \in ToSet(r))
    BY <1>1, ServedByFacts DEF Good, WellFormed, IsRoute
  <2>7. RouteOf(sol, v) # r
    BY <2>4, <2>5, <2>6
  <2> QED
    BY <1>1, <1>2, <1>4, <2>5, <2>7
<1> QED
  BY <1>3, <1>4

\* What RuinRoutes makes of the working solution, and the customers it removes.
Ruined(x, routes) == FoldLeft(Emptied, [x EXCEPT !.svc = {}], routes)
GoneWith(routes) == UNION {ServedBy(routes[k]) : k \in DOMAIN routes}

\* The selected routes are emptied, and no other customer is touched.
LEMMA RuinServes ==
    ASSUME NEW from, NEW x, NEW cs, Serves(from, x, cs), NEW seed \in cs
    PROVE  LET routes == SelectedRoutes(x.sol, seed)
           IN  /\ Serves(from, Ruined(x, routes), cs \ GoneWith(routes))
               /\ GoneWith(routes) \subseteq cs /\ seed \in GoneWith(routes)
<1> DEFINE sol == x.sol
           y == [x EXCEPT !.svc = {}]
           routes == SelectedRoutes(sol, seed)
           gone == GoneWith(routes)
<1>1. IsWork(x) /\ Linked(from, x) /\ Good(sol) /\ CustomersOf(sol) = cs
  BY DEF Serves
<1>2. Serves(from, y, cs)
  <2>1. y.sol = x.sol /\ y.do = x.do /\ y.undo = x.undo /\ IsWork(y)
    BY <1>1 DEF IsWork
  <2> HIDE DEF y
  <2> QED
    BY <1>1, <2>1 DEF Serves, Linked
<1> HIDE DEF sol, y
<1>3. \A r \in sol : /\ IsRoute(r) /\ depot \in ToSet(r) /\ ServedBy(r) \subseteq cs
                     /\ \A q \in sol : r # q => ServedBy(q) \subseteq cs \ ServedBy(r)
  BY <1>1 DEF Good, WellFormed, CustomersOf
<1>4. \/ \E r \in sol : routes = <<r>> /\ seed \in ServedBy(r)
      \/ \E r, q \in sol : routes = <<r, q>> /\ r # q /\ seed \in ServedBy(r)
  BY <1>1, SelectedAre
<1> HIDE DEF routes
<1>5. FoldLeft(Emptied, y, routes) = Emptying!Folded(y, routes)
  BY DEF FoldLeft, MapThenFoldSet, Max, Emptying!Folded, Emptying!FoldLeft,
         Emptying!MapThenFoldSet, Emptying!Max
<1>6. CASE \E r \in sol : routes = <<r>> /\ seed \in ServedBy(r)
  <2>1. PICK r \in sol : routes = <<r>> /\ seed \in ServedBy(r)
    BY <1>6
  <2>2. gone = ServedBy(r)
    BY <2>1 DEF GoneWith
  <2> HIDE DEF gone
  <2>3. Serves(from, Emptied(y, r), cs \ ServedBy(r))
    BY <1>2, <1>3, EmptiedServes
  <2>4. FoldLeft(Emptied, y, routes) = Emptied(y, r)
    BY <1>5, <2>1, EmptyingIs
  <2>5. Serves(from, FoldLeft(Emptied, y, routes), cs \ gone) /\ gone \subseteq cs /\ seed \in gone
    BY <1>3, <2>1, <2>2, <2>3, <2>4
  <2> QED
    BY <2>5 DEF routes, gone, y, sol, Ruined
<1>7. CASE \E r, q \in sol : routes = <<r, q>> /\ r # q /\ seed \in ServedBy(r)
  <2>1. PICK r \in sol, q \in sol : routes = <<r, q>> /\ r # q /\ seed \in ServedBy(r)
    BY <1>7
  <2>2. gone = ServedBy(r) \cup ServedBy(q)
    BY <2>1 DEF GoneWith
  <2> HIDE DEF gone
  <2>3. Serves(from, Emptied(y, r), cs \ ServedBy(r))
    BY <1>2, <1>3, EmptiedServes
  <2>4. Serves(from, Emptied(Emptied(y, r), q), (cs \ ServedBy(r)) \ ServedBy(q))
    BY <1>3, <2>1, <2>3, EmptiedServes
  <2>5. FoldLeft(Emptied, y, routes) = Emptied(Emptied(y, r), q)
    BY <1>5, <2>1, EmptyingIs
  <2>6. (cs \ ServedBy(r)) \ ServedBy(q) = cs \ gone
    BY <2>2
  <2>7. Serves(from, FoldLeft(Emptied, y, routes), cs \ gone) /\ gone \subseteq cs /\ seed \in gone
    BY <1>3, <2>1, <2>2, <2>4, <2>5, <2>6
  <2> QED
    BY <2>7 DEF routes, gone, y, sol, Ruined
<1> QED
  BY <1>4, <1>6, <1>7

\* The local search on a solution that may be partial.
LEMMA SearchServes ==
    ASSUME NEW from, NEW x, NEW cs, Serves(from, x, cs), NEW y \in LocalSearch(x)
    PROVE  Serves(from, y, cs)
<1>1. \/ y = x
      \/ \E o \in LocalOperators : \E mv \in Moves(o) :
            /\ IsServed(x.sol, mv[1]) /\ IsServed(x.sol, mv[2])
            /\ Feasible(o, x.sol, mv) /\ y = Execute(o, x, mv)
  BY DEF LocalSearch
<1>2. ASSUME NEW o \in LocalOperators, NEW mv \in Moves(o),
             IsServed(x.sol, mv[1]), IsServed(x.sol, mv[2]),
             Feasible(o, x.sol, mv), y = Execute(o, x, mv)
      PROVE  Serves(from, y, cs)
  <2>1. o \in AllOperators
    BY RouteMinAssumption
  <2>2. IsWork(x) /\ Linked(from, x) /\ Good(x.sol) /\ CustomersOf(x.sol) = cs
    BY DEF Serves
  <2>3. Keeps(from, x, Execute(o, x, mv))
    BY <1>2, <2>1, <2>2, ExecuteKeeps
  <2> QED
    BY <1>2, <2>2, <2>3 DEF Keeps, Serves
<1> QED
  BY <1>1, <1>2

-----------------------------------------------------------------------------
(* The number of routes to aim at                                          *)

\* First fit for one more customer.
Packed(bins, k) ==
    LET demand == Demand[Decreasing[k]]
        room == {p \in DOMAIN bins : bins[p] + demand <= Capacity}
        first == CHOOSE p \in room : \A q \in room : p <= q
    IN  IF room = {} THEN Append(bins, demand)
        ELSE [bins EXCEPT ![first] = @ + demand]

Packing == INSTANCE Folding WITH Op <- Packed

LEMMA PackedFacts ==
    ASSUME NEW S, NEW bins \in Seq(S), NEW k
    PROVE  \E T : Packed(bins, k) \in Seq(T) /\ Len(Packed(bins, k)) >= 1
<1> DEFINE demand == Demand[Decreasing[k]]
           room == {p \in DOMAIN bins : bins[p] + demand <= Capacity}
           first == CHOOSE p \in room : \A q \in room : p <= q
           e == bins[first] + demand
           n == Len(bins)
           T == S \cup {demand, e}
<1>1. Packed(bins, k) = IF room = {} THEN Append(bins, demand)
                        ELSE [bins EXCEPT ![first] = e]
  BY DEF Packed
<1>2. room = {} \/ n >= 1
  OBVIOUS
<1>3. S \subseteq T /\ demand \in T /\ e \in T
  OBVIOUS
<1> HIDE DEF demand, room, first, e, T
<1>4. bins \in Seq(T)
  BY <1>3
<1>5. CASE room = {}
  BY <1>1, <1>3, <1>4, <1>5
<1>6. CASE room # {}
  <2> DEFINE t == [bins EXCEPT ![first] = e]
  <2>1. t \in Seq(T) /\ Len(t) = n
    <3>1. n \in Nat /\ bins \in [1..n -> T]
      BY <1>4
    <3> HIDE DEF n
    <3>2. t \in [1..n -> T]
      BY <1>3, <3>1
    <3> HIDE DEF t
    <3> QED
      BY <3>1, <3>2
  <2> QED
    BY <1>1, <1>2, <1>6, <2>1
<1> QED
  BY <1>5, <1>6

\* The demands need at least one bin.
LEMMA KminPositive == Kmin \in Nat /\ Kmin >= 1
<1> DEFINE n == CustomersNum
           empty == <<>>
<1>1. n \in Nat /\ n >= 1
  BY RoutesAssumption
<1> HIDE DEF n, empty
<1>2. PICK f : Packing!IsLoop(f, empty, n)
  BY <1>1, Packing!LoopExists
<1>3. f = [k \in 0..n |-> IF k = 0 THEN empty ELSE Packed(f[k - 1], k)]
  BY <1>2 DEF Packing!IsLoop
<1>4. Bins = [k \in 0..n |-> IF k = 0 THEN empty ELSE Packed(Bins[k - 1], k)]
  BY <1>3, ZenonT(40) DEF Bins, Packed, n, empty
<1> DEFINE P == {k \in Nat : k <= n =>
                    \E S : Bins[k] \in Seq(S) /\ (k = 0 \/ Len(Bins[k]) >= 1)}
<1>5. 0 \in P
  <2>1. Bins[0] = <<>>
    BY <1>1, <1>4 DEF empty
  <2>2. Bins[0] \in Seq({})
    BY <2>1
  <2> QED
    BY <2>2
<1>6. ASSUME NEW k \in Nat, k \in P PROVE k + 1 \in P
  <2>1. CASE k + 1 <= n
    <3>1. k + 1 \in 0..n /\ k + 1 # 0 /\ (k + 1) - 1 = k /\ k <= n
      BY <1>1, <2>1
    <3>2. Bins[k + 1] = Packed(Bins[k], k + 1)
      BY <1>4, <3>1
    <3>3. PICK S : Bins[k] \in Seq(S)
      BY <1>6, <3>1
    <3>4. \E T : Bins[k + 1] \in Seq(T) /\ Len(Bins[k + 1]) >= 1
      BY <3>2, <3>3, PackedFacts
    <3> QED
      BY <3>4
  <2>2. CASE ~(k + 1 <= n)
    BY <2>2
  <2> QED
    BY <2>1, <2>2
<1> HIDE DEF P
<1>7. \A k \in Nat : k \in P
  BY <1>5, <1>6, Packing!Induction
<1>8. n \in P /\ n # 0 /\ n <= n
  BY <1>1, <1>7
<1>9. PICK S : Bins[n] \in Seq(S) /\ Len(Bins[n]) >= 1
  BY <1>8 DEF P
<1> QED
  BY <1>9 DEF Kmin, n

-----------------------------------------------------------------------------
(* The inductive invariant                                                 *)

\* Both solutions are good, the lists lead from the best one to the working
\* one and back, and everybody is served once, waits or is still unserved.
\* Customers wait only while they are put back; between two iterations somebody
\* is served, whom the next one can draw.
RouteMinInv ==
    /\ pc \in {"ruin", "place", "improve", "judge", "end"}
    /\ Good(best) /\ CustomersOf(best) = customers
    /\ Serves(best, work, CustomersOf(work.sol))
    /\ CustomersOf(work.sol) \cup removed \cup still = customers
    /\ CustomersOf(work.sol) \cap (removed \cup still) = {}
    /\ removed \cap still = {}
    /\ pc = "place" <=> removed # {}
    /\ pc \in {"ruin", "improve", "judge"} => CustomersOf(work.sol) # {}

LEMMA RouteMinInit == Init => RouteMinInv
<1> SUFFICES ASSUME Init PROVE RouteMinInv
  OBVIOUS
<1>1. best \in Starts /\ work = Fresh(best) /\ pc = "ruin" /\ removed = {} /\ still = {}
  BY DEF Init
<1>2. Good(best) /\ CustomersOf(best) = customers
  BY <1>1, RouteMinAssumption, FeasibleIsGood
<1>3. Serves(best, work, CustomersOf(best)) /\ work.sol = best
  BY <1>1, <1>2, FreshServes DEF Fresh
<1>4. customers # {}
  <2>1. 1 \in customers
    BY RoutesAssumption DEF customers
  <2> QED
    BY <2>1
<1> QED
  BY <1>1, <1>2, <1>3, <1>4 DEF RouteMinInv

LEMMA RuinStep ==
    ASSUME RouteMinInv, RuinRoutes
    PROVE  RouteMinInv'
<1> DEFINE cs == CustomersOf(work.sol)
<1>1. /\ Good(best) /\ CustomersOf(best) = customers /\ Serves(best, work, cs)
      /\ cs \cup still = customers /\ cs \cap still = {} /\ removed = {}
  BY DEF RouteMinInv, RuinRoutes
<1>2. pc' = "place" /\ best' = best /\ still' = {}
  BY DEF RuinRoutes
<1>3. PICK seed \in Served(work.sol) :
          LET routes == SelectedRoutes(work.sol, seed)
          IN  /\ work' = FoldLeft(Emptied, [work EXCEPT !.svc = {}], routes)
              /\ removed' = still \cup UNION {ServedBy(routes[k]) : k \in DOMAIN routes}
  BY DEF RuinRoutes
<1> DEFINE routes == SelectedRoutes(work.sol, seed)
           gone == GoneWith(routes)
<1>4. seed \in cs
  BY <1>3, ServedIsCustomersOf
<1> HIDE DEF cs
<1>5. /\ Serves(best, Ruined(work, routes), cs \ gone)
      /\ gone \subseteq cs /\ seed \in gone
  BY <1>1, <1>4, RuinServes
<1>6. Serves(best, work', cs \ gone) /\ removed' = still \cup gone
  BY <1>3, <1>5 DEF Ruined, GoneWith
<1> HIDE DEF gone
<1>7. CustomersOf(work'.sol) = cs \ gone
  BY <1>6 DEF Serves
<1>8. Serves(best', work', CustomersOf(work'.sol))
  BY <1>2, <1>6, <1>7
<1>9. /\ CustomersOf(work'.sol) \cup removed' \cup still' = customers
      /\ CustomersOf(work'.sol) \cap (removed' \cup still') = {}
      /\ removed' \cap still' = {} /\ removed' # {}
  BY <1>1, <1>2, <1>5, <1>6, <1>7
<1> QED
  BY <1>1, <1>2, <1>8, <1>9 DEF RouteMinInv

\* A customer is served by one more route or place, or by nobody.
LEMMA PlaceServes ==
    ASSUME RouteMinInv, Place
    PROVE  \E c \in removed :
              /\ removed' = removed \ {c} /\ best' = best
              /\ pc' = IF removed = {c} THEN "improve" ELSE "place"
              /\ \/ /\ still' = still
                    /\ Serves(best, work', CustomersOf(work.sol) \cup {c})
                 \/ /\ still' = still \cup {c} /\ work' = work
                    /\ CustomersOf(work.sol) # {}
<1> DEFINE cs == CustomersOf(work.sol)
<1>1. Serves(best, work, cs) /\ cs \cap removed = {} /\ removed \subseteq customers
  BY DEF RouteMinInv
<1>2. best' = best
  BY DEF Place
<1>3. PICK c \in removed :
        LET places == CheapestPlaces(work.sol, c)
        IN  /\ \/ \E p \in places :
                    /\ work' = Do(work, InsertVertex(p[2], c, Succ(p[1], p[2])))
                    /\ UNCHANGED still
               \/ /\ places = {} /\ MustBuild(work.sol)
                  /\ work' = Do(work, BuildOne(c))
                  /\ UNCHANGED still
               \/ /\ places = {} /\ MayLeave(work.sol)
                  /\ still' = still \cup {c}
                  /\ UNCHANGED work
            /\ removed' = removed \ {c}
            /\ pc' = IF removed = {c} THEN "improve" ELSE "place"
  BY DEF Place
<1>4. c \in customers /\ c \notin cs
  BY <1>1
<1>5. Good(work.sol)
  BY <1>1 DEF Serves
<1> HIDE DEF cs
<1>6. ASSUME NEW p \in CheapestPlaces(work.sol, c),
             work' = Do(work, InsertVertex(p[2], c, Succ(p[1], p[2])))
      PROVE  Serves(best, work', cs \cup {c})
  <2>1. p \in Places(work.sol, c)
    BY DEF CheapestPlaces
  <2>2. /\ p[1] \in work.sol /\ Contains(p[1], p[2])
        /\ Load(p[1]) + Demand[c] <= Capacity
    BY <2>1 DEF Places
  <2>3. p[2] \in ToSet(p[1])
    <3>1. IsPath(p[1])
      BY <1>5, <2>2 DEF Good, WellFormed, IsRoute
    <3> QED
      BY <2>2, <3>1, ServedByFacts
  <2>4. Serves(best, Do(work, InsertVertex(p[2], c, Succ(p[1], p[2]))), cs \cup {c})
    BY <1>1, <1>4, <2>2, <2>3, CustomerEnters
  <2> QED
    BY <1>6, <2>4
<1>7. ASSUME work' = Do(work, BuildOne(c)) PROVE Serves(best, work', cs \cup {c})
  BY <1>1, <1>4, <1>7, CustomerAlone
<1>8. ASSUME MayLeave(work.sol) PROVE cs # {}
  <2>1. ~(Cardinality(work.sol) < Kmin)
    BY <1>8 DEF MayLeave
  <2>2. work.sol # {}
    BY <2>1, KminPositive, FS_EmptySet
  <2>3. \A r \in work.sol : ServedBy(r) # {}
    BY <1>5 DEF Good, WellFormed
  <2> QED
    BY <2>2, <2>3 DEF cs, CustomersOf
<1>9. \/ still' = still /\ Serves(best, work', cs \cup {c})
      \/ still' = still \cup {c} /\ work' = work /\ cs # {}
  BY <1>3, <1>6, <1>7, <1>8
<1> QED
  BY <1>2, <1>3, <1>9 DEF cs

LEMMA PlaceStep ==
    ASSUME RouteMinInv, Place
    PROVE  RouteMinInv'
<1> DEFINE cs == CustomersOf(work.sol)
<1>1. /\ Good(best) /\ CustomersOf(best) = customers /\ Serves(best, work, cs)
      /\ cs \cup removed \cup still = customers
      /\ cs \cap (removed \cup still) = {} /\ removed \cap still = {}
  BY DEF RouteMinInv
<1>2. PICK c \in removed :
          /\ removed' = removed \ {c} /\ best' = best
          /\ pc' = IF removed = {c} THEN "improve" ELSE "place"
          /\ \/ /\ still' = still
                /\ Serves(best, work', cs \cup {c})
             \/ /\ still' = still \cup {c} /\ work' = work
                /\ cs # {}
  BY PlaceServes
<1> DEFINE ds == CustomersOf(work'.sol)
<1>3. CASE still' = still /\ Serves(best, work', cs \cup {c})
  <2>1. ds = cs \cup {c}
    BY <1>3 DEF Serves
  <2>2. Serves(best', work', ds)
    BY <1>2, <1>3, <2>1
  <2> HIDE DEF ds, cs
  <2>3. /\ ds \cup removed' \cup still' = customers
        /\ ds \cap (removed' \cup still') = {} /\ removed' \cap still' = {}
        /\ ds # {} /\ (pc' = "place" <=> removed' # {}) /\ pc' \in {"place", "improve"}
    BY <1>1, <1>2, <1>3, <2>1
  <2> QED
    BY <1>1, <1>2, <2>2, <2>3 DEF RouteMinInv, ds
<1>4. CASE still' = still \cup {c} /\ work' = work /\ cs # {}
  <2>1. ds = cs
    BY <1>4
  <2>2. Serves(best', work', ds)
    BY <1>1, <1>2, <1>4, <2>1
  <2> HIDE DEF ds, cs
  <2>3. /\ ds \cup removed' \cup still' = customers
        /\ ds \cap (removed' \cup still') = {} /\ removed' \cap still' = {}
        /\ ds # {} /\ (pc' = "place" <=> removed' # {}) /\ pc' \in {"place", "improve"}
    BY <1>1, <1>2, <1>4, <2>1
  <2> QED
    BY <1>1, <1>2, <2>2, <2>3 DEF RouteMinInv, ds
<1> QED
  BY <1>2, <1>3, <1>4

\* The lists are folded along: the best solution becomes the working one, and
\* the working one the best one.
LEMMA Caught ==
    ASSUME RouteMinInv
    PROVE  FollowTo(best, work.do) = work.sol /\ UndoTo(work.sol, work.undo) = best
<1>1. Linked(best, work)
  BY DEF RouteMinInv, Serves
<1>2. Reverse(work.undo) \in Seq(AllActions)
  BY <1>1, ReverseConcat DEF Linked
<1>3. FollowTo(best, work.do) = work.sol
  BY <1>1, LeadsIsFold DEF FollowTo, Linked
<1>4. UndoTo(work.sol, work.undo) = best
  BY <1>1, <1>2, LeadsIsFold DEF UndoTo, Linked
<1> QED
  BY <1>3, <1>4

LEMMA RestartServes ==
    ASSUME RouteMinInv, NEW x, x.sol \in {best, work.sol},
           x.do = <<>>, x.undo = <<>>, IsWork(x)
    PROVE  Good(x.sol) /\ Serves(x.sol, x, CustomersOf(x.sol))
<1>1. Good(x.sol)
  BY DEF RouteMinInv, Serves
<1>2. Linked(x.sol, x)
  BY LinkedNowhere
<1> QED
  BY <1>1, <1>2 DEF Serves

LEMMA FollowStep ==
    ASSUME RouteMinInv, Follow
    PROVE  RouteMinInv'
<1>1. /\ best' = FollowTo(best, work.do) /\ still = {} /\ pc = "judge"
      /\ work' = [work EXCEPT !.do = <<>>, !.undo = <<>>]
      /\ pc' \in {"end", "ruin"} /\ removed' = removed /\ still' = still
  BY DEF Follow, Improved
<1>2. best' = work.sol
  BY <1>1, Caught
<1>3. work'.sol = work.sol /\ work'.do = <<>> /\ work'.undo = <<>> /\ IsWork(work')
  BY <1>1 DEF RouteMinInv, Serves, IsWork
<1>4. Good(best') /\ Serves(best', work', CustomersOf(work'.sol))
  BY <1>2, <1>3, RestartServes
<1>5. CustomersOf(work.sol) = customers /\ removed = {} /\ CustomersOf(work.sol) # {}
  BY <1>1 DEF RouteMinInv
<1> QED
  BY <1>1, <1>2, <1>3, <1>4, <1>5 DEF RouteMinInv

LEMMA ResetStep ==
    ASSUME RouteMinInv, Reset
    PROVE  RouteMinInv'
<1>1. /\ work' = [work EXCEPT !.sol = UndoTo(@, work.undo), !.do = <<>>, !.undo = <<>>]
      /\ pc = "judge" /\ pc' = "ruin" /\ removed' = removed /\ still' = {} /\ best' = best
  BY DEF Reset
<1>2. work'.sol = best /\ work'.do = <<>> /\ work'.undo = <<>> /\ IsWork(work')
  <2>1. IsWork(work) /\ UndoTo(work.sol, work.undo) = best
    BY Caught DEF RouteMinInv, Serves
  <2> QED
    BY <1>1, <2>1 DEF IsWork
<1>3. Good(best') /\ Serves(best', work', CustomersOf(work'.sol))
  <2>1. work'.sol \in {best, work.sol}
    BY <1>2
  <2>2. Good(work'.sol) /\ Serves(work'.sol, work', CustomersOf(work'.sol))
    BY <1>2, <2>1, RestartServes
  <2> QED
    BY <1>1, <1>2, <2>2
<1>4. CustomersOf(best) = customers /\ removed = {} /\ customers # {}
  <2>1. CustomersOf(work.sol) # {} /\ CustomersOf(work.sol) \subseteq customers
    BY <1>1 DEF RouteMinInv
  <2> QED
    BY <1>1, <2>1 DEF RouteMinInv
<1> QED
  BY <1>1, <1>2, <1>3, <1>4 DEF RouteMinInv

LEMMA RouteMinStep == RouteMinInv /\ [Next]_vars => RouteMinInv'
<1> SUFFICES ASSUME RouteMinInv, [Next]_vars PROVE RouteMinInv'
  OBVIOUS
<1>1. CASE RuinRoutes
  BY <1>1, RuinStep
<1>2. CASE Place
  BY <1>2, PlaceStep
<1>3. CASE Improve
  <2>1. /\ work' \in LocalSearch(work) /\ pc = "improve" /\ pc' = "judge"
        /\ best' = best /\ removed' = removed /\ still' = still
    BY <1>3 DEF Improve
  <2>2. Serves(best, work, CustomersOf(work.sol))
    BY DEF RouteMinInv
  <2>3. Serves(best, work', CustomersOf(work.sol))
    BY <2>1, <2>2, SearchServes
  <2>4. CustomersOf(work'.sol) = CustomersOf(work.sol)
    BY <2>3 DEF Serves
  <2> QED
    BY <2>1, <2>3, <2>4 DEF RouteMinInv
<1>4. CASE Follow
  BY <1>4, FollowStep
<1>5. CASE Reset
  BY <1>5, ResetStep
<1>6. CASE GoOn
  BY <1>6 DEF GoOn, RouteMinInv
<1>7. CASE Return
  BY <1>7 DEF Return, RouteMinInv
<1>8. CASE UNCHANGED vars
  BY <1>8 DEF vars, RouteMinInv
<1> QED
  BY <1>1, <1>2, <1>3, <1>4, <1>5, <1>6, <1>7, <1>8 DEF Next, Ended

LEMMA RouteMinInvariant == Spec => []RouteMinInv
BY RouteMinInit, RouteMinStep, PTL DEF Spec

-----------------------------------------------------------------------------
(* The theorems                                                            *)

\* do_list1 leads from the best solution to the working one and undo_list1
\* back, at every moment of every run: what Follow and Reset rely on.
THEOREM ListsAlwaysLink == Spec => []ListsLinkTheSolutions
<1>1. RouteMinInv => ListsLinkTheSolutions
  BY DEF RouteMinInv, Serves, Linked, Leads, ListsLinkTheSolutions
<1> QED
  BY <1>1, RouteMinInvariant, PTL

\* Every customer is served by one route, waits for its turn or is still
\* unserved, over any number of iterations on partial solutions.
THEOREM CustomersAreKept == Spec => []NoCustomerLost
<1>1. RouteMinInv => NoCustomerLost
  <2> SUFFICES ASSUME RouteMinInv PROVE NoCustomerLost
    OBVIOUS
  <2>1. Served(work.sol) = CustomersOf(work.sol)
    BY ServedIsCustomersOf
  <2>2. \A p, q \in work.sol : p # q => ServedBy(p) \cap ServedBy(q) = {}
    BY DEF RouteMinInv, Serves, Good, WellFormed
  <2> QED
    BY <2>1, <2>2 DEF RouteMinInv, NoCustomerLost
<1> QED
  BY <1>1, RouteMinInvariant, PTL

\* An iteration begins with a served customer: the loop that draws the seed
\* ends.
THEOREM SeedAlwaysExists == Spec => []SeedExists
<1>1. RouteMinInv => SeedExists
  BY ServedIsCustomersOf DEF RouteMinInv, SeedExists
<1> QED
  BY <1>1, RouteMinInvariant, PTL

\* What is returned serves every customer once, from the depot and within the
\* capacity.
THEOREM BestStaysComplete == Spec => []BestIsComplete
<1>1. RouteMinInv => BestIsComplete
  BY GoodIsFeasible DEF RouteMinInv, BestIsComplete
<1> QED
  BY <1>1, RouteMinInvariant, PTL

\* The best solution changes only to the working one, and only to a better one.
THEOREM BestOnlyImproves == Spec => BestImproves
<1>1. RouteMinInv /\ [Next]_vars =>
          [best' # best => best' = work.sol /\ Better(best', best)]_vars
  <2> SUFFICES ASSUME RouteMinInv, Next, best' # best
               PROVE  best' = work.sol /\ Better(best', best)
    BY DEF vars
  <2>1. Follow
    BY DEF Next, RuinRoutes, Place, Improve, Reset, GoOn, Return, Ended, vars
  <2>2. best' = FollowTo(best, work.do) /\ Better(work.sol, best)
    BY <2>1 DEF Follow, Improved
  <2>3. best' = work.sol
    BY <2>2, Caught
  <2> QED
    BY <2>2, <2>3
<1> QED
  BY <1>1, RouteMinInvariant, PTL DEF Spec, BestImproves
=============================================================================
