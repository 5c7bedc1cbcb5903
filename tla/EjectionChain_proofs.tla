------------------------- MODULE EjectionChain_proofs -------------------------
(***************************************************************************)
(* Proofs about EjectionChain: whatever tree of relocations a search       *)
(* grows, a chain that it executes leaves a feasible solution, and its     *)
(* recorded actions lead there and back.                                   *)
(***************************************************************************)
EXTENDS EjectionChain, Routes_proofs

Chaining == INSTANCE Folding WITH Op <- ChainStep

-----------------------------------------------------------------------------
(* Who follows whom, after a vertex has left a route or entered it         *)

LEMMA SuccOnCycle ==
    ASSUME NEW u, IsPath(u), u # <<>>, NEW p \in 1..Len(u)
    PROVE  Succ(Cycle(u), u[p]) = IF p < Len(u) THEN u[p + 1] ELSE u[1]
<1> DEFINE s == Cycle(u)
           n == Len(u)
           q == IF p < n THEN p + 1 ELSE 1
<1>1. n \in Nat /\ n >= 1 /\ p \in 1..n /\ q \in 1..n /\ 1 \in (0 - n)..n
      /\ (q = p + 1 \/ q = p + 1 - n)
  BY PathFacts
<1>2. /\ IsPath(s) /\ Len(s) = n /\ ToSet(s) = ToSet(u) /\ u[1] \in ToSet(u)
      /\ Opened(s, u[1]) = u /\ u[p] \in ToSet(u)
  BY CycleIsRoute, OpenedFirst, PathSet DEF IsRoute
<1> HIDE DEF s
<1>3. Step(s, Opened(s, u[1])[p], 1) = Opened(s, u[1])[q]
  <2>1. /\ u[1] \in ToSet(s) /\ p \in 1..Len(s) /\ q \in 1..Len(s)
        /\ 1 \in (0 - Len(s))..Len(s) /\ (q = p + 1 \/ q = p + 1 - Len(s))
    BY <1>1, <1>2
  <2> HIDE DEF q, n
  <2> QED
    BY <1>2, <2>1, StepIs
<1>4. Succ(s, u[p]) = Step(s, u[p], 1)
  BY <1>2, SuccIs
<1>5. Succ(s, u[p]) = u[q]
  BY <1>2, <1>3, <1>4
<1> QED
  BY <1>5 DEF s

LEMMA SuccAfterRemove ==
    ASSUME NEW r, IsRoute(r), NEW i \in ToSet(r), NEW v \in ToSet(r), v # i, Succ(r, v) # i
    PROVE  Succ(RemoveFrom(r, i), v) = Succ(r, v)
<1> DEFINE t == Opened(r, i)
           u == Tail(t)
           n == Len(t)
<1>1. /\ IsPath(t) /\ t # <<>> /\ t[1] = i /\ ToSet(t) = ToSet(r) /\ Cycle(t) = r
      /\ n \in Nat
  BY RouteOpened, PathFacts
<1>2. IsPath(u) /\ Len(u) = n - 1 /\ \A k \in 1..(n - 1) : u[k] = t[k + 1]
  BY <1>1, TailFacts
<1>3. RemoveFrom(r, i) = Cycle(u)
  BY DEF RemoveFrom, Opened
<1> HIDE DEF t, u
<1>4. PICK p \in 1..n : t[p] = v
  BY <1>1, PathSet, PathFacts
<1>5. Succ(r, v) = IF p < n THEN t[p + 1] ELSE t[1]
  BY <1>1, <1>4, SuccOnCycle
<1> HIDE DEF n
<1>6. p # 1 /\ p < n /\ p - 1 \in 1..(n - 1) /\ p - 1 < n - 1 /\ p \in 1..(n - 1)
      /\ (p - 1) + 1 = p
  BY <1>1, <1>4, <1>5
<1>7. u # <<>> /\ u[p - 1] = v /\ u[p] = t[p + 1] /\ p - 1 \in 1..Len(u)
  BY <1>2, <1>4, <1>6, EmptySeq
<1>8. Succ(Cycle(u), u[p - 1]) = u[p]
  <2> DEFINE m == p - 1
  <2>1. m \in 1..Len(u) /\ m < Len(u) /\ m + 1 = p
    BY <1>2, <1>6, <1>7
  <2> HIDE DEF m
  <2>2. Succ(Cycle(u), u[m]) = u[m + 1]
    BY <1>2, <1>7, <2>1, SuccOnCycle
  <2> QED
    BY <2>1, <2>2 DEF m
<1> QED
  BY <1>3, <1>5, <1>6, <1>7, <1>8

LEMMA SuccAfterInsert ==
    ASSUME NEW r, IsRoute(r), NEW w \in ToSet(r), NEW i \in vertices, i \notin ToSet(r),
           NEW v \in ToSet(r), Succ(r, v) # w
    PROVE  Succ(InsertBefore(r, w, i), v) = Succ(r, v)
<1> DEFINE t == Opened(r, w)
           u == <<i>> \o t
           n == Len(t)
<1>1. /\ IsPath(t) /\ t # <<>> /\ t[1] = w /\ ToSet(t) = ToSet(r) /\ Cycle(t) = r
      /\ n \in Nat
  BY RouteOpened, PathFacts
<1>2. /\ IsPath(u) /\ u # <<>> /\ Len(u) = n + 1 /\ Tail(u) = t
  BY <1>1, PrefixedFacts
<1>3. InsertBefore(r, w, i) = Cycle(u)
  BY DEF InsertBefore, Opened
<1> HIDE DEF t, u
<1>4. \A k \in 1..n : u[k + 1] = t[k]
  BY <1>1, <1>2, TailFacts
<1>5. PICK p \in 1..n : t[p] = v
  BY <1>1, PathSet, PathFacts
<1>6. Succ(r, v) = IF p < n THEN t[p + 1] ELSE t[1]
  BY <1>1, <1>5, SuccOnCycle
<1> HIDE DEF n
<1> DEFINE m == p + 1
<1>7. p < n /\ m \in 1..n /\ m \in 1..Len(u) /\ m < Len(u)
  BY <1>1, <1>2, <1>5, <1>6
<1>8. u[m] = v /\ u[m + 1] = t[m]
  BY <1>4, <1>5, <1>7
<1>9. Succ(r, v) = t[m]
  BY <1>6, <1>7
<1> HIDE DEF m
<1>10. Succ(Cycle(u), u[m]) = u[m + 1]
  BY <1>2, <1>7, SuccOnCycle
<1> QED
  BY <1>3, <1>8, <1>9, <1>10

-----------------------------------------------------------------------------
(* Relocations                                                             *)

LEMMA RouteOfIs ==
    ASSUME NEW sol, WellFormed(sol), NEW r \in sol, NEW c \in ServedBy(r)
    PROVE  RouteOf(sol, c) = r /\ c \in ToSet(r) /\ c # depot /\ c \in customers
<1>1. IsPath(r) /\ c \in ToSet(r) /\ c # depot
  BY DEF WellFormed, IsRoute, ServedBy
<1>2. RouteVia(sol, c, c) = r
  BY <1>1, RouteViaIs
<1> QED
  BY <1>1, <1>2, ServedByFacts DEF RouteVia

LEMMA SurroundingsOf ==
    ASSUME NEW sol, WellFormed(sol), NEW ri \in sol, NEW rj \in sol,
           NEW i \in ServedBy(ri), NEW j \in ServedBy(rj)
    PROVE  /\ Surroundings(sol, <<i, j>>).ri = ri
           /\ Surroundings(sol, <<i, j>>).rj = rj
           /\ Surroundings(sol, <<i, j>>).iNext = Succ(ri, i)
<1>1. /\ RouteOf(sol, i) = ri /\ RouteOf(sol, j) = rj /\ i # depot /\ j # depot
  BY RouteOfIs
<1>2. RouteVia(sol, i, j) = ri /\ RouteVia(sol, j, i) = rj
  BY <1>1 DEF RouteVia
<1> QED
  BY <1>2 DEF Surroundings

\* A customer moves to another route.
LEMMA RelocateBetween ==
    ASSUME NEW from, NEW y, IsWork(y), Linked(from, y), WellFormed(y.sol),
           NEW ri \in y.sol, NEW rj \in y.sol, ri # rj, depot \in ToSet(ri),
           NEW i \in ServedBy(ri), NEW j \in ServedBy(rj)
    PROVE  LET z == Relocate(y, <<i, j>>)
               s == RemoveFrom(ri, i)
               t == InsertBefore(rj, j, i)
           IN  /\ IsWork(z) /\ Linked(from, z) /\ WellFormed(z.sol)
               /\ z.sol = (y.sol \ {ri, rj}) \cup IfServing(s) \cup {t}
               /\ IsRoute(s) /\ ToSet(s) = ToSet(ri) \ {i}
               /\ IsRoute(t) /\ ToSet(t) = ToSet(rj) \cup {i}
               /\ CustomersOf(z.sol) = CustomersOf(y.sol)
<1> DEFINE sol == y.sol
           a == RemoveVertex(i, Succ(ri, i))
           b == InsertVertex(j, i, Succ(rj, j))
           s == RemoveFrom(ri, i)
           t == InsertBefore(rj, j, i)
           mid == (sol \ {ri}) \cup IfServing(s)
           to == (mid \ {rj}) \cup {t}
           w == Do(y, a)
           z == Do(w, b)
<1>1. /\ IsPath(ri) /\ IsRoute(ri) /\ i \in ToSet(ri) /\ i # depot /\ i \in customers
      /\ i \in vertices /\ IsRoute(rj) /\ IsPath(rj) /\ j \in ToSet(rj) /\ ToSet(ri) # {i}
  <2>1. IsRoute(ri) /\ IsPath(ri) /\ IsRoute(rj) /\ IsPath(rj)
    BY DEF WellFormed, IsRoute
  <2>2. i \in ToSet(ri) /\ i # depot /\ i \in customers /\ j \in ToSet(rj)
    BY RouteOfIs
  <2> QED
    BY <2>1, <2>2, Numbers
<1>2. i \notin ServedBy(rj) /\ i \notin ToSet(rj) /\ ServedBy(ri) \cap ServedBy(rj) = {}
      /\ ServedBy(rj) # {}
  BY <1>1 DEF WellFormed, ServedBy
<1>3. Relocate(y, <<i, j>>) = z
  <2> DEFINE e == Surroundings(sol, <<i, j>>)
  <2>1. e.ri = ri /\ e.rj = rj /\ e.iNext = Succ(ri, i)
    BY SurroundingsOf
  <2> HIDE DEF e
  <2>2. Relocate(y, <<i, j>>)
            = Do(Do(y, RemoveVertex(i, e.iNext)),
                 InsertVertex(j, i, Succ(IF e.ri = e.rj THEN RemoveFrom(e.ri, i) ELSE e.rj, j)))
    BY DEF Relocate, e, sol
  <2> QED
    BY <2>1, <2>2
<1>4. /\ WellFormed(mid) /\ ApplyAction(sol, a) = mid
      /\ IsRoute(s) /\ ToSet(s) = ToSet(ri) \ {i}
      /\ Revertible(sol, RecordAction(sol, a), mid)
  BY <1>1, RemoveWorks
<1>5. ServedBy(s) = ServedBy(ri) \ {i}
  BY <1>4 DEF ServedBy
<1> HIDE DEF s, a
<1>6. w.sol = mid /\ Linked(from, w) /\ IsWork(w)
  BY <1>4, DoWorks
<1> HIDE DEF w
<1>7. rj \in mid /\ mid \ {rj} = (sol \ {ri, rj}) \cup IfServing(s)
  <2>1. rj \notin IfServing(s)
    BY <1>2, <1>5 DEF IfServing
  <2> QED
    BY <2>1
<1>8. i \notin CustomersOf(mid)
  <2>1. ASSUME NEW r \in mid PROVE i \notin ServedBy(r)
    <3>1. r = s \/ (r \in sol /\ r # ri)
      BY DEF IfServing
    <3> QED
      BY <1>1, <1>5, <3>1 DEF WellFormed
  <2> QED
    BY <2>1 DEF CustomersOf
<1>9. /\ WellFormed(to) /\ ApplyAction(mid, b) = to
      /\ IsRoute(t) /\ ToSet(t) = ToSet(rj) \cup {i}
      /\ Revertible(mid, RecordAction(mid, b), to)
  <2> HIDE DEF mid
  <2> QED
    BY <1>1, <1>2, <1>4, <1>7, <1>8, InsertWorks
<1>10. ServedBy(t) = ServedBy(rj) \cup {i}
  BY <1>1, <1>9 DEF ServedBy
<1> HIDE DEF t, b
<1>11. z.sol = to /\ Linked(from, z) /\ IsWork(z)
  <2> HIDE DEF mid, to
  <2> QED
    BY <1>6, <1>9, DoWorks
<1>12. to = (sol \ {ri, rj}) \cup IfServing(s) \cup {t}
  BY <1>7
<1>13. CustomersOf(to) = CustomersOf(sol)
  <2> DEFINE others == CustomersOf(sol \ {ri, rj})
  <2>1. CustomersOf(sol) = others \cup ServedBy(ri) \cup ServedBy(rj)
    BY DEF CustomersOf
  <2>2. UNION {ServedBy(p) : p \in IfServing(s)} = ServedBy(s)
    BY DEF IfServing
  <2>3. CustomersOf(to) = others \cup ServedBy(s) \cup ServedBy(t)
    <3> HIDE DEF to
    <3> QED
      BY <1>12, <2>2 DEF CustomersOf
  <2> HIDE DEF others, to
  <2> QED
    BY <1>5, <1>10, <2>1, <2>3
<1> HIDE DEF to, z
<1> QED
  BY <1>3, <1>4, <1>9, <1>11, <1>12, <1>13 DEF s, t

\* A vertex moves within its route, which keeps its vertices.
LEMMA RelocateWithin ==
    ASSUME NEW from, NEW y, IsWork(y), Linked(from, y), WellFormed(y.sol),
           NEW r \in y.sol, NEW i \in ToSet(r), NEW j \in ToSet(r), i # j,
           ServedBy(r) # {i}
    PROVE  LET z == Relocate(y, <<i, j>>)
               t == InsertBefore(RemoveFrom(r, i), j, i)
           IN  /\ IsWork(z) /\ Linked(from, z) /\ WellFormed(z.sol)
               /\ z.sol = (y.sol \ {r}) \cup {t}
               /\ IsRoute(t) /\ ToSet(t) = ToSet(r)
               /\ CustomersOf(z.sol) = CustomersOf(y.sol)
<1> DEFINE sol == y.sol
           s == RemoveFrom(r, i)
           a == RemoveVertex(i, Succ(r, i))
           b == InsertVertex(j, i, Succ(s, j))
           t == InsertBefore(s, j, i)
           mid == (sol \ {r}) \cup IfServing(s)
           to == (mid \ {s}) \cup {t}
           w == Do(y, a)
           z == Do(w, b)
<1>1. /\ IsRoute(r) /\ IsPath(r) /\ ServedBy(r) # {} /\ i \in vertices /\ ToSet(r) # {i}
  BY PathSet DEF WellFormed, IsRoute
<1>2. Relocate(y, <<i, j>>) = z
  <2> DEFINE e == Surroundings(sol, <<i, j>>)
  <2>1. RouteVia(sol, i, j) = r /\ RouteVia(sol, j, i) = r
    BY RouteViaIs
  <2>2. e.ri = r /\ e.rj = r /\ e.iNext = Succ(r, i)
    BY <2>1 DEF Surroundings
  <2> HIDE DEF e
  <2>3. Relocate(y, <<i, j>>)
            = Do(Do(y, RemoveVertex(i, e.iNext)),
                 InsertVertex(j, i, Succ(IF e.ri = e.rj THEN RemoveFrom(e.ri, i) ELSE e.rj, j)))
    BY DEF Relocate, e, sol
  <2> QED
    BY <2>2, <2>3
<1>3. /\ WellFormed(mid) /\ ApplyAction(sol, a) = mid
      /\ IsRoute(s) /\ ToSet(s) = ToSet(r) \ {i}
      /\ Revertible(sol, RecordAction(sol, a), mid)
  BY <1>1, RemoveWorks
<1>4. ServedBy(s) = ServedBy(r) \ {i} /\ ServedBy(s) # {} /\ IfServing(s) = {s}
  BY <1>1, <1>3 DEF ServedBy, IfServing
<1> HIDE DEF s, a
<1>5. w.sol = mid /\ Linked(from, w) /\ IsWork(w)
  BY <1>3, DoWorks
<1> HIDE DEF w
<1>6. s \in mid /\ s \notin sol \ {r} /\ mid \ {s} = sol \ {r}
  <2>1. ASSUME NEW q \in sol, q # r PROVE q # s
    <3>1. ServedBy(q) \cap ServedBy(r) = {}
      BY <2>1 DEF WellFormed
    <3> QED
      BY <1>4, <3>1
  <2> QED
    BY <1>4, <2>1
<1>7. i # depot => i \notin CustomersOf(mid)
  <2>1. ASSUME NEW q \in mid, i # depot PROVE i \notin ServedBy(q)
    <3>1. q = s \/ (q \in sol /\ q # r)
      BY <1>4
    <3>2. i \in ServedBy(r)
      BY <2>1 DEF ServedBy
    <3> QED
      BY <1>4, <3>1, <3>2 DEF WellFormed
  <2> QED
    BY <2>1 DEF CustomersOf
<1>8. /\ WellFormed(to) /\ ApplyAction(mid, b) = to
      /\ IsRoute(t) /\ ToSet(t) = ToSet(s) \cup {i}
      /\ Revertible(mid, RecordAction(mid, b), to)
  <2>1. j \in ToSet(s) /\ i \notin ToSet(s)
    BY <1>3
  <2> HIDE DEF mid
  <2> QED
    BY <1>1, <1>3, <1>6, <1>7, <2>1, InsertWorks
<1> HIDE DEF t, b
<1>9. z.sol = to /\ Linked(from, z) /\ IsWork(z)
  <2> HIDE DEF mid, to
  <2> QED
    BY <1>5, <1>8, DoWorks
<1>10. to = (sol \ {r}) \cup {t} /\ ToSet(t) = ToSet(r)
  BY <1>3, <1>6, <1>8
<1>11. CustomersOf(to) = CustomersOf(sol)
  <2>1. ServedBy(t) = ServedBy(r)
    BY <1>10 DEF ServedBy
  <2> HIDE DEF to
  <2> QED
    BY <1>10, <2>1 DEF CustomersOf
<1> HIDE DEF to, z
<1> QED
  BY <1>2, <1>8, <1>9, <1>10, <1>11 DEF t, s

-----------------------------------------------------------------------------
(* Who is in which route, and what the routes carry                        *)

\* The route each customer is in, and the vertices of a route, by the route
\* each customer is in or will be in.
HomeOf(sol) == [c \in customers |-> RouteOf(sol, c)]
Class(home, h) == {depot} \cup {c \in customers : home[c] = h}
IsHome(home, S) == home \in [customers -> S]
Loads(S, home) == [h \in S |-> LoadOf(Class(home, h))]

\* A customer changes its route, and the loads with it.
Moved(home, i, h) == [home EXCEPT ![i] = h]
Reloaded(load, i, ri, rj) == [load EXCEPT ![ri] = @ - Demand[i], ![rj] = @ + Demand[i]]

LEMMA HomeFacts ==
    ASSUME NEW sol, Good(sol), CustomersOf(sol) = customers
    PROVE  /\ IsHome(HomeOf(sol), sol)
           /\ \A h \in sol : ToSet(h) = Class(HomeOf(sol), h)
           /\ \A c \in customers : /\ HomeOf(sol)[c] = RouteOf(sol, c)
                                   /\ HomeOf(sol)[c] \in sol
                                   /\ c \in ServedBy(HomeOf(sol)[c])
           /\ \A h \in sol : \A c \in ServedBy(h) : HomeOf(sol)[c] = h /\ c \in customers
<1>1. WellFormed(sol)
  BY DEF Good
<1>2. \A c \in customers : RouteOf(sol, c) \in sol /\ c \in ServedBy(RouteOf(sol, c))
  BY <1>1, RouteOfFacts
<1>3. \A h \in sol : \A c \in ServedBy(h) : RouteOf(sol, c) = h /\ c \in customers
  BY <1>1, RouteOfIs
<1>4. ASSUME NEW h \in sol PROVE ToSet(h) = Class(HomeOf(sol), h)
  <2>1. depot \in ToSet(h)
    BY DEF Good
  <2>2. ServedBy(h) = {c \in customers : RouteOf(sol, c) = h}
    BY <1>2, <1>3
  <2>3. ToSet(h) = {depot} \cup ServedBy(h)
    BY <2>1 DEF ServedBy
  <2> QED
    BY <2>2, <2>3 DEF Class, HomeOf
<1> QED
  BY <1>2, <1>3, <1>4 DEF HomeOf, IsHome

LEMMA ClassFacts ==
    ASSUME NEW home, NEW h
    PROVE  /\ Class(home, h) \in SUBSET vertices /\ depot \in Class(home, h)
           /\ \A c \in customers : c \in Class(home, h) <=> home[c] = h
           /\ Class(home, h) \ {depot} = {c \in customers : home[c] = h}
BY Numbers DEF Class

\* A customer changes its class.
LEMMA ClassMoves ==
    ASSUME NEW home, NEW S, IsHome(home, S), NEW i \in customers, NEW g \in S,
           home[i] # g
    PROVE  /\ Class(Moved(home, i, g), g) = Class(home, g) \cup {i}
           /\ Class(Moved(home, i, g), home[i]) = Class(home, home[i]) \ {i}
           /\ \A h : h # g /\ h # home[i] => Class(Moved(home, i, g), h) = Class(home, h)
<1> DEFINE new == Moved(home, i, g)
<1>1. new[i] = g /\ \A c \in customers : c # i => new[c] = home[c]
  BY DEF Moved, IsHome
<1>2. i # depot
  BY Numbers
<1> HIDE DEF new
<1> QED
  BY <1>1, <1>2 DEF Class, new

\* Its demand goes with it.
LEMMA ClassLoads ==
    ASSUME NEW home, NEW S, IsHome(home, S), NEW i \in customers, NEW g \in S,
           home[i] # g,
           NEW load, load = Loads(S, home)
    PROVE  Reloaded(load, i, home[i], g) = Loads(S, Moved(home, i, g))
<1> DEFINE new == Moved(home, i, g)
           ri == home[i]
<1>0. ri \in S /\ ri # g
  BY DEF IsHome
<1>1. i \in vertices /\ {i} \in SUBSET vertices /\ LoadOf({i}) = Demand[i] /\ i # depot
  BY Numbers, LoadOfSingle, WeightFacts
<1>a. /\ Class(new, g) = Class(home, g) \cup {i}
      /\ Class(new, ri) = Class(home, ri) \ {i}
      /\ \A h : h # g /\ h # ri => Class(new, h) = Class(home, h)
  BY ClassMoves
<1> HIDE DEF new
<1>2. LoadOf(Class(new, ri)) = LoadOf(Class(home, ri)) - Demand[i]
  <2>1. Class(new, ri) = Class(home, ri) \ {i}
    BY <1>0, <1>a
  <2>2. {i} \in SUBSET Class(home, ri)
    BY ClassFacts
  <2>3. LoadOf(Class(home, ri) \ {i}) = LoadOf(Class(home, ri)) - LoadOf({i})
    BY <2>2, ClassFacts, LoadOfSubset
  <2> QED
    BY <1>1, <2>1, <2>3
<1>3. LoadOf(Class(new, g)) = LoadOf(Class(home, g)) + Demand[i]
  <2>1. Class(new, g) = Class(home, g) \cup {i}
    BY <1>0, <1>a
  <2>2. Class(home, g) \in SUBSET vertices /\ Class(home, g) \cap {i} = {}
    BY <1>0, ClassFacts
  <2>3. LoadOf(Class(home, g) \cup {i}) = LoadOf(Class(home, g)) + LoadOf({i})
    BY <1>1, <2>2, LoadOfUnion
  <2> QED
    BY <1>1, <2>1, <2>3
<1>4. \A h : h # g /\ h # ri => Class(new, h) = Class(home, h)
  BY <1>a
<1> HIDE DEF new, ri
<1> DEFINE was(h) == LoadOf(Class(home, h))
           is(h) == LoadOf(Class(new, h))
           b == Reloaded(load, i, ri, g)
<1>5. was(ri) - Demand[i] = is(ri) /\ was(g) + Demand[i] = is(g)
      /\ \A h \in S : h # g /\ h # ri => is(h) = was(h)
  BY <1>2, <1>3, <1>4
<1>6. load = [h \in S |-> was(h)] /\ Loads(S, new) = [h \in S |-> is(h)]
  BY DEF Loads
<1> HIDE DEF was, is
<1>7. b = [h \in S |-> is(h)]
  BY <1>0, <1>5, <1>6 DEF Reloaded
<1> QED
  BY <1>6, <1>7 DEF new, ri

-----------------------------------------------------------------------------
(* The tree of relocations                                                 *)

\* Who may not be moved, nor be given a new predecessor, below a node.
Taken(ns, n) == IF n = 0 THEN {} ELSE ns[n].forbidden_j

\* g[n] is where the customers are after the moves from the root to node n.
\* Of a node: its customers are in different routes of the solution and have
\* not been touched before it, and no route but the one it goes to is
\* overloaded.
Grows(sol, ns, g, n) ==
    LET m == ns[n]
        p == m.predecessor
        i == m.move[1]
        j == m.move[2]
        home == HomeOf(sol)
    IN  /\ p \in 0..(n - 1)
        /\ m.move = <<i, j>> /\ i \in customers /\ j \in customers /\ home[i] # home[j]
        /\ i \notin Taken(ns, p) /\ j \notin Taken(ns, p)
        /\ Taken(ns, p) \cup {i, Succ(home[i], i), j} \subseteq m.forbidden_j
        /\ g[n] = Moved(g[p], i, home[j])
        /\ m.load = Loads(sol, g[n])
        /\ \A h \in sol : h # home[j] => m.load[h] <= Capacity

IsTree(sol, ns, g) ==
    /\ \E S : ns \in Seq(S)
    /\ g[0] = HomeOf(sol)
    /\ \A n \in 1..Len(ns) : Grows(sol, ns, g, n)
    /\ \A n \in 0..Len(ns) :
          /\ IsHome(g[n], sol)
          /\ \A c \in customers : c \notin Taken(ns, n) => g[n][c] = HomeOf(sol)[c]

\* The empty tree.
LEMMA TreeBegins ==
    ASSUME NEW sol, Good(sol), CustomersOf(sol) = customers
    PROVE  IsTree(sol, <<>>, [n \in {0} |-> HomeOf(sol)])
<1> DEFINE g == [n \in {0} |-> HomeOf(sol)]
<1>1. <<>> \in Seq({}) /\ Len(<<>>) = 0 /\ g[0] = HomeOf(sol)
  OBVIOUS
<1>2. IsHome(HomeOf(sol), sol)
  BY HomeFacts
<1> HIDE DEF g
<1>3. \A n \in 0..0 : n = 0
  OBVIOUS
<1>4. \A n \in 1..0 : FALSE
  OBVIOUS
<1> QED
  BY <1>1, <1>2, <1>3, <1>4 DEF IsTree, g

\* A node that may be added below another one, or as the root.
CanGrow(sol, ns, g, at, prev, i, j, d, node) ==
    /\ Good(sol) /\ CustomersOf(sol) = customers
    /\ IsTree(sol, ns, g) /\ at \in 0..Len(ns)
    /\ i \in customers /\ j \in customers /\ HomeOf(sol)[i] # HomeOf(sol)[j]
    /\ i \notin Taken(ns, at) /\ j \notin Taken(ns, at)
    /\ prev.load = Loads(sol, g[at]) /\ prev.forbidden_j = Taken(ns, at)
    /\ node = RelocationNode(sol, prev, at, <<i, j>>, d)
    /\ \A h \in sol : h # HomeOf(sol)[j] => node.load[h] <= Capacity

LEMMA TreeGrows ==
    ASSUME NEW sol, NEW ns, NEW g, NEW at, NEW prev, NEW i, NEW j, NEW d, NEW node,
           CanGrow(sol, ns, g, at, prev, i, j, d, node)
    PROVE  /\ \E f : IsTree(sol, Append(ns, node), f)
           /\ Len(Append(ns, node)) = Len(ns) + 1
           /\ Append(ns, node)[Len(ns) + 1] = node
<1> SUFFICES ASSUME Good(sol), CustomersOf(sol) = customers, IsTree(sol, ns, g),
                    at \in 0..Len(ns), i \in customers, j \in customers,
                    HomeOf(sol)[i] # HomeOf(sol)[j],
                    i \notin Taken(ns, at), j \notin Taken(ns, at),
                    prev.load = Loads(sol, g[at]), prev.forbidden_j = Taken(ns, at),
                    node = RelocationNode(sol, prev, at, <<i, j>>, d),
                    \A h \in sol : h # HomeOf(sol)[j] => node.load[h] <= Capacity
             PROVE  /\ \E f : IsTree(sol, Append(ns, node), f)
                    /\ Len(Append(ns, node)) = Len(ns) + 1
                    /\ Append(ns, node)[Len(ns) + 1] = node
  BY DEF CanGrow
<1> DEFINE home == HomeOf(sol)
           last == Len(ns) + 1
           all == Append(ns, node)
           new == Moved(g[at], i, home[j])
           f == [n \in 0..last |-> IF n = last THEN new ELSE g[n]]
<1>1. PICK S : ns \in Seq(S)
  BY DEF IsTree
<1>2. /\ Len(ns) \in Nat /\ last \in Nat /\ last \notin 0..Len(ns) /\ 0..Len(ns) \subseteq 0..last
      /\ \A n \in 0..last : (n = last \/ n \in 0..Len(ns))
      /\ \A n \in 1..last : (n = last \/ n \in 1..Len(ns))
  BY <1>1
<1>3. /\ all \in Seq(S \cup {node}) /\ Len(all) = last /\ all[last] = node
      /\ \A n \in 1..Len(ns) : all[n] = ns[n]
  BY <1>1
<1>4. f[last] = new /\ \A n \in 0..Len(ns) : f[n] = g[n]
  BY <1>2
<1> HIDE DEF all, f
<1>5. /\ IsHome(home, sol) /\ home[i] \in sol /\ home[j] \in sol
      /\ RouteOf(sol, i) = home[i] /\ RouteOf(sol, j) = home[j]
      /\ i \in ServedBy(home[i]) /\ j \in ServedBy(home[j])
  BY HomeFacts
<1>6. IsHome(g[at], sol) /\ g[at][i] = home[i] /\ g[at][j] = home[j]
  BY DEF IsTree
<1>7. IsHome(new, sol)
  BY <1>5, <1>6 DEF Moved, IsHome
<1>8. /\ node.move = <<i, j>> /\ node.predecessor = at
      /\ node.forbidden_j = Taken(ns, at) \cup {i, Succ(home[i], i), j}
      /\ node.load = Reloaded(prev.load, i, home[i], home[j])
  <2> DEFINE e == Surroundings(sol, <<i, j>>)
             mv == <<i, j>>
  <2>1. e.ri = home[i] /\ e.rj = home[j] /\ e.iNext = Succ(home[i], i)
    BY <1>5, SurroundingsOf DEF Good
  <2>2. mv[1] = i /\ mv[2] = j
    OBVIOUS
  <2> HIDE DEF e, mv
  <2>3. /\ node.move = mv /\ node.predecessor = at
        /\ node.forbidden_j = prev.forbidden_j \cup {mv[1], e.iNext, mv[2]}
        /\ node.load = Reloaded(prev.load, mv[1], e.ri, e.rj)
    BY DEF RelocationNode, Reloaded, e, mv
  <2> QED
    BY <2>1, <2>2, <2>3 DEF mv
<1>9. node.load = Loads(sol, new)
  <2> DEFINE old == g[at]
             load == prev.load
             b == home[j]
  <2>1. /\ IsHome(old, sol) /\ b \in sol /\ old[i] # b /\ old[i] = home[i]
        /\ load = Loads(sol, old)
    BY <1>5, <1>6
  <2>2. node.load = Reloaded(load, i, old[i], b)
    BY <1>6, <1>8
  <2>3. new = Moved(old, i, b)
    OBVIOUS
  <2> HIDE DEF old, load, b, new
  <2>4. Reloaded(load, i, old[i], b) = Loads(sol, Moved(old, i, b))
    BY <2>1, ClassLoads
  <2> QED
    BY <2>2, <2>3, <2>4
<1>10. \A n \in 0..Len(ns) : Taken(all, n) = Taken(ns, n)
  <2>1. \A n \in 0..Len(ns) : (n = 0 \/ n \in 1..Len(ns))
    BY <1>2
  <2> QED
    BY <1>3, <2>1 DEF Taken
<1>11. Taken(all, last) = node.forbidden_j
  BY <1>2, <1>3 DEF Taken
<1>12. ASSUME NEW n \in 1..Len(ns) PROVE Grows(sol, all, f, n)
  <2>1. Grows(sol, ns, g, n)
    BY DEF IsTree
  <2>2. all[n] = ns[n] /\ f[n] = g[n] /\ n \in 0..Len(ns)
    BY <1>2, <1>3, <1>4
  <2> DEFINE p == ns[n].predecessor
  <2>3. p \in 0..(n - 1)
    BY <2>1 DEF Grows
  <2>4. p \in 0..Len(ns)
    BY <1>2, <2>3
  <2>5. Taken(all, p) = Taken(ns, p) /\ f[p] = g[p]
    BY <1>4, <1>10, <2>4
  <2> QED
    BY <2>1, <2>2, <2>5 DEF Grows
<1>13. Grows(sol, all, f, last)
  <2>1. at \in 0..(last - 1)
    BY <1>2
  <2>2. node.move[1] = i /\ node.move[2] = j
    BY <1>8
  <2>3. Taken(all, at) = Taken(ns, at) /\ f[at] = g[at]
    BY <1>4, <1>10
  <2> HIDE DEF last
  <2>4. /\ all[last].predecessor \in 0..(last - 1)
        /\ all[last].move = <<all[last].move[1], all[last].move[2]>>
        /\ all[last].move[1] \in customers /\ all[last].move[2] \in customers
        /\ home[all[last].move[1]] # home[all[last].move[2]]
    BY <1>3, <1>8, <2>1, <2>2
  <2>5. /\ all[last].move[1] \notin Taken(all, all[last].predecessor)
        /\ all[last].move[2] \notin Taken(all, all[last].predecessor)
    BY <1>3, <1>8, <2>2, <2>3
  <2>6. Taken(all, all[last].predecessor)
             \cup {all[last].move[1], Succ(home[all[last].move[1]], all[last].move[1]),
                   all[last].move[2]}
           \subseteq all[last].forbidden_j
    BY <1>3, <1>8, <2>2, <2>3
  <2>7. f[last] = Moved(f[all[last].predecessor], all[last].move[1], home[all[last].move[2]])
    BY <1>3, <1>4, <1>8, <2>2, <2>3
  <2>8. /\ all[last].load = Loads(sol, f[last])
        /\ \A h \in sol : h # home[all[last].move[2]] => all[last].load[h] <= Capacity
    BY <1>3, <1>4, <1>9, <2>2
  <2> QED
    BY <2>4, <2>5, <2>6, <2>7, <2>8 DEF Grows
<1>14. ASSUME NEW n \in 0..last
       PROVE  /\ IsHome(f[n], sol)
              /\ \A c \in customers : c \notin Taken(all, n) => f[n][c] = home[c]
  <2>1. CASE n = last
    <3>1. \A c \in customers : c # i => new[c] = g[at][c]
      BY <1>6 DEF Moved, IsHome
    <3>2. \A c \in customers : c \notin Taken(ns, at) => g[at][c] = home[c]
      BY DEF IsTree
    <3> HIDE DEF new
    <3> QED
      BY <1>4, <1>7, <1>8, <1>11, <2>1, <3>1, <3>2
  <2>2. CASE n \in 0..Len(ns)
    BY <1>4, <1>10, <2>2 DEF IsTree
  <2> QED
    BY <1>2, <2>1, <2>2
<1>15. f[0] = home
  <2>1. 0 \in 0..Len(ns)
    BY <1>2
  <2> QED
    BY <1>4, <2>1 DEF IsTree
<1>16. \A n \in 1..Len(all) : Grows(sol, all, f, n)
  BY <1>2, <1>3, <1>12, <1>13
<1>17. IsTree(sol, all, f)
  <2> HIDE DEF new, last, home
  <2> QED
    BY <1>3, <1>14, <1>15, <1>16 DEF IsTree, home
<1> QED
  BY <1>3, <1>17 DEF all

-----------------------------------------------------------------------------
(* One move of a chain                                                     *)

\* A customer that is alone in its route.
Alone(sol, c) == ServedBy(RouteOf(sol, c)) = {c}

\* The routes are the classes of customers that belong together.
IsParted(sol, home) == \A r \in sol : \E h : ToSet(r) = Class(home, h)

LEMMA PartedIs ==
    ASSUME NEW sol, NEW home, IsParted(sol, home), NEW r \in sol
    PROVE  \A c \in ServedBy(r) : c \in customers => ToSet(r) = Class(home, home[c])
<1>1. PICK h : ToSet(r) = Class(home, h)
  BY DEF IsParted
<1>2. \A c \in ServedBy(r) : c \in customers => home[c] = h
  BY <1>1, ClassFacts DEF ServedBy
<1> QED
  BY <1>1, <1>2

\* A customer moves to another route: which routes there are then, who stays
\* before whom, and who is left alone.
CanMove(from, y, ri, rj, i, j) ==
    /\ IsWork(y.x) /\ Linked(from, y.x) /\ WellFormed(y.x.sol)
    /\ CustomersOf(y.x.sol) = customers
    /\ ri \in y.x.sol /\ rj \in y.x.sol /\ ri # rj /\ depot \in ToSet(ri)
    /\ i \in ServedBy(ri) /\ j \in ServedBy(rj)

HasMoved(from, y, z, ri, rj, i, j) ==
    /\ IsWork(z.x) /\ Linked(from, z.x) /\ WellFormed(z.x.sol)
    /\ CustomersOf(z.x.sol) = customers
    /\ y.first \cup {Succ(ri, i)} \subseteq z.first
    /\ y.second \cup {Succ(ri, i)} \subseteq z.second
    /\ \A r \in z.x.sol :
          \/ r \in y.x.sol \ {ri, rj}
          \/ ToSet(r) = ToSet(ri) \ {i}
          \/ ToSet(r) = ToSet(rj) \cup {i}
    /\ \A c \in customers :
          c # i /\ Succ(RouteOf(y.x.sol, c), c) \notin {i, j}
              => Succ(RouteOf(z.x.sol, c), c) = Succ(RouteOf(y.x.sol, c), c)
    /\ \A c \in customers :
          Alone(z.x.sol, c) => \/ Alone(y.x.sol, c)
                               \/ Succ(ri, i) = depot
                               \/ Succ(ri, i) = c

LEMMA MovesBetween ==
    ASSUME NEW from, NEW y, NEW ri, NEW rj, NEW i, NEW j, CanMove(from, y, ri, rj, i, j),
           NEW z, z = ChainStep(y, <<i, j>>)
    PROVE  HasMoved(from, y, z, ri, rj, i, j)
<1> SUFFICES ASSUME IsWork(y.x), Linked(from, y.x), WellFormed(y.x.sol),
                    CustomersOf(y.x.sol) = customers,
                    ri \in y.x.sol, rj \in y.x.sol, ri # rj, depot \in ToSet(ri),
                    i \in ServedBy(ri), j \in ServedBy(rj)
             PROVE  HasMoved(from, y, z, ri, rj, i, j)
  BY DEF CanMove
<1> DEFINE old == y.x.sol
           new == z.x.sol
           s == RemoveFrom(ri, i)
           t == InsertBefore(rj, j, i)
           mv == <<i, j>>
           e == Surroundings(old, mv)
<1>1. z.x = Relocate(y.x, mv)
  BY DEF ChainStep
<1>2. /\ IsWork(z.x) /\ Linked(from, z.x) /\ WellFormed(new)
      /\ new = (old \ {ri, rj}) \cup IfServing(s) \cup {t}
      /\ IsRoute(s) /\ ToSet(s) = ToSet(ri) \ {i}
      /\ IsRoute(t) /\ ToSet(t) = ToSet(rj) \cup {i}
      /\ CustomersOf(new) = customers
  <2> DEFINE a == y.x
  <2>1. IsWork(a) /\ Linked(from, a) /\ WellFormed(a.sol) /\ ri \in a.sol /\ rj \in a.sol
    OBVIOUS
  <2> HIDE DEF a, s, t
  <2>2. /\ IsWork(Relocate(a, mv)) /\ Linked(from, Relocate(a, mv))
        /\ WellFormed(Relocate(a, mv).sol)
        /\ Relocate(a, mv).sol = (a.sol \ {ri, rj}) \cup IfServing(s) \cup {t}
        /\ IsRoute(s) /\ ToSet(s) = ToSet(ri) \ {i}
        /\ IsRoute(t) /\ ToSet(t) = ToSet(rj) \cup {i}
        /\ CustomersOf(Relocate(a, mv).sol) = CustomersOf(a.sol)
    BY <2>1, RelocateBetween DEF s, t
  <2> QED
    BY <1>1, <2>2 DEF a
<1>3. /\ IsRoute(ri) /\ IsRoute(rj) /\ IsPath(ri) /\ IsPath(rj)
      /\ i \in ToSet(ri) /\ i \in customers /\ i # depot /\ i \in vertices
      /\ j \in ToSet(rj) /\ j # depot /\ j \in customers
  <2>1. IsRoute(ri) /\ IsRoute(rj) /\ IsPath(ri) /\ IsPath(rj)
    BY DEF WellFormed, IsRoute
  <2>2. i \in ToSet(ri) /\ i \in customers /\ i # depot /\ j \in ToSet(rj) /\ j # depot
        /\ j \in customers
    BY RouteOfIs
  <2> QED
    BY <2>1, <2>2, Numbers
<1>4. i \notin ToSet(rj)
  BY <1>3 DEF WellFormed, ServedBy
<1>5. /\ y.first \cup {Succ(ri, i)} \subseteq z.first
      /\ y.second \cup {Succ(ri, i)} \subseteq z.second
  <2>1. e.iNext = Succ(ri, i)
    BY SurroundingsOf
  <2>2. z.first = y.first \cup FirstBitsOf(e, mv) /\ z.second = y.second \cup SecondBitsOf(e, mv)
    BY DEF ChainStep
  <2> HIDE DEF e, mv
  <2> QED
    BY <2>1, <2>2 DEF FirstBitsOf, SecondBitsOf
<1> HIDE DEF s, t, e, mv
<1>6. ASSUME NEW c \in customers
      PROVE  LET r == RouteOf(old, c)
                 q == RouteOf(new, c)
             IN  /\ c \in ServedBy(r) /\ r \in old /\ c \in ToSet(r)
                 /\ \/ r \notin {ri, rj} /\ q = r
                    \/ c # i /\ r = ri /\ q = s
                    \/ c # i /\ r = rj /\ q = t
                    \/ c = i /\ q = t
  <2> DEFINE r == RouteOf(old, c)
             q == RouteOf(new, c)
  <2>1. c \in ServedBy(r) /\ r \in old /\ c \in ToSet(r)
    BY RouteOfFacts
  <2>2. c # depot
    BY Numbers
  <2> HIDE DEF r
  <2>3. CASE c = i
    <3>1. t \in new /\ c \in ServedBy(t)
      BY <1>2, <2>2, <2>3 DEF ServedBy
    <3> HIDE DEF new
    <3>2. q = t
      BY <1>2, <3>1, RouteOfIs
    <3> QED
      BY <2>1, <2>3, <3>2 DEF r
  <2>4. CASE c # i /\ r = ri
    <3>1. c \in ServedBy(s)
      BY <1>2, <2>1, <2>2, <2>4 DEF ServedBy
    <3>2. s \in new
      BY <1>2, <3>1 DEF IfServing
    <3> HIDE DEF new
    <3>3. q = s
      BY <1>2, <3>1, <3>2, RouteOfIs
    <3> QED
      BY <2>1, <2>4, <3>3 DEF r
  <2>5. CASE c # i /\ r = rj
    <3>1. t \in new /\ c \in ServedBy(t)
      BY <1>2, <2>1, <2>2, <2>5 DEF ServedBy
    <3> HIDE DEF new
    <3>2. q = t
      BY <1>2, <3>1, RouteOfIs
    <3> QED
      BY <2>1, <2>5, <3>2 DEF r
  <2>6. CASE c # i /\ r \notin {ri, rj}
    <3>1. r \in new
      BY <1>2, <2>1, <2>6
    <3> HIDE DEF new
    <3>2. q = r
      BY <1>2, <2>1, <3>1, RouteOfIs
    <3> QED
      BY <2>1, <2>6, <3>2 DEF r
  <2> QED
    BY <2>3, <2>4, <2>5, <2>6
<1>7. ASSUME NEW r \in new
      PROVE  \/ r \in old \ {ri, rj}
             \/ ToSet(r) = ToSet(ri) \ {i}
             \/ ToSet(r) = ToSet(rj) \cup {i}
  <2>1. r \in old \ {ri, rj} \/ r = s \/ r = t
    BY <1>2 DEF IfServing
  <2> QED
    BY <1>2, <2>1
<1>8. ASSUME NEW c \in customers, c # i, Succ(RouteOf(old, c), c) \notin {i, j}
      PROVE  Succ(RouteOf(new, c), c) = Succ(RouteOf(old, c), c)
  <2> DEFINE r == RouteOf(old, c)
             q == RouteOf(new, c)
  <2>1. /\ c \in ToSet(r)
        /\ \/ r \notin {ri, rj} /\ q = r
           \/ r = ri /\ q = s
           \/ r = rj /\ q = t
    BY <1>6, <1>8
  <2>2. Succ(r, c) \notin {i, j}
    BY <1>8
  <2> HIDE DEF r, q
  <2>3. CASE r = ri /\ q = s
    BY <1>3, <1>8, <2>1, <2>2, <2>3, SuccAfterRemove DEF s, r, q
  <2>4. CASE r = rj /\ q = t
    <3>1. Succ(InsertBefore(rj, j, i), c) = Succ(rj, c)
      BY <1>3, <1>4, <2>1, <2>2, <2>4, SuccAfterInsert
    <3> QED
      BY <2>4, <3>1 DEF t, r, q
  <2> QED
    BY <2>1, <2>3, <2>4 DEF r, q
<1>9. ASSUME NEW c \in customers, Alone(new, c)
      PROVE  Alone(old, c) \/ Succ(ri, i) = depot \/ Succ(ri, i) = c
  <2> DEFINE r == RouteOf(old, c)
             q == RouteOf(new, c)
  <2>1. /\ \/ r \notin {ri, rj} /\ q = r
           \/ c # i /\ r = ri /\ q = s
           \/ q = t
    BY <1>6
  <2>2. ServedBy(q) = {c}
    BY <1>9 DEF Alone
  <2> HIDE DEF r, q
  <2>3. q # t
    <3>1. i \in ServedBy(t) /\ j \in ServedBy(t) /\ i # j
      BY <1>2, <1>3, <1>4 DEF ServedBy
    <3> QED
      BY <2>2, <3>1
  <2>4. CASE r \notin {ri, rj} /\ q = r
    BY <2>2, <2>4 DEF Alone, r
  <2>5. CASE q = s
    <3>1. ToSet(ri) # {i}
      BY <1>3
    <3>2. Succ(ri, i) \in ToSet(ri) \ {i}
      BY <1>3, <3>1, RemoveFacts
    <3>3. Succ(ri, i) \in ToSet(s)
      BY <1>2, <3>2
    <3> QED
      BY <2>2, <2>5, <3>3 DEF ServedBy
  <2> QED
    BY <2>1, <2>3, <2>4, <2>5
<1> QED
  BY <1>2, <1>5, <1>7, <1>8, <1>9 DEF HasMoved

\* The classes after it.
LEMMA PartsAfter ==
    ASSUME NEW old, NEW new, NEW home, NEW S, IsHome(home, S), IsParted(old, home),
           WellFormed(old), NEW ri \in old, NEW rj \in old,
           NEW i \in ServedBy(ri), NEW j \in ServedBy(rj), home[i] # home[j],
           \A r \in new : \/ r \in old \ {ri, rj}
                          \/ ToSet(r) = ToSet(ri) \ {i}
                          \/ ToSet(r) = ToSet(rj) \cup {i}
    PROVE  ri # rj /\ IsParted(new, Moved(home, i, home[j]))
<1> DEFINE then == Moved(home, i, home[j])
<1>1. i \in customers /\ j \in customers /\ i \in ToSet(ri) /\ j \in ToSet(rj)
  BY RouteOfIs
<1>2. ToSet(ri) = Class(home, home[i]) /\ ToSet(rj) = Class(home, home[j])
  BY <1>1, PartedIs
<1>3. home[j] \in S
  BY <1>1 DEF IsHome
<1>4. /\ Class(then, home[j]) = Class(home, home[j]) \cup {i}
      /\ Class(then, home[i]) = Class(home, home[i]) \ {i}
      /\ \A h : h # home[j] /\ h # home[i] => Class(then, h) = Class(home, h)
  BY <1>1, <1>3, ClassMoves
<1> HIDE DEF then
<1>5. ri # rj
  BY <1>1, <1>2, ClassFacts
<1>6. ASSUME NEW r \in new PROVE \E h : ToSet(r) = Class(then, h)
  <2>1. CASE r \in old \ {ri, rj}
    <3>1. PICK h : ToSet(r) = Class(home, h)
      BY <2>1 DEF IsParted
    <3>2. h # home[i] /\ h # home[j]
      <4>1. ServedBy(r) \cap ServedBy(ri) = {} /\ ServedBy(r) \cap ServedBy(rj) = {}
            /\ ServedBy(r) # {}
        BY <2>1 DEF WellFormed
      <4>2. h = home[i] => ServedBy(r) = ServedBy(ri)
        BY <1>2, <3>1 DEF ServedBy
      <4>3. h = home[j] => ServedBy(r) = ServedBy(rj)
        BY <1>2, <3>1 DEF ServedBy
      <4> QED
        BY <4>1, <4>2, <4>3
    <3> QED
      BY <1>4, <3>1, <3>2
  <2> QED
    BY <1>2, <1>4, <2>1
<1> QED
  BY <1>5, <1>6 DEF IsParted, then

-----------------------------------------------------------------------------
(* A chain, from its last node to the root                                 *)

\* Where the customers are when the moves of the nodes below n have been made
\* and those from n to the root are left: a customer that one of these moves
\* is where it was, and any other where it will be.
HomeAt(g, k, n) ==
    [c \in customers |-> IF g[n][c] # g[0][c] THEN g[0][c] ELSE g[k][c]]

\* The customers i and j of node n have not been touched before it.
Untouched(S, g, k, n, p, i, j) ==
    /\ IsHome(g[0], S) /\ IsHome(g[k], S) /\ IsHome(g[p], S)
    /\ i \in customers /\ j \in customers /\ g[0][i] # g[0][j]
    /\ g[n] = Moved(g[p], i, g[0][j])
    /\ g[p][i] = g[0][i] /\ g[p][j] = g[0][j] /\ g[k][i] = g[n][i] /\ g[k][j] = g[n][j]

LEMMA HomeAtStep ==
    ASSUME NEW S, NEW g, NEW k, NEW n, NEW p, NEW i, NEW j, Untouched(S, g, k, n, p, i, j)
    PROVE  /\ IsHome(HomeAt(g, k, n), S)
           /\ HomeAt(g, k, n)[i] # HomeAt(g, k, n)[j]
           /\ HomeAt(g, k, p) = Moved(HomeAt(g, k, n), i, HomeAt(g, k, n)[j])
           /\ \A c \in customers : c # i => g[n][c] = g[p][c]
<1> USE DEF Untouched
<1> DEFINE at == HomeAt(g, k, n)
           next == HomeAt(g, k, p)
<1>1. i # j
  OBVIOUS
<1>2. g[n][i] = g[0][j] /\ \A c \in customers : c # i => g[n][c] = g[p][c]
  BY DEF Moved, IsHome
<1>3. /\ at \in [customers -> S] /\ next = [c \in customers |-> next[c]]
      /\ \A c \in customers : at[c] = IF g[n][c] # g[0][c] THEN g[0][c] ELSE g[k][c]
      /\ \A c \in customers : next[c] = IF g[p][c] # g[0][c] THEN g[0][c] ELSE g[k][c]
  BY DEF HomeAt, IsHome
<1> HIDE DEF at, next
<1>4. at[i] = g[0][i] /\ at[j] = g[0][j] /\ next[i] = g[0][j]
  BY <1>1, <1>2, <1>3
<1>5. \A c \in customers : c # i => next[c] = at[c]
  BY <1>2, <1>3
<1>6. next = Moved(at, i, at[j])
  BY <1>3, <1>4, <1>5 DEF Moved
<1> QED
  BY <1>2, <1>3, <1>4, <1>6 DEF at, next, IsHome

\* The chain of node k of a tree, between the moves of the nodes below n and
\* that of n.  What follows a customer on the list of the nodes above is still
\* there, so that the update bits of the chain have the vertex that a route
\* loses its last other customer to.
Halfway(from, sol, ns, g, k, n, y) ==
    /\ IsWork(y.x) /\ Linked(from, y.x)
    /\ WellFormed(y.x.sol) /\ CustomersOf(y.x.sol) = customers
    /\ IsParted(y.x.sol, HomeAt(g, k, n))
    /\ Taken(ns, n) \subseteq Taken(ns, k)
    /\ \A c \in customers : c \in Taken(ns, n) => g[k][c] = g[n][c]
    /\ \A c \in customers :
          c \in Taken(ns, n) /\ Succ(HomeOf(sol)[c], c) \in Taken(ns, n)
              => Succ(RouteOf(y.x.sol, c), c) = Succ(HomeOf(sol)[c], c)
    /\ \A c \in customers :
          Alone(y.x.sol, c) => \/ Alone(sol, c)
                               \/ depot \in y.second
                               \/ c \in y.first \cap Taken(ns, k)

\* A tree of the present solution, and a node of it.
IsChain(sol, ns, g, k) ==
    /\ Good(sol) /\ CustomersOf(sol) = customers
    /\ IsTree(sol, ns, g) /\ k \in 0..Len(ns)

LEMMA HalfwayStarts ==
    ASSUME NEW from, NEW sol, NEW ns, NEW g, NEW k, IsChain(sol, ns, g, k),
           NEW y, IsWork(y.x), Linked(from, y.x), y.x.sol = sol
    PROVE  Halfway(from, sol, ns, g, k, k, y)
<1> DEFINE home == HomeOf(sol)
<1>1. g[0] = home /\ IsHome(home, sol) /\ IsHome(g[k], sol)
  BY HomeFacts DEF IsChain, IsTree
<1>2. HomeAt(g, k, k) = home
  <2>1. \A c \in customers : (IF g[k][c] # g[0][c] THEN g[0][c] ELSE g[k][c]) = g[0][c]
    OBVIOUS
  <2>2. HomeAt(g, k, k) = [c \in customers |-> g[0][c]]
    BY <2>1 DEF HomeAt
  <2> HIDE DEF home
  <2> QED
    BY <1>1, <2>2 DEF IsHome
<1>3. IsParted(sol, home)
  BY HomeFacts DEF IsChain, IsParted
<1>4. \A c \in customers : home[c] = RouteOf(sol, c)
  BY DEF HomeOf
<1>5. WellFormed(sol) /\ CustomersOf(sol) = customers
  BY DEF IsChain, Good
<1> HIDE DEF home
<1> QED
  BY <1>2, <1>3, <1>4, <1>5 DEF Halfway, home

\* The move of node n.
LEMMA HalfwayStep ==
    ASSUME NEW from, NEW sol, NEW ns, NEW g, NEW k, IsChain(sol, ns, g, k),
           NEW n \in 1..Len(ns), NEW y, Halfway(from, sol, ns, g, k, n, y)
    PROVE  Halfway(from, sol, ns, g, k, ns[n].predecessor, ChainStep(y, ns[n].move))
<1> DEFINE p == ns[n].predecessor
           i == ns[n].move[1]
           j == ns[n].move[2]
           home == HomeOf(sol)
           old == y.x.sol
           z == ChainStep(y, <<i, j>>)
           new == z.x.sol
           ri == RouteOf(old, i)
           rj == RouteOf(old, j)
           at == HomeAt(g, k, n)
           then == HomeAt(g, k, p)
<1>1. /\ p \in 0..Len(ns) /\ ns[n].move = <<i, j>>
      /\ i \in customers /\ j \in customers /\ home[i] # home[j]
      /\ i \notin Taken(ns, p) /\ j \notin Taken(ns, p)
      /\ Taken(ns, p) \cup {i, Succ(home[i], i), j} \subseteq Taken(ns, n)
      /\ g[n] = Moved(g[p], i, home[j])
  <2>1. Grows(sol, ns, g, n) /\ Len(ns) \in Nat
    BY DEF IsChain, IsTree
  <2>2. p \in 0..(n - 1) => p \in 0..Len(ns)
    BY <2>1
  <2>3. Taken(ns, n) = ns[n].forbidden_j
    BY DEF Taken
  <2> QED
    BY <2>1, <2>2, <2>3 DEF Grows
<1>2. /\ IsHome(g[0], sol) /\ IsHome(g[k], sol) /\ IsHome(g[p], sol) /\ g[0] = home
      /\ \A c \in customers : c \notin Taken(ns, p) => g[p][c] = home[c]
  <2>1. 0 \in 0..Len(ns)
    BY DEF IsChain, IsTree
  <2> QED
    BY <1>1, <2>1 DEF IsChain, IsTree
<1>3. /\ IsWork(y.x) /\ Linked(from, y.x)
      /\ WellFormed(old) /\ CustomersOf(old) = customers
      /\ IsParted(old, at)
      /\ Taken(ns, n) \subseteq Taken(ns, k)
      /\ \A c \in customers : c \in Taken(ns, n) => g[k][c] = g[n][c]
      /\ \A c \in customers :
            c \in Taken(ns, n) /\ Succ(home[c], c) \in Taken(ns, n)
                => Succ(RouteOf(old, c), c) = Succ(home[c], c)
      /\ \A c \in customers :
            Alone(old, c) => \/ Alone(sol, c)
                             \/ depot \in y.second
                             \/ c \in y.first \cap Taken(ns, k)
  BY DEF Halfway
<1> HIDE DEF p, i, j, home, z, at, then, ri, rj
<1>4. /\ IsHome(at, sol) /\ at[i] # at[j] /\ then = Moved(at, i, at[j])
      /\ \A c \in customers : c # i => g[n][c] = g[p][c]
  <2>1. Untouched(sol, g, k, n, p, i, j)
    BY <1>1, <1>2, <1>3 DEF Untouched
  <2>2. /\ IsHome(HomeAt(g, k, n), sol)
        /\ HomeAt(g, k, n)[i] # HomeAt(g, k, n)[j]
        /\ HomeAt(g, k, p) = Moved(HomeAt(g, k, n), i, HomeAt(g, k, n)[j])
        /\ \A c \in customers : c # i => g[n][c] = g[p][c]
    BY <2>1, HomeAtStep
  <2> QED
    BY <2>2 DEF at, then
<1>5. ri \in old /\ rj \in old /\ i \in ServedBy(ri) /\ j \in ServedBy(rj)
  BY <1>1, <1>3, RouteOfFacts DEF ri, rj
<1>6. ri # rj /\ depot \in ToSet(ri)
  <2>1. \A c \in ServedBy(ri) : c \in customers => ToSet(ri) = Class(at, at[c])
    BY <1>3, <1>5, PartedIs
  <2>2. \A c \in ServedBy(rj) : c \in customers => ToSet(rj) = Class(at, at[c])
    BY <1>3, <1>5, PartedIs
  <2>3. ToSet(ri) = Class(at, at[i]) /\ ToSet(rj) = Class(at, at[j])
    BY <1>1, <1>5, <2>1, <2>2
  <2>4. depot \in Class(at, at[i])
    BY ClassFacts
  <2>5. i \in Class(at, at[i]) /\ i \notin Class(at, at[j])
    BY <1>1, <1>4, ClassFacts
  <2> QED
    BY <2>3, <2>4, <2>5
<1>7. /\ IsWork(z.x) /\ Linked(from, z.x) /\ WellFormed(new)
      /\ CustomersOf(new) = customers
      /\ y.first \cup {Succ(ri, i)} \subseteq z.first
      /\ y.second \cup {Succ(ri, i)} \subseteq z.second
      /\ \A r \in new :
            \/ r \in old \ {ri, rj}
            \/ ToSet(r) = ToSet(ri) \ {i}
            \/ ToSet(r) = ToSet(rj) \cup {i}
      /\ \A c \in customers :
            c # i /\ Succ(RouteOf(old, c), c) \notin {i, j}
                => Succ(RouteOf(new, c), c) = Succ(RouteOf(old, c), c)
      /\ \A c \in customers :
            Alone(new, c) => \/ Alone(old, c)
                             \/ Succ(ri, i) = depot
                             \/ Succ(ri, i) = c
  <2>1. z = ChainStep(y, <<i, j>>)
    BY DEF z
  <2>2. CanMove(from, y, ri, rj, i, j)
    BY <1>3, <1>5, <1>6 DEF CanMove
  <2>3. HasMoved(from, y, z, ri, rj, i, j)
    BY <2>1, <2>2, MovesBetween
  <2> QED
    BY <2>3 DEF HasMoved
<1>8. IsParted(new, then)
  <2> HIDE DEF old, new
  <2>0. /\ IsHome(at, sol) /\ IsParted(old, at) /\ WellFormed(old)
        /\ ri \in old /\ rj \in old /\ i \in ServedBy(ri) /\ j \in ServedBy(rj)
        /\ at[i] # at[j]
        /\ \A r \in new : \/ r \in old \ {ri, rj}
                          \/ ToSet(r) = ToSet(ri) \ {i}
                          \/ ToSet(r) = ToSet(rj) \cup {i}
    BY <1>3, <1>4, <1>5, <1>7
  <2>1. IsParted(new, Moved(at, i, at[j]))
    BY <2>0, PartsAfter
  <2> QED
    BY <1>4, <2>1
<1>9. Taken(ns, p) \subseteq Taken(ns, k)
  BY <1>1, <1>3
<1>10. ASSUME NEW c \in customers, c \in Taken(ns, p) PROVE g[k][c] = g[p][c]
  BY <1>1, <1>3, <1>4, <1>10
<1>11. ASSUME NEW c \in customers, c \in Taken(ns, p), Succ(home[c], c) \in Taken(ns, p)
       PROVE  Succ(RouteOf(new, c), c) = Succ(home[c], c)
  <2>1. Succ(RouteOf(old, c), c) = Succ(home[c], c)
    BY <1>1, <1>3, <1>11
  <2>2. c # i /\ Succ(home[c], c) \notin {i, j}
    BY <1>1, <1>11
  <2> QED
    BY <1>7, <2>1, <2>2
<1>12. Succ(ri, i) = Succ(home[i], i) /\ Succ(ri, i) \in Taken(ns, k)
  <2>1. i \in Taken(ns, n) /\ Succ(home[i], i) \in Taken(ns, n)
    BY <1>1
  <2>2. Succ(RouteOf(old, i), i) = Succ(home[i], i)
    BY <1>1, <1>3, <2>1
  <2> QED
    BY <1>3, <2>1, <2>2 DEF ri
<1>13. ASSUME NEW c \in customers, Alone(new, c)
       PROVE  Alone(sol, c) \/ depot \in z.second \/ c \in z.first \cap Taken(ns, k)
  <2>1. CASE Alone(old, c)
    <3>1. y.first \subseteq z.first /\ y.second \subseteq z.second
      BY <1>7
    <3> QED
      BY <1>3, <2>1, <3>1
  <2>2. CASE Succ(ri, i) = depot
    BY <1>7, <2>2
  <2>3. CASE Succ(ri, i) = c
    BY <1>7, <1>12, <2>3
  <2> QED
    BY <1>7, <1>13, <2>1, <2>2, <2>3
<1>14. Halfway(from, sol, ns, g, k, p, z)
  BY <1>7, <1>8, <1>9, <1>10, <1>11, <1>13 DEF Halfway, then, home
<1> QED
  BY <1>1, <1>14 DEF p, z

-----------------------------------------------------------------------------
(* The moves of a chain                                                    *)

\* Each node comes after its predecessor.
IsLinkedBack(ns, S) ==
    /\ ns \in Seq(S)
    /\ \A n \in 1..Len(ns) : ns[n].predecessor \in 0..(n - 1)

\* What ChainOf defines, for the nodes up to m.
IsBack(back, ns, m) ==
    back = [n \in 0..m |-> IF n = 0 THEN <<>>
                           ELSE <<ns[n].move>> \o back[ns[n].predecessor]]

LEMMA BackExists ==
    ASSUME NEW S, NEW ns, IsLinkedBack(ns, S)
    PROVE  \E back : IsBack(back, ns, Len(ns))
<1> DEFINE P == {m \in Nat : m <= Len(ns) => \E back : IsBack(back, ns, m)}
<1>1. 0 \in P
  <2> DEFINE back == [n \in {0} |-> <<>>]
  <2>1. 0..0 = {0}
    OBVIOUS
  <2>2. back = [n \in 0..0 |-> IF n = 0 THEN <<>> ELSE <<ns[n].move>> \o back[ns[n].predecessor]]
    BY <2>1
  <2> QED
    BY <2>2 DEF IsBack
<1>2. ASSUME NEW m \in Nat, m \in P PROVE m + 1 \in P
  <2> SUFFICES ASSUME m + 1 <= Len(ns) PROVE \E back : IsBack(back, ns, m + 1)
    OBVIOUS
  <2>1. Len(ns) \in Nat
    BY DEF IsLinkedBack
  <2>2. PICK b : IsBack(b, ns, m)
    BY <1>2, <2>1
  <2> DEFINE entry(h, n) == IF n = 0 THEN <<>> ELSE <<ns[n].move>> \o h[ns[n].predecessor]
             c == [n \in 0..(m + 1) |-> IF n = m + 1 THEN entry(b, n) ELSE b[n]]
  <2>3. b = [n \in 0..m |-> entry(b, n)]
    BY <2>2 DEF IsBack
  <2>4. \A n \in 0..(m + 1) : n = m + 1 \/ n \in 0..m
    OBVIOUS
  <2>5. \A n \in 0..m : n # m + 1 /\ n \in 0..(m + 1)
    OBVIOUS
  <2>6. \A n \in 0..m : c[n] = b[n]
    BY <2>5
  <2>7. ASSUME NEW n \in 0..(m + 1) PROVE entry(c, n) = entry(b, n)
    <3>1. CASE n = 0
      BY <3>1
    <3>2. CASE n # 0
      <4>1. n \in 1..Len(ns)
        BY <2>1, <3>2
      <4>2. ns[n].predecessor \in 0..(n - 1)
        BY <4>1 DEF IsLinkedBack
      <4>3. ns[n].predecessor \in 0..m
        BY <4>2
      <4> HIDE DEF c
      <4> QED
        BY <2>6, <4>3
    <3> QED
      BY <3>1, <3>2
  <2>8. ASSUME NEW n \in 0..(m + 1) PROVE c[n] = entry(b, n)
    <3>1. CASE n = m + 1
      BY <3>1
    <3>2. CASE n \in 0..m
      <4>1. b[n] = entry(b, n)
        BY <2>3, <3>2
      <4> QED
        BY <2>6, <3>2, <4>1
    <3> QED
      BY <2>4, <3>1, <3>2
  <2>9. c = [n \in 0..(m + 1) |-> c[n]]
    OBVIOUS
  <2> HIDE DEF c, entry
  <2>10. c = [n \in 0..(m + 1) |-> entry(c, n)]
    BY <2>7, <2>8, <2>9
  <2>11. IsBack(c, ns, m + 1)
    BY <2>10 DEF IsBack, entry
  <2> QED
    BY <2>11
<1> HIDE DEF P
<1>3. \A m \in Nat : m \in P
  BY <1>1, <1>2, Chaining!Induction
<1>4. Len(ns) \in Nat
  BY DEF IsLinkedBack
<1> QED
  BY <1>3, <1>4 DEF P

LEMMA ChainOfIs ==
    ASSUME NEW S, NEW ns, IsLinkedBack(ns, S)
    PROVE  /\ ChainOf(ns, 0) = <<>>
           /\ \A n \in 1..Len(ns) :
                 ChainOf(ns, n) = <<ns[n].move>> \o ChainOf(ns, ns[n].predecessor)
<1> DEFINE back == CHOOSE back : IsBack(back, ns, Len(ns))
<1>1. IsBack(back, ns, Len(ns))
  BY BackExists
<1>2. \A n : ChainOf(ns, n) = back[n]
  BY DEF ChainOf, IsBack
<1> HIDE DEF back
<1>3. Len(ns) \in Nat /\ 0 \in 0..Len(ns)
  BY DEF IsLinkedBack
<1>4. back[0] = <<>>
  BY <1>1, <1>3 DEF IsBack
<1>5. ASSUME NEW n \in 1..Len(ns) PROVE back[n] = <<ns[n].move>> \o back[ns[n].predecessor]
  <2>1. n \in 0..Len(ns) /\ n # 0
    BY <1>3
  <2> QED
    BY <1>1, <2>1 DEF IsBack
<1> QED
  BY <1>2, <1>4, <1>5

LEMMA ChainIsSequence ==
    ASSUME NEW S, NEW ns, IsLinkedBack(ns, S), NEW n \in 0..Len(ns)
    PROVE  ChainOf(ns, n) \in Seq({ns[m].move : m \in 1..Len(ns)})
<1> DEFINE M == {ns[m].move : m \in 1..Len(ns)}
           P == {b \in Nat : \A m \in 0..b : m <= Len(ns) => ChainOf(ns, m) \in Seq(M)}
<1>1. 0 \in P
  <2>1. ChainOf(ns, 0) = <<>>
    BY ChainOfIs
  <2>2. <<>> \in Seq(M)
    OBVIOUS
  <2>3. \A m \in 0..0 : m = 0
    OBVIOUS
  <2> HIDE DEF M
  <2> QED
    BY <2>1, <2>2, <2>3
<1>2. ASSUME NEW b \in Nat, b \in P PROVE b + 1 \in P
  <2> SUFFICES ASSUME NEW m \in 0..(b + 1), m <= Len(ns) PROVE ChainOf(ns, m) \in Seq(M)
    OBVIOUS
  <2>0. Len(ns) \in Nat
    BY DEF IsLinkedBack
  <2>1. CASE m \in 0..b
    BY <1>2, <2>1
  <2>2. CASE m \notin 0..b
    <3> DEFINE p == ns[m].predecessor
    <3>1. m \in 1..Len(ns) /\ m = b + 1
      BY <2>0, <2>2
    <3>2. p \in 0..(m - 1)
      BY <3>1 DEF IsLinkedBack
    <3>3. p \in 0..b /\ p <= Len(ns)
      BY <2>0, <3>1, <3>2
    <3>4. ChainOf(ns, p) \in Seq(M)
      BY <1>2, <3>3
    <3>5. ns[m].move \in M
      BY <3>1
    <3>6. ChainOf(ns, m) = <<ns[m].move>> \o ChainOf(ns, p)
      BY <3>1, ChainOfIs
    <3> HIDE DEF M, p
    <3>7. <<ns[m].move>> \in Seq(M)
      BY <3>5
    <3> QED
      BY <3>4, <3>6, <3>7
  <2> QED
    BY <2>1, <2>2
<1> HIDE DEF P
<1>3. \A b \in Nat : b \in P
  BY <1>1, <1>2, Chaining!Induction
<1>4. n \in Nat /\ n \in 0..n /\ n <= Len(ns)
  BY DEF IsLinkedBack
<1> QED
  BY <1>3, <1>4 DEF P

\* What a chain makes of a solution and its lists.
Executed(y, ns, k) == FoldLeft(ChainStep, y, ChainOf(ns, k))

\* The step of a node comes first, then those of its predecessors.
ExecutedByNode(ns) ==
    \A y : /\ Executed(y, ns, 0) = y
           /\ \A n \in 1..Len(ns) :
                 Executed(y, ns, n) = Executed(ChainStep(y, ns[n].move), ns, ns[n].predecessor)

LEMMA ExecutedIs ==
    ASSUME NEW S, NEW ns, IsLinkedBack(ns, S)
    PROVE  ExecutedByNode(ns)
<1> SUFFICES ASSUME NEW y
             PROVE  /\ Executed(y, ns, 0) = y
                    /\ \A n \in 1..Len(ns) :
                          Executed(y, ns, n)
                              = Executed(ChainStep(y, ns[n].move), ns, ns[n].predecessor)
  BY DEF ExecutedByNode
<1>1. \A z, n : Executed(z, ns, n) = Chaining!Folded(z, ChainOf(ns, n))
  BY DEF Executed, FoldLeft, MapThenFoldSet, Max, Chaining!Folded, Chaining!FoldLeft,
         Chaining!MapThenFoldSet, Chaining!Max
<1>2. Executed(y, ns, 0) = y
  BY <1>1, ChainOfIs, Chaining!FoldShort
<1>3. ASSUME NEW n \in 1..Len(ns)
      PROVE  Executed(y, ns, n) = Executed(ChainStep(y, ns[n].move), ns, ns[n].predecessor)
  <2> DEFINE M == {ns[m].move : m \in 1..Len(ns)}
             p == ns[n].predecessor
             rest == ChainOf(ns, p)
             one == <<ns[n].move>>
  <2>1. p \in 0..(n - 1) /\ Len(ns) \in Nat
    BY DEF IsLinkedBack
  <2>2. p \in 0..Len(ns)
    BY <2>1
  <2>3. rest \in Seq(M)
    BY <2>2, ChainIsSequence
  <2>4. one \in Seq(M)
    OBVIOUS
  <2>5. ChainOf(ns, n) = one \o rest
    BY ChainOfIs
  <2>6. Chaining!Folded(y, one) = ChainStep(y, ns[n].move)
    BY Chaining!FoldShort
  <2> HIDE DEF M, p, rest, one
  <2>7. Chaining!Folded(y, one \o rest) = Chaining!Folded(Chaining!Folded(y, one), rest)
    BY <2>3, <2>4, Chaining!FoldConcat
  <2>8. Executed(ChainStep(y, ns[n].move), ns, p)
            = Chaining!Folded(ChainStep(y, ns[n].move), rest)
    BY <1>1 DEF rest
  <2> QED
    BY <1>1, <2>5, <2>6, <2>7, <2>8 DEF p
<1> QED
  BY <1>2, <1>3

\* From the last node to the root.
LEMMA HalfwayEnds ==
    ASSUME NEW from, NEW sol, NEW ns, NEW g, NEW k, IsChain(sol, ns, g, k),
           NEW y, Halfway(from, sol, ns, g, k, k, y)
    PROVE  Halfway(from, sol, ns, g, k, 0, Executed(y, ns, k))
<1> DEFINE good(n, z) == Halfway(from, sol, ns, g, k, n, z)
           P == {b \in Nat : \A m \in 0..b : m <= Len(ns) =>
                                \A z : good(m, z) => good(0, Executed(z, ns, m))}
<1>0. PICK S : ns \in Seq(S)
  BY DEF IsChain, IsTree
<1>1. IsLinkedBack(ns, S) /\ Len(ns) \in Nat
  BY <1>0 DEF IsLinkedBack, IsChain, IsTree, Grows
<1>x. ExecutedByNode(ns)
  BY <1>1, ExecutedIs
<1>2. 0 \in P
  <2>1. \A z : Executed(z, ns, 0) = z
    BY <1>x DEF ExecutedByNode
  <2> QED
    BY <2>1
<1>3. ASSUME NEW b \in Nat, b \in P PROVE b + 1 \in P
  <2> HIDE DEF good
  <2> SUFFICES ASSUME NEW m \in 0..(b + 1), m <= Len(ns), NEW z, good(m, z)
               PROVE  good(0, Executed(z, ns, m))
    OBVIOUS
  <2>1. CASE m \in 0..b
    BY <1>3, <2>1
  <2>2. CASE m \notin 0..b
    <3> DEFINE p == ns[m].predecessor
               w == ChainStep(z, ns[m].move)
    <3>1. m \in 1..Len(ns) /\ m = b + 1
      BY <1>1, <2>2
    <3>2. p \in 0..(m - 1)
      BY <1>1, <3>1 DEF IsLinkedBack
    <3>3. p \in 0..b /\ p <= Len(ns)
      BY <1>1, <3>1, <3>2
    <3>4. good(p, w)
      BY <3>1, HalfwayStep DEF good
    <3>5. Executed(z, ns, m) = Executed(w, ns, p)
      <4>1. \A n \in 1..Len(ns) :
                Executed(z, ns, n) = Executed(ChainStep(z, ns[n].move), ns, ns[n].predecessor)
        BY <1>x DEF ExecutedByNode
      <4> QED
        BY <3>1, <4>1
    <3> HIDE DEF p, w
    <3> QED
      BY <1>3, <3>3, <3>4, <3>5
  <2> QED
    BY <2>1, <2>2
<1>4. k \in Nat /\ k \in 0..k /\ k <= Len(ns)
  BY <1>1 DEF IsChain
<1> HIDE DEF P
<1>5. \A b \in Nat : b \in P
  BY <1>2, <1>3, Chaining!Induction
<1>6. k \in P
  BY <1>4, <1>5
<1> QED
  BY <1>4, <1>6 DEF P

-----------------------------------------------------------------------------
(* The execution of a chain                                                *)

\* A chain leaves a good solution.  A customer that is alone in its route then
\* was so before, or its deltas are renewed.
Sane(from, sol, z, affected) ==
    /\ IsWork(z.x) /\ Linked(from, z.x)
    /\ Good(z.x.sol) /\ CustomersOf(z.x.sol) = customers
    /\ \A c \in customers :
          Alone(z.x.sol, c) => \/ Alone(sol, c)
                               \/ depot \in z.second
                               \/ c \in z.first \cap affected

\* The state that a chain is executed from.
Fresh(y) == [x |-> y, first |-> {depot}, second |-> {}]

\* A chain whose last node overloads no route.
LEMMA ChainIsSane ==
    ASSUME NEW from, NEW y, IsWork(y), Linked(from, y),
           NEW ns, NEW g, NEW k, IsChain(y.sol, ns, g, k), k # 0,
           \A h \in y.sol : ns[k].load[h] <= Capacity
    PROVE  Sane(from, y.sol, Executed(Fresh(y), ns, k), Taken(ns, k))
<1> DEFINE sol == y.sol
           z == Executed(Fresh(y), ns, k)
           new == z.x.sol
           there == g[k]
<1>1. Halfway(from, sol, ns, g, k, k, Fresh(y))
  <2>1. Fresh(y).x = y
    BY DEF Fresh
  <2> QED
    BY <2>1, HalfwayStarts
<1>2. Halfway(from, sol, ns, g, k, 0, z)
  BY <1>1, HalfwayEnds
<1>3. /\ IsTree(sol, ns, g) /\ k \in 1..Len(ns) /\ Len(ns) \in Nat
      /\ Grows(sol, ns, g, k) /\ IsHome(there, sol)
  BY DEF IsChain, IsTree
<1>4. ns[k].load = Loads(sol, there)
  BY <1>3 DEF Grows
<1> HIDE DEF z
<1>5. /\ IsWork(z.x) /\ Linked(from, z.x)
      /\ WellFormed(new) /\ CustomersOf(new) = customers
      /\ IsParted(new, HomeAt(g, k, 0))
      /\ \A c \in customers :
            Alone(new, c) => \/ Alone(sol, c)
                             \/ depot \in z.second
                             \/ c \in z.first \cap Taken(ns, k)
  BY <1>2 DEF Halfway
<1>6. HomeAt(g, k, 0) = there
  <2>1. HomeAt(g, k, 0) = [c \in customers |-> there[c]]
    BY DEF HomeAt
  <2> HIDE DEF there
  <2> QED
    BY <1>3, <2>1 DEF IsHome
<1>7. ASSUME NEW r \in new PROVE depot \in ToSet(r) /\ Load(r) <= Capacity
  <2>1. IsPath(r) /\ ServedBy(r) # {}
    BY <1>5 DEF WellFormed, IsRoute
  <2>2. PICK c \in ServedBy(r) : TRUE
    BY <2>1
  <2>3. c \in customers
    BY <1>5, <2>2, RouteOfIs
  <2>4. \A d \in ServedBy(r) : d \in customers => ToSet(r) = Class(there, there[d])
    BY <1>5, <1>6, PartedIs
  <2> DEFINE h == there[c]
  <2>5. h \in sol
    BY <1>3, <2>3 DEF IsHome
  <2>6. ToSet(r) = Class(there, h)
    BY <2>2, <2>3, <2>4
  <2> HIDE DEF h
  <2>7. depot \in ToSet(r)
    BY <2>6, ClassFacts
  <2>8. Load(r) = LoadOf(Class(there, h))
    BY <2>1, <2>6, PathLoad
  <2>9. Loads(sol, there)[h] = LoadOf(Class(there, h))
    BY <2>5 DEF Loads
  <2> QED
    BY <1>4, <2>5, <2>7, <2>8, <2>9
<1>8. Good(new)
  BY <1>5, <1>7 DEF Good
<1> QED
  BY <1>5, <1>8 DEF Sane, z

\* A customer that is alone in its route already is before the depot: there is
\* nothing to gain by moving it there, and no such move is tried, which would
\* take away the route that it goes to.
SinglesIdle(sol, d) == \A c \in customers : Alone(sol, c) => d[<<c, depot>>] = {}

LEMMA IdleCost ==
    ASSUME NEW sol, Good(sol), CustomersOf(sol) = customers,
           NEW c \in customers, Alone(sol, c)
    PROVE  RelocationCost(sol, <<c, depot>>) = {}
<1> DEFINE r == RouteOf(sol, c)
<1>1. r \in sol /\ c \in ToSet(r) /\ ServedBy(r) = {c} /\ c # depot
  BY RouteOfFacts, Numbers DEF Alone, Good
<1>2. IsRoute(r) /\ ToSet(r) = {depot, c}
  BY <1>1 DEF Good, WellFormed, ServedBy
<1>3. RouteVia(sol, c, depot) = r
  BY <1>1 DEF RouteVia
<1> HIDE DEF r
<1>4. ToSet(r) # {c}
  BY <1>1, <1>2
<1>5. Succ(r, c) \in ToSet(r) \ {c}
  BY <1>1, <1>2, <1>4, RemoveFacts
<1>6. Succ(r, c) = depot
  BY <1>2, <1>5
<1> QED
  BY <1>3, <1>6 DEF RelocationCost

LEMMA IdleMove == \A c \in customers : <<c, depot>> \in AllMoves
BY Numbers DEF AllMoves, Moves, IsSymmetric, OneZeroExchange, Plain

\* The deltas after a chain.
Renewed(d, z, affected) ==
    [m \in AllMoves |->
        IF m[1] \in affected \cap z.first \/ m[2] \in affected \cap z.second
        THEN RelocationCost(z.x.sol, m) ELSE d[m]]

LEMMA IdleAfter ==
    ASSUME NEW from, NEW sol, NEW z, NEW affected, Sane(from, sol, z, affected),
           depot \in affected, NEW d, SinglesIdle(sol, d)
    PROVE  SinglesIdle(z.x.sol, Renewed(d, z, affected))
<1> SUFFICES ASSUME NEW c \in customers, Alone(z.x.sol, c)
             PROVE  Renewed(d, z, affected)[<<c, depot>>] = {}
  BY DEF SinglesIdle
<1> DEFINE mv == <<c, depot>>
<1>1. Good(z.x.sol) /\ CustomersOf(z.x.sol) = customers
  BY DEF Sane
<1>2. RelocationCost(z.x.sol, mv) = {}
  BY <1>1, IdleCost
<1>3. mv \in AllMoves /\ mv[1] = c /\ mv[2] = depot
  BY IdleMove
<1>4. Alone(sol, c) \/ depot \in z.second \/ c \in z.first \cap affected
  BY DEF Sane
<1>5. Alone(sol, c) => d[mv] = {}
  BY DEF SinglesIdle
<1> HIDE DEF mv
<1> QED
  BY <1>2, <1>3, <1>4, <1>5 DEF Renewed, mv

\* A bigger set of vertices with deltas to renew.
LEMMA SaneMore ==
    ASSUME NEW from, NEW sol, NEW z, NEW less, NEW more, less \subseteq more,
           Sane(from, sol, z, less)
    PROVE  Sane(from, sol, z, more)
BY DEF Sane

LEMMA ExecutionIs ==
    ASSUME NEW ns, NEW k, ExecuteChain(ns, k)
    PROVE  LET z == Executed(Fresh(x), ns, k)
           IN  /\ x' = z.x
               /\ delta' = Renewed(delta, z, ns[k].forbidden_i \cup ns[k].forbidden_j \cup {depot})
BY DEF ExecuteChain, Executed, Fresh, Renewed

-----------------------------------------------------------------------------
(* A move that is feasible by itself                                       *)

\* Between two routes.
LEMMA BetweenIsSane ==
    ASSUME NEW from, NEW y, IsWork(y), Linked(from, y), Good(y.sol),
           CustomersOf(y.sol) = customers,
           NEW i \in customers, NEW j \in customers,
           RouteOf(y.sol, i) # RouteOf(y.sol, j),
           Load(RouteOf(y.sol, j)) + Demand[i] <= Capacity,
           NEW affected, Succ(RouteOf(y.sol, i), i) \in affected
    PROVE  Sane(from, y.sol, ChainStep(Fresh(y), <<i, j>>), affected)
<1> DEFINE sol == y.sol
           b == Fresh(y)
           z == ChainStep(b, <<i, j>>)
           new == z.x.sol
           ri == RouteOf(sol, i)
           rj == RouteOf(sol, j)
<1>1. /\ ri \in sol /\ rj \in sol /\ i \in ServedBy(ri) /\ j \in ServedBy(rj)
      /\ depot \in ToSet(ri) /\ depot \in ToSet(rj) /\ WellFormed(sol)
      /\ \A r \in sol : depot \in ToSet(r) /\ Load(r) <= Capacity
      /\ i \in vertices /\ i # depot
  BY RouteOfFacts, Numbers DEF Good
<1>2. b.x = y
  BY DEF Fresh
<1> HIDE DEF b, ri, rj
<1>3. CanMove(from, b, ri, rj, i, j)
  <2>1. ri # rj
    BY DEF ri, rj
  <2> QED
    BY <1>1, <1>2, <2>1 DEF CanMove
<1>4. HasMoved(from, b, z, ri, rj, i, j)
  BY <1>3, MovesBetween
<1> HIDE DEF z
<1>5. /\ IsWork(z.x) /\ Linked(from, z.x) /\ WellFormed(new) /\ CustomersOf(new) = customers
      /\ Succ(ri, i) \in z.first /\ Succ(ri, i) \in z.second
      /\ \A r \in new :
            \/ r \in sol \ {ri, rj}
            \/ ToSet(r) = ToSet(ri) \ {i}
            \/ ToSet(r) = ToSet(rj) \cup {i}
      /\ \A c \in customers :
            Alone(new, c) => \/ Alone(sol, c)
                             \/ Succ(ri, i) = depot
                             \/ Succ(ri, i) = c
  BY <1>2, <1>4 DEF HasMoved
<1>6. ASSUME NEW r \in new PROVE depot \in ToSet(r) /\ Load(r) <= Capacity
  <2>1. IsPath(r) /\ IsPath(ri) /\ IsPath(rj) /\ r \in new
    BY <1>1, <1>5 DEF WellFormed, IsRoute
  <2>2. CASE r \in sol \ {ri, rj}
    BY <1>1, <2>2
  <2>3. CASE ToSet(r) = ToSet(ri) \ {i}
    <3>1. /\ ToSet(ri) \in SUBSET vertices /\ {i} \in SUBSET ToSet(ri)
      BY <1>1, <2>1, PathSet DEF ServedBy
    <3>2. LoadOf(ToSet(ri) \ {i}) = LoadOf(ToSet(ri)) - LoadOf({i})
      BY <3>1, LoadOfSubset
    <3>3. Load(r) = LoadOf(ToSet(r)) /\ Load(ri) = LoadOf(ToSet(ri)) /\ Load(r) \in Nat
          /\ Load(ri) \in Nat
      BY <2>1, PathLoad
    <3>4. LoadOf({i}) = Demand[i] /\ Demand[i] \in Nat
      BY <1>1, LoadOfSingle, WeightFacts, RoutesAssumption DEF customers
    <3>5. Load(ri) <= Capacity /\ Capacity \in Nat
      BY <1>1, RoutesAssumption
    <3> QED
      BY <1>1, <2>3, <3>2, <3>3, <3>4, <3>5
  <2>4. CASE ToSet(r) = ToSet(rj) \cup {i}
    <3>1. /\ ToSet(rj) \in SUBSET vertices /\ {i} \in SUBSET vertices
          /\ ToSet(rj) \cap {i} = {}
      <4>1. i \notin ServedBy(rj)
        BY <1>1, <1>3 DEF WellFormed, CanMove
      <4> QED
        BY <1>1, <2>1, <4>1, PathSet DEF ServedBy
    <3>2. LoadOf(ToSet(rj) \cup {i}) = LoadOf(ToSet(rj)) + LoadOf({i})
      BY <3>1, LoadOfUnion
    <3>3. Load(r) = LoadOf(ToSet(r)) /\ Load(rj) = LoadOf(ToSet(rj))
      BY <2>1, PathLoad
    <3>4. LoadOf({i}) = Demand[i]
      BY <1>1, LoadOfSingle, WeightFacts
    <3>5. Load(rj) + Demand[i] <= Capacity
      BY DEF rj
    <3> QED
      BY <1>1, <2>4, <3>2, <3>3, <3>4, <3>5
  <2> QED
    BY <1>5, <2>2, <2>3, <2>4
<1>7. Good(new)
  BY <1>5, <1>6 DEF Good
<1>8. ASSUME NEW c \in customers, Alone(new, c)
      PROVE  Alone(sol, c) \/ depot \in z.second \/ c \in z.first \cap affected
  <2>1. Succ(ri, i) \in affected
    BY DEF ri
  <2> QED
    BY <1>5, <1>8, <2>1
<1> QED
  BY <1>5, <1>7, <1>8 DEF Sane, z, b

\* Within a route.
LEMMA WithinIsSane ==
    ASSUME NEW from, NEW y, IsWork(y), Linked(from, y), Good(y.sol),
           CustomersOf(y.sol) = customers,
           NEW r \in y.sol, NEW i \in ToSet(r), NEW j \in ToSet(r), i # j,
           ServedBy(r) # {i}, NEW affected
    PROVE  Sane(from, y.sol, ChainStep(Fresh(y), <<i, j>>), affected)
<1> DEFINE sol == y.sol
           z == ChainStep(Fresh(y), <<i, j>>)
           new == z.x.sol
           t == InsertBefore(RemoveFrom(r, i), j, i)
<1>1. WellFormed(sol) /\ \A q \in sol : depot \in ToSet(q) /\ Load(q) <= Capacity
  BY DEF Good
<1>2. z.x = Relocate(y, <<i, j>>)
  BY DEF ChainStep, Fresh
<1> HIDE DEF z, t
<1>3. /\ IsWork(z.x) /\ Linked(from, z.x) /\ WellFormed(new)
      /\ new = (sol \ {r}) \cup {t}
      /\ IsRoute(t) /\ ToSet(t) = ToSet(r)
      /\ CustomersOf(new) = customers
  <2>1. /\ IsWork(Relocate(y, <<i, j>>)) /\ Linked(from, Relocate(y, <<i, j>>))
        /\ WellFormed(Relocate(y, <<i, j>>).sol)
        /\ Relocate(y, <<i, j>>).sol = (y.sol \ {r}) \cup {t}
        /\ IsRoute(t) /\ ToSet(t) = ToSet(r)
        /\ CustomersOf(Relocate(y, <<i, j>>).sol) = CustomersOf(y.sol)
    BY <1>1, RelocateWithin DEF t
  <2> QED
    BY <1>2, <2>1
<1>4. IsPath(t) /\ IsPath(r) /\ ServedBy(t) = ServedBy(r)
  BY <1>1, <1>3 DEF WellFormed, IsRoute, ServedBy
<1>5. Load(t) = Load(r)
  BY <1>3, <1>4, PathLoad
<1>6. Good(new)
  BY <1>1, <1>3, <1>5 DEF Good
<1>7. ASSUME NEW c \in customers, Alone(new, c) PROVE Alone(sol, c)
  <2> DEFINE q == RouteOf(new, c)
  <2>1. q \in new /\ c \in ServedBy(q) /\ ServedBy(q) = {c}
    BY <1>3, <1>7, RouteOfFacts DEF Alone
  <2> HIDE DEF q, new
  <2>2. CASE q = t
    BY <1>1, <1>4, <2>1, <2>2, RouteOfIs DEF Alone
  <2>3. CASE q # t
    <3>1. q \in sol
      BY <1>3, <2>1, <2>3
    <3> QED
      BY <1>1, <2>1, <3>1, RouteOfIs DEF Alone
  <2> QED
    BY <2>2, <2>3
<1> QED
  BY <1>3, <1>6, <1>7 DEF Sane, z

-----------------------------------------------------------------------------
(* The search                                                              *)

\* The solution is good and linked to the first one, no customer that is alone
\* in its route is about to be moved before the depot, and the nodes are a tree
\* of relocations of the present solution.
ChainInv ==
    /\ IsWork(x) /\ Linked(start, x) /\ Good(x.sol) /\ CustomersOf(x.sol) = customers
    /\ SinglesIdle(x.sol, delta)
    /\ \E g : IsTree(x.sol, nodes, g)
    /\ open \subseteq 1..Len(nodes) /\ curr \in 0..Len(nodes)

\* Vertices of a move.
LEMMA MoveFacts ==
    ASSUME NEW mv \in AllMoves
    PROVE  /\ mv = <<mv[1], mv[2]>> /\ mv[1] \in vertices /\ mv[2] \in vertices
           /\ mv[1] # mv[2]
           /\ mv[1] # depot => mv[1] \in customers
           /\ mv[2] # depot => mv[2] \in customers
BY Numbers DEF AllMoves, Moves

LEMMA NothingIsTree ==
    ASSUME NEW sol, Good(sol), CustomersOf(sol) = customers
    PROVE  \E g : IsTree(sol, <<>>, g)
BY TreeBegins

LEMMA ChainBegins ==
    ASSUME Init
    PROVE  ChainInv
<1>1. /\ start \in StartSolutions /\ x = [sol |-> start, do |-> <<>>, undo |-> <<>>, svc |-> {}]
      /\ delta = [mv \in AllMoves |-> RelocationCost(start, mv)]
      /\ nodes = <<>> /\ open = {} /\ curr = 0
  BY DEF Init
<1>2. Good(start) /\ CustomersOf(start) = customers
  <2>1. IsSolution(start) /\ IsFeasible(start)
    BY <1>1, EjectionAssumption
  <2> QED
    BY <2>1, FeasibleIsGood
<1>3. x.sol = start /\ x.do = <<>> /\ x.undo = <<>> /\ IsWork(x)
  BY <1>1 DEF IsWork
<1>4. Linked(start, x)
  BY <1>3, LinkedNowhere
<1>5. SinglesIdle(start, delta)
  <2> SUFFICES ASSUME NEW c \in customers, Alone(start, c) PROVE delta[<<c, depot>>] = {}
    BY DEF SinglesIdle
  <2>1. RelocationCost(start, <<c, depot>>) = {}
    BY <1>2, IdleCost
  <2>2. <<c, depot>> \in AllMoves
    BY IdleMove
  <2> QED
    BY <1>1, <2>1, <2>2
<1>6. \E g : IsTree(start, nodes, g)
  BY <1>1, <1>2, NothingIsTree
<1>7. open \subseteq 1..Len(nodes) /\ curr \in 0..Len(nodes)
  BY <1>1
<1> QED
  BY <1>2, <1>3, <1>4, <1>5, <1>6, <1>7 DEF ChainInv

\* A chain is executed, and there is no tree after it.
LEMMA ExecutionKeeps ==
    ASSUME ChainInv, NEW ns, NEW k, ExecuteChain(ns, k), NEW affected,
           affected \subseteq ns[k].forbidden_i \cup ns[k].forbidden_j,
           Sane(start, x.sol, Executed(Fresh(x), ns, k), affected),
           start' = start, nodes' = <<>>, open' = {}, curr' = 0
    PROVE  ChainInv'
<1> DEFINE z == Executed(Fresh(x), ns, k)
           all == ns[k].forbidden_i \cup ns[k].forbidden_j \cup {depot}
<1>1. x' = z.x /\ delta' = Renewed(delta, z, all)
  BY ExecutionIs
<1>2. Sane(start, x.sol, z, all)
  <2>1. affected \subseteq all
    OBVIOUS
  <2> HIDE DEF z, all
  <2> QED
    BY <2>1, SaneMore DEF z
<1>3. SinglesIdle(z.x.sol, Renewed(delta, z, all))
  <2>1. SinglesIdle(x.sol, delta) /\ depot \in all
    BY DEF ChainInv
  <2> HIDE DEF z, all
  <2> QED
    BY <1>2, <2>1, IdleAfter
<1> HIDE DEF z, all
<1>4. IsWork(x') /\ Linked(start', x') /\ Good(x'.sol) /\ CustomersOf(x'.sol) = customers
  BY <1>1, <1>2 DEF Sane
<1>5. SinglesIdle(x'.sol, delta')
  BY <1>1, <1>3
<1>6. \E g : IsTree(x'.sol, nodes', g)
  BY <1>4, NothingIsTree
<1>7. open' \subseteq 1..Len(nodes') /\ curr' \in 0..Len(nodes')
  OBVIOUS
<1> QED
  BY <1>4, <1>5, <1>6, <1>7 DEF ChainInv

\* The chain of one node.
LEMMA SingleExecuted ==
    ASSUME NEW y, NEW node, node.predecessor = 0
    PROVE  Executed(y, <<node>>, 1) = ChainStep(y, node.move)
<1> DEFINE ns == <<node>>
<1>1. ns \in Seq({node}) /\ Len(ns) = 1 /\ ns[1] = node
  OBVIOUS
<1> HIDE DEF ns
<1>2. IsLinkedBack(ns, {node})
  <2>1. \A n \in 1..1 : n = 1
    OBVIOUS
  <2>2. 0 \in 0..(1 - 1)
    OBVIOUS
  <2> QED
    BY <1>1, <2>1, <2>2 DEF IsLinkedBack
<1>3. 1 \in 1..Len(ns)
  BY <1>1
<1>4. ASSUME NEW w
      PROVE  /\ Executed(w, ns, 0) = w
             /\ \A n \in 1..Len(ns) :
                   Executed(w, ns, n)
                       = Executed(ChainStep(w, ns[n].move), ns, ns[n].predecessor)
  <2>1. ExecutedByNode(ns)
    BY <1>2, ExecutedIs
  <2> QED
    BY <2>1 DEF ExecutedByNode
<1>5. \A w : Executed(w, ns, 0) = w
  BY <1>4
<1>6. Executed(y, ns, 1) = Executed(ChainStep(y, node.move), ns, 0)
  BY <1>1, <1>3, <1>4
<1> QED
  BY <1>5, <1>6 DEF ns

\* A generating move that needs no other.
LEMMA MoveKeeps ==
    ASSUME ChainInv, ExecuteMove
    PROVE  ChainInv'
<1>1. PICK mv \in AllMoves : /\ delta[mv] # {} /\ FitsAtOnce(x.sol, mv)
                             /\ ExecuteChain(<<SingleNode(x.sol, mv)>>, 1)
  BY DEF ExecuteMove
<1>2. start' = start /\ nodes' = <<>> /\ open' = open /\ curr' = curr /\ nodes = <<>>
  BY DEF ExecuteMove, Idle, searchVars
<1>3. open' = {} /\ curr' = 0
  <2>1. open \subseteq 1..Len(nodes) /\ curr \in 0..Len(nodes)
    BY DEF ChainInv
  <2>2. 1..0 = {} /\ Len(nodes) = 0 /\ \A n \in 0..0 : n = 0
    BY <1>2
  <2> QED
    BY <1>2, <2>1, <2>2
<1> DEFINE sol == x.sol
           i == mv[1]
           j == mv[2]
           e == Surroundings(sol, mv)
           node == SingleNode(sol, mv)
           z == ChainStep(Fresh(x), mv)
<1>4. /\ mv = <<i, j>> /\ i # j /\ i \in vertices /\ j \in vertices
      /\ (i # depot => i \in customers) /\ (j # depot => j \in customers)
  BY MoveFacts
<1>5. /\ e.ri = RouteVia(sol, i, j) /\ e.rj = RouteVia(sol, j, i)
      /\ e.iNext = Succ(e.ri, i)
  BY DEF Surroundings
<1>6. node.predecessor = 0 /\ node.move = mv /\ node.forbidden_j = {}
      /\ e.iNext \in node.forbidden_i
  BY DEF SingleNode
<1>7. Executed(Fresh(x), <<node>>, 1) = z
  <2> HIDE DEF node
  <2> QED
    BY <1>6, SingleExecuted
<1>8. /\ IsWork(x) /\ Linked(start, x) /\ Good(sol) /\ CustomersOf(sol) = customers
      /\ SinglesIdle(sol, delta)
  BY DEF ChainInv
<1>9. e.ri # e.rj => Load(e.rj) + Demand[i] <= Capacity
  BY <1>1 DEF FitsAtOnce
<1> HIDE DEF e, node, i, j, z
<1>10. Sane(start, sol, z, node.forbidden_i)
  <2>1. CASE e.ri # e.rj
    <3>1. i # depot /\ j # depot
      BY <1>4, <1>5, <2>1 DEF RouteVia
    <3>2. e.ri = RouteOf(sol, i) /\ e.rj = RouteOf(sol, j)
      BY <1>5, <3>1 DEF RouteVia
    <3>3. /\ i \in customers /\ j \in customers
          /\ RouteOf(sol, i) # RouteOf(sol, j)
          /\ Load(RouteOf(sol, j)) + Demand[i] <= Capacity
          /\ Succ(RouteOf(sol, i), i) \in node.forbidden_i
      BY <1>4, <1>5, <1>6, <1>9, <2>1, <3>1, <3>2
    <3>4. Sane(start, sol, ChainStep(Fresh(x), <<i, j>>), node.forbidden_i)
      BY <1>8, <3>3, BetweenIsSane
    <3> QED
      BY <1>4, <3>4 DEF z
  <2>2. CASE e.ri = e.rj
    <3> DEFINE r == e.ri
    <3>1. \A c \in customers : RouteOf(sol, c) \in sol /\ c \in ServedBy(RouteOf(sol, c))
                               /\ c \in ToSet(RouteOf(sol, c))
      BY <1>8, RouteOfFacts DEF Good
    <3>2. \A q \in sol : depot \in ToSet(q)
      BY <1>8 DEF Good
    <3>3. r = RouteVia(sol, i, j) /\ r = RouteVia(sol, j, i)
      BY <1>5, <2>2
    <3> HIDE DEF r
    <3>4. r \in sol /\ i \in ToSet(r) /\ j \in ToSet(r)
      <4>1. CASE i = depot
        <5>1. j \in customers /\ r = RouteOf(sol, j)
          BY <1>4, <3>3, <4>1 DEF RouteVia
        <5> QED
          BY <3>1, <3>2, <4>1, <5>1
      <4>2. CASE j = depot
        <5>1. i \in customers /\ r = RouteOf(sol, i)
          BY <1>4, <3>3, <4>2 DEF RouteVia
        <5> QED
          BY <3>1, <3>2, <4>2, <5>1
      <4>3. CASE i # depot /\ j # depot
        <5>1. i \in customers /\ j \in customers /\ r = RouteOf(sol, i) /\ r = RouteOf(sol, j)
          BY <1>4, <3>3, <4>3 DEF RouteVia
        <5> QED
          BY <3>1, <5>1
      <4> QED
        BY <4>1, <4>2, <4>3
    <3>5. ASSUME ServedBy(r) = {i} PROVE FALSE
      <4>1. i # depot /\ j = depot
        BY <1>4, <3>4, <3>5 DEF ServedBy
      <4>2. i \in customers /\ r = RouteOf(sol, i)
        BY <1>4, <3>3, <4>1 DEF RouteVia
      <4>3. Alone(sol, i)
        BY <3>5, <4>2 DEF Alone
      <4>4. delta[<<i, depot>>] = {}
        BY <1>8, <4>2, <4>3 DEF SinglesIdle
      <4> QED
        BY <1>1, <1>4, <4>1, <4>4
    <3>6. Sane(start, sol, ChainStep(Fresh(x), <<i, j>>), node.forbidden_i)
      BY <1>4, <1>8, <3>4, <3>5, WithinIsSane
    <3> QED
      BY <1>4, <3>6 DEF z
  <2> QED
    BY <2>1, <2>2
<1> DEFINE ns == <<node>>
<1>11. ns[1] = node
  OBVIOUS
<1>12. Executed(Fresh(x), ns, 1) = z
  BY <1>7
<1>13. ExecuteChain(ns, 1)
  BY <1>1 DEF node
<1> HIDE DEF ns
<1>14. /\ Sane(start, x.sol, Executed(Fresh(x), ns, 1), node.forbidden_i)
       /\ node.forbidden_i \subseteq ns[1].forbidden_i \cup ns[1].forbidden_j
  BY <1>10, <1>11, <1>12
<1> QED
  BY <1>2, <1>3, <1>13, <1>14, ExecutionKeeps

\* The root of a tree: the move overloads the route that it goes to.
LEMMA BeginKeeps ==
    ASSUME ChainInv, BeginSearch
    PROVE  ChainInv'
<1>1. PICK mv \in AllMoves :
        /\ delta[mv] # {} /\ ~FitsAtOnce(x.sol, mv)
        /\ nodes' = <<RelocationNode(x.sol, Before(x.sol), 0, mv, delta[mv])>>
  BY DEF BeginSearch
<1>2. /\ start' = start /\ x' = x /\ delta' = delta /\ nodes = <<>>
      /\ open' = {1} /\ curr' = 0
  BY DEF BeginSearch, Idle
<1> DEFINE sol == x.sol
           i == mv[1]
           j == mv[2]
           e == Surroundings(sol, mv)
           home == HomeOf(sol)
           prev == Before(sol)
           d == delta[mv]
           node == RelocationNode(sol, prev, 0, mv, d)
<1>3. /\ mv = <<i, j>> /\ i # j
      /\ (i # depot => i \in customers) /\ (j # depot => j \in customers)
  BY MoveFacts
<1>4. /\ e.ri = RouteVia(sol, i, j) /\ e.rj = RouteVia(sol, j, i) /\ e.ri # e.rj
  BY <1>1 DEF Surroundings, FitsAtOnce
<1>5. /\ IsWork(x) /\ Linked(start, x) /\ Good(sol) /\ CustomersOf(sol) = customers
      /\ SinglesIdle(sol, delta)
  BY DEF ChainInv
<1>6. node.load = [prev.load EXCEPT ![e.ri] = @ - Demand[i], ![e.rj] = @ + Demand[i]]
  BY DEF RelocationNode
<1>7. prev.load = [r \in sol |-> Load(r)] /\ prev.forbidden_j = {}
  BY DEF Before
<1>8. nodes' = <<node>>
  BY <1>1
<1> HIDE DEF e, i, j, home, node, prev, d
<1>9. i # depot /\ j # depot
  BY <1>4 DEF RouteVia
<1>10. i \in customers /\ j \in customers /\ e.ri = home[i] /\ e.rj = home[j]
  <2>1. i \in customers /\ j \in customers
    BY <1>3, <1>9
  <2> QED
    BY <1>4, <1>9, <2>1 DEF RouteVia, home, HomeOf
<1>11. PICK g : IsTree(sol, <<>>, g)
  BY <1>5, NothingIsTree
<1>12. g[0] = home /\ IsHome(home, sol) /\ home[i] \in sol /\ home[j] \in sol
  BY <1>5, <1>10, <1>11, HomeFacts DEF IsTree, home
<1>13. \A r \in sol : Load(r) = LoadOf(Class(home, r)) /\ Load(r) <= Capacity /\ Load(r) \in Nat
  <2>1. \A r \in sol : IsPath(r) /\ Load(r) <= Capacity
    BY <1>5 DEF Good, WellFormed, IsRoute
  <2>2. \A r \in sol : ToSet(r) = Class(home, r)
    BY <1>5, HomeFacts DEF home
  <2> QED
    BY <2>1, <2>2, PathLoad
<1>14. prev.load = Loads(sol, g[0])
  BY <1>7, <1>12, <1>13 DEF Loads
<1>15. ASSUME NEW h \in sol, h # home[j] PROVE node.load[h] <= Capacity
  <2>1. Demand[i] \in Nat /\ Capacity \in Nat
    BY <1>10, RoutesAssumption DEF customers
  <2>2. CASE h = home[i]
    <3>1. node.load[h] = Load(h) - Demand[i]
      BY <1>6, <1>7, <1>10, <1>12, <1>15, <2>2
    <3>2. Load(h) \in Nat /\ Load(h) <= Capacity
      BY <1>13
    <3> QED
      BY <2>1, <3>1, <3>2
  <2>3. CASE h # home[i]
    <3>1. node.load[h] = Load(h)
      BY <1>6, <1>7, <1>10, <1>12, <1>15, <2>3
    <3> QED
      BY <1>13, <3>1
  <2> QED
    BY <2>2, <2>3
<1> DEFINE ns == <<>>
<1>16. CanGrow(sol, ns, g, 0, prev, i, j, d, node)
  <2>1. 0 \in 0..Len(ns) /\ Taken(ns, 0) = {}
    BY DEF Taken
  <2>2. node = RelocationNode(sol, prev, 0, <<i, j>>, d)
    BY <1>3 DEF node
  <2>3. IsTree(sol, ns, g)
    BY <1>11
  <2>4. HomeOf(sol)[i] # HomeOf(sol)[j]
    BY <1>4, <1>10 DEF home
  <2>5. \A h \in sol : h # HomeOf(sol)[j] => node.load[h] <= Capacity
    BY <1>15 DEF home
  <2> HIDE DEF ns
  <2> QED
    BY <1>5, <1>7, <1>10, <1>14, <2>1, <2>2, <2>3, <2>4, <2>5 DEF CanGrow
<1>17. \E f : IsTree(sol, Append(ns, node), f)
  <2> HIDE DEF ns
  <2> QED
    BY <1>16, TreeGrows
<1>18. Append(ns, node) = <<node>>
  OBVIOUS
<1>19. \E f : IsTree(x'.sol, nodes', f)
  BY <1>2, <1>8, <1>17, <1>18
<1>20. open' \subseteq 1..Len(nodes') /\ curr' \in 0..Len(nodes')
  BY <1>2, <1>8
<1> QED
  BY <1>2, <1>5, <1>19, <1>20 DEF ChainInv

\* A relocation that the scan of the present node finds.
LEMMA ChildGrows ==
    ASSUME ChainInv, NEW mv \in AllMoves, Found(mv)
    PROVE  /\ \E f : IsTree(x.sol, Append(nodes, Child(mv)), f)
           /\ Len(Append(nodes, Child(mv))) = Len(nodes) + 1
           /\ Append(nodes, Child(mv))[Len(nodes) + 1] = Child(mv)
           /\ Len(nodes) \in Nat /\ curr \in 1..Len(nodes)
<1> DEFINE sol == x.sol
           i == mv[1]
           j == mv[2]
           e == Surroundings(sol, mv)
           home == HomeOf(sol)
           prev == nodes[curr]
           d == computed[mv]
           node == RelocationNode(sol, prev, curr, mv, d)
           r == RouteOf(sol, prev.move[2])
<1>1. PICK g : IsTree(sol, nodes, g)
  BY DEF ChainInv
<1>2. Len(nodes) \in Nat /\ curr \in 1..Len(nodes) /\ curr \in 0..Len(nodes)
  <2>1. PICK S : nodes \in Seq(S)
    BY <1>1 DEF IsTree
  <2>2. curr # 0 /\ curr \in 0..Len(nodes)
    BY DEF ChainInv, Found
  <2> QED
    BY <2>1, <2>2
<1>3. Good(sol) /\ CustomersOf(sol) = customers
  BY DEF ChainInv
<1>4. /\ Grows(sol, nodes, g, curr)
      /\ prev.load = Loads(sol, g[curr]) /\ prev.move[2] \in customers
      /\ r = home[prev.move[2]]
      /\ \A h \in sol : h # home[prev.move[2]] => prev.load[h] <= Capacity
  <2>1. Grows(sol, nodes, g, curr)
    BY <1>1, <1>2 DEF IsTree
  <2> QED
    BY <2>1 DEF Grows, HomeOf
<1>5. mv = <<i, j>>
  BY MoveFacts
<1>6. /\ i \in ServedBy(r) /\ i \notin prev.forbidden_j
      /\ prev.load[r] - Demand[i] <= Capacity
      /\ j \in customers /\ j \notin prev.forbidden_j /\ ~Contains(r, j)
  BY DEF Found, Relocations
<1>7. Child(mv) = node
  BY DEF Child
<1>8. node.load = [prev.load EXCEPT ![e.ri] = @ - Demand[i], ![e.rj] = @ + Demand[i]]
  BY DEF RelocationNode
<1>9. e.ri = RouteVia(sol, i, j) /\ e.rj = RouteVia(sol, j, i)
  BY DEF Surroundings
<1> HIDE DEF e, i, j, home, node, prev, d, r
<1>10. /\ IsHome(home, sol)
       /\ \A c \in customers : /\ home[c] = RouteOf(sol, c) /\ home[c] \in sol
                               /\ c \in ServedBy(home[c])
       /\ \A h \in sol : \A c \in ServedBy(h) : home[c] = h /\ c \in customers
  BY <1>3, HomeFacts DEF home
<1>11. r \in sol /\ home[i] = r /\ i \in customers
  BY <1>4, <1>6, <1>10
<1>12. home[j] # r /\ home[j] \in sol
  <2>1. j \in ServedBy(home[j]) /\ home[j] \in sol
    BY <1>6, <1>10
  <2>2. IsPath(home[j])
    BY <1>3, <2>1 DEF Good, WellFormed, IsRoute
  <2>3. Contains(home[j], j)
    BY <2>1, <2>2, ServedByFacts DEF ServedBy
  <2> QED
    BY <1>6, <2>1, <2>3
<1>13. e.ri = r /\ e.rj = home[j]
  <2>1. i # depot /\ j # depot
    BY <1>6, <1>11, Numbers
  <2> QED
    BY <1>6, <1>9, <1>10, <1>11, <2>1 DEF RouteVia
<1>14. DOMAIN prev.load = sol
  BY <1>4 DEF Loads
<1>15. ASSUME NEW h \in sol, h # home[j] PROVE node.load[h] <= Capacity
  <2>1. CASE h = r
    <3>1. node.load[h] = prev.load[r] - Demand[i]
      BY <1>8, <1>12, <1>13, <1>14, <1>15, <2>1
    <3> QED
      BY <1>6, <3>1
  <2>2. CASE h # r
    <3>1. node.load[h] = prev.load[h]
      BY <1>8, <1>12, <1>13, <1>14, <1>15, <2>2
    <3> QED
      BY <1>4, <2>2, <3>1
  <2> QED
    BY <2>1, <2>2
<1>16. Taken(nodes, curr) = prev.forbidden_j
  BY <1>2 DEF Taken, prev
<1>17. CanGrow(sol, nodes, g, curr, prev, i, j, d, node)
  <2>1. node = RelocationNode(sol, prev, curr, <<i, j>>, d)
    BY <1>5 DEF node
  <2>2. HomeOf(sol)[i] # HomeOf(sol)[j]
    BY <1>11, <1>12 DEF home
  <2>3. \A h \in sol : h # HomeOf(sol)[j] => node.load[h] <= Capacity
    BY <1>15 DEF home
  <2>4. i \notin Taken(nodes, curr) /\ j \notin Taken(nodes, curr)
    BY <1>6, <1>16
  <2> QED
    BY <1>1, <1>2, <1>3, <1>4, <1>6, <1>11, <1>16, <2>1, <2>2, <2>3, <2>4 DEF CanGrow
<1>18. /\ \E f : IsTree(sol, Append(nodes, node), f)
       /\ Len(Append(nodes, node)) = Len(nodes) + 1
       /\ Append(nodes, node)[Len(nodes) + 1] = node
  BY <1>17, TreeGrows
<1> QED
  BY <1>2, <1>7, <1>18

\* It overloads a route in its turn, or the search is given up with it.
LEMMA ExtendKeeps ==
    ASSUME ChainInv, ExtendChain
    PROVE  ChainInv'
<1>1. PICK mv \in AllMoves :
        /\ Found(mv)
        /\ IF Len(nodes) + 1 = MaxNodes THEN SearchEnds
           ELSE /\ nodes' = Append(nodes, Child(mv))
                /\ open' = open \cup {Len(nodes) + 1}
                /\ UNCHANGED curr
  BY DEF ExtendChain
<1>2. start' = start /\ x' = x /\ delta' = delta
  BY DEF ExtendChain
<1>3. /\ IsWork(x) /\ Linked(start, x) /\ Good(x.sol) /\ CustomersOf(x.sol) = customers
      /\ SinglesIdle(x.sol, delta) /\ open \subseteq 1..Len(nodes)
  BY DEF ChainInv
<1>4. CASE nodes' = <<>> /\ open' = {} /\ curr' = 0
  <2>1. \E g : IsTree(x.sol, nodes', g)
    BY <1>3, <1>4, NothingIsTree
  <2>2. open' \subseteq 1..Len(nodes') /\ curr' \in 0..Len(nodes')
    BY <1>4
  <2> QED
    BY <1>2, <1>3, <2>1, <2>2 DEF ChainInv
<1>5. CASE /\ nodes' = Append(nodes, Child(mv))
           /\ open' = open \cup {Len(nodes) + 1}
           /\ curr' = curr
  <2> DEFINE all == Append(nodes, Child(mv))
  <2>1. /\ \E f : IsTree(x.sol, all, f)
        /\ Len(all) = Len(nodes) + 1 /\ Len(nodes) \in Nat /\ curr \in 1..Len(nodes)
    BY <1>1, ChildGrows
  <2> HIDE DEF all
  <2>2. nodes' = all
    BY <1>5 DEF all
  <2>3. open' \subseteq 1..Len(all) /\ curr' \in 0..Len(all)
    <3> DEFINE n == Len(nodes)
    <3>1. /\ n \in Nat /\ Len(all) = n + 1 /\ curr \in 1..n /\ open \subseteq 1..n
          /\ open' = open \cup {n + 1} /\ curr' = curr
      BY <1>3, <1>5, <2>1
    <3> HIDE DEF n
    <3>2. 1..n \subseteq 1..(n + 1) /\ n + 1 \in 1..(n + 1) /\ 1..n \subseteq 0..(n + 1)
      BY <3>1
    <3> QED
      BY <3>1, <3>2
  <2> QED
    BY <1>2, <1>3, <2>1, <2>2, <2>3 DEF ChainInv
<1> QED
  BY <1>1, <1>4, <1>5 DEF SearchEnds

\* Or it ends the chain.
LEMMA CompleteKeeps ==
    ASSUME ChainInv, CompleteChain
    PROVE  ChainInv'
<1>1. PICK mv \in AllMoves :
        /\ Found(mv) /\ IsRelieved(x.sol, Child(mv))
        /\ ExecuteChain(Append(nodes, Child(mv)), Len(nodes) + 1)
  BY DEF CompleteChain
<1>2. start' = start /\ nodes' = <<>> /\ open' = {} /\ curr' = 0
  BY DEF CompleteChain, SearchEnds
<1> DEFINE sol == x.sol
           node == Child(mv)
           ns == Append(nodes, node)
           k == Len(nodes) + 1
           home == HomeOf(sol)
<1>3. /\ \E f : IsTree(sol, ns, f)
      /\ Len(ns) = k /\ ns[k] = node /\ Len(nodes) \in Nat
  BY <1>1, ChildGrows
<1>4. PICK g : IsTree(sol, ns, g)
  BY <1>3
<1>5. /\ IsWork(x) /\ Linked(start, x) /\ Good(sol) /\ CustomersOf(sol) = customers
  BY DEF ChainInv
<1>6. node.load[RouteOf(sol, node.move[2])] <= Capacity
  BY <1>1 DEF IsRelieved
<1>7. ExecuteChain(ns, k)
  BY <1>1
<1> HIDE DEF node, ns, k
<1>8. k \in 0..Len(ns) /\ k \in 1..Len(ns) /\ k # 0
  BY <1>3 DEF k
<1>9. IsChain(sol, ns, g, k)
  BY <1>4, <1>5, <1>8 DEF IsChain
<1>10. \A h \in sol : ns[k].load[h] <= Capacity
  <2>1. Grows(sol, ns, g, k)
    BY <1>4, <1>8 DEF IsTree
  <2>2. /\ node.move[2] \in customers
        /\ \A h \in sol : h # HomeOf(sol)[node.move[2]] => node.load[h] <= Capacity
    BY <1>3, <2>1 DEF Grows
  <2>3. HomeOf(sol)[node.move[2]] = RouteOf(sol, node.move[2])
    BY <2>2 DEF HomeOf
  <2> QED
    BY <1>3, <1>6, <2>2, <2>3
<1>11. Sane(start, sol, Executed(Fresh(x), ns, k), Taken(ns, k))
  BY <1>5, <1>8, <1>9, <1>10, ChainIsSane
<1>12. Taken(ns, k) \subseteq ns[k].forbidden_i \cup ns[k].forbidden_j
  BY <1>8 DEF Taken
<1> QED
  BY <1>2, <1>7, <1>11, <1>12, ExecutionKeeps

LEMMA ChainContinues ==
    ASSUME ChainInv, [Next]_vars
    PROVE  ChainInv'
<1>1. CASE ExecuteMove
  BY <1>1, MoveKeeps
<1>2. CASE BeginSearch
  BY <1>2, BeginKeeps
<1>3. CASE Expand
  <2>1. /\ start' = start /\ x' = x /\ delta' = delta /\ nodes' = nodes
        /\ curr' \in open /\ open' \subseteq open
    BY <1>3 DEF Expand
  <2>2. open \subseteq 1..Len(nodes)
    BY DEF ChainInv
  <2>3. curr' \in 1..Len(nodes) => curr' \in 0..Len(nodes)
    OBVIOUS
  <2>4. open' \subseteq 1..Len(nodes') /\ curr' \in 0..Len(nodes')
    BY <2>1, <2>2, <2>3
  <2> QED
    BY <2>1, <2>4 DEF ChainInv
<1>4. CASE CompleteChain
  BY <1>4, CompleteKeeps
<1>5. CASE ExtendChain
  BY <1>5, ExtendKeeps
<1>6. CASE GiveUp
  <2>1. /\ start' = start /\ x' = x /\ delta' = delta
        /\ nodes' = <<>> /\ open' = {} /\ curr' = 0
    BY <1>6 DEF GiveUp, SearchEnds
  <2>2. Good(x.sol) /\ CustomersOf(x.sol) = customers
    BY DEF ChainInv
  <2>3. \E g : IsTree(x.sol, nodes', g)
    BY <2>1, <2>2, NothingIsTree
  <2>4. open' \subseteq 1..Len(nodes') /\ curr' \in 0..Len(nodes')
    BY <2>1
  <2> QED
    BY <2>1, <2>3, <2>4 DEF ChainInv
<1>7. CASE Ended
  BY <1>7 DEF Ended, searchVars, ChainInv
<1>8. CASE UNCHANGED vars
  BY <1>8 DEF vars, searchVars, ChainInv
<1> QED
  BY <1>1, <1>2, <1>3, <1>4, <1>5, <1>6, <1>7, <1>8 DEF Next

LEMMA ChainAlways == Spec => []ChainInv
<1>1. Init => ChainInv
  BY ChainBegins
<1>2. ChainInv /\ [Next]_vars => ChainInv'
  BY ChainContinues
<1> QED
  BY <1>1, <1>2, PTL DEF Spec

\* Whatever moves are tried and whatever relocations a search finds, an executed
\* chain leaves a feasible solution, and its recorded actions lead there and
\* back, for every instance and every limit on the tree (EjectionChain.hpp,
\* execute and the assert on line 312).
THEOREM ChainsKeepFeasible == Spec => []ChainIsFeasible
<1>1. ChainInv => ChainIsFeasible
  BY GoodIsFeasible DEF ChainInv, ChainIsFeasible, Linked, Leads
<1> QED
  BY <1>1, ChainAlways, PTL
=============================================================================
