------------------------------ MODULE MoveHeap ------------------------------
(***************************************************************************)
(* The heap of moves (filo2/base/BinaryHeap.hpp, MoveGeneratorsHeap).      *)
(*                                                                         *)
(* h.heap is the array, from position 1; h.delta and h.index give the      *)
(* delta and the heap_index of every move.                                 *)
(***************************************************************************)
EXTENDS Integers, Sequences

unheaped == 0

Left(k) == 2 * k
Right(k) == 2 * k + 1
Parent(k) == k \div 2

DeltaAt(h, k) == h.delta[h.heap[k]]

\* The move at a position, and its heap_index.
Place(h, k, m) == [h EXCEPT !.heap[k] = m, !.index[m] = k]

Swapped(h, k, l) == Place(Place(h, k, h.heap[l]), l, h.heap[k])

\* min_lr: the smaller child, when it is smaller than its parent.
MinLR(h, k) ==
    LET n == Len(h.heap)
        smallest == IF Right(k) <= n /\ DeltaAt(h, Right(k)) < DeltaAt(h, Left(k))
                    THEN Right(k) ELSE Left(k)
    IN  IF smallest <= n /\ DeltaAt(h, smallest) < DeltaAt(h, k) THEN smallest ELSE unheaped

\* A place in the heap whose move may be greater than its children, or smaller
\* than its parent, and the round of a loop that moves it on if it is.
Spot(h, k) == [h |-> h, k |-> k]

Sink(s) ==
    LET l == MinLR(s.h, s.k)
    IN  IF l = unheaped THEN s ELSE Spot(Swapped(s.h, s.k, l), l)

Rise(s) ==
    IF s.k > 1 /\ DeltaAt(s.h, s.k) < DeltaAt(s.h, Parent(s.k))
    THEN Spot(Swapped(s.h, s.k, Parent(s.k)), Parent(s.k)) ELSE s

\* A move sinks to the end of the heap at most, and rises to its top at most;
\* the rounds that remain then change nothing.
Heapify(h, k) ==
    LET after[n \in 0..Len(h.heap)] == IF n = 0 THEN Spot(h, k) ELSE Sink(after[n - 1])
    IN  after[Len(h.heap)].h

Upsift(h, k) ==
    LET after[n \in 0..k] == IF n = 0 THEN Spot(h, k) ELSE Rise(after[n - 1])
    IN  after[k].h

\* After the value at a position has fallen, or grown.
Settled(h, k, change) ==
    CASE change > 0 -> Upsift(h, k)
      [] change < 0 -> Heapify(h, k)
      [] OTHER -> h

Reset(h) == [h EXCEPT !.heap = <<>>,
                      !.index = [m \in DOMAIN h.index |->
                                    IF h.index[m] = unheaped \/ h.heap[h.index[m]] # m
                                    THEN h.index[m] ELSE unheaped]]

HeapInsert(h, m) ==
    LET k == Len(h.heap) + 1
    IN  Upsift([h EXCEPT !.heap = Append(@, m), !.index[m] = k], k)

DropLast(h) == [h EXCEPT !.heap = SubSeq(@, 1, Len(@) - 1)]

\* A bug that leaves the replacement where it is.
HeapRemoveInPlace(h, k) ==
    LET n == Len(h.heap)
        m == h.heap[k]
        gone == DropLast([h EXCEPT !.index[m] = unheaped])
    IN  IF k = n THEN gone ELSE Place(gone, k, h.heap[n])

\* The last move replaces the removed one and may have to go up or down.
HeapRemove(h, k) ==
    LET n == Len(h.heap)
        m == h.heap[k]
        gone == DropLast([h EXCEPT !.index[m] = unheaped])
    IN  IF k = n THEN gone
        ELSE Settled(Place(gone, k, h.heap[n]), k, h.delta[m] - h.delta[h.heap[n]])

ChangeValue(h, k, delta) ==
    Settled([h EXCEPT !.delta[h.heap[k]] = delta], k, DeltaAt(h, k) - delta)

-----------------------------------------------------------------------------
\* is_heap: the moves know where they are, and no parent is greater than a
\* child.  Nobody else claims a place.
IsHeap(h) ==
    /\ \A k \in DOMAIN h.heap : h.index[h.heap[k]] = k
    /\ \A k \in 2..Len(h.heap) : DeltaAt(h, Parent(k)) <= DeltaAt(h, k)
    /\ \A m \in DOMAIN h.index : h.index[m] # unheaped =>
          h.index[m] \in DOMAIN h.heap /\ h.heap[h.index[m]] = m
=============================================================================
