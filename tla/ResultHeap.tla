----------------------------- MODULE ResultHeap -----------------------------
(***************************************************************************)
(* faiss's max-heaps of search results (faiss/Heap.h, with C = CMax): the  *)
(* arrays bh_val and bh_ids together are one sequence of pairs [val, id],  *)
(* the largest value on top.  A distance is a number; Neutral stands for   *)
(* the largest float, and what is not below it (infinity, not a number)    *)
(* never enters a heap.                                                    *)
(***************************************************************************)
EXTENDS Integers, Sequences

CONSTANT Neutral

ASSUME NeutralNat == Neutral \in Nat

Unused == [val |-> Neutral, id |-> -1]

heapify(n) == [i \in 1 .. n |-> Unused]

\* Where the hole at i goes when the last of n elements is to fill it: to the
\* larger child, the second of two equal ones, unless last is larger still.
Child(h, n, i) ==
  IF 2 * i + 1 = n + 1 \/ h[2 * i].val > h[2 * i + 1].val THEN 2 * i ELSE 2 * i + 1

\* Faulty: the last element takes the place of the top.
heap_popFlat(h, n) == [h EXCEPT ![1] = h[n]]

\* The top leaves, and the hole sinks: sink[i] is the array when a hole at i
\* has been filled.  Element n is then undefined.
heap_pop(h, n) ==
  LET sink[i \in 1 .. n] ==
        IF 2 * i > n \/ h[n].val > h[Child(h, n, i)].val
          THEN [h EXCEPT ![i] = h[n]]
          ELSE [sink[Child(h, n, i)] EXCEPT ![i] = h[Child(h, n, i)]]
  IN  sink[1]

\* A hole at n rises while the father is smaller than e.
heap_push(h, n, e) ==
  LET rise[i \in 1 .. n] ==
        IF i > 1 /\ e.val > h[i \div 2].val
          THEN [rise[i \div 2] EXCEPT ![i] = h[i \div 2]]
          ELSE [h EXCEPT ![i] = e]
  IN  rise[n]

\* The top of a full heap makes room for a nearer element.
Offer(h, e) ==
  IF e.val < h[1].val THEN heap_push(heap_pop(h, Len(h)), Len(h), e) ELSE h

\* heap_addn, and the loop of knn_L2sqr_sse.
addn(h, elements) ==
  LET after[m \in 0 .. Len(elements)] ==
        IF m = 0 THEN h ELSE Offer(after[m - 1], elements[m])
  IN  after[Len(elements)]

\* Turn i of the loop of heap_reorder, when r.ii true elements are at the end.
Turn(r, i) ==
  LET top == r.bh[1]
  IN  [bh |-> [heap_pop(r.bh, Len(r.bh) - i) EXCEPT ![Len(r.bh) - r.ii] = top],
       ii |-> IF top.id # -1 THEN r.ii + 1 ELSE r.ii]

heap_reorder(h) ==
  LET turn[i \in 0 .. Len(h)] ==
        IF i = 0 THEN [bh |-> h, ii |-> 0] ELSE Turn(turn[i - 1], i - 1)
      last == turn[Len(h)]
  IN  [i \in 1 .. Len(h) |->
         IF i <= last.ii THEN last.bh[Len(h) - last.ii + i] ELSE Unused]
=============================================================================
