----------------------------- MODULE IndexIVFPQ -----------------------------
(***************************************************************************)
(* The faiss index behind retrieval::FeatureIndex as a value, and its      *)
(* operations as operators on it (faiss/IndexIVF.cpp, faiss/IndexIVFPQ.cpp)*)
(*                                                                         *)
(* The inverted lists are a set of entries: an entry of list k is one whose*)
(* vector has Key k.  id is its label, book the generation of the PQ       *)
(* codebook its code was made with, serial a history field that tells two  *)
(* entries apart (the how-many-th vector ever added).  That the in-place   *)
(* deletion loop of remove_ids acts on the lists as Removed does here is   *)
(* what RemoveIds shows.                                                   *)
(***************************************************************************)
EXTENDS Integers, Sequences, FiniteSets

CONSTANTS Vectors,   \* feature vectors
          NList,     \* inverted lists
          KSub,      \* centroids of a sub-quantizer, 2^nbits
          Key        \* Key[v]: the list of v, -1 for a vector with a NaN

ASSUME KeyType == Key \in [Vectors -> -1 .. NList - 1]
ASSUME SizesAreNat == NList \in Nat \ {0} /\ KSub \in Nat \ {0}

Entry == [serial : Nat, id : Nat, vec : Vectors, book : Nat]

Index == [is_trained : BOOLEAN, ntotal : Nat, nprobe : Nat,
          coarse : BOOLEAN,          \* the quantizer holds its nlist centroids
          book : Nat,                \* generation of the PQ codebook, 0: none
          entries : SUBSET Entry,
          added : Nat,               \* history: vectors ever passed to add
          ignored : Nat,             \* history: of those, the unindexed ones
          holed : BOOLEAN]           \* history: a delete left labels above it

NewIndex(p) == [is_trained |-> FALSE, ntotal |-> 0, nprobe |-> p,
                coarse |-> FALSE, book |-> 0, entries |-> {},
                added |-> 0, ignored |-> 0, holed |-> FALSE]

\* k-means wants as many vectors as centroids, the coarse one only once.
TrainThrows(ix, n) == (~ix.coarse /\ n < NList) \/ n < KSub

\* A trained coarse quantizer is kept; the PQ codebook is always learnt anew.
Trained(ix) == [ix EXCEPT !.coarse = TRUE, !.book = @ + 1, !.is_trained = TRUE]

Indexed(xs) == {i \in 1 .. Len(xs) : Key[xs[i]] >= 0}

\* The entries add makes of xs: labels go on from base, one per vector.
NewEntries(ix, xs, base) ==
  {[serial |-> ix.added + i, id |-> base + i - 1, vec |-> xs[i], book |-> ix.book] :
     i \in Indexed(xs)}

AddedCounting(ix, xs, counted) ==
  [ix EXCEPT !.entries = @ \cup NewEntries(ix, xs, ix.ntotal),
             !.ntotal = @ + counted, !.added = @ + Len(xs),
             !.ignored = @ + Cardinality(1 .. Len(xs) \ Indexed(xs))]

\* Faulty: ntotal counts the vectors that were indexed, labels do not.
AddedIndexedOnly(ix, xs) == AddedCounting(ix, xs, Cardinality(Indexed(xs)))

\* Vectors without a list are not indexed, but ntotal counts them.
Added(ix, xs) == AddedCounting(ix, xs, Len(xs))

InRange(ix, lo, hi) == {e \in ix.entries : lo <= e.id /\ e.id < hi}

RemovedCounting(ix, lo, hi, nremove) ==
  LET gone == InRange(ix, lo, hi)
  IN  [ix EXCEPT !.entries = @ \ gone, !.ntotal = @ - nremove,
                 !.holed = @ \/ \E e \in gone, f \in ix.entries \ gone : f.id >= e.id]

\* Faulty: ntotal drops by the width of the range, not by what it held.
RemovedWidth(ix, lo, hi) == RemovedCounting(ix, lo, hi, hi - lo)

Removed(ix, lo, hi) ==
  RemovedCounting(ix, lo, hi, Cardinality(InRange(ix, lo, hi)))
=============================================================================
