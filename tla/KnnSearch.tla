------------------------------ MODULE KnnSearch ------------------------------
(***************************************************************************)
(* IndexIVFPQ::search for one query (faiss/IndexIVFPQ.cpp), which          *)
(* FeatureIndex::RetievalIndex calls: the coarse quantizer gives the keys  *)
(* of the nprobe nearest lists, the lists are scanned one after the other  *)
(* into a heap of k results, and the heap is sorted.  Queries are shared   *)
(* out among threads, and none touches anything of another.                *)
(***************************************************************************)
EXTENDS ResultHeap, FiniteSets

CONSTANTS nlist, nprobe, k,
          Limits,        \* what the field max_codes may be; 0: no limit
          Centroids,     \* bound: the distances to the centroids
          Contents,      \* bound: the distances to the codes, list by list
          MaxCodes       \* bound on the codes of a list

ASSUME SearchParameters ==
  /\ nlist \in Nat \ {0} /\ nprobe \in Nat \ {0} /\ k \in Nat \ {0}
  /\ Limits \subseteq Nat /\ MaxCodes \in Nat
  /\ Centroids \subseteq [0 .. nlist - 1 -> Nat]
  /\ Contents \subseteq [0 .. nlist - 1 -> Seq(Nat)]
  /\ \A c \in Contents : \A l \in 0 .. nlist - 1 : Len(c[l]) <= MaxCodes

VARIABLES stage,
          max_codes,
          coarse,        \* the distance to the centroid of each list
          codes,         \* the distances to the codes of each list
          keys,
          ik, j,         \* the counters of the two loops
          nscan,
          heap           \* heap_sim and heap_ids

inputs == <<coarse, codes, max_codes>>
searchVars == <<stage, inputs, keys, ik, j, nscan, heap>>

Lists == 0 .. nlist - 1

\* The entries of a list; labels tell all entries of the index apart.
Entry(key, place) == [val |-> codes[key][place], id |-> key * MaxCodes + place]

SearchInit ==
  /\ stage = "coarse" /\ max_codes \in Limits
  /\ coarse \in Centroids /\ codes \in Contents
  /\ keys = << >>
  /\ ik = 1 /\ j = 1 /\ nscan = 0
  /\ heap = heapify(k)

\* quantizer->search: with too few centroids, or distances that are no
\* numbers, the last keys are -1.
CoarseSearch ==
  /\ stage = "coarse"
  /\ LET centroids == [i \in 1 .. nlist |-> [val |-> coarse[i - 1], id |-> i - 1]]
         nearest == heap_reorder(addn(heapify(nprobe), centroids))
     IN  keys' = [i \in 1 .. nprobe |-> nearest[i].id]
  /\ stage' = "probe"
  /\ UNCHANGED <<inputs, ik, j, nscan, heap>>

More == ik <= nprobe

\* No list, or a list without entries.  The code also throws on a key of nlist
\* or more; the quantizer, which has nlist centroids, gives none.
Nothing(key) == IF key < 0 THEN TRUE ELSE codes[key] = << >>

SkipList ==
  /\ stage = "probe" /\ More
  /\ Nothing(keys[ik])
  /\ ik' = ik + 1
  /\ UNCHANGED <<stage, inputs, keys, j, nscan, heap>>

OpenList ==
  /\ stage = "probe" /\ More
  /\ ~Nothing(keys[ik])
  /\ stage' = "scan" /\ j' = 1
  /\ nscan' = nscan + Len(codes[keys[ik]])
  /\ UNCHANGED <<inputs, keys, ik, heap>>

ScanCode ==
  /\ stage = "scan" /\ j <= Len(codes[keys[ik]])
  /\ heap' = Offer(heap, Entry(keys[ik], j))
  /\ j' = j + 1
  /\ UNCHANGED <<stage, inputs, keys, ik, nscan>>

Close(enough) ==
  /\ stage = "scan" /\ j > Len(codes[keys[ik]])
  /\ IF enough
       THEN stage' = "reorder" /\ UNCHANGED ik
       ELSE stage' = "probe" /\ ik' = ik + 1
  /\ UNCHANGED <<inputs, keys, j, nscan, heap>>

\* Faulty: the search goes on at the limit.
CloseListLate == Close(max_codes # 0 /\ nscan > max_codes)

\* A search may have a limit on the codes scanned.
CloseList == Close(max_codes # 0 /\ nscan >= max_codes)

AllProbed ==
  /\ stage = "probe" /\ ~More
  /\ stage' = "reorder"
  /\ UNCHANGED <<inputs, keys, ik, j, nscan, heap>>

Reorder ==
  /\ stage = "reorder"
  /\ heap' = heap_reorder(heap)
  /\ stage' = "done"
  /\ UNCHANGED <<inputs, keys, ik, j, nscan>>

SearchNext ==
  CoarseSearch \/ SkipList \/ OpenList \/ ScanCode \/ CloseList \/ AllProbed \/ Reorder

SearchSpec == SearchInit /\ [][SearchNext]_searchVars

-----------------------------------------------------------------------------
True(h) == {e \in {h[i] : i \in DOMAIN h} : e.id # -1}

\* What is left of a set of elements when the n nearest are kept: h has them,
\* with ties as it may be, and nothing twice.
KeepsNearest(h, elements) ==
  LET below == {e \in elements : e.val < Neutral}
      kept == True(h)
  IN  /\ kept \subseteq below
      /\ Cardinality({i \in DOMAIN h : h[i].id # -1}) = Cardinality(kept)
      /\ \/ kept = below
         \/ /\ Cardinality(kept) = Len(h)
            /\ \A e \in kept, other \in below \ kept : e.val <= other.val

Sorted(h) == \A i \in 1 .. Len(h) - 1 : h[i].val <= h[i + 1].val

\* The entries the loops have come past.
Scanned ==
  (UNION {{Entry(keys[i], place) : place \in 1 .. Len(codes[keys[i]])} :
            i \in {i \in 1 .. ik - 1 : keys[i] >= 0}})
  \cup IF stage = "scan" \/ (stage \in {"reorder", "done"} /\ ik <= nprobe)
         THEN {Entry(keys[ik], place) : place \in 1 .. j - 1} ELSE {}

\* The keys are those of the nearest centroids, nearest first; where there are
\* not enough, all of them and then -1.
KeysAreNearest ==
  stage # "coarse" =>
    LET near == [i \in 1 .. nprobe |->
                   IF keys[i] < 0 THEN Unused
                   ELSE [val |-> coarse[keys[i]], id |-> keys[i]]]
    IN  Sorted(near)
        /\ KeepsNearest(near, {[val |-> coarse[l], id |-> l] : l \in Lists})

\* A search that probes every list and has no limit on codes is exhaustive as
\* far as the query has a distance to the lists' centroids.
ProbeAllIsExhaustive ==
  stage = "done" /\ nprobe >= nlist /\ max_codes = 0 =>
    Scanned = UNION {{Entry(l, place) : place \in 1 .. Len(codes[l])} :
                       l \in {l \in Lists : coarse[l] < Neutral}}

\* No list is begun once as many codes as max_codes were scanned, and no search
\* is cut short before.
LimitIsKept ==
  max_codes # 0 =>
    /\ stage = "scan" => Cardinality(Scanned) - (j - 1) < max_codes
    /\ stage = "done" /\ ik <= nprobe => Cardinality(Scanned) >= max_codes

(* The search scans the lists of the nearest centroids, all of them if it  *)
(* has no limit, and with one it begins no list after the limit and stops  *)
(* not before it.                                                          *)
ListsScanned == KeysAreNearest /\ ProbeAllIsExhaustive /\ LimitIsKept

(* src/faiss/IndexIVFPQ.h:40, "max nb of codes to visit to do a query": no *)
(* search with a limit scans more codes.  The limit is tested after each   *)
(* list, and the list that reaches it is scanned to its end.               *)
VisitedWithinLimit ==
  stage = "done" /\ max_codes # 0 => Cardinality(Scanned) <= max_codes

\* A heap stays a heap and has the k nearest of all entries scanned so far.
HeapKeepsNearest ==
  stage # "done" =>
    /\ \A i \in 2 .. k : heap[i].val <= heap[i \div 2].val
    /\ KeepsNearest(heap, Scanned)

(* Through every pop followed by a push the heap has the k nearest of the  *)
(* entries scanned, each once, and what the search returns are these in    *)
(* the order of their distances, with -1 only after all of them.           *)
ResultsAreNearest ==
  /\ DOMAIN heap = 1 .. k
  /\ HeapKeepsNearest
  /\ stage = "done" => Sorted(heap) /\ KeepsNearest(heap, Scanned)
=============================================================================
