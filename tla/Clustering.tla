----------------------------- MODULE Clustering -----------------------------
(***************************************************************************)
(* Clustering::train (faiss/Clustering.cpp), called any number of times on *)
(* one object and one index, with km_update_centroids (faiss/utils.cpp)    *)
(* and its OpenMP team.  IndexIVF::train uses it for the coarse quantizer, *)
(* ProductQuantizer::train for the codebooks.                              *)
(*                                                                         *)
(* A table of centroids is named by where it comes from: <<call, redo,     *)
(* iteration>>.  The index, an IndexFlatL2, is empty or holds one table.   *)
(* The sum of distances is a number up to Inf; best_err, a float, is Inf   *)
(* at first (1e50 does not fit).                                           *)
(***************************************************************************)
EXTENDS Integers, Sequences, FiniteSets

CONSTANTS k,             \* centroids
          niter,
          Redos, Samples, \* what the fields nredo and
                         \* max_points_per_centroid may be
          nt,            \* threads of the team
          Inf,
          None,          \* an empty table, an empty index
          MaxPoints,     \* bound on the points of a call
          MaxRedos       \* bound on the redos of all calls

ASSUME Parameters ==
  /\ k \in Nat \ {0} /\ nt \in Nat \ {0}
  /\ niter \in Nat \ {0} /\ Redos \subseteq Nat \ {0}
  /\ Samples \subseteq Nat \ {0}
  /\ Inf \in Nat \ {0}
ASSUME Bounds == MaxPoints \in Nat /\ MaxRedos \in Nat

Clusters == 0 .. k - 1
Points(n) == 1 .. n

VARIABLES nredo, max_points_per_centroid,
          Asserts,       \* built with assert()
          pc,
          centroids,     \* the object's table
          index,         \* what the index holds
          nx, redo, iter,
          cur,           \* cur_centroids
          assign,
          counted,       \* threads done with the histogram
          hassign,       \* the histogram: sizes of the clusters
          ci, cj,
          err, best_err,
          placed,        \* history: the points that have a cluster
          calls, given,  \* history: calls so far, the table at the last
          errs           \* history: the error of each redo of this call

loop    == <<nx, redo, iter>>
history == <<calls, given, errs>>
params  == <<nredo, max_points_per_centroid, Asserts>>
vars == <<pc, centroids, index, loop, cur, assign, counted, hassign, ci, cj,
          err, best_err, placed, history, params>>

Init ==
  /\ nredo \in Redos /\ max_points_per_centroid \in Samples
  /\ Asserts \in BOOLEAN
  /\ pc = "idle"
  /\ centroids = None /\ index = None
  /\ nx = 0 /\ redo = 0 /\ iter = 0
  /\ cur = None
  /\ assign = << >> /\ counted = {}
  /\ hassign = [c \in Clusters |-> 0]
  /\ ci = 0 /\ cj = 0
  /\ err = 0 /\ best_err = Inf
  /\ placed = {}
  /\ calls = 0 /\ given = None /\ errs = << >>

-----------------------------------------------------------------------------
\* The caller's own table, of the right size, and one of another size: no call
\* has the number 0.
Own == <<0, 0, 0>>
OddSize == <<0, 0, 1>>

\* The caller, between two calls: the table is public, the index its own.
SetTable ==
  /\ pc = "idle" /\ centroids' \in {None, Own, OddSize}
  /\ UNCHANGED <<pc, index, loop, cur, assign, counted, hassign, ci, cj, err,
                 best_err, placed, history>>

ResetIndex ==
  /\ pc = "idle" /\ index' = None
  /\ UNCHANGED <<pc, centroids, loop, cur, assign, counted, hassign, ci, cj, err,
                 best_err, placed, history>>

Sampled(n) == IF n > k * max_points_per_centroid THEN k * max_points_per_centroid ELSE n

\* train up to its loop: it throws on too few points or one that is not finite.
Train(n, isfinite) ==
  /\ pc = "idle" /\ (calls + 1) * nredo <= MaxRedos
  /\ calls' = calls + 1 /\ given' = centroids /\ errs' = << >>
  /\ pc' = IF n >= k /\ isfinite THEN "redo" ELSE "threw"
  /\ nx' = Sampled(n) /\ redo' = 0 /\ iter' = 0
  /\ best_err' = Inf /\ placed' = {}
  /\ UNCHANGED <<centroids, index, cur, assign, counted, hassign, ci, cj, err>>

\* cur_centroids is the object's own table if there is a single redo.
SetCurrent(table) ==
  cur' = table /\ centroids' = IF nredo = 1 THEN table ELSE centroids

\* A table given on input is used if there is a single redo; it throws on one of
\* the wrong size.
WrongSize == nredo = 1 /\ centroids = OddSize

\* The head of the outer loop.
BeginRedo ==
  /\ pc = "redo" /\ redo < nredo
  /\ SetCurrent(IF nredo = 1 /\ centroids # None THEN centroids ELSE <<calls, redo, 0>>)
  /\ IF WrongSize \/ index # None
       THEN pc' = "threw" /\ UNCHANGED index
       ELSE pc' = "search" /\ index' = cur'
  /\ iter' = 0 /\ err' = 0
  /\ UNCHANGED <<nx, redo, assign, counted, hassign, ci, cj, best_err, placed, history>>

Return ==
  /\ pc = "redo" /\ redo = nredo
  /\ pc' = "idle"
  /\ UNCHANGED <<centroids, index, loop, cur, assign, counted, hassign, ci, cj, err,
                 best_err, placed, history>>

\* index.search: a point whose distances all overflow is assigned to -1.
Search ==
  /\ pc = "search" /\ iter < niter
  /\ assign' \in [Points(nx) -> Clusters \cup {-1}]
  /\ err' \in 0 .. Inf
  /\ pc' = "count"
  /\ counted' = {} /\ hassign' = [c \in Clusters |-> 0]
  /\ placed' = {i \in Points(nx) : assign'[i] # -1}
  /\ UNCHANGED <<centroids, index, loop, cur, ci, cj, best_err, history>>

Of(c, clusters) == {i \in DOMAIN clusters : clusters[i] = c}

\* The centroids c0 to c1 - 1 that a thread of the team takes care of.
Slice(rank) == (k * rank) \div nt .. ((k * (rank + 1)) \div nt) - 1

Histogram(rank, slice) ==
  /\ pc = "count" /\ rank \in (0 .. nt - 1) \ counted
  /\ IF Asserts /\ placed # Points(nx)
       THEN pc' = "aborted" /\ UNCHANGED <<counted, hassign>>
       ELSE /\ hassign' = [c \in Clusters |->
                             IF c \in slice THEN hassign[c] + Cardinality(Of(c, assign))
                                            ELSE hassign[c]]
            /\ counted' = counted \cup {rank}
            /\ UNCHANGED pc
  /\ UNCHANGED <<centroids, index, loop, cur, assign, ci, cj, err, best_err, placed, history>>

\* Faulty: the slices are rounded down to one width.
CountRounded(rank) ==
  Histogram(rank, (k \div nt) * rank .. (k \div nt) * (rank + 1) - 1)

Count(rank) == Histogram(rank, Slice(rank))

\* The end of the team, the division by the sizes, and on to the void clusters;
\* the next search writes assign before anybody reads it again.
Divide ==
  /\ pc = "count" /\ counted = 0 .. nt - 1
  /\ pc' = "void" /\ ci' = 0 /\ assign' = << >>
  /\ UNCHANGED <<centroids, index, loop, cur, counted, hassign, cj, err,
                 best_err, placed, history>>

NextCluster ==
  /\ pc = "void" /\ ci < k
  /\ IF hassign[ci] # 0 THEN ci' = ci + 1 /\ UNCHANGED <<pc, cj>>
                        ELSE pc' = "donor" /\ cj' = 0 /\ UNCHANGED ci
  /\ UNCHANGED <<centroids, index, loop, cur, assign, counted, hassign, err,
                 best_err, placed, history>>

\* r < p, for a random r from 0 to 1 and p = (hassign[cj] - 1) / (n - k), which
\* is infinite or no number when n = k.
MayPick == hassign[cj] > 1
MayPass == hassign[cj] <= 1 \/ (nx > k /\ hassign[cj] - 1 <= nx - k)

PassOver ==
  /\ pc = "donor" /\ MayPass
  /\ cj' = (cj + 1) % k
  /\ UNCHANGED <<pc, centroids, index, loop, cur, assign, counted, hassign, ci, err,
                 best_err, placed, history>>

\* Faulty: the half is not taken from the donor.
SplitCopies ==
  /\ pc = "donor" /\ MayPick
  /\ hassign' = [hassign EXCEPT ![ci] = hassign[cj] \div 2]
  /\ pc' = "void" /\ ci' = ci + 1
  /\ UNCHANGED <<centroids, index, loop, cur, assign, counted, cj, err, best_err,
                 placed, history>>

\* Half of the cluster moves, rounded down.
Split ==
  /\ pc = "donor" /\ MayPick
  /\ hassign' = [hassign EXCEPT ![ci] = hassign[cj] \div 2,
                                ![cj] = hassign[cj] - hassign[cj] \div 2]
  /\ pc' = "void" /\ ci' = ci + 1
  /\ UNCHANGED <<centroids, index, loop, cur, assign, counted, cj, err, best_err,
                 placed, history>>

\* Faulty: the index keeps the centroids of the iteration before.
UpdatedStale ==
  /\ pc = "void" /\ ci = k
  /\ SetCurrent(<<calls, redo, iter + 1>>)
  /\ iter' = iter + 1 /\ pc' = "search"
  /\ UNCHANGED <<index, nx, redo, assign, counted, hassign, ci, cj, err, best_err,
                 placed, history>>

\* The centroids are new; the index is emptied and gets them.
Updated ==
  /\ pc = "void" /\ ci = k
  /\ SetCurrent(<<calls, redo, iter + 1>>)
  /\ index' = cur'
  /\ iter' = iter + 1 /\ pc' = "search"
  /\ UNCHANGED <<nx, redo, assign, counted, hassign, ci, cj, err, best_err, placed, history>>

Keep(better) ==
  IF nredo = 1 THEN UNCHANGED <<centroids, index, best_err>>
  ELSE /\ index' = None
       /\ IF better THEN centroids' = cur /\ best_err' = err
                    ELSE UNCHANGED <<centroids, best_err>>

EndRedoWith(better) ==
  /\ pc = "search" /\ iter = niter
  /\ errs' = Append(errs, err)
  /\ Keep(better)
  /\ redo' = redo + 1 /\ pc' = "redo"
  /\ UNCHANGED <<nx, iter, cur, assign, counted, hassign, ci, cj, err, placed, calls, given>>

\* Faulty: the last table is kept.
EndRedoLast == EndRedoWith(TRUE)

EndRedo == EndRedoWith(err < best_err)

-----------------------------------------------------------------------------
Iterate ==
  \/ BeginRedo \/ Return \/ Search
  \/ (\E rank \in 0 .. nt - 1 : Count(rank)) \/ Divide
  \/ NextCluster \/ PassOver \/ Split
  \/ Updated \/ EndRedo

Next ==
  /\ \/ SetTable \/ ResetIndex
     \/ \E n \in 0 .. MaxPoints, isfinite \in BOOLEAN : Train(n, isfinite)
     \/ Iterate
  /\ UNCHANGED params

\* The program keeps running, and a random number that may be below p again
\* and again is so at last.
Fairness ==
  /\ WF_vars(Iterate /\ UNCHANGED params)
  /\ \A c \in Clusters : SF_vars(cj = c /\ Split /\ UNCHANGED params)

Spec == Init /\ [][Next]_vars /\ Fairness

-----------------------------------------------------------------------------
Tables == ((0 .. MaxRedos) \X (0 .. nredo - 1) \X (0 .. niter)) \cup {None}

(* The values of the variables; no more points than the parameters allow.  *)
TypeOK ==
  /\ pc \in {"idle", "redo", "search", "count", "void", "donor", "threw", "aborted"}
  /\ centroids \in Tables /\ index \in Tables /\ cur \in Tables /\ given \in Tables
  /\ nx \in 0 .. MaxPoints /\ nx <= k * max_points_per_centroid
  /\ redo \in 0 .. nredo /\ iter \in 0 .. niter
  /\ hassign \in [Clusters -> Nat]
  /\ ci \in 0 .. k /\ cj \in Clusters
  /\ err \in 0 .. Inf /\ best_err \in 0 .. Inf
  /\ placed \subseteq Points(nx)
  /\ calls \in 0 .. MaxRedos

Updating == pc \in {"void", "donor"}

\* The sizes are those of some distribution of the points that were assigned.
SizesAddUp ==
  Updating =>
    \E f \in [placed -> Clusters] :
      \A c \in Clusters : hassign[c] = Cardinality(Of(c, f))

\* Those before ci have a point, also after they have given half to another.
NoVoidCluster == Updating => \A c \in Clusters : c < ci => hassign[c] > 0

(* The histogram and its repairs lose and invent no point, whatever the    *)
(* order of the threads and the width of their slices, and no cluster      *)
(* stays void.                                                             *)
EveryClusterHasItsPoints == TypeOK /\ SizesAddUp /\ NoVoidCluster

(* After several redos the table is that of a redo with the least error,   *)
(* or as it was given when all errors were infinite.                       *)
BestIsKept ==
  pc = "redo" /\ redo = nredo /\ nredo > 1 =>
    IF \A q \in DOMAIN errs : errs[q] = Inf THEN centroids = given
    ELSE \E r \in DOMAIN errs :
           /\ centroids = <<calls, r - 1, niter>>
           /\ \A q \in DOMAIN errs : errs[r] <= errs[q]

(* With a single redo the index holds the table when train returns.        *)
OutputIsIndexed ==
  [][pc = "redo" /\ pc' = "idle" /\ nredo = 1 => index' = centroids']_vars

(* src/faiss/Clustering.h:48-49: on output the table is set to the latest  *)
(* centroids "and they are also added to the index", said of every train.  *)
(* After several redos the index is empty.                                 *)
TrainedIsIndexed ==
  [][pc = "redo" /\ pc' = "idle" => index' = centroids']_vars

(* train returns or ends in an error.  The search for a cluster to split   *)
(* has no other exit than finding one: as many points as centroids were    *)
(* assigned, so there is one.  Only a build without asserts may search for *)
(* ever, after distances that overflowed.                                  *)
Returns ==
  pc = "redo" ~> \/ pc \in {"idle", "threw", "aborted"}
                 \/ ~Asserts /\ placed # Points(nx)
=============================================================================
