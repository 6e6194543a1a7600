-------------------------- MODULE MCIndexAndSearch --------------------------
(***************************************************************************)
(* The programs over the index file, or one search of an index in memory.  *)
(* Two processes and two rows: a builder and a reader, two builders and two*)
(* readers overlap, are killed and start again.  A search has five codes in*)
(* two lists and a heap of four, which has three levels; ties, distances   *)
(* that are no number, three probes of two lists; no limit on the codes    *)
(* scanned, or one of two.  A search ends, the programs never do.          *)
(***************************************************************************)
EXTENDS IndexPrograms, KnnSearch, TLC

VARIABLE followed      \* "programs" or "search"

ProcSymmetry == Permutations(Procs)

MCCentroids == [Lists -> {0, 1, Neutral}]

\* Every way to cut a sequence of distances in two.
MCContents ==
  UNION {{[l \in Lists |-> IF l = 0 THEN SubSeq(s, 1, cut) ELSE SubSeq(s, cut + 1, Len(s))] :
            s \in [1 .. m -> 0 .. Neutral], cut \in 0 .. m} : m \in 0 .. MaxCodes}

MCInit ==
  \/ /\ followed = "programs"
     /\ max_codes = 0 /\ coarse = [l \in Lists |-> 0] /\ codes = [l \in Lists |-> << >>]
     /\ Init /\ SearchInit
  \/ /\ followed = "search"
     /\ prog = [p \in Procs |-> "query"]
     /\ Init /\ SearchInit

Ended == stage = "done" /\ UNCHANGED searchVars

MCNext ==
  /\ \/ followed = "programs" /\ Next /\ UNCHANGED searchVars
     \/ followed = "search" /\ (SearchNext \/ Ended) /\ UNCHANGED vars
  /\ UNCHANGED followed

MCSpec == MCInit /\ [][MCNext]_<<vars, searchVars, followed>>
=============================================================================
