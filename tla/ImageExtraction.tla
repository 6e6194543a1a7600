-------------------------- MODULE ImageExtraction --------------------------
(***************************************************************************)
(* Feature extraction over the prefetching image layer:                    *)
(* PictureFeatureExtraction, PictureAttrFeatureExtraction and              *)
(* PictureAttrExtraction, called one after the other on one network.       *)
(*                                                                         *)
(* The layer is what PrefetchingDataLayer shows it to be: the m-th Forward *)
(* shows the m-th batch, and the batches are the lines of the list in      *)
(* order, round and round (ServedInOrder, EachPassComplete; no shuffle).   *)
(***************************************************************************)
EXTENDS BatchExtraction

CONSTANTS N,            \* lines in the list of images
          MaxForwards   \* bound on the batches of all calls

ASSUME NPositive == N \in Nat \ {0}
ASSUME MaxForwardsNat == MaxForwards \in Nat

VARIABLES forwards,     \* calls of Forward so far
          first         \* history: forwards when the call began

listVars == <<forwards, first>>

\* The image of a line is named by the line.
Line(i) == <<"line", 1 + ((i - 1) % N)>>

\* The batch that the m-th Forward shows.
Shown(m) == [i \in 1 .. BatchSize |-> Line((m - 1) * BatchSize + i)]

ImageInit ==
  /\ CallInit
  /\ forwards = 0 /\ first = 0

Call(c) ==
  /\ forwards + 1 + (c \div BatchSize) <= MaxForwards
  /\ Begin(c)
  /\ first' = forwards
  /\ UNCHANGED forwards

\* Faulty: one more batch is drawn than is used.
FullBatchDropsOne ==
  /\ forwards' = forwards + 2
  /\ CopyBatch(Shown(forwards + 2))
  /\ UNCHANGED first

FullBatch ==
  /\ forwards' = forwards + 1
  /\ CopyBatch(Shown(forwards'))
  /\ UNCHANGED first

\* Faulty: the last batch is taken for the remainder.
RemainBatchAgain ==
  /\ CopyRemain(Shown(forwards))
  /\ UNCHANGED listVars

RemainBatch ==
  /\ forwards' = forwards + 1
  /\ CopyRemain(Shown(forwards'))
  /\ UNCHANGED first

Exact == NoRemain /\ UNCHANGED listVars

Return == Finish /\ UNCHANGED listVars

ImageNext ==
  \/ \E c \in 0 .. MaxCount : Call(c)
  \/ FullBatch \/ RemainBatch \/ Exact \/ Return
=============================================================================
