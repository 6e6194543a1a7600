-------------------------- MODULE MemoryExtraction -------------------------
(***************************************************************************)
(* MemoryPictureAttrFeatureExtraction: the images are handed to the memory *)
(* layer of the network first, then extracted as in the other functions.   *)
(* The count is an argument of its own and need not be the number of       *)
(* images.                                                                 *)
(***************************************************************************)
EXTENDS BatchExtraction, MemoryDataLayer

ASSUME SameBatch == BatchSize = FirstBatch

VARIABLE proper   \* history: every call so far had as many images as its
                  \* count, in whole batches, and fit for the transformer

CallMemory(c, images, fit) ==
  /\ at = "idle"
  /\ AddVector(images, fit)
  /\ IF aborted' THEN UNCHANGED callVars ELSE Begin(c)
  /\ proper' = (proper /\ c = Len(images) /\ Acceptable(images, fit))

MemoryBatch == Forward /\ CopyBatch(top') /\ UNCHANGED proper

MemoryRemain == Forward /\ CopyRemain(top') /\ UNCHANGED proper

MemoryExact == NoRemain /\ UNCHANGED <<layerVars, proper>>

MemoryReturn == Finish /\ UNCHANGED <<layerVars, proper>>

MemoryNext ==
  /\ ~aborted
  /\ \/ \E c \in 0 .. MaxCount, images \in Arrays, fit \in BOOLEAN :
          CallMemory(c, images, fit)
     \/ MemoryBatch \/ MemoryRemain \/ MemoryExact \/ MemoryReturn
=============================================================================
