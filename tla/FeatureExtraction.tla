------------------------- MODULE FeatureExtraction -------------------------
(***************************************************************************)
(* A network's data layer and what runs over it: the extraction functions  *)
(* of class Feature over the prefetching layer of a list of images, the    *)
(* one over the memory layer, or callers that use a memory layer directly. *)
(* Which one is settled by the network's prototxt and by the program.      *)
(***************************************************************************)
EXTENDS ImageExtraction, MemoryExtraction

CONSTANT MaxShown       \* bound on a direct caller's Forwards on one array

ASSUME MaxShownNat == MaxShown \in Nat
ASSUME ScoresAreInt ==
  \A image \in Images \cup {Line(i) : i \in 1 .. N} : Score(image) \in [Classes -> Int]

VARIABLE use            \* "list", "memory" or "direct"

vars == <<callVars, listVars, layerVars, proper, use>>

Init ==
  /\ ImageInit /\ LayerInit
  /\ proper = TRUE
  /\ use \in {"list", "memory", "direct"}

Next ==
  /\ \/ use = "list" /\ ImageNext /\ UNCHANGED <<layerVars, proper>>
     \/ use = "memory" /\ MemoryNext /\ UNCHANGED listVars
     \/ /\ use = "direct" /\ LayerNext /\ shown' <= MaxShown
        /\ UNCHANGED <<callVars, listVars, proper>>
  /\ UNCHANGED use

Spec == Init /\ [][Next]_vars

-----------------------------------------------------------------------------
Item == Images \cup {Zero, Outside}

TypeOK ==
  /\ at \in {"idle", "batches", "written"}
  /\ count \in 0 .. MaxCount
  /\ batch_index \in 0 .. num_mini_batches
  /\ DOMAIN feature_dbs = DOMAIN class_re
  /\ forwards \in 0 .. MaxForwards /\ first \in 0 .. forwards
  /\ batch_size \in Nat \ {0}
  /\ memory \in Seq(Images \cup {Zero})
  /\ data \in {"null", "added", "freed", "caller"}
  /\ array \in Seq(Images) /\ source \in Seq(Images)
  /\ n \in Nat /\ shown \in Nat
  /\ pos \in Nat /\ (n > 0 => pos < n)
  /\ has_new_data \in BOOLEAN /\ aborted \in BOOLEAN /\ resized \in BOOLEAN
  /\ top \in Seq(Item)

\* Over a list, row k of a call is line k counted from the batch at which the
\* call began, also when the list comes round inside the call.
RowsFollowTheList ==
  use = "list" /\ at = "written" =>
    \A k \in 0 .. count - 1 : feature_dbs[k] = Line(first * BatchSize + k + 1)

\* Over memory, row k is image k of this call's images, never of an earlier
\* call's, whatever was left of those; a count beyond the images starts again
\* with the first.
RowsAreOwn ==
  use = "memory" /\ at = "written" =>
    \A k \in 0 .. count - 1 : feature_dbs[k] = source[1 + (k % Len(source))]

\* Rows that a loop over whole batches wrote, and the classes they should have
\* by the scores alone.
WholeRows == {k \in DOMAIN feature_dbs : k < batch_index * BatchSize}
Best(s) == {k \in Classes : \A j \in Classes : s[j] <= s[k]}

\* A class stored by the loop over whole batches is one of the highest score
\* and belongs to the image whose feature is in the same row, unless all
\* scores of the image are -1 or less: then it is -1, which is no class
\* (VehicleAttr/color_class.txt:1-11 lists 0 to 10).
ClassOfRow ==
  \A k \in WholeRows :
    LET s == Score(feature_dbs[k])
    IN  IF \E j \in Classes : s[j] > Start THEN class_re[k] \in Best(s)
                                           ELSE class_re[k] = -1

(* The variables have their values; every row of a call, of a whole batch  *)
(* and of the remainder alike, is written when the call returns and has    *)
(* the feature of the image it stands for; in whole batches the class is   *)
(* that image's.                                                           *)
RowsExact == TypeOK /\ RowsFollowTheList /\ RowsAreOwn /\ ClassOfRow

(* src/src/cfeature/Feature.cpp:202, "write the remain batch": the rows of *)
(* the remainder hold what the loop over whole batches stores.  They hold  *)
(* the score itself.                                                       *)
RemainderIsClass ==
  at = "written" =>
    \A k \in DOMAIN class_re : class_re[k] = MaxId(Score(feature_dbs[k]))

(* A remainder throws the rest of its batch away: the next call starts     *)
(* less than a batch further on in the list, and only after a remainder.   *)
GapsAreRemainders ==
  [][use = "list" /\ at = "idle" /\ at' = "batches" =>
       LET gap == first' * BatchSize - (first * BatchSize + count)
       IN  gap \in 0 .. BatchSize - 1 /\ (remain = 0 => gap = 0)]_vars

\* The items that a call for count rows has drawn.
Drawn == (num_mini_batches + (IF remain > 0 THEN 1 ELSE 0)) * BatchSize

(* A caller that asks for as many features as it gives images, in whole    *)
(* batches and of a size and depth that the transformer accepts, is never  *)
(* aborted, however often it calls.  A call that asks for less than its    *)
(* images leaves the layer closed, so that the next call aborts the        *)
(* process, and only such a call does.                                     *)
MemoryCalls ==
  use = "memory" =>
    /\ proper => ~aborted
    /\ at = "written" => (has_new_data <=> Drawn < Len(source))

\* The items of the m-th batch of the source, which goes round.
Chunk(m) ==
  [i \in 1 .. batch_size |-> source[1 + (((m - 1) * batch_size + i - 1) % n)]]

\* The layer never keeps a caller waiting: once all added images were shown, it
\* accepts new ones, and not before.
ConsumedIsFree ==
  data = "added" /\ ~resized => (has_new_data <=> shown * batch_size < n)

(* The m-th Forward since the images were handed over shows the m-th chunk *)
(* of them, and the layer takes new images as soon as all were shown: the  *)
(* cursor never runs past them and comes round exactly at their end        *)
(* (Forward_cpu), whatever was added, reset or refused before, as long as  *)
(* the size of a batch stays.  After set_batch_size the cursor may run     *)
(* over an array that is no multiple of the size, or is freed, although    *)
(* docs/tutorial/layers/memorydata.md:12 says the source "is read one      *)
(* batch-sized chunk at a time".                                           *)
ChunksInOrder ==
  /\ ConsumedIsFree
  /\ ~resized /\ shown > 0 => top = Chunk(shown)

\* The images in the blob give way to others, or begin again with the first.
Replaced == data' = "added" /\ (source' # source \/ shown' < shown)

(* Images that were added are all shown before others take their place in  *)
(* the blob, also if none of them was shown yet ("Can't add data until     *)
(* current data has been consumed."), unless the caller itself has pointed *)
(* the layer elsewhere.                                                    *)
AddedAreShown ==
  [][data = "added" /\ ~resized /\ Replaced => shown * batch_size >= n]_vars
=============================================================================
