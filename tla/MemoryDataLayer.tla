-------------------------- MODULE MemoryDataLayer --------------------------
(***************************************************************************)
(* caffe's MemoryDataLayer: images that the caller hands over in memory    *)
(* are shown to the network one batch at a time, round and round.  The     *)
(* images are either copied into the layer's own blob added_data_ or stay  *)
(* in an array of the caller (Reset).                                      *)
(*                                                                         *)
(* data_ is a bare pointer: to the blob's memory ("added"), to memory the  *)
(* blob has given up since ("freed"), to the caller's array ("caller"), or *)
(* null.  A label travels with its image and is not modelled by itself.    *)
(* A CHECK that fails aborts the process.                                  *)
(***************************************************************************)
EXTENDS Integers, Sequences

CONSTANTS Callers,      \* who hands images over; an image is its owner and
                        \* its place in what was handed over
          Zero,         \* an item of the blob that was never written
          Outside,      \* an item read past the end of an array
          FirstBatch,   \* memory_data_param().batch_size()
          MaxAdded      \* bound: images handed over at once

ASSUME FirstBatchPositive == FirstBatch \in Nat \ {0}
ASSUME MaxAddedNat == MaxAdded \in Nat

VARIABLES batch_size,
          memory,        \* what added_data_'s memory holds; Len is its capacity
          data,          \* where data_ points
          array,         \* the caller's array, when data_ points there
          n, pos,        \* n_ and pos_
          has_new_data,
          top,           \* the items top[0] showed at the last Forward
          aborted,
          source,        \* history: the images data_ was last set to
          shown,         \* history: calls of Forward since then
          resized        \* history: set_batch_size was called since then

layerVars == <<batch_size, memory, data, array, n, pos, has_new_data, top,
               aborted, source, shown, resized>>

Images == Callers \X (1 .. MaxAdded)

Arrays == {[i \in 1 .. m |-> <<c, i>>] : c \in Callers, m \in 0 .. MaxAdded}

Zeros(m) == [i \in 1 .. m |-> Zero]

LayerInit ==
  /\ batch_size = FirstBatch
  /\ memory = Zeros(FirstBatch)
  /\ data = "null" /\ array = << >>
  /\ n = 0 /\ pos = 0
  /\ has_new_data = FALSE
  /\ top = << >>
  /\ aborted = FALSE
  /\ source = << >> /\ shown = 0 /\ resized = FALSE

Abort ==
  /\ aborted' = TRUE
  /\ UNCHANGED <<batch_size, memory, data, array, n, pos, has_new_data, top,
                 source, shown, resized>>

-----------------------------------------------------------------------------
\* Reset(data, labels, n), from the caller or from an Add.
PointTo(where, images) ==
  /\ data' = where
  /\ n' = Len(images) /\ pos' = 0
  /\ source' = images /\ shown' = 0 /\ resized' = FALSE

\* Blob::Reshape to as many items: new memory only if the old is too small.
Enough(m) == Len(memory) >= m

CopyIn(images) ==
  memory' = IF Enough(Len(images))
              THEN images \o SubSeq(memory, Len(images) + 1, Len(memory))
              ELSE images

Take(images) ==
  /\ CopyIn(images)
  /\ PointTo("added", images)
  /\ has_new_data' = TRUE
  /\ UNCHANGED <<batch_size, array, top, aborted>>

\* fit: every image passes the transformer's CHECKs of size, channels and depth.
Acceptable(images, fit) == images # << >> /\ Len(images) % batch_size = 0 /\ fit

\* Faulty: images may be added before the earlier ones are consumed.
AddVectorAnytime(images, fit) ==
  \/ Acceptable(images, fit) /\ Take(images)
  \/ ~Acceptable(images, fit) /\ Abort

\* AddMatVector and AddDatumVector.
AddVector(images, fit) ==
  \/ ~has_new_data /\ Acceptable(images, fit) /\ Take(images)
  \/ (has_new_data \/ ~Acceptable(images, fit)) /\ Abort

\* Faulty: whatever the length of the array.
ResetAnyLength(images) ==
  /\ PointTo("caller", images)
  /\ array' = images
  /\ UNCHANGED <<batch_size, memory, has_new_data, top, aborted>>

\* Reset, called by the caller on an array of its own.
Reset(images) ==
  \/ /\ Len(images) % batch_size = 0
     /\ PointTo("caller", images)
     /\ array' = images
     /\ UNCHANGED <<batch_size, memory, has_new_data, top, aborted>>
  \/ Len(images) % batch_size # 0 /\ Abort

\* set_batch_size: the blob is reshaped, data_ and n_ stay as they are.
SetBatchSize(size) ==
  \/ /\ ~has_new_data
     /\ batch_size' = size
     /\ resized' = TRUE
     /\ memory' = IF Enough(size) THEN memory ELSE Zeros(size)
     /\ data' = IF data = "added" /\ ~Enough(size) THEN "freed" ELSE data
     /\ UNCHANGED <<array, n, pos, has_new_data, top, aborted, source, shown>>
  \/ has_new_data /\ Abort

At(i) == CASE data = "added"  -> IF i <= Len(memory) THEN memory[i] ELSE Outside
           [] data = "caller" -> IF i <= Len(array) THEN array[i] ELSE Outside
           [] data = "freed"  -> Outside

ForwardWith(news) ==
  \/ /\ data # "null" /\ n > 0
     /\ top' = [i \in 1 .. batch_size |-> At(pos + i)]
     /\ pos' = (pos + batch_size) % n
     /\ has_new_data' = news
     /\ shown' = shown + 1
     /\ UNCHANGED <<batch_size, memory, data, array, n, aborted, source, resized>>
  \/ (data = "null" \/ n = 0) /\ Abort       \* CHECK(data_); pos_ % 0

\* Faulty: the data never count as consumed.
ForwardNeverDone == ForwardWith(has_new_data)

\* Forward_cpu.
Forward == ForwardWith(has_new_data /\ pos' # 0)

-----------------------------------------------------------------------------
LayerNext ==
  /\ ~aborted
  /\ \/ \E images \in Arrays, fit \in BOOLEAN : AddVector(images, fit)
     \/ \E images \in Arrays : Reset(images)
     \/ \E size \in 1 .. MaxAdded : SetBatchSize(size)
     \/ Forward
=============================================================================
