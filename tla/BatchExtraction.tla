-------------------------- MODULE BatchExtraction --------------------------
(***************************************************************************)
(* One call of the functions of class Feature that run the network over    *)
(* count images (src/src/cfeature/Feature.cpp): a loop of whole batches,   *)
(* then the remainder from one more batch.  The functions differ in where  *)
(* the images come from (ImageExtraction, MemoryExtraction) and in whether *)
(* they store the feature, the two classes (colour and type, one here), or *)
(* all of them.                                                            *)
(*                                                                         *)
(* The feature of an image is named by the image.  Its scores, one per     *)
(* class, are in tenths: the array of classes is of int.                   *)
(***************************************************************************)
EXTENDS Integers, Sequences

CONSTANTS BatchSize,    \* the blob's num()
          NClasses,     \* the classifier's outputs
          Score(_),     \* of an image: its scores, a function of the class
          MaxCount,     \* bound on the images of one call
          Unwritten     \* what new int[count] and new float[] hold

ASSUME BatchSizePositive == BatchSize \in Nat \ {0}
ASSUME BoundsAreNat == NClasses \in Nat /\ MaxCount \in Nat

Classes == 0 .. NClasses - 1

VARIABLES at,           \* "idle", "batches" or "written"
          count, batch_index,
          feature_dbs, class_re

callVars == <<at, count, batch_index, feature_dbs, class_re>>

num_mini_batches == count \div BatchSize
remain == count - num_mini_batches * BatchSize

CallInit ==
  /\ at = "idle"
  /\ count = 0 /\ batch_index = 0
  /\ feature_dbs = << >> /\ class_re = << >>

-----------------------------------------------------------------------------
Tenths == 10

\* float to int drops the fraction.
ToInt(score) == IF score >= 0 THEN score \div Tenths ELSE -((-score) \div Tenths)

\* max starts at -1, and so does max_id.
Start == -Tenths

Above(s) == {k \in Classes : s[k] > Start}

Highest(s) == {k \in Above(s) : \A j \in Classes : s[j] <= s[k]}

\* The first class of the highest score, in the loops over whole batches.
MaxId(s) == IF Above(s) = {} THEN -1
            ELSE CHOOSE k \in Highest(s) : \A j \in Highest(s) : k <= j

\* The loops over the remainder keep max only, and store it.
MaxScore(s) == IF Above(s) = {} THEN ToInt(Start)
               ELSE ToInt(s[CHOOSE k \in Highest(s) : TRUE])

\* What is stored as the class of an image by the loops over whole batches, or
\* by those over the remainder.
Class(image, whole) ==
  IF whole THEN MaxId(Score(image)) ELSE MaxScore(Score(image))

\* Rows of the results that come from the batch shown by the network's input,
\* stored from row first on.
Store(whole, shown, first, rows) ==
  LET Here(k) == k \in first .. first + rows - 1
      image(k) == shown[1 + (k - first)]
  IN  /\ feature_dbs' = [k \in 0 .. count - 1 |->
                           IF Here(k) THEN image(k) ELSE feature_dbs[k]]
      /\ class_re' = [k \in 0 .. count - 1 |->
                        IF Here(k) THEN Class(image(k), whole) ELSE class_re[k]]

-----------------------------------------------------------------------------
Begin(c) ==
  /\ at = "idle" /\ at' = "batches"
  /\ count' = c /\ batch_index' = 0
  /\ feature_dbs' = [k \in 0 .. c - 1 |-> Unwritten]
  /\ class_re' = [k \in 0 .. c - 1 |-> Unwritten]

CopyBatch(shown) ==
  /\ at = "batches" /\ batch_index < num_mini_batches
  /\ Store(TRUE, shown, batch_index * BatchSize, BatchSize)
  /\ batch_index' = batch_index + 1
  /\ UNCHANGED <<at, count>>

CopyRemain(shown) ==
  /\ at = "batches" /\ batch_index = num_mini_batches
  /\ remain > 0
  /\ Store(FALSE, shown, num_mini_batches * BatchSize, remain)
  /\ at' = "written"
  /\ UNCHANGED <<count, batch_index>>

NoRemain ==
  /\ at = "batches" /\ batch_index = num_mini_batches
  /\ remain = 0
  /\ at' = "written"
  /\ UNCHANGED <<count, batch_index, feature_dbs, class_re>>

Finish == /\ at = "written" /\ at' = "idle"
          /\ UNCHANGED <<count, batch_index, feature_dbs, class_re>>
=============================================================================
