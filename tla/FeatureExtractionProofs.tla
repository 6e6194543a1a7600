---------------------- MODULE FeatureExtractionProofs ----------------------
(***************************************************************************)
(* The rows a call returns, the chunks the memory layer shows and the      *)
(* images that wait in it, for every list, every size of a batch, every    *)
(* number of images and of classes, and any scores; and the answers about  *)
(* persons, for any number of persons and any scores.                      *)
(***************************************************************************)
EXTENDS FeatureExtraction, PersonAttr, SequenceTheorems, WellFoundedInduction, TLAPS

-----------------------------------------------------------------------------
(* The inductive invariant *)

\* Whether the remainder needs a batch, and the batches the call has drawn.
Left == IF remain > 0 THEN 1 ELSE 0
Taken == batch_index + (IF at = "batches" THEN 0 ELSE Left)

CallInv ==
  /\ at \in {"idle", "batches", "written"}
  /\ count \in 0 .. MaxCount
  /\ batch_index \in Nat /\ batch_index <= num_mini_batches
  /\ at # "batches" => batch_index = num_mini_batches
  /\ DOMAIN feature_dbs = 0 .. count - 1
  /\ DOMAIN class_re = 0 .. count - 1
  /\ use \in {"list", "memory", "direct"}
  /\ use = "direct" => at = "idle" /\ count = 0

\* The batches drawn from the list are those of the calls before, and this one's.
ListInv ==
  /\ forwards \in Nat /\ first \in Nat
  /\ use = "list" => /\ forwards = first + Taken
                     /\ first + num_mini_batches + Left <= MaxForwards
  /\ use # "list" => forwards = 0 /\ first = 0

\* The blob begins with the images that were added, for as long as data_ points
\* to it.
BlobInv ==
  /\ batch_size \in Nat \ {0}
  /\ memory \in Seq(Images \cup {Zero})
  /\ data \in {"null", "added", "freed", "caller"}
  /\ array \in Seq(Images) /\ source \in Seq(Images) /\ top \in Seq(Item)
  /\ shown \in Nat /\ n = Len(source)
  /\ has_new_data \in BOOLEAN /\ aborted \in BOOLEAN /\ resized \in BOOLEAN
  /\ data = "null" => n = 0
  /\ data = "caller" => array = source
  /\ data = "freed" => resized
  /\ data = "added" => /\ n > 0 /\ n <= Len(memory)
                       /\ \A i \in 1 .. n : memory[i] = source[i]

\* The cursor is where the Forwards since the images were handed over put it.
CursorInv ==
  /\ pos \in Nat /\ (n > 0 => pos < n)
  /\ ~resized => /\ n % batch_size = 0
                 /\ n > 0 => pos = (shown * batch_size) % n
                 /\ n = 0 => shown = 0
  /\ ChunksInOrder

LayerInv == BlobInv /\ CursorInv

\* Over memory, the Forwards are those of this call, and a proper call leaves
\* nothing that would make the layer refuse the next one's images.
MemInv ==
  use = "memory" =>
    /\ ~resized /\ batch_size = BatchSize
    /\ data \in {"null", "added"}
    /\ data = "null" => at = "idle" /\ count = 0 /\ ~has_new_data
    /\ data = "added" => shown = Taken
    /\ proper \in BOOLEAN
    /\ proper => ~aborted /\ (data = "added" => count = n)

\* The image of row k.
ImageOf(k) == IF use = "list" THEN Line(first * BatchSize + k + 1)
                              ELSE source[1 + (k % Len(source))]

RowsInv ==
  use # "direct" =>
    \A k \in 0 .. count - 1 :
      (k < batch_index * BatchSize \/ at # "batches") => feature_dbs[k] = ImageOf(k)

IInv ==
  CallInv /\ ListInv /\ LayerInv /\ MemInv /\ RowsInv /\ ClassOfRow

-----------------------------------------------------------------------------
(* Division, and the largest of some numbers *)

LEMMA DivMod ==
  ASSUME NEW x \in Int, NEW M \in Nat \ {0}
  PROVE  /\ x \div M \in Int
         /\ x % M \in 0..(M - 1)
<1>1. x \div M \in Int
  OBVIOUS
<1>2. x % M \in 0..(M - 1)
  OBVIOUS
<1> QED
  BY <1>1, <1>2

LEMMA DivUnique ==
  ASSUME NEW q \in Int, NEW M \in Nat \ {0}, NEW r \in 0..(M - 1)
  PROVE  (q * M + r) \div M = q /\ (q * M + r) % M = r
<1>1. (q * M + r) \div M = q
  OBVIOUS
<1>2. (q * M + r) % M = r
  OBVIOUS
<1> QED
  BY <1>1, <1>2

LEMMA LeastNat ==
  ASSUME NEW T \in SUBSET Nat, T # {}
  PROVE  \E x \in T : \A y \in T : x <= y
<1>1. PICK x \in T : \A y \in T : ~(<<y, x>> \in OpToRel(<, Nat))
  BY NatLessThanWellFounded, WFMin, Zenon
<1>2. \A y \in T : ~(y < x)
  BY <1>1, Zenon DEF OpToRel
<1> QED
  BY <1>2

\* A function on the numbers below M has a largest value on every non-empty part.
LEMMA Largest ==
  ASSUME NEW M \in Nat, NEW s \in [0 .. M - 1 -> Int],
         NEW A \in SUBSET (0 .. M - 1), A # {}
  PROVE  \E k \in A : \A i \in A : s[i] <= s[k]
<1> DEFINE Below(m) == {i \in A : i < m}
           Has(m) == \E k \in Below(m) : \A i \in Below(m) : s[i] <= s[k]
           Bad == {m \in 0 .. M : Below(m) # {} /\ ~Has(m)}
<1>1. \A i \in A : i \in 0 .. M - 1 /\ s[i] \in Int
  OBVIOUS
<1>2. Below(M) = A /\ M \in 0 .. M
  <2>1. \A i \in A : i < M
    BY <1>1
  <2>2. Below(M) = A
    BY <2>1
  <2>3. M \in 0 .. M
    OBVIOUS
  <2> QED
    BY <2>2, <2>3
<1>3. Below(0) = {}
  <2>1. \A i \in A : ~(i < 0)
    BY <1>1
  <2> QED
    BY <2>1
<1>4. \A m \in 1 .. M : \A i \in Below(m) : i = m - 1 \/ i \in Below(m - 1)
  BY <1>1
<1>5. \A m \in 1 .. M : \A i \in Below(m - 1) : i \in Below(m)
  BY <1>1
<1>6. \A m \in 0 .. M : Below(m) \subseteq A
  OBVIOUS
<1> HIDE DEF Below
<1>7. SUFFICES ASSUME Bad # {} PROVE FALSE
  BY <1>2 DEF Below
<1>8. PICK m \in Bad : \A y \in Bad : m <= y
  <2>1. Bad \in SUBSET Nat
    OBVIOUS
  <2> HIDE DEF Bad
  <2> QED
    BY <1>7, <2>1, LeastNat
<1>9. m \in 1 .. M /\ m - 1 \in 0 .. M /\ m - 1 < m /\ Below(m) # {} /\ ~Has(m)
  BY <1>3, <1>8
<1>10. Below(m - 1) = {} \/ Has(m - 1)
  <2>1. m - 1 \notin Bad
    <3> HIDE DEF Bad
    <3>1. m - 1 \in Bad => m <= m - 1
      BY <1>8, Zenon
    <3> QED
      BY <1>9, <3>1
  <2> HIDE DEF Has
  <2> QED
    BY <1>9, <2>1
<1>11. PICK h \in Below(m) : TRUE
  BY <1>9
<1>12. h \in A
  BY <1>6, <1>9, <1>11
<1>13. CASE Below(m - 1) = {}
  <2>1. \A i \in Below(m) : i = h
    BY <1>4, <1>9, <1>11, <1>13
  <2>2. s[h] <= s[h]
    BY <1>1, <1>12
  <2>3. Has(m)
    BY <2>1, <2>2, <1>11
  <2> QED
    BY <1>9, <2>3
<1>14. CASE Has(m - 1)
  <2>1. PICK k \in Below(m - 1) : \A i \in Below(m - 1) : s[i] <= s[k]
    BY <1>14
  <2>2. k \in Below(m) /\ \A i \in Below(m) : i \in A /\ s[i] \in Int
    BY <1>1, <1>5, <1>6, <1>9
  <2>3. CASE m - 1 \in Below(m) /\ s[m - 1] > s[k]
    <3>1. \A i \in Below(m) : s[i] <= s[m - 1]
      BY <1>4, <1>9, <2>1, <2>2, <2>3
    <3> QED
      BY <1>9, <2>3, <3>1
  <2>4. CASE ~(m - 1 \in Below(m) /\ s[m - 1] > s[k])
    <3>1. \A i \in Below(m) : s[i] <= s[k]
      BY <1>4, <1>9, <2>1, <2>2, <2>4
    <3> QED
      BY <1>9, <2>2, <3>1
  <2> QED
    BY <2>3, <2>4
<1> QED
  BY <1>10, <1>13, <1>14

\* c images in batches: the whole ones and what remains.
LEMMA Batches ==
  ASSUME NEW c \in Nat, NEW M \in Nat \ {0}
  PROVE  /\ c \div M \in Nat
         /\ (c \div M) * M \in Nat
         /\ c - (c \div M) * M \in 0 .. M - 1
         /\ c - (c \div M) * M = c % M
<1>1. PICK q \in Int, r \in Int : q = c \div M /\ r = c % M
  OBVIOUS
<1>2. r \in 0 .. M - 1
  BY <1>1
<1>3. q >= 0
  BY <1>1
<1>4. c = q * M + r
  BY <1>1
<1>5. q * M \in Int /\ q * M >= 0
  BY <1>3
<1> QED
  BY <1>1, <1>2, <1>3, <1>4, <1>5

\* m blocks of M end s items after the start of n items that are whole blocks,
\* and another block follows before their end.
LEMMA BlocksFit ==
  ASSUME NEW R \in Nat \ {0}, NEW M \in Nat \ {0}, R % M = 0, NEW m \in Nat
  PROVE  /\ \E a \in Int, s \in Nat : m * M = a * R + s /\ s + M <= R
         /\ m * M \in Nat
         /\ (m + 1) * M = m * M + M
<1>1. PICK q \in Nat : R = q * M
  <2>1. R - (R \div M) * M = R % M
        /\ R \div M \in Nat /\ (R \div M) * M \in Nat
    BY Batches
  <2>2. R = (R \div M) * M
    BY <2>1
  <2> QED
    BY <2>1, <2>2
<1>2. q \in Nat \ {0}
  <2>1. q # 0
    <3>1. 0 * M = 0
      OBVIOUS
    <3> QED
      BY <1>1, <3>1
  <2> QED
    BY <2>1
<1>3. PICK a \in Int, r \in Int : a = m \div q /\ r = m % q
  BY <1>2
<1>4. r \in 0 .. q - 1 /\ m = a * q + r
  BY <1>2, <1>3
<1>5. m * M = a * (q * M) + r * M
  <2>1. PICK z \in Int : z = a * q
    BY <1>2, <1>3
  <2>2. m = z + r
    BY <1>4, <2>1
  <2>3. m * M = z * M + r * M
    BY <2>2, <1>3
  <2>4. z * M = a * (q * M)
    BY <1>2, <1>3, <2>1
  <2> QED
    BY <2>3, <2>4
<1>6. r * M \in Nat
  BY <1>4
<1>7. r * M + M <= q * M
  <2>1. PICK d \in Nat : q = r + 1 + d
    <3>1. q - r - 1 \in Nat /\ q = r + 1 + (q - r - 1)
      BY <1>4
    <3> QED
      BY <3>1
  <2>2. q * M = r * M + M + d * M /\ d * M >= 0
    BY <2>1, <1>4
  <2> QED
    BY <2>2, <1>6
<1>8. m * M = a * R + r * M /\ r * M + M <= R
  BY <1>1, <1>5, <1>7
<1>9. m * M \in Nat /\ (m + 1) * M = m * M + M
  OBVIOUS
<1> QED
  BY <1>3, <1>6, <1>8, <1>9

\* k is s items after some rounds of n: so is the next block, which ends with
\* the round if it fills it.
LEMMA Round ==
  ASSUME NEW R \in Nat \ {0}, NEW M \in Nat \ {0}, NEW k \in Nat,
         NEW a \in Int, NEW s \in Nat, k = a * R + s, s + M <= R
  PROVE  /\ k % R = s
         /\ \A i \in 1 .. M : (k + i - 1) % R = s + i - 1
         /\ (k + M) % R = (s + M) % R
         /\ k < R => s = k
         /\ (s + M) % R = 0 <=> s + M = R
<1>1. ASSUME NEW i \in 0 .. M - 1 PROVE (k + i) % R = s + i
  <2>1. s + i \in 0 .. R - 1
    OBVIOUS
  <2>2. (a * R + (s + i)) % R = s + i
    BY <2>1, DivUnique
  <2> QED
    BY <2>2
<1>2. k % R = s
  <2>1. 0 \in 0 .. M - 1
    OBVIOUS
  <2>2. (k + 0) % R = s + 0
    BY <1>1, <2>1
  <2> QED
    BY <2>2
<1>3. ASSUME NEW i \in 1 .. M
      PROVE  (k + i - 1) % R = s + i - 1
  <2>1. i - 1 \in 0 .. M - 1
    OBVIOUS
  <2>2. (k + (i - 1)) % R = s + (i - 1)
    BY <1>1, <2>1
  <2>3. k + i - 1 = k + (i - 1) /\ s + i - 1 = s + (i - 1)
    OBVIOUS
  <2> QED
    BY <2>2, <2>3
<1>4. ASSUME NEW x \in 0 .. R - 1 PROVE x % R = x
  <2>1. (0 * R + x) % R = x
    BY DivUnique
  <2> QED
    BY <2>1
<1>5. R % R = 0
  <2>1. 0 \in 0 .. R - 1
    OBVIOUS
  <2>2. (1 * R + 0) % R = 0
    BY <2>1, DivUnique
  <2> QED
    BY <2>2
<1>6. ASSUME s + M = R
      PROVE  (k + M) % R = 0 /\ (s + M) % R = 0
  <2>1. 0 \in 0 .. R - 1 /\ a + 1 \in Int
    OBVIOUS
  <2>2. ((a + 1) * R + 0) % R = 0
    BY <2>1, DivUnique
  <2>3. (a + 1) * R + 0 = k + M
    BY <1>6
  <2> QED
    BY <1>6, <1>5, <2>2, <2>3
<1>7. ASSUME s + M < R
      PROVE  (k + M) % R = (s + M) % R /\ (s + M) % R # 0
  <2>1. s + M \in 0 .. R - 1 /\ s + M # 0
    BY <1>7
  <2>2. (a * R + (s + M)) % R = s + M
    BY <2>1, DivUnique
  <2>3. a * R + (s + M) = k + M
    OBVIOUS
  <2>4. (s + M) % R = s + M
    BY <1>4, <2>1
  <2> QED
    BY <1>7, <2>1, <2>2, <2>3, <2>4
<1>8. k < R => s = k
  <2>1. k < R => k \in 0 .. R - 1
    OBVIOUS
  <2> QED
    BY <1>2, <1>4, <2>1
<1>9. (k + M) % R = (s + M) % R /\ ((s + M) % R = 0 <=> s + M = R)
  <2>1. s + M = R \/ s + M < R
    OBVIOUS
  <2> QED
    BY <1>6, <1>7, <2>1, Zenon
<1> QED
  BY <1>2, <1>3, <1>8, <1>9, Zenon

\* A class that the loop over whole batches stores is one of the highest score.
LEMMA MaxIdIsBest ==
  ASSUME NEW s \in [Classes -> Int]
  PROVE  IF \E c \in Classes : s[c] > Start THEN MaxId(s) \in Best(s)
                                            ELSE MaxId(s) = -1
<1> USE BoundsAreNat DEF Classes
<1>0. Start \in Int
  BY DEF Start, Tenths
<1>1. CASE Above(s) = {}
  <2>1. ~(\E c \in Classes : s[c] > Start)
    BY <1>1 DEF Above
  <2> QED
    BY <1>1, <2>1 DEF MaxId
<1>2. CASE Above(s) # {}
  <2>1. \E c \in Classes : s[c] > Start
    BY <1>2 DEF Above
  <2>2. PICK h \in Above(s) : \A c \in Above(s) : s[c] <= s[h]
    <3>1. Above(s) \in SUBSET (0 .. NClasses - 1)
      BY DEF Above
    <3> QED
      BY <1>2, <3>1, Largest
  <2>3. h \in Highest(s)
    <3>1. ASSUME NEW c \in Classes PROVE s[c] <= s[h]
      <4>1. s[c] \in Int /\ s[h] \in Int /\ s[h] > Start
        BY <2>2 DEF Above
      <4>2. s[c] > Start => s[c] <= s[h]
        BY <2>2 DEF Above
      <4> QED
        BY <1>0, <4>1, <4>2
    <3> QED
      BY <2>2, <3>1 DEF Highest
  <2>4. PICK k \in Highest(s) : \A c \in Highest(s) : k <= c
    <3>1. Highest(s) \in SUBSET Nat
      BY DEF Highest, Above
    <3> QED
      BY <2>3, <3>1, LeastNat
  <2>5. MaxId(s) \in Highest(s)
    BY <1>2, <2>4 DEF MaxId
  <2>6. MaxId(s) \in Best(s)
    BY <2>5 DEF Highest, Above, Best
  <2> QED
    BY <2>1, <2>6
<1> QED
  BY <1>1, <1>2

-----------------------------------------------------------------------------
(* The memory layer *)

LEMMA ArraysAreSeqs ==
  ASSUME NEW images \in Arrays
  PROVE  images \in Seq(Images) /\ Len(images) \in Nat
<1>1. PICK c \in Callers, m \in 0 .. MaxAdded : images = [i \in 1 .. m |-> <<c, i>>]
  BY DEF Arrays
<1>2. \A i \in 1 .. m : <<c, i>> \in Images
  BY <1>1, MaxAddedNat DEF Images
<1> QED
  BY <1>1, <1>2

\* The chunks hold whatever is done to the rest of the layer, and so does a
\* failed CHECK.
LEMMA LayerStays ==
  ASSUME LayerInv, aborted' \in BOOLEAN,
         UNCHANGED <<batch_size, memory, data, array, n, pos, has_new_data, top,
                     source, shown, resized>>
  PROVE  LayerInv'
<1>1. BlobInv'
  BY DEF LayerInv, BlobInv
<1>2. CursorInv'
  BY DEF LayerInv, CursorInv, ChunksInOrder, ConsumedIsFree, Chunk
<1> QED
  BY <1>1, <1>2 DEF LayerInv

LEMMA LayerTake ==
  ASSUME LayerInv, NEW images \in Arrays, NEW fit, Acceptable(images, fit), Take(images)
  PROVE  LayerInv'
<1>1. images \in Seq(Images) /\ Len(images) \in Nat /\ Len(images) > 0
      /\ Len(images) % batch_size = 0
  BY ArraysAreSeqs DEF Acceptable
<1>2. memory' \in Seq(Images \cup {Zero}) /\ Len(images) <= Len(memory')
      /\ \A i \in 1 .. Len(images) : memory'[i] = images[i]
  <2>0. memory \in Seq(Images \cup {Zero}) /\ images \in Seq(Images \cup {Zero})
    BY <1>1 DEF LayerInv, BlobInv
  <2>1. CASE Enough(Len(images))
    <3>1. Len(images) <= Len(memory) /\ Len(memory) \in Nat
      BY <2>0, <2>1 DEF Enough
    <3>2. PICK rest \in Seq(Images \cup {Zero}) :
            rest = SubSeq(memory, Len(images) + 1, Len(memory))
      <4>1. SubSeq(memory, Len(images) + 1, Len(memory)) \in Seq(Images \cup {Zero})
        BY <1>1, <2>0, <3>1
      <4> QED
        BY <4>1
    <3>3. memory' = images \o rest
      BY <2>1, <3>2 DEF Take, CopyIn
    <3>4. images \o rest \in Seq(Images \cup {Zero})
          /\ Len(images \o rest) = Len(images) + Len(rest)
      BY <2>0, <3>2
    <3>5. \A i \in 1 .. Len(images) : (images \o rest)[i] = images[i]
      BY <2>0, <3>2, <1>1
    <3>6. Len(rest) \in Nat
      BY <3>2
    <3> QED
      BY <1>1, <3>3, <3>4, <3>5, <3>6
  <2>2. CASE ~Enough(Len(images))
    BY <1>1, <2>0, <2>2 DEF Take, CopyIn
  <2> QED
    BY <2>1, <2>2
<1>3. /\ data' = "added" /\ n' = Len(images) /\ pos' = 0
      /\ source' = images /\ shown' = 0 /\ resized' = FALSE /\ has_new_data' = TRUE
      /\ UNCHANGED <<batch_size, array, top, aborted>>
  BY DEF Take, PointTo
<1>4. BlobInv'
  BY <1>1, <1>2, <1>3 DEF LayerInv, BlobInv
<1>5. 0 * batch_size = 0 /\ 0 % n' = 0 /\ batch_size \in Nat \ {0}
  BY <1>1, <1>3 DEF LayerInv, BlobInv
<1>6. ChunksInOrder'
  BY <1>1, <1>3, <1>5 DEF ChunksInOrder, ConsumedIsFree
<1>7. CursorInv'
  BY <1>1, <1>3, <1>5, <1>6 DEF CursorInv
<1> QED
  BY <1>4, <1>7 DEF LayerInv

LEMMA LayerReset ==
  ASSUME LayerInv, NEW images \in Arrays, Reset(images)
  PROVE  LayerInv'
<1>1. images \in Seq(Images) /\ Len(images) \in Nat
  BY ArraysAreSeqs
<1>2. CASE Abort
  BY <1>2, LayerStays DEF Abort
<1>3. CASE ~Abort
  <2>1. /\ data' = "caller" /\ n' = Len(images) /\ pos' = 0 /\ array' = images
        /\ source' = images /\ shown' = 0 /\ resized' = FALSE
        /\ Len(images) % batch_size = 0
        /\ UNCHANGED <<batch_size, memory, has_new_data, top, aborted>>
    BY <1>3 DEF Reset, PointTo
  <2>2. BlobInv'
    BY <1>1, <2>1 DEF LayerInv, BlobInv
  <2>3. 0 * batch_size = 0 /\ (n' > 0 => 0 % n' = 0) /\ batch_size \in Nat \ {0}
    BY <1>1, <2>1 DEF LayerInv, BlobInv
  <2>4. ChunksInOrder'
    BY <2>1 DEF ChunksInOrder, ConsumedIsFree
  <2>5. CursorInv'
    BY <1>1, <2>1, <2>3, <2>4 DEF CursorInv
  <2> QED
    BY <2>2, <2>5 DEF LayerInv
<1> QED
  BY <1>2, <1>3

LEMMA LayerSetBatchSize ==
  ASSUME LayerInv, NEW size \in 1 .. MaxAdded, SetBatchSize(size)
  PROVE  LayerInv'
<1>1. size \in Nat \ {0}
  BY MaxAddedNat
<1>2. CASE Abort
  BY <1>2, LayerStays DEF Abort
<1>3. CASE ~Abort
  <2>1. /\ batch_size' = size /\ resized' = TRUE
        /\ memory' = IF Enough(size) THEN memory ELSE Zeros(size)
        /\ data' = IF data = "added" /\ ~Enough(size) THEN "freed" ELSE data
        /\ UNCHANGED <<array, n, pos, has_new_data, top, aborted, source, shown>>
    BY <1>3 DEF SetBatchSize
  <2>2. Zeros(size) \in Seq(Images \cup {Zero})
    BY <1>1 DEF Zeros
  <2>3. BlobInv'
    BY <1>1, <2>1, <2>2 DEF LayerInv, BlobInv
  <2>4. ChunksInOrder'
    BY <2>1 DEF ChunksInOrder, ConsumedIsFree
  <2>5. CursorInv'
    BY <2>1, <2>4 DEF LayerInv, CursorInv
  <2> QED
    BY <2>3, <2>5 DEF LayerInv
<1> QED
  BY <1>2, <1>3

\* A Forward that finds images: while the batches are of one size they divide
\* the images, so that the cursor never crosses the end inside a batch.
LEMMA LayerForward ==
  ASSUME LayerInv, Forward, ~Abort
  PROVE  LayerInv' /\ data # "null" /\ n > 0 /\ shown' = shown + 1
         /\ UNCHANGED <<batch_size, data, n, aborted, source, resized>>
<1>1. /\ data # "null" /\ n > 0
      /\ top' = [i \in 1 .. batch_size |-> At(pos + i)]
      /\ pos' = (pos + batch_size) % n
      /\ has_new_data' = (has_new_data /\ pos' # 0)
      /\ shown' = shown + 1
      /\ UNCHANGED <<batch_size, memory, data, array, n, aborted, source, resized>>
  BY DEF Forward, ForwardWith
<1>2. /\ batch_size \in Nat \ {0} /\ n \in Nat \ {0} /\ shown \in Nat
      /\ pos \in Nat /\ pos < n /\ source \in Seq(Images) /\ n = Len(source)
      /\ memory \in Seq(Images \cup {Zero}) /\ array \in Seq(Images)
      /\ data \in {"added", "freed", "caller"}
  BY <1>1 DEF LayerInv, BlobInv, CursorInv
<1>3. batch_size \in Nat \ {0}
  BY <1>2
<1>4. n \in Nat \ {0}
  BY <1>2
<1>5. shown \in Nat
  BY <1>2
<1>6. BlobInv'
  <2>1. ASSUME NEW i \in 1 .. batch_size PROVE At(pos + i) \in Item
    <3>1. pos + i \in Nat \ {0}
      BY <1>2
    <3>2. pos + i <= Len(memory) => memory[pos + i] \in Item
      BY <1>2, <3>1 DEF Item
    <3>3. pos + i <= Len(array) => array[pos + i] \in Item
      BY <1>2, <3>1 DEF Item
    <3>4. Outside \in Item
      BY DEF Item
    <3> QED
      BY <1>2, <3>2, <3>3, <3>4 DEF At
  <2>2. top' \in Seq(Item)
    BY <1>1, <1>2, <2>1
  <2>3. has_new_data' \in BOOLEAN
    BY <1>1 DEF LayerInv, BlobInv
  <2> QED
    BY <1>1, <2>2, <2>3 DEF LayerInv, BlobInv
<1>7. pos' \in Nat /\ pos' < n
  BY <1>1, <1>2
<1>8. CASE resized
  <2>1. ChunksInOrder'
    BY <1>1, <1>8 DEF ChunksInOrder, ConsumedIsFree
  <2>2. CursorInv'
    BY <1>1, <1>2, <1>7, <1>8, <2>1 DEF CursorInv
  <2> QED
    BY <1>1, <1>6, <2>2 DEF LayerInv
<1>9. CASE ~resized
  <2>1. n % batch_size = 0 /\ pos = (shown * batch_size) % n
    BY <1>1, <1>9 DEF LayerInv, CursorInv
  <2>2. PICK k \in Nat, a \in Int, s \in Nat :
          /\ k = shown * batch_size /\ (shown + 1) * batch_size = k + batch_size
          /\ k = a * n + s /\ s + batch_size <= n
    <3>1. /\ \E a \in Int, s \in Nat : shown * batch_size = a * n + s /\ s + batch_size <= n
          /\ shown * batch_size \in Nat
          /\ (shown + 1) * batch_size = shown * batch_size + batch_size
      <4>1. n % batch_size = 0
        BY <2>1
      <4> QED
        BY <1>3, <1>4, <1>5, <4>1, BlocksFit
    <3> QED
      BY <3>1, Zenon
  <2>3. pos = k % n
    BY <2>1, <2>2
  <2>4. /\ k % n = s
        /\ \A i \in 1 .. batch_size : (k + i - 1) % n = s + i - 1
        /\ (k + batch_size) % n = (s + batch_size) % n
        /\ k < n => s = k
        /\ (s + batch_size) % n = 0 <=> s + batch_size = n
    <3>1. k = a * n + s
      BY <2>2
    <3>2. s + batch_size <= n
      BY <2>2
    <3>3. k % n = s
      BY <1>3, <1>4, <3>1, <3>2, Round
    <3>4. \A i \in 1 .. batch_size : (k + i - 1) % n = s + i - 1
      BY <1>3, <1>4, <3>1, <3>2, Round
    <3>5. (k + batch_size) % n = (s + batch_size) % n
      BY <1>3, <1>4, <3>1, <3>2, Round
    <3>6. k < n => s = k
      BY <1>3, <1>4, <3>1, <3>2, Round
    <3>7. (s + batch_size) % n = 0 <=> s + batch_size = n
      BY <1>3, <1>4, <3>1, <3>2, Round
    <3> QED
      BY <3>3, <3>4, <3>5, <3>6, <3>7
  <2>5. pos = s
    BY <2>3, <2>4
  <2>6. s + batch_size <= n
    BY <2>2
  <2>7. ASSUME NEW i \in 1 .. batch_size
        PROVE  At(pos + i) = source[1 + ((k + i - 1) % n)]
    <3>1. 1 + (pos + i - 1) = pos + i /\ pos + i \in 1 .. n
      BY <1>2, <2>5, <2>6
    <3>2. At(pos + i) = source[pos + i]
      <4>1. data \in {"added", "caller"}
        BY <1>1, <1>9 DEF LayerInv, BlobInv
      <4>2. CASE data = "added"
        BY <1>1, <1>2, <3>1, <4>2 DEF LayerInv, BlobInv, At
      <4>3. CASE data = "caller"
        BY <1>1, <1>2, <3>1, <4>3 DEF LayerInv, BlobInv, At
      <4> QED
        BY <4>1, <4>2, <4>3
    <3>3. (k + i - 1) % n = pos + i - 1
      BY <2>4, <2>5
    <3> QED
      BY <3>1, <3>2, <3>3
  <2>8. shown' - 1 = shown /\ shown' * batch_size = k + batch_size
    BY <1>1, <1>2, <2>2
  <2>9. top' = Chunk(shown)'
    <3>1. top' = [i \in 1 .. batch_size |-> source[1 + ((k + i - 1) % n)]]
      BY <1>1, <2>7
    <3>2. (shown' - 1) * batch_size' = k
      BY <1>1, <2>2, <2>8
    <3>3. Chunk(shown)' = [i \in 1 .. batch_size' |->
                             source'[1 + (((shown' - 1) * batch_size' + i - 1) % n')]]
      BY DEF Chunk
    <3> QED
      BY <1>1, <3>1, <3>2, <3>3, Zenon
  <2>10. pos' = (shown' * batch_size) % n
    BY <1>1, <2>4, <2>5, <2>8
  <2>11. ConsumedIsFree'
    <3> SUFFICES ASSUME data = "added"
                 PROVE  has_new_data' <=> k + batch_size < n
      BY <1>1, <2>8 DEF ConsumedIsFree
    <3>1. has_new_data <=> k < n
      BY <1>9, <2>2 DEF LayerInv, CursorInv, ChunksInOrder, ConsumedIsFree
    <3>2. has_new_data' <=> k < n /\ s + batch_size # n
      BY <1>1, <2>4, <2>5, <3>1
    <3>3. k < n => s = k
      BY <2>4
    <3> QED
      BY <1>2, <2>6, <3>2, <3>3
  <2>12. CursorInv'
    <3>1. /\ pos' \in Nat /\ pos' < n' /\ ~resized' /\ n' % batch_size' = 0
          /\ pos' = (shown' * batch_size') % n' /\ n' > 0
      BY <1>1, <1>2, <1>7, <1>9, <2>1, <2>10
    <3>2. ChunksInOrder'
      BY <2>9, <2>11 DEF ChunksInOrder
    <3> QED
      BY <1>2, <3>1, <3>2 DEF CursorInv
  <2> QED
    BY <1>1, <1>6, <2>12 DEF LayerInv
<1> QED
  BY <1>8, <1>9

LEMMA LayerSteps ==
  ASSUME LayerInv, LayerNext
  PROVE  LayerInv'
<1>1. ASSUME NEW images \in Arrays, NEW fit \in BOOLEAN, AddVector(images, fit) PROVE LayerInv'
  <2>1. CASE Abort
    BY <2>1, LayerStays DEF Abort
  <2>2. CASE Acceptable(images, fit) /\ Take(images)
    BY <2>2, LayerTake
  <2> QED
    BY <1>1, <2>1, <2>2 DEF AddVector
<1>2. ASSUME NEW images \in Arrays, Reset(images) PROVE LayerInv'
  BY <1>2, LayerReset
<1>3. ASSUME NEW size \in 1 .. MaxAdded, SetBatchSize(size) PROVE LayerInv'
  BY <1>3, LayerSetBatchSize
<1>4. CASE Forward
  <2>1. CASE Abort
    BY <2>1, LayerStays DEF Abort
  <2>2. CASE ~Abort
    BY <1>4, <2>2, LayerForward
  <2> QED
    BY <2>1, <2>2
<1> QED
  BY <1>1, <1>2, <1>3, <1>4 DEF LayerNext

-----------------------------------------------------------------------------
(* The rows of a call *)

LEMMA Sizes ==
  ASSUME CallInv
  PROVE  /\ count \in Nat
         /\ num_mini_batches \in Nat /\ num_mini_batches * BatchSize \in Nat
         /\ remain \in 0 .. BatchSize - 1
         /\ count = num_mini_batches * BatchSize + remain
         /\ Left \in {0, 1}
         /\ remain = count % BatchSize
<1> USE BatchSizePositive, BoundsAreNat
<1>1. count \in Nat
  BY DEF CallInv
<1>2. /\ count \div BatchSize \in Nat /\ (count \div BatchSize) * BatchSize \in Nat
      /\ count - (count \div BatchSize) * BatchSize \in 0 .. BatchSize - 1
      /\ count - (count \div BatchSize) * BatchSize = count % BatchSize
  BY <1>1, Batches
<1>3. PICK w \in Nat : w = num_mini_batches * BatchSize
  BY <1>2 DEF num_mini_batches
<1>4. remain = count - w /\ remain \in 0 .. BatchSize - 1 /\ remain = count % BatchSize
  BY <1>2, <1>3 DEF num_mini_batches, remain
<1>5. count = w + remain
  BY <1>1, <1>3, <1>4
<1>6. Left \in {0, 1}
  BY DEF Left
<1> QED
  BY <1>1, <1>2, <1>3, <1>4, <1>5, <1>6 DEF num_mini_batches

LEMMA LineIsOne ==
  ASSUME NEW x \in Int
  PROVE  Line(x) \in {Line(i) : i \in 1 .. N}
<1> USE NPositive
<1>1. PICK r \in 0 .. N - 1 : r = (x - 1) % N
  <2>1. (x - 1) % N \in 0 .. N - 1
    BY DivMod
  <2> QED
    BY <2>1
<1>2. r % N = r
  <2>1. (0 * N + r) % N = r
    BY DivUnique
  <2> QED
    BY <2>1
<1>3. 1 + r \in 1 .. N /\ (1 + r) - 1 = r
  OBVIOUS
<1>4. Line(1 + r) = Line(x)
  BY <1>1, <1>2, <1>3 DEF Line
<1> QED
  BY <1>3, <1>4

\* An image with scores.
Known == Images \cup {Line(i) : i \in 1 .. N}

LEMMA CopyBatchRows ==
  ASSUME CallInv, RowsInv, ClassOfRow, use # "direct", UNCHANGED <<use, first, source>>,
         NEW items, CopyBatch(items),
         \A i \in 1 .. BatchSize :
           items[i] = ImageOf(batch_index * BatchSize + (i - 1)) /\ items[i] \in Known
  PROVE  CallInv' /\ RowsInv' /\ ClassOfRow'
<1> USE BatchSizePositive
<1>1. /\ at = "batches" /\ batch_index < num_mini_batches /\ batch_index' = batch_index + 1
      /\ UNCHANGED <<at, count, num_mini_batches>>
  BY DEF CopyBatch, num_mini_batches
<1>2. count \in Nat /\ num_mini_batches \in Nat /\ batch_index \in Nat
  BY Sizes DEF CallInv
<1>3. PICK f \in Int : f = batch_index * BatchSize
  BY <1>2
<1>4. batch_index' * BatchSize = f + BatchSize
  <2>1. (batch_index + 1) * BatchSize = batch_index * BatchSize + BatchSize
    BY <1>2
  <2> QED
    BY <1>1, <1>3, <2>1
<1>5. /\ feature_dbs' = [k \in 0 .. count - 1 |->
                           IF k \in f .. f + BatchSize - 1 THEN items[1 + (k - f)]
                                                           ELSE feature_dbs[k]]
      /\ class_re' = [k \in 0 .. count - 1 |->
                        IF k \in f .. f + BatchSize - 1 THEN Class(items[1 + (k - f)], TRUE)
                                                        ELSE class_re[k]]
  BY <1>3 DEF CopyBatch, Store
<1>6. CallInv'
  <2>1. DOMAIN feature_dbs' = 0 .. count' - 1 /\ DOMAIN class_re' = 0 .. count' - 1
    BY <1>1, <1>5
  <2>2. batch_index' \in Nat /\ batch_index' <= num_mini_batches'
    BY <1>1, <1>2
  <2> QED
    BY <1>1, <2>1, <2>2 DEF CallInv
<1>7. ASSUME NEW k \in 0 .. count - 1, k \in f .. f + BatchSize - 1
      PROVE  /\ feature_dbs'[k] = items[1 + (k - f)]
             /\ class_re'[k] = Class(items[1 + (k - f)], TRUE)
             /\ items[1 + (k - f)] = ImageOf(k) /\ items[1 + (k - f)] \in Known
  <2>1. 1 + (k - f) \in 1 .. BatchSize /\ f + ((1 + (k - f)) - 1) = k
    BY <1>3, <1>7
  <2>2. items[1 + (k - f)] = ImageOf(f + ((1 + (k - f)) - 1)) /\ items[1 + (k - f)] \in Known
    BY <1>3, <2>1
  <2> QED
    BY <1>5, <1>7, <2>1, <2>2
<1>8. ASSUME NEW k \in 0 .. count - 1, k \notin f .. f + BatchSize - 1
      PROVE  feature_dbs'[k] = feature_dbs[k] /\ class_re'[k] = class_re[k]
  BY <1>5, <1>8
<1>9. RowsInv'
  <2> SUFFICES ASSUME NEW k \in 0 .. count - 1, k < f + BatchSize
               PROVE  feature_dbs'[k] = ImageOf(k)'
    BY <1>1, <1>4 DEF RowsInv
  <2>1. ImageOf(k)' = ImageOf(k)
    BY DEF ImageOf
  <2>2. CASE k \in f .. f + BatchSize - 1
    BY <1>7, <2>1, <2>2
  <2>3. CASE k \notin f .. f + BatchSize - 1
    <3>1. k < f
      BY <1>3, <2>3
    <3>2. feature_dbs[k] = ImageOf(k)
      BY <1>3, <3>1 DEF RowsInv
    <3> QED
      BY <1>8, <2>1, <2>3, <3>2
  <2> QED
    BY <2>2, <2>3
<1>10. ClassOfRow'
  <2> DEFINE Right(h, c) == IF \E z \in Classes : Score(h)[z] > Start
                              THEN c \in Best(Score(h)) ELSE c = -1
  <2>1. SUFFICES ASSUME NEW k \in 0 .. count - 1, k < f + BatchSize
                 PROVE  Right(feature_dbs'[k], class_re'[k])
    <3>1. DOMAIN feature_dbs' = 0 .. count - 1
      BY <1>5
    <3> QED
      BY <1>4, <3>1 DEF ClassOfRow, WholeRows, Best
  <2>2. CASE k \in f .. f + BatchSize - 1
    <3>1. PICK h \in Known : /\ h = items[1 + (k - f)]
                             /\ feature_dbs'[k] = h /\ class_re'[k] = MaxId(Score(h))
      BY <1>7, <2>2 DEF Class
    <3>2. Score(h) \in [Classes -> Int]
      BY ScoresAreInt DEF Known
    <3>3. Right(h, MaxId(Score(h)))
      BY <3>2, MaxIdIsBest
    <3> QED
      BY <3>1, <3>3
  <2>3. CASE k \notin f .. f + BatchSize - 1
    <3>1. k \in WholeRows
      <4>1. k < f
        BY <1>3, <2>1, <2>3
      <4>2. k \in DOMAIN feature_dbs
        BY DEF CallInv
      <4> QED
        BY <1>3, <4>1, <4>2 DEF WholeRows
    <3>2. Right(feature_dbs[k], class_re[k])
      BY <3>1 DEF ClassOfRow
    <3> QED
      BY <1>8, <2>3, <3>2
  <2> QED
    BY <2>2, <2>3
<1> QED
  BY <1>6, <1>9, <1>10

LEMMA CopyRemainRows ==
  ASSUME CallInv, RowsInv, ClassOfRow, use # "direct", UNCHANGED <<use, first, source>>,
         NEW items, CopyRemain(items),
         \A i \in 1 .. BatchSize :
           items[i] = ImageOf(batch_index * BatchSize + (i - 1)) /\ items[i] \in Known
  PROVE  CallInv' /\ RowsInv' /\ ClassOfRow'
<1> USE BatchSizePositive
<1>1. /\ at = "batches" /\ at' = "written" /\ batch_index = num_mini_batches /\ remain > 0
      /\ UNCHANGED <<batch_index, count, num_mini_batches>>
  BY DEF CopyRemain, num_mini_batches
<1>2. count \in Nat /\ batch_index \in Nat /\ remain \in 0 .. BatchSize - 1
  BY Sizes DEF CallInv
<1>3. PICK f \in Int : f = batch_index * BatchSize
  BY <1>2
<1>4. count = f + remain
  BY <1>1, <1>3, Sizes
<1>5. /\ feature_dbs' = [k \in 0 .. count - 1 |->
                           IF k \in f .. f + remain - 1 THEN items[1 + (k - f)]
                                                        ELSE feature_dbs[k]]
      /\ class_re' = [k \in 0 .. count - 1 |->
                        IF k \in f .. f + remain - 1 THEN Class(items[1 + (k - f)], FALSE)
                                                     ELSE class_re[k]]
  BY <1>1, <1>3 DEF CopyRemain, Store
<1>6. CallInv'
  <2>1. DOMAIN feature_dbs' = 0 .. count' - 1 /\ DOMAIN class_re' = 0 .. count' - 1
    BY <1>1, <1>5
  <2> QED
    BY <1>1, <2>1 DEF CallInv
<1>7. RowsInv'
  <2> SUFFICES ASSUME NEW k \in 0 .. count - 1
               PROVE  feature_dbs'[k] = ImageOf(k)'
    BY <1>1 DEF RowsInv
  <2>1. ImageOf(k)' = ImageOf(k)
    BY DEF ImageOf
  <2>2. CASE k >= f
    <3>1. 1 + (k - f) \in 1 .. BatchSize /\ f + ((1 + (k - f)) - 1) = k
          /\ k \in f .. f + remain - 1
      BY <1>2, <1>3, <1>4, <2>2
    <3>2. items[1 + (k - f)] = ImageOf(f + ((1 + (k - f)) - 1))
      BY <1>3, <3>1
    <3> QED
      BY <1>5, <2>1, <3>1, <3>2
  <2>3. CASE k < f
    <3>1. feature_dbs[k] = ImageOf(k)
      BY <1>3, <2>3 DEF RowsInv
    <3>2. k \notin f .. f + remain - 1
      BY <1>3, <2>3
    <3> QED
      BY <1>5, <2>1, <3>1, <3>2
  <2> QED
    BY <1>3, <2>2, <2>3
<1>8. ClassOfRow'
  <2>1. ASSUME NEW k \in 0 .. count - 1, k < f
        PROVE  feature_dbs'[k] = feature_dbs[k] /\ class_re'[k] = class_re[k]
               /\ k \in WholeRows
    <3>1. k \notin f .. f + remain - 1
      BY <1>3, <2>1
    <3>2. k \in DOMAIN feature_dbs
      BY DEF CallInv
    <3>3. k \in WholeRows
      BY <1>3, <2>1, <3>2 DEF WholeRows
    <3> QED
      BY <1>5, <3>1, <3>3
  <2>2. \A k \in WholeRows' : k \in 0 .. count - 1 /\ k < f
    <3>1. DOMAIN feature_dbs' = 0 .. count - 1
      BY <1>5
    <3> QED
      BY <1>1, <1>3, <3>1 DEF WholeRows
  <2> QED
    BY <2>1, <2>2 DEF ClassOfRow, Best
<1> QED
  BY <1>6, <1>7, <1>8

\* Where the rows and the classes stay, what was said of them still holds.
LEMMA RowsStay ==
  ASSUME CallInv, RowsInv, ClassOfRow,
         UNCHANGED <<use, first, source, count, batch_index, feature_dbs, class_re>>,
         at' \in {"idle", "batches", "written"},
         at' # "batches" => batch_index = num_mini_batches,
         use = "direct" => at' = "idle",
         \/ at # "batches"
         \/ at' = "batches"
         \/ remain = 0
  PROVE  CallInv' /\ RowsInv' /\ ClassOfRow'
<1>1. num_mini_batches' = num_mini_batches
  BY DEF num_mini_batches
<1>2. CallInv'
  BY <1>1 DEF CallInv
<1>3. ASSUME NEW k \in 0 .. count - 1, use # "direct",
             k < batch_index * BatchSize \/ at' # "batches"
      PROVE  feature_dbs[k] = ImageOf(k)
  <2>1. CASE at # "batches" \/ k < batch_index * BatchSize
    BY <1>3, <2>1 DEF RowsInv
  <2>2. CASE at' # "batches" /\ remain = 0
    <3>1. PICK w \in Nat : w = num_mini_batches * BatchSize
      BY Sizes
    <3>2. count = w + 0
      BY <2>2, <3>1, Sizes
    <3>3. k < batch_index * BatchSize
      BY <2>2, <3>1, <3>2
    <3> QED
      BY <1>3, <3>3 DEF RowsInv
  <2> QED
    BY <1>3, <2>1, <2>2
<1>4. RowsInv'
  <2>1. \A k \in 0 .. count - 1 : ImageOf(k)' = ImageOf(k)
    BY DEF ImageOf
  <2> QED
    BY <1>3, <2>1 DEF RowsInv
<1>5. ClassOfRow'
  BY DEF ClassOfRow, WholeRows, Best
<1> QED
  BY <1>2, <1>4, <1>5

\* A call begins with no row.
LEMMA BeginRows ==
  ASSUME CallInv, NEW c \in 0 .. MaxCount, Begin(c), use # "direct", use' = use
  PROVE  /\ CallInv' /\ RowsInv' /\ ClassOfRow'
         /\ at' = "batches" /\ count' = c /\ batch_index' = 0 /\ at = "idle"
<1> USE BatchSizePositive, BoundsAreNat
<1>1. /\ at' = "batches" /\ count' = c /\ batch_index' = 0 /\ at = "idle"
      /\ DOMAIN feature_dbs' = 0 .. c - 1 /\ DOMAIN class_re' = 0 .. c - 1
  BY DEF Begin
<1>2. c \div BatchSize \in Nat /\ 0 * BatchSize = 0 /\ c \in Nat
  <2>1. c \in Nat
    OBVIOUS
  <2>2. c \div BatchSize \in Nat
    BY <2>1, Batches
  <2> QED
    BY <2>1, <2>2
<1>3. CallInv'
  BY <1>1, <1>2 DEF CallInv, num_mini_batches
<1>4. RowsInv'
  BY <1>1, <1>2 DEF RowsInv
<1>5. ClassOfRow'
  <2>1. \A k \in 0 .. c - 1 : ~(k < 0)
    OBVIOUS
  <2>2. WholeRows' = {}
    BY <1>1, <1>2, <2>1 DEF WholeRows
  <2> QED
    BY <2>2 DEF ClassOfRow
<1> QED
  BY <1>1, <1>3, <1>4, <1>5

-----------------------------------------------------------------------------
(* The steps of a call over the list *)

LEMMA ListRows ==
  ASSUME IInv, use = "list", at = "batches", UNCHANGED use,
         forwards' = forwards + 1, UNCHANGED <<layerVars, first>>,
         NEW items, items = Shown(forwards')
  PROVE  \A i \in 1 .. BatchSize :
           items[i] = ImageOf(batch_index * BatchSize + (i - 1)) /\ items[i] \in Known
<1> USE BatchSizePositive
<1> SUFFICES ASSUME NEW i \in 1 .. BatchSize
             PROVE  items[i] = ImageOf(batch_index * BatchSize + (i - 1)) /\ items[i] \in Known
  OBVIOUS
<1>1. first \in Nat /\ batch_index \in Nat /\ forwards = first + batch_index
  BY DEF IInv, ListInv, CallInv, Taken
<1>2. forwards' - 1 = first + batch_index
  BY <1>1
<1>3. PICK u \in Int, w \in Int : u = first * BatchSize /\ w = batch_index * BatchSize
  <2>1. first * BatchSize \in Int /\ batch_index * BatchSize \in Int
    BY <1>1
  <2> QED
    BY <2>1
<1>4. (first + batch_index) * BatchSize = u + w
  <2>1. (first + batch_index) * BatchSize = first * BatchSize + batch_index * BatchSize
    BY <1>1
  <2> QED
    BY <1>3, <2>1
<1>5. items[i] = Line(u + w + i)
  BY <1>2, <1>4 DEF Shown
<1>6. ImageOf(w + (i - 1)) = Line(u + (w + (i - 1)) + 1)
  BY <1>3 DEF ImageOf
<1>7. u + (w + (i - 1)) + 1 = u + w + i /\ u + w + i \in Int
  BY <1>3
<1> QED
  BY <1>3, <1>5, <1>6, <1>7, LineIsOne DEF Known

\* What the layer's invariant says of a program that leaves the layer alone.
LEMMA ListMem ==
  ASSUME use = "list", UNCHANGED use PROVE MemInv'
BY DEF MemInv

LEMMA ListSteps ==
  ASSUME IInv, use = "list", ImageNext, UNCHANGED <<layerVars, proper, use>>
  PROVE  IInv'
<1> USE BatchSizePositive
<1>1. LayerInv'
  BY LayerStays DEF IInv, layerVars, LayerInv, BlobInv
<1>2. MemInv'
  BY ListMem
<1>3. UNCHANGED source /\ CallInv /\ RowsInv /\ ClassOfRow /\ use # "direct"
  BY DEF layerVars, IInv
<1>4. /\ forwards \in Nat /\ first \in Nat /\ batch_index \in Nat
      /\ forwards = first + Taken /\ first + num_mini_batches + Left <= MaxForwards
      /\ num_mini_batches \in Nat /\ Left \in {0, 1}
      /\ (Left = 0 <=> remain = 0)
  BY Sizes DEF IInv, ListInv, CallInv, Left
<1>5. ASSUME NEW c \in 0 .. MaxCount, Call(c) PROVE IInv'
  <2>1. /\ CallInv' /\ RowsInv' /\ ClassOfRow'
        /\ at' = "batches" /\ count' = c /\ batch_index' = 0 /\ at = "idle"
    BY <1>3, <1>5, BeginRows DEF Call
  <2>2. /\ first' = forwards /\ UNCHANGED forwards
        /\ forwards + 1 + (c \div BatchSize) <= MaxForwards
    BY <1>5 DEF Call
  <2>3. num_mini_batches' = c \div BatchSize /\ num_mini_batches' \in Nat /\ Left' \in {0, 1}
    BY <2>1, Batches, BoundsAreNat DEF num_mini_batches, Left
  <2>4. Taken' = 0
    BY <2>1 DEF Taken
  <2>5. ListInv'
    BY <1>4, <2>2, <2>3, <2>4, MaxForwardsNat DEF ListInv
  <2> QED
    BY <1>1, <1>2, <2>1, <2>5 DEF IInv
<1>6. CASE FullBatch
  <2>1. /\ forwards' = forwards + 1 /\ UNCHANGED first /\ CopyBatch(Shown(forwards'))
        /\ at = "batches" /\ batch_index' = batch_index + 1
        /\ UNCHANGED <<at, count>>
    BY <1>6 DEF FullBatch, CopyBatch
  <2>2. PICK items : items = Shown(forwards')
    OBVIOUS
  <2>3. CopyBatch(items)
    BY <2>1, <2>2
  <2>4. \A i \in 1 .. BatchSize :
          items[i] = ImageOf(batch_index * BatchSize + (i - 1)) /\ items[i] \in Known
    BY <2>1, <2>2, ListRows
  <2>5. CallInv' /\ RowsInv' /\ ClassOfRow'
    BY <1>3, <2>1, <2>3, <2>4, CopyBatchRows
  <2>6. UNCHANGED <<num_mini_batches, Left>>
    BY <2>1 DEF num_mini_batches, Left, remain
  <2>7. ListInv'
    BY <1>4, <2>1, <2>6 DEF ListInv, Taken
  <2> QED
    BY <1>1, <1>2, <2>5, <2>7 DEF IInv
<1>7. CASE RemainBatch
  <2>1. /\ forwards' = forwards + 1 /\ UNCHANGED first /\ CopyRemain(Shown(forwards'))
        /\ at = "batches" /\ at' = "written" /\ remain > 0
        /\ UNCHANGED <<batch_index, count>>
    BY <1>7 DEF RemainBatch, CopyRemain
  <2>2. PICK items : items = Shown(forwards')
    OBVIOUS
  <2>3. CopyRemain(items)
    BY <2>1, <2>2
  <2>4. \A i \in 1 .. BatchSize :
          items[i] = ImageOf(batch_index * BatchSize + (i - 1)) /\ items[i] \in Known
    BY <2>1, <2>2, ListRows
  <2>5. CallInv' /\ RowsInv' /\ ClassOfRow'
    BY <1>3, <2>1, <2>3, <2>4, CopyRemainRows
  <2>6. UNCHANGED <<num_mini_batches, Left>> /\ Left = 1
    BY <2>1 DEF num_mini_batches, Left, remain
  <2>7. ListInv'
    BY <1>4, <2>1, <2>6 DEF ListInv, Taken
  <2> QED
    BY <1>1, <1>2, <2>5, <2>7 DEF IInv
<1>8. CASE Exact \/ Return
  <2>1. /\ UNCHANGED <<forwards, first, count, batch_index, feature_dbs, class_re>>
        /\ \/ at = "batches" /\ batch_index = num_mini_batches /\ remain = 0
              /\ at' = "written"
           \/ at = "written" /\ at' = "idle"
    BY <1>8 DEF Exact, Return, NoRemain, Finish, listVars
  <2>2. CallInv' /\ RowsInv' /\ ClassOfRow'
    <3>1. at # "batches" => batch_index = num_mini_batches
      BY <1>3 DEF CallInv
    <3> QED
      BY <1>3, <2>1, <3>1, RowsStay
  <2>3. UNCHANGED <<num_mini_batches, Left>>
    BY <2>1 DEF num_mini_batches, Left, remain
  <2>4. ListInv'
    BY <1>4, <2>1, <2>3 DEF ListInv, Taken
  <2> QED
    BY <1>1, <1>2, <2>2, <2>4 DEF IInv
<1> QED
  BY <1>5, <1>6, <1>7, <1>8 DEF ImageNext

-----------------------------------------------------------------------------
(* The steps of a call over memory *)

LEMMA MemoryFacts ==
  ASSUME IInv, use = "memory"
  PROVE  /\ ~resized /\ batch_size = BatchSize /\ data \in {"null", "added"}
         /\ data = "null" => at = "idle" /\ count = 0 /\ ~has_new_data
         /\ data = "added" => shown = Taken /\ n > 0
         /\ proper \in BOOLEAN /\ (proper => ~aborted)
         /\ proper /\ data = "added" => count = n
         /\ n = Len(source) /\ n % BatchSize = 0
         /\ source \in Seq(Images) /\ n \in Nat /\ shown \in Nat /\ batch_index \in Nat
         /\ data = "added" => (has_new_data <=> shown * BatchSize < n)
BY DEF IInv, MemInv, LayerInv, BlobInv, CursorInv, ChunksInOrder, ConsumedIsFree, CallInv

\* After a proper call nothing is left.
LEMMA ProperIsFree ==
  ASSUME IInv, use = "memory", proper, at = "idle"
  PROVE  ~has_new_data
<1> USE BatchSizePositive
<1>1. CASE data = "null"
  BY <1>1, MemoryFacts
<1>2. CASE data = "added"
  <2>1. count = n /\ shown = Taken /\ n % BatchSize = 0
    BY <1>2, MemoryFacts
  <2>2. remain = 0
    BY <2>1, Sizes DEF IInv
  <2>3. shown = num_mini_batches
    BY <2>1, <2>2 DEF IInv, CallInv, Taken, Left
  <2>4. PICK w \in Nat : w = num_mini_batches * BatchSize
    BY Sizes DEF IInv
  <2>5. n = w + 0
    BY <2>1, <2>2, <2>4, Sizes DEF IInv
  <2>6. ~(w < n)
    BY <2>5
  <2> QED
    BY <1>2, <2>3, <2>4, <2>6, MemoryFacts
<1> QED
  BY <1>1, <1>2, MemoryFacts

\* The items of the Forward of a call are the images of the call's next rows.
LEMMA MemoryRows ==
  ASSUME IInv, use = "memory", at = "batches", UNCHANGED use, Forward
  PROVE  /\ LayerInv' /\ shown' = shown + 1 /\ data = "added"
         /\ UNCHANGED <<batch_size, data, n, aborted, source, resized>>
         /\ \A i \in 1 .. BatchSize :
              /\ top'[i] = ImageOf(batch_index * BatchSize + (i - 1))
              /\ top'[i] \in Known
<1> USE BatchSizePositive
<1>1. /\ ~resized /\ batch_size = BatchSize /\ data = "added" /\ n > 0
      /\ shown = Taken /\ n = Len(source) /\ source \in Seq(Images)
      /\ n \in Nat /\ shown \in Nat
  BY MemoryFacts
<1>2. shown = batch_index
  BY <1>1 DEF Taken, IInv, CallInv
<1>3. CASE Abort
  <2>1. shown' = shown + 1
    BY <1>1 DEF Forward, ForwardWith
  <2>2. shown' = shown
    BY <1>3 DEF Abort
  <2> QED
    BY <1>1, <2>1, <2>2
<1>4. CASE ~Abort
  <2>1. /\ LayerInv' /\ shown' = shown + 1
        /\ UNCHANGED <<batch_size, data, n, aborted, source, resized>>
    BY <1>4, LayerForward DEF IInv
  <2>2. top' = Chunk(shown)'
    BY <1>1, <2>1 DEF LayerInv, CursorInv, ChunksInOrder
  <2>3. Chunk(shown)' = [i \in 1 .. BatchSize |->
                           source[1 + (((shown' - 1) * BatchSize + i - 1) % n)]]
    BY <1>1, <2>1 DEF Chunk
  <2>4. shown' - 1 = batch_index
    BY <1>1, <1>2, <2>1
  <2>5. PICK w \in Int : w = batch_index * BatchSize
    BY <1>1, <1>2
  <2>6. ASSUME NEW i \in 1 .. BatchSize
        PROVE  /\ top'[i] = ImageOf(w + (i - 1))
               /\ top'[i] \in Known
    <3>1. top'[i] = source[1 + ((w + i - 1) % n)]
      BY <2>2, <2>3, <2>4, <2>5
    <3>2. w + i - 1 = w + (i - 1) /\ w + (i - 1) \in Int
      BY <2>5
    <3>3. ImageOf(w + (i - 1)) = source[1 + ((w + (i - 1)) % n)]
      BY <1>1 DEF ImageOf
    <3>4. (w + (i - 1)) % n \in 0 .. n - 1
      <4>1. n \in Nat \ {0}
        BY <1>1
      <4> QED
        BY <3>2, <4>1, DivMod
    <3>5. source[1 + ((w + (i - 1)) % n)] \in Images
      BY <1>1, <3>4
    <3> QED
      BY <3>1, <3>2, <3>3, <3>5 DEF Known
  <2> QED
    BY <1>1, <2>1, <2>5, <2>6
<1> QED
  BY <1>3, <1>4

LEMMA MemorySteps ==
  ASSUME IInv, use = "memory", ~aborted, MemoryNext, UNCHANGED <<listVars, use>>
  PROVE  IInv'
<1> USE BatchSizePositive
<1>1. UNCHANGED <<first, forwards>> /\ CallInv /\ RowsInv /\ ClassOfRow /\ use # "direct"
      /\ LayerInv
  BY DEF listVars, IInv
<1>2. ListInv'
  BY <1>1 DEF IInv, ListInv
<1>3. ASSUME NEW c \in 0 .. MaxCount, NEW images \in Arrays,
             NEW fit \in BOOLEAN, CallMemory(c, images, fit)
      PROVE  IInv'
  <2>1. at = "idle" /\ proper' = (proper /\ c = Len(images) /\ Acceptable(images, fit))
    BY <1>3 DEF CallMemory
  <2>2. CASE Acceptable(images, fit) /\ Take(images)
    <3>1. LayerInv'
      BY <1>1, <2>2, LayerTake
    <3>2. Begin(c) /\ ~aborted'
      BY <1>3, <2>2 DEF CallMemory, Take
    <3>3. /\ CallInv' /\ RowsInv' /\ ClassOfRow'
          /\ at' = "batches" /\ count' = c /\ batch_index' = 0
      BY <1>1, <3>2, BeginRows
    <3>4. /\ data' = "added" /\ n' = Len(images) /\ shown' = 0 /\ resized' = FALSE
          /\ batch_size' = batch_size
      BY <2>2 DEF Take, PointTo
    <3>5. Taken' = 0
      BY <3>3 DEF Taken
    <3>6. MemInv'
      BY <2>1, <3>2, <3>3, <3>4, <3>5, MemoryFacts DEF MemInv
    <3> QED
      BY <1>2, <3>1, <3>3, <3>6 DEF IInv
  <2>3. CASE (has_new_data \/ ~Acceptable(images, fit)) /\ Abort
    <3>1. /\ aborted' = TRUE /\ UNCHANGED callVars
          /\ UNCHANGED <<batch_size, memory, data, array, n, pos, has_new_data, top,
                         source, shown, resized>>
      BY <1>3, <2>3 DEF CallMemory, Abort
    <3>2. LayerInv'
      BY <1>1, <3>1, LayerStays
    <3>3. UNCHANGED <<at, count, batch_index, feature_dbs, class_re>>
      BY <3>1 DEF callVars
    <3>4. CallInv' /\ RowsInv' /\ ClassOfRow'
      <4>1. at \in {"idle", "batches", "written"} /\ (at # "batches" => batch_index = num_mini_batches)
        BY <1>1 DEF CallInv
      <4> QED
        BY <1>1, <2>1, <3>1, <3>3, <4>1, RowsStay
    <3>5. proper' = FALSE
      BY <2>1, <2>3, ProperIsFree, MemoryFacts
    <3>6. Taken' = Taken
      BY <3>3 DEF Taken, Left, remain, num_mini_batches
    <3>7. MemInv'
      BY <2>1, <3>1, <3>3, <3>5, <3>6, MemoryFacts DEF MemInv
    <3> QED
      BY <1>2, <3>2, <3>4, <3>7 DEF IInv
  <2> QED
    BY <1>3, <2>2, <2>3 DEF CallMemory, AddVector
<1>4. CASE MemoryBatch
  <2>1. /\ Forward /\ CopyBatch(top') /\ UNCHANGED proper
        /\ at = "batches" /\ batch_index' = batch_index + 1
        /\ UNCHANGED <<at, count>>
    BY <1>4 DEF MemoryBatch, CopyBatch
  <2>2. PICK items : items = top'
    OBVIOUS
  <2>3. /\ LayerInv' /\ shown' = shown + 1 /\ data = "added"
        /\ UNCHANGED <<batch_size, data, n, aborted, source, resized>>
        /\ \A i \in 1 .. BatchSize :
             items[i] = ImageOf(batch_index * BatchSize + (i - 1)) /\ items[i] \in Known
    BY <2>1, <2>2, MemoryRows
  <2>4. CopyBatch(items)
    BY <2>1, <2>2
  <2>5. CallInv' /\ RowsInv' /\ ClassOfRow'
    BY <1>1, <2>3, <2>4, CopyBatchRows
  <2>6. Taken = batch_index /\ Taken' = batch_index + 1
    BY <2>1, MemoryFacts DEF Taken
  <2>7. MemInv'
    BY <2>1, <2>3, <2>6, MemoryFacts DEF MemInv
  <2> QED
    BY <1>2, <2>3, <2>5, <2>7 DEF IInv
<1>5. CASE MemoryRemain
  <2>1. /\ Forward /\ CopyRemain(top') /\ UNCHANGED proper
        /\ at = "batches" /\ at' = "written" /\ remain > 0
        /\ UNCHANGED <<batch_index, count>>
    BY <1>5 DEF MemoryRemain, CopyRemain
  <2>2. PICK items : items = top'
    OBVIOUS
  <2>3. /\ LayerInv' /\ shown' = shown + 1 /\ data = "added"
        /\ UNCHANGED <<batch_size, data, n, aborted, source, resized>>
        /\ \A i \in 1 .. BatchSize :
             items[i] = ImageOf(batch_index * BatchSize + (i - 1)) /\ items[i] \in Known
    BY <2>1, <2>2, MemoryRows
  <2>4. CopyRemain(items)
    BY <2>1, <2>2
  <2>5. CallInv' /\ RowsInv' /\ ClassOfRow'
    BY <1>1, <2>3, <2>4, CopyRemainRows
  <2>6. Taken = batch_index /\ Taken' = batch_index + 1
    BY <2>1, MemoryFacts DEF Taken, Left, remain, num_mini_batches
  <2>7. MemInv'
    BY <2>1, <2>3, <2>6, MemoryFacts DEF MemInv
  <2> QED
    BY <1>2, <2>3, <2>5, <2>7 DEF IInv
<1>6. CASE MemoryExact \/ MemoryReturn
  <2>1. /\ UNCHANGED <<count, batch_index, feature_dbs, class_re, proper>>
        /\ UNCHANGED layerVars
        /\ \/ at = "batches" /\ batch_index = num_mini_batches /\ remain = 0
              /\ at' = "written"
           \/ at = "written" /\ at' = "idle"
    BY <1>6 DEF MemoryExact, MemoryReturn, NoRemain, Finish
  <2>2. UNCHANGED <<batch_size, memory, data, array, n, pos, has_new_data, top, aborted,
                    source, shown, resized>>
    BY <2>1 DEF layerVars
  <2>3. LayerInv'
    BY <1>1, <2>2, LayerStays DEF LayerInv, BlobInv
  <2>4. CallInv' /\ RowsInv' /\ ClassOfRow'
    <3>1. at # "batches" => batch_index = num_mini_batches
      BY <1>1 DEF CallInv
    <3> QED
      BY <1>1, <2>1, <2>2, <3>1, RowsStay
  <2>5. Taken' = Taken
    BY <1>1, <2>1 DEF Taken, Left, remain, num_mini_batches, CallInv
  <2>6. MemInv'
    BY <2>1, <2>2, <2>5, MemoryFacts DEF MemInv
  <2> QED
    BY <1>2, <2>3, <2>4, <2>6 DEF IInv
<1> QED
  BY <1>3, <1>4, <1>5, <1>6 DEF MemoryNext

-----------------------------------------------------------------------------
(* The theorems *)

LEMMA Initially == Init => IInv
<1> SUFFICES ASSUME Init PROVE IInv
  OBVIOUS
<1> USE BatchSizePositive, BoundsAreNat DEF Init, ImageInit, CallInit, LayerInit
<1>1. 0 \div BatchSize = 0 /\ 0 * BatchSize = 0
  OBVIOUS
<1>2. num_mini_batches = 0 /\ remain = 0 /\ Left = 0 /\ Taken = 0
  BY <1>1 DEF num_mini_batches, remain, Left, Taken
<1>3. CallInv
  BY <1>2 DEF CallInv
<1>4. ListInv
  BY <1>2, MaxForwardsNat DEF ListInv
<1>5. BlobInv
  <2>1. Zeros(FirstBatch) \in Seq(Images \cup {Zero})
    BY FirstBatchPositive DEF Zeros
  <2>2. << >> \in Seq(Images) /\ << >> \in Seq(Item) /\ Len(<< >>) = 0
    OBVIOUS
  <2> QED
    BY <2>1, <2>2, FirstBatchPositive DEF BlobInv
<1>6. CursorInv
  BY FirstBatchPositive DEF CursorInv, ChunksInOrder, ConsumedIsFree
<1>7. MemInv
  BY SameBatch DEF MemInv
<1>8. RowsInv
  BY DEF RowsInv
<1>9. ClassOfRow
  BY DEF ClassOfRow, WholeRows
<1> QED
  BY <1>3, <1>4, <1>5, <1>6, <1>7, <1>8, <1>9 DEF IInv, LayerInv

LEMMA Stutters ==
  ASSUME IInv, UNCHANGED vars
  PROVE  IInv'
BY DEF IInv, vars, callVars, listVars, layerVars, CallInv, ListInv, Taken, Left,
       num_mini_batches, remain, LayerInv, BlobInv, CursorInv, ChunksInOrder,
       ConsumedIsFree, Chunk, MemInv, RowsInv, ImageOf, ClassOfRow, WholeRows, Best

\* A caller that uses the layer directly makes no call of the extraction.
LEMMA DirectSteps ==
  ASSUME IInv, use = "direct", LayerNext, UNCHANGED <<callVars, listVars, proper, use>>
  PROVE  IInv'
<1>1. LayerInv'
  BY LayerSteps DEF IInv
<1>2. UNCHANGED <<at, count, batch_index, feature_dbs, class_re, forwards, first,
                  num_mini_batches>>
  BY DEF callVars, listVars, num_mini_batches
<1>3. CallInv'
  BY <1>2 DEF IInv, CallInv
<1>4. ListInv'
  BY <1>2 DEF IInv, ListInv
<1>5. MemInv' /\ RowsInv'
  BY DEF MemInv, RowsInv
<1>6. ClassOfRow'
  BY <1>2 DEF IInv, ClassOfRow, WholeRows, Best
<1> QED
  BY <1>1, <1>3, <1>4, <1>5, <1>6 DEF IInv

LEMMA Inductive == IInv /\ [Next]_vars => IInv'
<1> SUFFICES ASSUME IInv, [Next]_vars PROVE IInv'
  OBVIOUS
<1>1. CASE use = "list" /\ ImageNext /\ UNCHANGED <<layerVars, proper>> /\ UNCHANGED use
  BY <1>1, ListSteps
<1>2. CASE use = "memory" /\ MemoryNext /\ UNCHANGED listVars /\ UNCHANGED use
  BY <1>2, MemorySteps DEF MemoryNext
<1>3. CASE use = "direct" /\ LayerNext /\ UNCHANGED <<callVars, listVars, proper>>
           /\ UNCHANGED use
  BY <1>3, DirectSteps
<1>4. CASE UNCHANGED vars
  BY <1>4, Stutters
<1> QED
  BY <1>1, <1>2, <1>3, <1>4 DEF Next

LEMMA Always == Spec => []IInv
BY Initially, Inductive, PTL DEF Spec

LEMMA RowsFollow == IInv => RowsExact
<1> SUFFICES ASSUME IInv PROVE RowsExact
  OBVIOUS
<1> USE BatchSizePositive
<1>1. TypeOK
  <2>1. count \in Nat /\ num_mini_batches \in Nat /\ Left \in {0, 1}
    BY Sizes DEF IInv
  <2>2. forwards \in 0 .. MaxForwards /\ first \in 0 .. forwards
    <3>1. CASE use = "list"
      BY <2>1, <3>1, MaxForwardsNat DEF IInv, ListInv, CallInv, Taken
    <3>2. CASE use # "list"
      BY <3>2, MaxForwardsNat DEF IInv, ListInv
    <3> QED
      BY <3>1, <3>2
  <2>3. /\ at \in {"idle", "batches", "written"} /\ count \in 0 .. MaxCount
        /\ batch_index \in 0 .. num_mini_batches
        /\ DOMAIN feature_dbs = DOMAIN class_re
    BY <2>1 DEF IInv, CallInv
  <2>4. n \in Nat
    BY DEF IInv, LayerInv, BlobInv
  <2> QED
    BY <2>2, <2>3, <2>4 DEF TypeOK, IInv, LayerInv, BlobInv, CursorInv
<1>2. RowsFollowTheList
  BY DEF RowsFollowTheList, IInv, RowsInv, ImageOf
<1>3. RowsAreOwn
  BY DEF RowsAreOwn, IInv, RowsInv, ImageOf
<1> QED
  BY <1>1, <1>2, <1>3 DEF RowsExact, IInv

\* Every row of every call is written and has the feature of the image it
\* stands for, over the list and over memory, with a class of the highest score
\* in whole batches (Feature.cpp:48-224), for every list, size of a batch and
\* count.
THEOREM RowsAreExact == Spec => []RowsExact
BY Always, RowsFollow, PTL

LEMMA CallsFollow == IInv => MemoryCalls
<1> SUFFICES ASSUME IInv, use = "memory"
             PROVE  /\ proper => ~aborted
                    /\ at = "written" => (has_new_data <=> Drawn < Len(source))
  BY DEF MemoryCalls
<1>1. proper => ~aborted
  BY MemoryFacts
<1>2. ASSUME at = "written"
      PROVE  has_new_data <=> Drawn < Len(source)
  <2>1. data = "added" /\ shown = Taken /\ n = Len(source)
        /\ (has_new_data <=> shown * BatchSize < n)
    BY <1>2, MemoryFacts
  <2>2. Taken = num_mini_batches + Left
    BY <1>2 DEF Taken, IInv, CallInv
  <2>3. Drawn = shown * BatchSize
    BY <2>1, <2>2 DEF Drawn, Left
  <2> QED
    BY <2>1, <2>3
<1> QED
  BY <1>1, <1>2

\* A caller that always asks for the images it gives, in whole batches, is
\* never aborted; one that asks for less leaves the layer closed.
THEOREM ProperCallsReturn == Spec => []MemoryCalls
BY Always, CallsFollow, PTL

\* The memory layer shows its chunks in order and takes new images exactly when
\* all were shown, for every size of a batch and number of images
\* (Forward_cpu, Reset and AddMatVector).
THEOREM ChunksFollow == Spec => []ChunksInOrder
<1>1. IInv => ChunksInOrder
  BY DEF IInv, LayerInv, CursorInv
<1> QED
  BY <1>1, Always, PTL

\* Between two calls over the list less than a batch is skipped, and nothing
\* without a remainder.
THEOREM GapsAreOnlyRemainders == Spec => GapsAreRemainders
<1> USE BatchSizePositive
<1> DEFINE Gap == first' * BatchSize - (first * BatchSize + count)
<1>1. ASSUME IInv, Next, use = "list" /\ at = "idle" /\ at' = "batches"
      PROVE  Gap \in 0 .. BatchSize - 1 /\ (remain = 0 => Gap = 0)
  <2>1. first' = forwards
    BY <1>1 DEF Next, ImageNext, Call, FullBatch, RemainBatch, CopyBatch, CopyRemain,
                Exact, NoRemain, Return, Finish
  <2>2. /\ forwards = first + (num_mini_batches + Left) /\ first \in Nat
        /\ num_mini_batches \in Nat /\ Left \in {0, 1}
        /\ remain \in 0 .. BatchSize - 1
        /\ (Left = 0 <=> remain = 0)
    <3>1. forwards = first + Taken /\ first \in Nat /\ batch_index = num_mini_batches
      BY <1>1 DEF IInv, ListInv, CallInv
    <3>2. Taken = num_mini_batches + Left
      BY <1>1, <3>1 DEF Taken
    <3>3. num_mini_batches \in Nat /\ Left \in {0, 1} /\ remain \in 0 .. BatchSize - 1
      BY <1>1, Sizes DEF IInv
    <3>4. Left = 0 <=> remain = 0
      BY <3>3 DEF Left
    <3> QED
      BY <3>1, <3>2, <3>3, <3>4
  <2>3. PICK u \in Int, w \in Nat : u = first * BatchSize /\ w = num_mini_batches * BatchSize
    <3>1. first * BatchSize \in Int /\ num_mini_batches * BatchSize \in Nat
      BY <1>1, <2>2, Sizes DEF IInv
    <3> QED
      BY <3>1
  <2>4. count = w + remain
    BY <1>1, <2>3, Sizes DEF IInv
  <2>5. first' * BatchSize = u + w + Left * BatchSize
    <3>1. (first + (num_mini_batches + Left)) * BatchSize
             = first * BatchSize + num_mini_batches * BatchSize + Left * BatchSize
      BY <2>2
    <3> QED
      BY <2>1, <2>2, <2>3, <3>1
  <2>6. CASE Left = 0
    <3>1. first' * BatchSize = u + w /\ remain = 0
      BY <2>2, <2>3, <2>5, <2>6
    <3>2. Gap = (u + w) - (u + (w + 0))
      BY <2>3, <2>4, <3>1
    <3>3. Gap = 0
      BY <2>3, <3>2
    <3>4. 0 \in 0 .. BatchSize - 1
      OBVIOUS
    <3> HIDE DEF Gap
    <3> QED
      BY <3>3, <3>4
  <2>7. CASE Left = 1
    <3>1. first' * BatchSize = u + w + BatchSize /\ remain \in 1 .. BatchSize - 1
      BY <2>2, <2>3, <2>5, <2>7
    <3>2. Gap = (u + w + BatchSize) - (u + (w + remain))
      BY <2>3, <2>4, <3>1
    <3>3. Gap = BatchSize - remain
      BY <2>3, <3>1, <3>2
    <3> QED
      BY <3>1, <3>3
  <2> QED
    BY <2>2, <2>6, <2>7
<1>2. IInv /\ [Next]_vars =>
        [use = "list" /\ at = "idle" /\ at' = "batches" =>
           LET gap == first' * BatchSize - (first * BatchSize + count)
           IN  gap \in 0 .. BatchSize - 1 /\ (remain = 0 => gap = 0)]_vars
  BY <1>1
<1> QED
  BY <1>2, Always, PTL DEF Spec, GapsAreRemainders

\* Images added to the layer are all shown before others take their place, also
\* if none of them was shown yet.
THEOREM AddedImagesAreShown == Spec => AddedAreShown
<1>1. ASSUME IInv, Next, data = "added", ~resized, Replaced
      PROVE  shown * batch_size >= n
  <2>1. has_new_data <=> shown * batch_size < n
    BY <1>1 DEF IInv, LayerInv, CursorInv, ChunksInOrder, ConsumedIsFree
  <2>2. shown \in Nat /\ n \in Nat /\ batch_size \in Nat
    BY <1>1 DEF IInv, LayerInv, BlobInv
  <2>3. \/ source' = source /\ shown' \in {shown, shown + 1}
        \/ ~has_new_data
        \/ data' = "caller"
    BY <1>1 DEF Next, ImageNext, MemoryNext, CallMemory, MemoryBatch, MemoryRemain,
                MemoryExact, MemoryReturn, LayerNext, AddVector, Reset, SetBatchSize,
                Forward, ForwardWith, Abort, PointTo, Take, layerVars
  <2>4. ~has_new_data
    BY <1>1, <2>2, <2>3 DEF Replaced
  <2>5. shown * batch_size \in Int
    BY <2>2
  <2> QED
    BY <2>1, <2>2, <2>4, <2>5
<1>2. IInv /\ [Next]_vars =>
        [data = "added" /\ ~resized /\ Replaced => shown * batch_size >= n]_vars
  BY <1>1
<1> QED
  BY <1>2, Always, PTL DEF Spec, AddedAreShown

-----------------------------------------------------------------------------
(* A person's answers *)

AttrTyped ==
  /\ pc \in {"new", "idle", "persons", "crashed", "gone"}
  /\ j \in 0 .. ImgNum
  /\ X_f # Null => X_f \in [0 .. 109 * ImgNum - 1 -> Floor .. MaxMargin]
  /\ ans # Null => DOMAIN ans = 0 .. 64 * ImgNum - 1
  /\ open \in 0 .. Descriptors

\* The persons that the outer loop has come past have all their answers.
AnsweredSoFar ==
  pc = "persons" =>
    /\ X_f \in [0 .. 109 * ImgNum - 1 -> Floor .. MaxMargin]
    /\ DOMAIN ans = 0 .. 64 * ImgNum - 1
    /\ \A i \in 0 .. 63 : \A col \in 0 .. j - 1 : ans[i * ImgNum + col] = Answer(i, col)

AttrInv == AttrTyped /\ AnsweredSoFar

LEMMA AttrInitially == AttrInit => AttrInv
BY ImgNumNat, DescriptorsNat
   DEF AttrInit, AttrInv, AttrTyped, AnsweredSoFar

\* Element i of column col is in the array, and in no other row or column.
LEMMA Flat ==
  ASSUME NEW rows \in Nat, NEW i \in 0 .. rows - 1, NEW col \in 0 .. ImgNum - 1
  PROVE  /\ i * ImgNum + col \in 0 .. rows * ImgNum - 1
         /\ (i * ImgNum + col) \div ImgNum = i
         /\ (i * ImgNum + col) % ImgNum = col
<1> USE ImgNumNat
<1>1. (i * ImgNum + col) \div ImgNum = i /\ (i * ImgNum + col) % ImgNum = col
  BY DivUnique
<1>2. PICK d \in Nat : rows = i + 1 + d
  <2>1. rows - i - 1 \in Nat /\ rows = i + 1 + (rows - i - 1)
    OBVIOUS
  <2> QED
    BY <2>1
<1>3. rows * ImgNum = i * ImgNum + ImgNum + d * ImgNum /\ d * ImgNum >= 0 /\ i * ImgNum >= 0
  BY <1>2
<1>4. i * ImgNum \in Int /\ rows * ImgNum \in Int /\ d * ImgNum \in Int
  BY <1>2
<1>5. i * ImgNum + col \in 0 .. rows * ImgNum - 1
  BY <1>3, <1>4
<1> QED
  BY <1>1, <1>5

LEMMA AttrStep == AttrInv /\ [AttrNext]_attrVars => AttrInv'
<1> SUFFICES ASSUME AttrInv, [AttrNext]_attrVars PROVE AttrInv'
  OBVIOUS
<1> USE ImgNumNat, DescriptorsNat
<1>1. AttrTyped /\ AnsweredSoFar
  BY DEF AttrInv
<1>2. CASE Construct
  BY <1>1, <1>2 DEF Construct, ReadFiles, AttrInv, AttrTyped, AnsweredSoFar
<1>3. CASE get_att
  <2>1. pc = "idle" /\ pc' \in {"idle", "crashed"} /\ UNCHANGED <<ans, j>>
    BY <1>3 DEF get_att
  <2>2. X_f' = X_f \/ X_f' \in Products
    BY <1>3 DEF get_att
  <2>3. open' \in 0 .. Descriptors
    BY <1>1, <1>3 DEF get_att, ReadFiles, AttrTyped
  <2>4. AttrTyped'
    BY <1>1, <2>1, <2>2, <2>3, ProductsMargins DEF AttrTyped
  <2>5. AnsweredSoFar'
    BY <2>1 DEF AnsweredSoFar
  <2> QED
    BY <2>4, <2>5 DEF AttrInv
<1>4. CASE Union
  <2>1. AttrTyped' /\ AnsweredSoFar'
    <3>1. \A col \in 0 .. j' - 1 : FALSE
      BY <1>4 DEF Union
    <3>2. /\ pc' = "persons" /\ j' = 0 /\ UNCHANGED <<open, X_f>> /\ X_f # Null
          /\ DOMAIN ans' = 0 .. 64 * ImgNum - 1
      BY <1>4 DEF Union
    <3> QED
      BY <1>1, <3>1, <3>2 DEF AttrTyped, AnsweredSoFar
  <2> QED
    BY <1>1, <1>4, <2>1 DEF Union, AttrInv
<1>5. CASE Person
  <2>1. /\ pc = "persons" /\ j < ImgNum /\ j' = j + 1 /\ UNCHANGED <<open, X_f, pc>>
        /\ ans' = [a \in DOMAIN ans |->
                    IF a % ImgNum = j THEN Answer(a \div ImgNum, j) ELSE ans[a]]
    BY <1>5 DEF Person
  <2>2. /\ j \in 0 .. ImgNum - 1 /\ DOMAIN ans = 0 .. 64 * ImgNum - 1
        /\ X_f \in [0 .. 109 * ImgNum - 1 -> Floor .. MaxMargin]
    BY <1>1, <2>1 DEF AttrTyped, AnsweredSoFar
  <2>3. ASSUME NEW i \in 0 .. 63, NEW col \in 0 .. j
        PROVE  ans'[i * ImgNum + col] = Answer(i, col)
    <3>1. PICK a \in 0 .. 64 * ImgNum - 1 :
             a = i * ImgNum + col /\ a \div ImgNum = i /\ a % ImgNum = col
      <4>1. 64 \in Nat /\ i \in 0 .. 64 - 1 /\ col \in 0 .. ImgNum - 1
        BY <2>2
      <4> QED
        BY <4>1, Flat
    <3>2. col # j => col \in 0 .. j - 1
      BY <2>2
    <3>3. ans'[a] = IF col = j THEN Answer(i, j) ELSE ans[a]
      BY <2>1, <2>2, <3>1
    <3> QED
      BY <1>1, <2>1, <3>1, <3>2, <3>3 DEF AnsweredSoFar
  <2>4. \A i, col : Answer(i, col)' = Answer(i, col)
    BY <2>1 DEF Answer, union_X, Element, compare_with_thr
  <2>5. AnsweredSoFar'
    <3>1. 0 .. j' - 1 = 0 .. j
      BY <2>1, <2>2
    <3>2. DOMAIN ans' = 0 .. 64 * ImgNum - 1
      BY <2>1, <2>2
    <3> QED
      BY <2>1, <2>2, <2>3, <2>4, <3>1, <3>2 DEF AnsweredSoFar
  <2>6. AttrTyped'
    BY <1>1, <2>1, <2>2 DEF AttrTyped
  <2> QED
    BY <2>5, <2>6 DEF AttrInv
<1>6. CASE UnionReturns
  BY <1>1, <1>6 DEF UnionReturns, AttrInv, AttrTyped, AnsweredSoFar
<1>7. CASE Destroy
  BY <1>1, <1>7 DEF Destroy, AttrInv, AttrTyped, AnsweredSoFar
<1>8. CASE UNCHANGED attrVars
  <2>1. \A i, col : Answer(i, col)' = Answer(i, col)
    BY <1>8 DEF attrVars, Answer, union_X, Element, compare_with_thr
  <2> QED
    BY <1>1, <1>8, <2>1
       DEF attrVars, AttrInv, AttrTyped, AnsweredSoFar
<1> QED
  BY <1>2, <1>3, <1>4, <1>5, <1>6, <1>7, <1>8 DEF AttrNext

LEMMA AttrAlways == AttrSpec => []AttrInv
BY AttrInitially, AttrStep, PTL DEF AttrSpec

\* A place of a group is a place of an attribute.
LEMMA PlaceInGroup ==
  ASSUME NEW left \in 0 .. 108, NEW right \in left .. 108, NEW i \in left .. right
  PROVE  i \in 0 .. 108
OBVIOUS

\* union_X finds a largest margin of its group where one can be seen.
LEMMA UnionIsBest ==
  ASSUME X_f \in [0 .. 109 * ImgNum - 1 -> Floor .. MaxMargin],
         NEW col \in 0 .. ImgNum - 1, NEW left \in 0 .. 108, NEW right \in left .. 108,
         NEW seen \in left .. right, Element(seen, col) > Floor
  PROVE  /\ union_X(col, left, right) \in 0 .. right - left
         /\ \A i \in left .. right :
              Element(i, col) <= Element(left + union_X(col, left, right), col)
<1> USE ImgNumNat, MarginInt
<1> DEFINE over == {i \in left .. right : Element(i, col) > Floor}
           best == {i \in over : \A h \in over : Element(h, col) <= Element(i, col)}
           s == [i \in 0 .. 108 |-> Element(i, col)]
<1>1. \A i \in 0 .. 108 : Element(i, col) \in Floor .. MaxMargin
  <2>1. ASSUME NEW i \in 0 .. 108 PROVE Element(i, col) \in Floor .. MaxMargin
    <3>1. 109 \in Nat /\ i \in 0 .. 109 - 1
      OBVIOUS
    <3>2. i * ImgNum + col \in 0 .. 109 * ImgNum - 1
      BY <3>1, Flat
    <3> QED
      BY <3>2 DEF Element
  <2> QED
    BY <2>1
<1>2. s \in [0 .. 109 - 1 -> Int]
  BY <1>1
<1>3. over \in SUBSET (0 .. 109 - 1) /\ over # {} /\ over \subseteq 0 .. 108
  <2>1. over \subseteq left .. right /\ left .. right \subseteq 0 .. 108
    BY PlaceInGroup, Zenon
  <2>2. seen \in over
    OBVIOUS
  <2>3. 109 - 1 = 108
    OBVIOUS
  <2> HIDE DEF over
  <2> QED
    BY <2>1, <2>2, <2>3
<1>4. PICK b \in over : \A i \in over : s[i] <= s[b]
  <2>1. 109 \in Nat
    OBVIOUS
  <2> HIDE DEF over, s
  <2> QED
    BY <1>2, <1>3, <2>1, Largest
<1>5. b \in best
  <2>1. \A h \in over : s[h] = Element(h, col)
    BY <1>3
  <2> HIDE DEF over, s
  <2> QED
    BY <1>4, <2>1
<1>6. best \in SUBSET Nat /\ best \subseteq over
  <2>1. best \subseteq over
    OBVIOUS
  <2> HIDE DEF over, best
  <2> QED
    BY <1>3, <2>1
<1>7. PICK k \in best : \A h \in best : k <= h
  <2> HIDE DEF best
  <2> QED
    BY <1>5, <1>6, LeastNat
<1>8. PICK lowest \in best : lowest = CHOOSE i \in best : \A h \in best : i <= h
  <2> HIDE DEF best
  <2> QED
    BY <1>7
<1>9. union_X(col, left, right) = lowest - left
  <2>1. best # {}
    BY <1>5
  <2> QED
    BY <1>8, <2>1 DEF union_X
<1>10. lowest \in left .. right /\ Element(lowest, col) > Floor
       /\ \A h \in over : Element(h, col) <= Element(lowest, col)
  BY <1>8
<1>11. \A i \in left .. right : Element(i, col) <= Element(lowest, col)
  <2>1. ASSUME NEW i \in left .. right PROVE Element(i, col) <= Element(lowest, col)
    <3>1. i \in 0 .. 108 /\ lowest \in 0 .. 108
      BY <1>10, PlaceInGroup, Zenon
    <3>2. Element(i, col) > Floor => i \in over
      OBVIOUS
    <3> HIDE DEF over, best, s
    <3>3. /\ Element(i, col) \in Floor .. MaxMargin
          /\ Element(lowest, col) \in Floor .. MaxMargin
      BY <1>1, <3>1, Zenon
    <3>4. Element(i, col) \in Int /\ Element(lowest, col) \in Int /\ Floor \in Int
      BY <3>3
    <3> QED
      BY <1>10, <3>2, <3>4
  <2> QED
    BY <2>1
<1>12. left + (lowest - left) = lowest
  BY <1>10
<1> QED
  BY <1>9, <1>10, <1>11, <1>12

\* The attributes of the simple answers.
LEMMA SimpleIs ==
  /\ Len(Simple) = 58
  /\ \A q \in 1 .. 58 : Simple[q] = IF q = 1 THEN 1 ELSE IF q <= 11 THEN q + 5
                                   ELSE IF q <= 28 THEN q + 6 ELSE q + 7
<1> DEFINE o == <<1>>
           a == [x \in 1 .. 10 |-> 6 + x]
           b == [x \in 1 .. 17 |-> 17 + x]
           c == [x \in 1 .. 30 |-> 35 + x]
<1>1. /\ o \in Seq(Nat) /\ a \in Seq(Nat) /\ b \in Seq(Nat) /\ c \in Seq(Nat)
      /\ Len(o) = 1 /\ Len(a) = 10 /\ Len(b) = 17 /\ Len(c) = 30
  OBVIOUS
<1>2. /\ o[1] = 1
      /\ \A q \in 2 .. 11 : a[q - 1] = q + 5
      /\ \A q \in 12 .. 28 : b[q - 11] = q + 6
      /\ \A q \in 29 .. 58 : c[q - 28] = q + 7
  OBVIOUS
<1>3. PICK d, e : d = o \o a /\ e = d \o b
  OBVIOUS
<1>4. Simple = e \o c
  BY <1>3 DEF Simple
<1> HIDE DEF o, a, b, c
<1>5. /\ d \in Seq(Nat) /\ Len(d) = 11
      /\ \A q \in 1 .. 11 : d[q] = IF q <= 1 THEN 1 ELSE q + 5
  <2>1. o \in Seq(Nat) /\ a \in Seq(Nat)
    BY <1>1
  <2>2. /\ o \o a \in Seq(Nat) /\ Len(o \o a) = Len(o) + Len(a)
        /\ \A q \in 1 .. Len(o) + Len(a) :
             (o \o a)[q] = IF q <= Len(o) THEN o[q] ELSE a[q - Len(o)]
    BY <2>1, ConcatProperties, Zenon
  <2>3. Len(o) = 1 /\ Len(a) = 10 /\ 1 + 10 = 11
    BY <1>1
  <2>4. d \in Seq(Nat) /\ Len(d) = 11
    BY <2>2, <2>3, <1>3
  <2>5. \A q \in 1 .. 11 : d[q] = IF q <= 1 THEN o[q] ELSE a[q - 1]
    BY <2>2, <2>3, <1>3
  <2>6. \A q \in 1 .. 11 : d[q] = IF q <= 1 THEN 1 ELSE q + 5
    BY <1>2, <2>5
  <2> QED
    BY <2>4, <2>6
<1>6. /\ e \in Seq(Nat) /\ Len(e) = 28
      /\ \A q \in 1 .. 28 : e[q] = IF q <= 11 THEN d[q] ELSE q + 6
  <2>1. d \in Seq(Nat) /\ b \in Seq(Nat)
    BY <1>1, <1>5
  <2>2. /\ d \o b \in Seq(Nat) /\ Len(d \o b) = Len(d) + Len(b)
        /\ \A q \in 1 .. Len(d) + Len(b) :
             (d \o b)[q] = IF q <= Len(d) THEN d[q] ELSE b[q - Len(d)]
    BY <2>1, ConcatProperties, Zenon
  <2>3. Len(d) = 11 /\ Len(b) = 17 /\ 11 + 17 = 28
    BY <1>1, <1>5
  <2>4. e \in Seq(Nat) /\ Len(e) = 28
    BY <2>2, <2>3, <1>3
  <2>5. \A q \in 1 .. 28 : e[q] = IF q <= 11 THEN d[q] ELSE b[q - 11]
    BY <2>2, <2>3, <1>3
  <2>6. \A q \in 1 .. 28 : e[q] = IF q <= 11 THEN d[q] ELSE q + 6
    BY <1>2, <2>5
  <2> QED
    BY <2>4, <2>6
<1>7. /\ Simple \in Seq(Nat) /\ Len(Simple) = 58
      /\ \A q \in 1 .. 58 : Simple[q] = IF q <= 28 THEN e[q] ELSE q + 7
  <2>1. e \in Seq(Nat) /\ c \in Seq(Nat)
    BY <1>1, <1>6
  <2>2. /\ e \o c \in Seq(Nat) /\ Len(e \o c) = Len(e) + Len(c)
        /\ \A q \in 1 .. Len(e) + Len(c) :
             (e \o c)[q] = IF q <= Len(e) THEN e[q] ELSE c[q - Len(e)]
    BY <2>1, ConcatProperties, Zenon
  <2>3. Len(e) = 28 /\ Len(c) = 30 /\ 28 + 30 = 58
    BY <1>1, <1>6
  <2>4. Simple \in Seq(Nat) /\ Len(Simple) = 58
    BY <2>2, <2>3, <1>4
  <2>5. \A q \in 1 .. 58 : Simple[q] = IF q <= 28 THEN e[q] ELSE c[q - 28]
    BY <2>2, <2>3, <1>4
  <2>6. \A q \in 1 .. 58 : Simple[q] = IF q <= 28 THEN e[q] ELSE q + 7
    BY <1>2, <2>5
  <2> QED
    BY <2>4, <2>6
<1>8. \A q \in 1 .. 11 : d[q] = IF q <= 1 THEN 1 ELSE q + 5
  BY <1>5
<1>9. \A q \in 1 .. 28 : e[q] = IF q <= 11 THEN d[q] ELSE q + 6
  BY <1>6
<1>10. \A q \in 1 .. 58 : Simple[q] = IF q <= 28 THEN e[q] ELSE q + 7
  BY <1>7
<1>11. \A q \in 1 .. 58 : Simple[q] = IF q = 1 THEN 1 ELSE IF q <= 11 THEN q + 5
                                  ELSE IF q <= 28 THEN q + 6 ELSE q + 7
  BY <1>8, <1>9, <1>10
<1> QED
  BY <1>7, <1>11

\* A finished person's answers.
LEMMA AllAnswered ==
  ASSUME AttrInv, Returned
  PROVE  /\ X_f \in [0 .. 109 * ImgNum - 1 -> Floor .. MaxMargin]
         /\ \A col \in 0 .. ImgNum - 1 : \A q \in 1 .. 64 :
              Answered(col, q) = Answer(q - 1, col)
<1>1. /\ X_f \in [0 .. 109 * ImgNum - 1 -> Floor .. MaxMargin]
      /\ \A i \in 0 .. 63 : \A col \in 0 .. ImgNum - 1 :
           ans[i * ImgNum + col] = Answer(i, col)
  BY DEF AttrInv, AnsweredSoFar, Returned
<1>2. \A q \in 1 .. 64 : q - 1 \in 0 .. 63
  OBVIOUS
<1> QED
  BY <1>1, <1>2, Zenon DEF Answered

LEMMA SimpleFollows == AttrInv => SimpleByTable
<1> SUFFICES ASSUME AttrInv, Returned, NEW col \in 0 .. ImgNum - 1, NEW q \in 1 .. 58
             PROVE  Answered(col, q) = IF Margin(col, Simple[q]) > 0 THEN 1 ELSE 0
  BY SimpleIs DEF SimpleByTable
<1> USE ImgNumNat
<1>1. Answered(col, q) = Answer(q - 1, col)
      /\ X_f \in [0 .. 109 * ImgNum - 1 -> Floor .. MaxMargin]
  <2>1. q \in 1 .. 64
    OBVIOUS
  <2> QED
    BY <2>1, AllAnswered
<1>2. ASSUME NEW a \in 1 .. 109
      PROVE  compare_with_thr[(a - 1) * ImgNum + col] = IF Margin(col, a) > 0 THEN 1 ELSE 0
  <2>1. 109 \in Nat /\ a - 1 \in 0 .. 109 - 1
    OBVIOUS
  <2>2. (a - 1) * ImgNum + col \in 0 .. 109 * ImgNum - 1
    BY <2>1, Flat
  <2> QED
    BY <1>1, <2>2 DEF compare_with_thr, Margin
<1>3. PICK i \in 0 .. 57 : i = q - 1
  OBVIOUS
<1>4. PICK a \in 1 .. 109 : a = Simple[q]
  BY SimpleIs
<1>5. Answer(i, col) = compare_with_thr[(a - 1) * ImgNum + col]
  <2>1. CASE i = 0
    <3>1. a - 1 = 0
      BY <1>3, <1>4, <2>1, SimpleIs
    <3> QED
      BY <2>1, <3>1 DEF Answer
  <2>2. CASE i \in 1 .. 10
    <3>1. a - 1 = i + 5
      BY <1>3, <1>4, <2>2, SimpleIs
    <3> QED
      BY <2>2, <3>1 DEF Answer
  <2>3. CASE i \in 11 .. 27
    <3>1. a - 1 = i + 6
      BY <1>3, <1>4, <2>3, SimpleIs
    <3> QED
      BY <2>3, <3>1 DEF Answer
  <2>4. CASE i \in 28 .. 57
    <3>1. a - 1 = i + 7
      BY <1>3, <1>4, <2>4, SimpleIs
    <3> QED
      BY <2>4, <3>1 DEF Answer
  <2> QED
    BY <2>1, <2>2, <2>3, <2>4
<1> QED
  BY <1>1, <1>2, <1>3, <1>4, <1>5

\* What the table says of a grouped answer.
Told(q, of) ==
  \A col \in 0 .. ImgNum - 1 :
    (\E v \in DOMAIN of : Margin(col, of[v]) > Floor) =>
      /\ Answered(col, q) + 1 \in DOMAIN of
      /\ \A v \in DOMAIN of : Margin(col, of[v]) <= Margin(col, of[Answered(col, q) + 1])

\* Answer q is looked for from one attribute to another, and the table has these.
Stands(q, left, right, of) ==
  /\ q \in 1 .. 64 /\ left \in 0 .. 108 /\ right \in left .. 108
  /\ \A col : Answer(q - 1, col) = union_X(col, left, right)
  /\ DOMAIN of = 1 .. (right - left) + 1
  /\ \A v \in DOMAIN of : of[v] = left + v

LEMMA Together ==
  ASSUME AttrInv, Returned, NEW q, NEW left, NEW right, NEW of, Stands(q, left, right, of)
  PROVE  Told(q, of)
<1> USE ImgNumNat
<1>0. /\ q \in 1 .. 64 /\ left \in 0 .. 108 /\ right \in left .. 108
      /\ \A col : Answer(q - 1, col) = union_X(col, left, right)
      /\ DOMAIN of = 1 .. (right - left) + 1
      /\ \A v \in DOMAIN of : of[v] = left + v
  BY DEF Stands
<1> SUFFICES ASSUME NEW col \in 0 .. ImgNum - 1,
                    \E v \in DOMAIN of : Margin(col, of[v]) > Floor
             PROVE  /\ Answered(col, q) + 1 \in DOMAIN of
                    /\ \A v \in DOMAIN of :
                         Margin(col, of[v]) <= Margin(col, of[Answered(col, q) + 1])
  BY DEF Told
<1>1. Answered(col, q) = union_X(col, left, right)
      /\ X_f \in [0 .. 109 * ImgNum - 1 -> Floor .. MaxMargin]
  BY <1>0, AllAnswered
<1>2. ASSUME NEW v \in DOMAIN of
      PROVE  /\ Margin(col, of[v]) = Element(left + (v - 1), col)
             /\ left + (v - 1) \in left .. right
  <2>1. of[v] - 1 = left + (v - 1) /\ left + (v - 1) \in left .. right
    BY <1>0
  <2> QED
    BY <2>1, Zenon DEF Margin, Element
<1>3. PICK seen \in left .. right : Element(seen, col) > Floor
  BY <1>2
<1>4. PICK u : u = union_X(col, left, right)
  OBVIOUS
<1>5. u \in 0 .. right - left
      /\ \A i \in left .. right : Element(i, col) <= Element(left + u, col)
  BY <1>0, <1>1, <1>3, <1>4, UnionIsBest
<1>6. u + 1 \in DOMAIN of /\ left + ((u + 1) - 1) = left + u
  BY <1>0, <1>5
<1>7. Margin(col, of[u + 1]) = Element(left + u, col)
  BY <1>2, <1>6
<1>8. \A v \in DOMAIN of : Margin(col, of[v]) <= Margin(col, of[u + 1])
  BY <1>2, <1>5, <1>7
<1>9. Answered(col, q) = u
  BY <1>1, <1>4
<1> QED
  BY <1>6, <1>8, <1>9

LEMMA GroupsFollow == AttrInv => GroupByTable
<1> SUFFICES ASSUME AttrInv, Returned PROVE GroupByTable
  BY DEF GroupByTable
<1> USE ImgNumNat
<1>1. Told(59, <<2, 3, 4, 5, 6>>)
  <2>1. \A col : Answer(59 - 1, col) = union_X(col, 1, 5)
    BY DEF Answer
  <2>2. PICK of : of = <<2, 3, 4, 5, 6>>
    OBVIOUS
  <2>3. Stands(59, 1, 5, of)
    BY <2>1, <2>2 DEF Stands
  <2> QED
    BY <2>2, <2>3, Together
<1>2. Told(60, <<17, 35>>)
  <2>1. SUFFICES ASSUME NEW col \in 0 .. ImgNum - 1
                 PROVE  /\ Answered(col, 60) + 1 \in DOMAIN <<17, 35>>
                        /\ \A v \in DOMAIN <<17, 35>> :
                             Margin(col, <<17, 35>>[v]) <=
                               Margin(col, <<17, 35>>[Answered(col, 60) + 1])
    BY DEF Told
  <2>2. Answered(col, 60) = Answer(59, col)
        /\ X_f \in [0 .. 109 * ImgNum - 1 -> Floor .. MaxMargin]
    <3>1. 60 \in 1 .. 64 /\ 60 - 1 = 59
      OBVIOUS
    <3> QED
      BY <3>1, AllAnswered
  <2>3. Answer(59, col) = IF Element(16, col) > Element(34, col) THEN 0 ELSE 1
    BY DEF Answer
  <2>4. Margin(col, 17) = Element(16, col) /\ Margin(col, 35) = Element(34, col)
    BY DEF Margin, Element
  <2>5. Element(16, col) \in Int /\ Element(34, col) \in Int
    <3>1. 109 \in Nat /\ 16 \in 0 .. 109 - 1 /\ 34 \in 0 .. 109 - 1
      OBVIOUS
    <3>2. 16 * ImgNum + col \in 0 .. 109 * ImgNum - 1 /\ 34 * ImgNum + col \in 0 .. 109 * ImgNum - 1
      BY <3>1, Flat
    <3> QED
      BY <2>2, <3>2, MarginInt DEF Element
  <2>6. PICK of : of = <<17, 35>>
    OBVIOUS
  <2>7. DOMAIN of = {1, 2} /\ of[1] = 17 /\ of[2] = 35
    BY <2>6
  <2>8. PICK u : u = Answered(col, 60)
    OBVIOUS
  <2>9. CASE Element(16, col) > Element(34, col)
    <3>1. u + 1 = 1
      BY <2>2, <2>3, <2>8, <2>9
    <3> QED
      BY <3>1, <2>4, <2>5, <2>6, <2>7, <2>8, <2>9
  <2>10. CASE ~(Element(16, col) > Element(34, col))
    <3>1. u + 1 = 2
      BY <2>2, <2>3, <2>8, <2>10
    <3> QED
      BY <3>1, <2>4, <2>5, <2>6, <2>7, <2>8, <2>10
  <2> QED
    BY <2>9, <2>10
<1>3. Told(61, [x \in 1 .. 11 |-> 65 + x])
  <2>1. \A col : Answer(61 - 1, col) = union_X(col, 65, 75)
    BY DEF Answer
  <2>2. PICK of : of = [x \in 1 .. 11 |-> 65 + x]
    OBVIOUS
  <2>3. Stands(61, 65, 75, of)
    BY <2>1, <2>2 DEF Stands
  <2> QED
    BY <2>2, <2>3, Together
<1>4. Told(62, [x \in 1 .. 11 |-> 76 + x])
  <2>1. \A col : Answer(62 - 1, col) = union_X(col, 76, 86)
    BY DEF Answer
  <2>2. PICK of : of = [x \in 1 .. 11 |-> 76 + x]
    OBVIOUS
  <2>3. Stands(62, 76, 86, of)
    BY <2>1, <2>2 DEF Stands
  <2> QED
    BY <2>2, <2>3, Together
<1>5. Told(63, [x \in 1 .. 11 |-> 87 + x])
  <2>1. \A col : Answer(63 - 1, col) = union_X(col, 87, 97)
    BY DEF Answer
  <2>2. PICK of : of = [x \in 1 .. 11 |-> 87 + x]
    OBVIOUS
  <2>3. Stands(63, 87, 97, of)
    BY <2>1, <2>2 DEF Stands
  <2> QED
    BY <2>2, <2>3, Together
<1>6. Told(64, [x \in 1 .. 11 |-> 98 + x])
  <2>1. \A col : Answer(64 - 1, col) = union_X(col, 98, 108)
    BY DEF Answer
  <2>2. PICK of : of = [x \in 1 .. 11 |-> 98 + x]
    OBVIOUS
  <2>3. Stands(64, 98, 108, of)
    BY <2>1, <2>2 DEF Stands
  <2> QED
    BY <2>2, <2>3, Together
<1>7. ASSUME NEW g \in DOMAIN Grouped PROVE Told(Grouped[g][1], Grouped[g][2])
  <2>1. g \in {"age", "gender", "footwear", "hair", "lowerBody", "upperBody"}
    BY DEF Grouped
  <2> QED
    BY <1>1, <1>2, <1>3, <1>4, <1>5, <1>6, <2>1 DEF Grouped
<1> QED
  BY <1>7, Zenon DEF GroupByTable, Told

\* The 64 answers for each person are those that att_index.txt says, for any
\* number of persons and any scores.
THEOREM AnswersAreByTable == AttrSpec => []AnswersByTable
<1>1. AttrInv => AttrTypeOK
  BY DEF AttrInv, AttrTyped, AttrTypeOK
<1>2. AttrInv => AnswersByTable
  BY <1>1, SimpleFollows, GroupsFollow DEF AnswersByTable
<1> QED
  BY <1>2, AttrAlways, PTL
=============================================================================
