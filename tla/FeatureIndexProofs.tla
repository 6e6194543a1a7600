------------------------- MODULE FeatureIndexProofs -------------------------
(***************************************************************************)
(* Proofs about FeatureIndex, for any vectors, list count, batches and     *)
(* bounds: what ntotal counts, and when labels identify vectors.           *)
(***************************************************************************)
EXTENDS FeatureIndex, FiniteSetTheorems, SequenceTheorems, TLAPS

LEMMA NewIndexInv == ASSUME NEW p \in Nat PROVE IndexInv(NewIndex(p))
BY FS_EmptySet DEF IndexInv, NewIndex, Index, Accounts, Identifies

LEMMA SameEntries ==
  ASSUME NEW ix, IndexInv(ix), NEW jx \in Index,
         jx.entries = ix.entries, jx.ntotal = ix.ntotal, jx.added = ix.added,
         jx.ignored = ix.ignored, jx.holed = ix.holed
  PROVE  IndexInv(jx)
BY DEF IndexInv, Accounts, Identifies

LEMMA TrainedInv ==
  ASSUME NEW ix, IndexInv(ix) PROVE IndexInv(Trained(ix)) 
<1>1. ix \in Index
  BY DEF IndexInv
<1>2. Trained(ix) \in Index
  <2> DEFINE b == ix.book + 1
  <2>1. b \in Nat
    BY <1>1 DEF Index
  <2>2. Trained(ix) = [ix EXCEPT !.coarse = TRUE, !.book = b, !.is_trained = TRUE]
    BY DEF Trained
  <2> HIDE DEF b
  <2> QED
    BY <1>1, <2>1, <2>2 DEF Index
<1> QED
  BY <1>1, <1>2, SameEntries DEF Trained, Index

LEMMA ProbedInv ==
  ASSUME NEW ix, IndexInv(ix), NEW p \in Nat
  PROVE  IndexInv([ix EXCEPT !.nprobe = p])
<1>1. ix \in Index
  BY DEF IndexInv
<1>2. [ix EXCEPT !.nprobe = p] \in Index
  BY <1>1 DEF Index
<1> QED
  BY <1>1, <1>2, SameEntries DEF Index

-----------------------------------------------------------------------------
\* The entries of an add are new, and there is one for each indexed vector.
LEMMA NewEntriesCount ==
  ASSUME NEW ix \in Index, NEW xs \in Seq(Vectors), NEW base \in Nat
  PROVE  /\ NewEntries(ix, xs, base) \subseteq Entry
         /\ IsFiniteSet(NewEntries(ix, xs, base))
         /\ Cardinality(NewEntries(ix, xs, base)) = Cardinality(Indexed(xs))
         /\ IsFiniteSet(Indexed(xs))
         /\ \A e \in NewEntries(ix, xs, base) :
              /\ ix.added < e.serial /\ e.serial <= ix.added + Len(xs)
              /\ base <= e.id /\ e.id < base + Len(xs)
         /\ \A e, f \in NewEntries(ix, xs, base) : e.id = f.id => e = f
<1>1. Len(xs) \in Nat /\ \A i \in 1 .. Len(xs) : xs[i] \in Vectors
  BY LenProperties, ElementOfSeq
<1>2. ix.added \in Nat /\ ix.book \in Nat
  BY DEF Index
<1>3. Indexed(xs) \subseteq 1 .. Len(xs)
  BY DEF Indexed
<1>4. IsFiniteSet(Indexed(xs))
  <2>1. IsFiniteSet(1 .. Len(xs))
    BY <1>1, FS_Interval
  <2> QED
    BY <1>3, <2>1, FS_Subset
<1> DEFINE new(i) == [serial |-> ix.added + i, id |-> base + i - 1,
                      vec |-> xs[i], book |-> ix.book]
           N == {new(i) : i \in Indexed(xs)}
           f == [i \in Indexed(xs) |-> new(i)]
<1>5. NewEntries(ix, xs, base) = N
  BY DEF NewEntries
<1>6. \A i \in Indexed(xs) : new(i) \in Entry
  BY <1>1, <1>2, <1>3 DEF Entry
<1>7. f \in Bijection(Indexed(xs), N)
  <2>1. f \in [Indexed(xs) -> N]
    OBVIOUS
  <2>2. \A i, k \in Indexed(xs) : f[i] = f[k] => i = k
    <3> SUFFICES ASSUME NEW i \in Indexed(xs), NEW k \in Indexed(xs), f[i] = f[k]
                 PROVE  i = k
      OBVIOUS
    <3>1. f[i].serial = ix.added + i /\ f[k].serial = ix.added + k
      OBVIOUS
    <3>2. i \in Int /\ k \in Int
      BY <1>1, <1>3
    <3> QED
      BY <1>2, <3>1, <3>2
  <2>3. \A e \in N : \E i \in Indexed(xs) : f[i] = e
    OBVIOUS
  <2> QED
    BY <2>1, <2>2, <2>3 DEF Bijection, Injection, Surjection, IsInjective
<1>8. IsFiniteSet(N) /\ Cardinality(N) = Cardinality(Indexed(xs))
  BY <1>4, <1>7, FS_Bijection DEF ExistsBijection
<1>9. \A i \in Indexed(xs) : /\ ix.added < new(i).serial
                             /\ new(i).serial <= ix.added + Len(xs)
                             /\ base <= new(i).id /\ new(i).id < base + Len(xs)
  BY <1>1, <1>2, <1>3
<1>10. \A i, k \in Indexed(xs) : new(i).id = new(k).id => i = k
  BY <1>1, <1>3
<1> QED
  BY <1>4, <1>5, <1>6, <1>8, <1>9, <1>10

LEMMA AddedInv ==
  ASSUME NEW ix, IndexInv(ix), NEW xs \in Seq(Vectors)
  PROVE  IndexInv(Added(ix, xs))
<1> DEFINE N == NewEntries(ix, xs, ix.ntotal)
           jx == Added(ix, xs)
           miss == 1 .. Len(xs) \ Indexed(xs)
<1>1. /\ ix \in Index /\ IsFiniteSet(ix.entries) /\ ix.added \in Nat /\ ix.ignored \in Nat
      /\ ix.ntotal = Cardinality(ix.entries) + ix.ignored
      /\ \A e \in ix.entries : e.serial <= ix.added /\ e \in Entry
  BY DEF IndexInv, Index, Accounts
<1>2. Len(xs) \in Nat
  BY LenProperties
<1>3. Cardinality(ix.entries) \in Nat /\ ix.ntotal \in Nat
  BY <1>1, FS_CardinalityType
<1>4. /\ N \subseteq Entry /\ IsFiniteSet(N)
      /\ Cardinality(N) = Cardinality(Indexed(xs)) /\ IsFiniteSet(Indexed(xs))
      /\ \A e \in N : /\ ix.added < e.serial /\ e.serial <= ix.added + Len(xs)
                      /\ ix.ntotal <= e.id /\ e.id < ix.ntotal + Len(xs)
      /\ \A e, f \in N : e.id = f.id => e = f
  BY <1>1, <1>3, NewEntriesCount
<1>5. /\ IsFiniteSet(miss) /\ Cardinality(miss) \in Nat
      /\ Cardinality(miss) = Len(xs) - Cardinality(Indexed(xs))
      /\ Cardinality(Indexed(xs)) \in Nat
  <2>1. IsFiniteSet(1 .. Len(xs)) /\ Cardinality(1 .. Len(xs)) = Len(xs)
    BY <1>2, FS_Interval
  <2>2. (1 .. Len(xs)) \cap Indexed(xs) = Indexed(xs)
    BY DEF Indexed
  <2>3. IsFiniteSet(miss) /\ Cardinality(miss) = Len(xs) - Cardinality(Indexed(xs))
    <3>1. /\ IsFiniteSet((1 .. Len(xs)) \ Indexed(xs))
          /\ Cardinality((1 .. Len(xs)) \ Indexed(xs))
               = Cardinality(1 .. Len(xs)) - Cardinality((1 .. Len(xs)) \cap Indexed(xs))
      BY <2>1, FS_Difference, Zenon
    <3> QED
      BY <2>1, <2>2, <3>1
  <2> QED
    BY <2>3, <1>4, FS_CardinalityType
<1>6. /\ jx.entries = ix.entries \cup N /\ jx.ntotal = ix.ntotal + Len(xs)
      /\ jx.added = ix.added + Len(xs) /\ jx.ignored = ix.ignored + Cardinality(miss)
      /\ jx.holed = ix.holed
  BY <1>1 DEF Added, AddedCounting, Index
<1>7. jx \in Index
  <2> DEFINE es == ix.entries \cup N
             nt == ix.ntotal + Len(xs)
             ad == ix.added + Len(xs)
             ig == ix.ignored + Cardinality(miss)
  <2>3. nt \in Nat /\ ad \in Nat
    BY <1>1, <1>2, <1>3
  <2>4. ig \in Nat
    BY <1>1, <1>5
  <2>1. es \in SUBSET Entry /\ nt \in Nat /\ ad \in Nat /\ ig \in Nat
    BY <1>1, <1>4, <2>3, <2>4
  <2>2. jx = [ix EXCEPT !.entries = es, !.ntotal = nt, !.added = ad, !.ignored = ig]
    BY DEF Added, AddedCounting
  <2> HIDE DEF es, nt, ad, ig, jx
  <2> QED
    BY <1>1, <2>1, <2>2 DEF Index
<1>8. IsFiniteSet(jx.entries) /\ Cardinality(jx.entries) =
        Cardinality(ix.entries) + Cardinality(Indexed(xs))
  <2>1. ix.entries \cap N = {}
    <3> SUFFICES ASSUME NEW e \in ix.entries, e \in N PROVE FALSE
      OBVIOUS
    <3>1. e.serial \in Nat /\ e.serial <= ix.added /\ ix.added < e.serial
      BY <1>1, <1>4 DEF Entry
    <3> QED
      BY <3>1, <1>1
  <2>2. Cardinality(ix.entries \cap N) = 0
    BY <2>1, FS_EmptySet
  <2>3. /\ IsFiniteSet(ix.entries \cup N)
        /\ Cardinality(ix.entries \cup N) = Cardinality(ix.entries) + Cardinality(N) - 0
    BY <1>1, <1>4, <2>2, FS_Union
  <2>4. Cardinality(ix.entries \cup N) = Cardinality(ix.entries) + Cardinality(Indexed(xs))
    BY <2>3, <1>3, <1>4, <1>5
  <2> QED
    BY <2>3, <2>4, <1>6
<1>9. \A e \in jx.entries : e.serial <= jx.added
  BY <1>1, <1>2, <1>4, <1>6 DEF Entry
<1>10. Accounts(jx)
  BY <1>1, <1>2, <1>3, <1>5, <1>6, <1>8 DEF Accounts
<1>11. Identifies(jx)
  <2> SUFFICES ASSUME ~jx.holed
               PROVE  /\ \A e, f \in jx.entries : e.id = f.id => e = f
                      /\ \A e \in jx.entries : e.id < jx.ntotal
    BY DEF Identifies
  <2>1. /\ \A e, f \in ix.entries : e.id = f.id => e = f
        /\ \A e \in ix.entries : e.id < ix.ntotal
    BY <1>6 DEF IndexInv, Identifies
  <2>2. \A e \in ix.entries, f \in N : e.id # f.id
    BY <2>1, <1>1, <1>3, <1>4 DEF Entry
  <2>3. \A e \in jx.entries : e.id < jx.ntotal
    BY <2>1, <1>1, <1>2, <1>3, <1>4, <1>6 DEF Entry
  <2> QED
    BY <2>1, <2>2, <2>3, <1>4, <1>6
<1> QED
  BY <1>7, <1>8, <1>9, <1>10, <1>11 DEF IndexInv

LEMMA RemovedInv ==
  ASSUME NEW ix, IndexInv(ix), NEW lo \in Int, NEW hi \in Int
  PROVE  IndexInv(Removed(ix, lo, hi))
<1> DEFINE gone == InRange(ix, lo, hi)
           jx == Removed(ix, lo, hi)
<1>1. /\ ix \in Index /\ IsFiniteSet(ix.entries) /\ ix.added \in Nat /\ ix.ignored \in Nat
      /\ ix.ntotal = Cardinality(ix.entries) + ix.ignored
      /\ \A e \in ix.entries : e.serial <= ix.added /\ e \in Entry
  BY DEF IndexInv, Index, Accounts
<1>2. gone \subseteq ix.entries
  BY DEF InRange
<1>3. /\ IsFiniteSet(gone) /\ Cardinality(gone) \in Nat
      /\ Cardinality(ix.entries) \in Nat /\ ix.ntotal \in Nat
  BY <1>1, <1>2, FS_Subset, FS_CardinalityType
<1>4. /\ IsFiniteSet(ix.entries \ gone)
      /\ Cardinality(ix.entries \ gone) = Cardinality(ix.entries) - Cardinality(gone)
  <2>1. ix.entries \cap gone = gone
    BY <1>2
  <2>2. /\ IsFiniteSet(ix.entries \ gone)
        /\ Cardinality(ix.entries \ gone) =
             Cardinality(ix.entries) - Cardinality(ix.entries \cap gone)
    BY <1>1, FS_Difference
  <2> QED
    BY <2>1, <2>2, Zenon
<1>5. /\ jx.entries = ix.entries \ gone /\ jx.ntotal = ix.ntotal - Cardinality(gone)
      /\ jx.added = ix.added /\ jx.ignored = ix.ignored
      /\ jx.holed = (ix.holed \/ \E e \in gone, f \in ix.entries \ gone : f.id >= e.id)
  BY <1>1 DEF Removed, RemovedCounting, Index
<1>6. jx \in Index
  <2> DEFINE es == ix.entries \ gone
             nt == ix.ntotal - Cardinality(gone)
             h == ix.holed \/ \E e \in gone, f \in ix.entries \ gone : f.id >= e.id
  <2>3. Cardinality(ix.entries \ gone) \in Nat
    BY <1>4, FS_CardinalityType
  <2>4. nt = Cardinality(ix.entries \ gone) + ix.ignored
    BY <1>1, <1>3, <1>4
  <2>1. es \in SUBSET Entry /\ nt \in Nat /\ h \in BOOLEAN
    BY <1>1, <2>3, <2>4
  <2>2. jx = [ix EXCEPT !.entries = es, !.ntotal = nt, !.holed = h]
    BY DEF Removed, RemovedCounting
  <2> HIDE DEF es, nt, h, jx
  <2> QED
    BY <1>1, <2>1, <2>2 DEF Index
<1>7. \A e \in jx.entries : e.serial <= jx.added
  BY <1>1, <1>5
<1>8. Accounts(jx)
  BY <1>1, <1>3, <1>4, <1>5 DEF Accounts
<1>9. Identifies(jx)
  <2> SUFFICES ASSUME ~jx.holed
               PROVE  /\ \A e, f \in jx.entries : e.id = f.id => e = f
                      /\ \A f \in jx.entries : f.id < jx.ntotal
    BY DEF Identifies
  <2>1. ~ix.holed /\ \A e \in gone, f \in ix.entries \ gone : ~(f.id >= e.id)
    BY <1>5
  <2>2. /\ \A e, f \in ix.entries : e.id = f.id => e = f
        /\ \A e \in ix.entries : e.id < ix.ntotal
    BY <2>1 DEF IndexInv, Identifies
  <2>3. ASSUME NEW f \in ix.entries \ gone PROVE f.id < ix.ntotal - Cardinality(gone)
    <3> DEFINE above == (f.id + 1) .. (ix.ntotal - 1)
               label == [e \in gone |-> e.id]
    <3>1. f.id \in Nat /\ f.id < ix.ntotal
      BY <1>1, <2>2 DEF Entry
    <3>2. IsFiniteSet(above) /\ Cardinality(above) = ix.ntotal - 1 - f.id
      <4> DEFINE lowest == f.id + 1
                 highest == ix.ntotal - 1
      <4>1. lowest \in Int /\ highest \in Int
        BY <1>3, <3>1
      <4> HIDE DEF lowest, highest
      <4>2. /\ IsFiniteSet(lowest .. highest)
            /\ Cardinality(lowest .. highest) =
                 IF lowest > highest THEN 0 ELSE highest - lowest + 1
        BY <4>1, FS_Interval
      <4> QED
        BY <4>2, <3>1, <1>3 DEF lowest, highest
    <3>3. \A e \in gone : e.id \in above
      BY <1>1, <1>2, <1>3, <2>1, <2>2, <3>1 DEF Entry
    <3>4. label \in Injection(gone, above)
      BY <1>2, <2>2, <3>3 DEF Injection, IsInjective
    <3>5. Cardinality(gone) <= Cardinality(above)
      BY <3>2, <3>4, FS_Injection
    <3> QED
      BY <1>3, <3>1, <3>2, <3>5
  <2> QED
    BY <1>5, <2>2, <2>3
<1> QED
  BY <1>4, <1>5, <1>6, <1>7, <1>8, <1>9 DEF IndexInv

-----------------------------------------------------------------------------
\* A step that keeps the file and gives the object an index that is in order.
LEMMA IndexStep ==
  ASSUME IInv, NEW ix, IndexInv(ix), index' = ix, alive' = "running",
         nprobe' = Garbage \/ nprobe' = ix.nprobe,
         size' = Garbage \/ size' = ix.ntotal, file' = file
  PROVE  IInv'
<1>1. ix \in Index /\ ix.nprobe \in Nat /\ ix.ntotal \in Nat
  BY DEF IndexInv, Index
<1>2. TypeOK'
  BY <1>1 DEF IInv, TypeOK
<1>3. CachesAgree'
  BY DEF CachesAgree
<1>4. EveryIndex(IndexInv)'
  BY DEF IInv, EveryIndex
<1> QED
  BY <1>2, <1>3, <1>4 DEF IInv

\* A step that leaves no object.
LEMMA NoObjectStep ==
  ASSUME IInv, NoObject, alive' \in {"none", "running", "crashed"},
         file' = file \/ \E ix, w : file' = [ix |-> ix, whole |-> w]
                               /\ IndexInv(ix) /\ w \in BOOLEAN
  PROVE  IInv'
<1>1. TypeOK'
  BY DEF IInv, TypeOK, NoObject, File, IndexInv
<1>2. CachesAgree'
  BY DEF CachesAgree, NoObject, Built
<1>3. EveryIndex(IndexInv)'
  BY DEF IInv, EveryIndex, NoObject
<1> QED
  BY <1>1, <1>2, <1>3 DEF IInv

LEMMA BuiltFacts ==
  ASSUME IInv, Built
  PROVE  /\ index \in Index /\ IndexInv(index)
         /\ nprobe = Garbage \/ nprobe = index.nprobe
         /\ size = Garbage \/ size = index.ntotal
BY DEF IInv, Built, TypeOK, EveryIndex, CachesAgree

LEMMA StepInv == IInv /\ [Next]_vars => IInv'
<1> SUFFICES ASSUME IInv, [Next]_vars PROVE IInv'
  OBVIOUS
<1>1. CASE Exit
  BY <1>1, NoObjectStep DEF Exit
<1>2. CASE ConstructEmpty
  BY <1>2, NoObjectStep DEF ConstructEmpty
<1>3. CASE ConstructSized
  <2>1. IndexInv(NewIndex(15)) /\ NewIndex(15).nprobe = 15 /\ NewIndex(15).ntotal = 0
    BY NewIndexInv DEF NewIndex
  <2> QED
    BY <1>3, <2>1, IndexStep DEF ConstructSized
<1>4. CASE ConstructWithParams
  BY <1>4, NewIndexInv, IndexStep DEF ConstructWithParams
<1>5. CASE CallOnNull
  BY <1>5, NoObjectStep DEF CallOnNull, Crash
<1>6. ASSUME NEW n \in TrainSizes, TrainIndex(n) PROVE IInv'
  <2>1. CASE Crash
    BY <2>1, NoObjectStep DEF Crash
  <2>2. CASE ~Crash
    <3>1. Built /\ index' = Trained(index) /\ UNCHANGED <<alive, nprobe, size, file>>
      BY <1>6, <2>2 DEF TrainIndex
    <3>2. IndexInv(Trained(index)) /\ index \in Index
      BY <3>1, BuiltFacts, TrainedInv
    <3>3. Trained(index).nprobe = index.nprobe /\ Trained(index).ntotal = index.ntotal
      BY <3>2 DEF Trained, Index
    <3> QED
      BY <3>1, <3>2, <3>3, BuiltFacts, IndexStep DEF Built, Running
  <2> QED
    BY <2>1, <2>2
<1>7. ASSUME NEW p \in Probes, setProbe(p) PROVE IInv'
  <2> DEFINE ix == [index EXCEPT !.nprobe = p]
  <2>1. /\ Built /\ index' = ix /\ nprobe' = p /\ UNCHANGED <<alive, size, file>>
    BY <1>7 DEF setProbe
  <2>2. index \in Index /\ p \in Nat
    BY <2>1, BuiltFacts, ProbesType
  <2>3. IndexInv(ix) /\ ix.nprobe = p /\ ix.ntotal = index.ntotal
    BY <2>1, <2>2, BuiltFacts, ProbedInv DEF Index
  <2> HIDE DEF ix
  <2> QED
    BY <2>1, <2>3, BuiltFacts, IndexStep DEF Built, Running
<1>8. ASSUME NEW xs \in Seq(Vectors), Add(xs) PROVE IInv'
  <2>1. CASE Crash
    BY <2>1, NoObjectStep DEF Crash
  <2>2. CASE ~Crash
    <3>1. /\ Built /\ index' = Added(index, xs) /\ size' = index'.ntotal
          /\ UNCHANGED <<alive, nprobe, file>>
      BY <1>8, <2>2 DEF Add
    <3>2. IndexInv(Added(index, xs)) /\ index \in Index
      BY <3>1, BuiltFacts, AddedInv
    <3>3. Added(index, xs).nprobe = index.nprobe
      BY <3>2 DEF Added, AddedCounting, Index
    <3> QED
      BY <3>1, <3>2, <3>3, BuiltFacts, IndexStep DEF Built, Running
  <2> QED
    BY <2>1, <2>2
<1>9. ASSUME NEW lo \in Int, NEW hi \in Int, Remove(lo, hi) PROVE IInv'
  <2>1. /\ Built /\ index' = Removed(index, lo, hi) /\ size' = index'.ntotal
        /\ UNCHANGED <<alive, nprobe, file>>
    BY <1>9 DEF Remove
  <2>2. IndexInv(Removed(index, lo, hi)) /\ index \in Index
    BY <2>1, BuiltFacts, RemovedInv
  <2>3. Removed(index, lo, hi).nprobe = index.nprobe
    BY <2>2 DEF Removed, RemovedCounting, Index
  <2> QED
    BY <2>1, <2>2, <2>3, BuiltFacts, IndexStep DEF Built, Running
<1>10. CASE WriteIndexToFile
  <2>1. PICK w \in BOOLEAN : file' = [ix |-> index, whole |-> w]
    BY <1>10 DEF WriteIndexToFile
  <2>2. Built /\ UNCHANGED <<alive, index, nprobe, size>>
    BY <1>10 DEF WriteIndexToFile, Writable, fields
  <2>3. index \in Index /\ IndexInv(index)
    BY <2>2, BuiltFacts
  <2>4. TypeOK'
    BY <2>1, <2>2, <2>3 DEF IInv, TypeOK, File
  <2>5. CachesAgree'
    BY <2>2 DEF IInv, CachesAgree, Built, Running
  <2>6. EveryIndex(IndexInv)'
    BY <2>1, <2>2, <2>3 DEF EveryIndex
  <2> QED
    BY <2>4, <2>5, <2>6 DEF IInv
<1>11. CASE WriteInterrupted
  BY <1>11, BuiltFacts, NoObjectStep DEF WriteInterrupted, Writable
<1>12. CASE ReadIndexFromFile
  <2>1. CASE Crash
    BY <2>1, NoObjectStep DEF Crash
  <2>2. CASE ~Crash
    <3>1. /\ file # NoFile /\ index' = file.ix /\ alive' = "running"
          /\ nprobe' = file.ix.nprobe /\ size' = file.ix.ntotal /\ file' = file
      BY <1>12, <2>2 DEF ReadIndexFromFile, Running
    <3>2. IndexInv(file.ix)
      BY <3>1 DEF IInv, EveryIndex
    <3> QED
      BY <3>1, <3>2, IndexStep
  <2> QED
    BY <2>1, <2>2
<1>13. CASE UNCHANGED vars
  BY <1>13 DEF vars, fields, IInv, TypeOK, CachesAgree, Built, Running, EveryIndex
<1>14. \A v \in Vectors : AddItemToFeature(v) => IInv'
  <2>1. \A v \in Vectors : <<v>> \in Seq(Vectors)
    OBVIOUS
  <2> QED
    BY <1>8, <2>1 DEF AddItemToFeature
<1>15. \A xs \in Batches : AddItemList(xs) => IInv'
  BY <1>8, BatchesType DEF AddItemList
<1>16. \A id \in Labels : DeleteItemFromFeature(id) => IInv'
  BY <1>9 DEF DeleteItemFromFeature, Labels
<1>17. \A b, n \in Labels : DeleteItemList(b, n) => IInv'
  BY <1>9 DEF DeleteItemList, Labels
<1> QED
  BY <1>1, <1>2, <1>3, <1>4, <1>5, <1>6, <1>7, <1>10, <1>11, <1>12, <1>13,
     <1>14, <1>15, <1>16, <1>17 DEF Next

(* The invariant holds in every state of every sequence of calls.          *)
THEOREM Invariance == Spec => []IInv
<1>1. Init => IInv
  BY DEF Init, IInv, TypeOK, CachesAgree, Built, Running, EveryIndex, File
<1> QED
  BY <1>1, StepInv, PTL DEF Spec

\* Every variable stays in its set, whatever the constants.
THEOREM TypeSafe == Spec => []TypeOK
<1>1. IInv => TypeOK
  BY DEF IInv
<1> QED
  BY Invariance, <1>1, PTL

(* The fields the getters answer from never disagree with the index.       *)
THEOREM CachesSafe == Spec => [](TypeOK /\ CachesAgree)
<1>1. IInv => TypeOK /\ CachesAgree
  BY DEF IInv
<1> QED
  BY Invariance, <1>1, PTL

(* ntotal counts the stored entries and the ignored vectors, for any       *)
(* batches, deletes, crashes and reloads.                                  *)
THEOREM NtotalSafe == Spec => []NtotalAccounts
<1>1. IInv => NtotalAccounts
  BY DEF IInv, EveryIndex, NtotalAccounts, IndexInv
<1> QED
  BY Invariance, <1>1, PTL

(* Without a delete that leaves a higher label behind, no two entries ever *)
(* share a label and the next label is free.                               *)
THEOREM LabelsSafe == Spec => []LabelsIdentify
<1>1. IInv => LabelsIdentify
  BY DEF IInv, EveryIndex, LabelsIdentify, IndexInv
<1> QED
  BY Invariance, <1>1, PTL
=============================================================================
