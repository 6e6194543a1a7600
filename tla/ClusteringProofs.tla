-------------------------- MODULE ClusteringProofs -------------------------
(***************************************************************************)
(* BestIsKept, OutputIsIndexed and EveryClusterHasItsPoints for every      *)
(* number of centroids, threads, points, iterations, redos and calls.      *)
(***************************************************************************)
EXTENDS Clustering, FiniteSetTheorems, TLAPS

\* Inside the loop over the iterations, and anywhere inside train.
Iterating == pc \in {"search", "count", "void", "donor"}
Training  == Iterating \/ pc = "redo"

\* The redos done are known by their errors.
RedosCounted ==
  /\ nredo \in Nat \ {0}
  /\ errs \in Seq(0 .. Inf) /\ err \in 0 .. Inf
  /\ Training => redo = Len(errs)

\* What the index and the object hold while train runs.
IndexFollows ==
  /\ Iterating => /\ index = cur
                  /\ nredo = 1 => centroids = cur
                  /\ nredo # 1 => cur = <<calls, redo, iter>>
  /\ pc = "redo" /\ redo > 0 => index = IF nredo = 1 THEN centroids ELSE None

\* best_err belongs to the table that is kept.
BestSoFar ==
  \/ (\A q \in DOMAIN errs : errs[q] = Inf) /\ centroids = given /\ best_err = Inf
  \/ \E r \in DOMAIN errs :
       /\ centroids = <<calls, r - 1, niter>>
       /\ best_err = errs[r] /\ errs[r] < Inf
       /\ \A q \in DOMAIN errs : errs[r] <= errs[q]

IInv == RedosCounted /\ IndexFollows /\ (Training /\ nredo # 1 => BestSoFar)

-----------------------------------------------------------------------------
LEMMA InitInv == Init => IInv
BY Parameters DEF Init, IInv, RedosCounted, IndexFollows, Training, Iterating

\* One more redo is done.
LEMMA EndRedoInv == ASSUME IInv, EndRedo, UNCHANGED params PROVE IInv'
<1> USE Parameters
<1>1. /\ pc = "search" /\ iter = niter /\ pc' = "redo" /\ redo' = redo + 1
      /\ errs' = Append(errs, err) /\ err' = err /\ nredo' = nredo
      /\ calls' = calls /\ given' = given /\ cur' = cur
  BY DEF EndRedo, EndRedoWith, params
<1>2. /\ errs \in Seq(0 .. Inf) /\ err \in 0 .. Inf /\ nredo \in Nat \ {0}
      /\ redo = Len(errs) /\ Len(errs) \in Nat /\ index = cur
      /\ nredo = 1 => centroids = cur
      /\ nredo # 1 => cur = <<calls, redo, iter>> /\ BestSoFar
  BY <1>1 DEF IInv, RedosCounted, IndexFollows, Training, Iterating
<1>3. /\ DOMAIN errs = 1 .. redo /\ DOMAIN errs' = 1 .. (redo + 1)
      /\ errs'[redo + 1] = err
      /\ \A q \in 1 .. redo : errs'[q] = errs[q] /\ errs[q] \in 0 .. Inf
      /\ errs' \in Seq(0 .. Inf) /\ Len(errs') = redo + 1
  BY <1>1, <1>2
<1>4. RedosCounted'
  BY <1>1, <1>2, <1>3 DEF RedosCounted
<1>5. IndexFollows'
  BY <1>1, <1>2 DEF IndexFollows, Iterating, EndRedo, EndRedoWith, Keep
<1>6. ASSUME nredo # 1 PROVE BestSoFar'
  <2>1. IF err < best_err THEN centroids' = cur /\ best_err' = err
                          ELSE centroids' = centroids /\ best_err' = best_err
    BY <1>6 DEF EndRedo, EndRedoWith, Keep
  <2>2. \A q \in DOMAIN errs' : q = redo + 1 \/ q \in 1 .. redo
    BY <1>2, <1>3
  <2>3. redo + 1 \in DOMAIN errs' /\ (redo + 1) - 1 = redo
    BY <1>2, <1>3
  <2>4. BestSoFar
    BY <1>2, <1>6
  <2>5. CASE err < best_err
    <3>1. \A q \in 1 .. redo : best_err <= errs[q]
      <4>1. CASE best_err = Inf /\ \A q \in DOMAIN errs : errs[q] = Inf
        BY <1>3, <4>1
      <4>2. ASSUME NEW r \in DOMAIN errs, best_err = errs[r],
                   \A q \in DOMAIN errs : errs[r] <= errs[q]
            PROVE  \A q \in 1 .. redo : best_err <= errs[q]
        BY <1>3, <4>2
      <4> QED
        BY <2>4, <4>1, <4>2 DEF BestSoFar
    <3>2. best_err \in 0 .. Inf
      BY <1>3, <2>4 DEF BestSoFar
    <3>3. err < Inf /\ \A q \in DOMAIN errs' : err <= errs'[q]
      BY <1>2, <1>3, <2>2, <2>5, <3>1, <3>2
    <3>4. centroids' = <<calls, redo, niter>> /\ best_err' = err
      BY <1>1, <1>2, <1>6, <2>1, <2>5
    <3> QED
      BY <1>1, <1>3, <2>3, <3>3, <3>4 DEF BestSoFar
  <2>6. CASE ~(err < best_err)
    <3>1. CASE (\A q \in DOMAIN errs : errs[q] = Inf) /\ centroids = given /\ best_err = Inf
      <4>1. err = Inf
        BY <1>2, <2>6, <3>1
      <4> QED
        BY <1>1, <1>3, <2>1, <2>2, <2>6, <3>1, <4>1 DEF BestSoFar
    <3>2. ASSUME NEW r \in DOMAIN errs, centroids = <<calls, r - 1, niter>>,
                 best_err = errs[r], errs[r] < Inf, \A q \in DOMAIN errs : errs[r] <= errs[q]
          PROVE  BestSoFar'
      <4>1. r \in DOMAIN errs' /\ errs'[r] = errs[r] /\ errs[r] <= err
        BY <1>2, <1>3, <2>6, <3>2
      <4>2. \A q \in DOMAIN errs' : errs'[r] <= errs'[q]
        BY <1>3, <2>2, <3>2, <4>1
      <4> QED
        BY <1>1, <2>1, <2>6, <3>2, <4>1, <4>2 DEF BestSoFar
    <3> QED
      BY <2>4, <3>1, <3>2 DEF BestSoFar
  <2> QED
    BY <2>5, <2>6
<1> QED
  BY <1>1, <1>4, <1>5, <1>6 DEF IInv

LEMMA StepInv == IInv /\ [Next]_vars => IInv'
<1> SUFFICES ASSUME IInv, [Next]_vars PROVE IInv'
  OBVIOUS
<1>1. CASE UNCHANGED vars
  BY <1>1 DEF vars, loop, history, params, IInv, RedosCounted, IndexFollows,
     Training, Iterating, BestSoFar
<1>2. CASE EndRedo /\ UNCHANGED params
  BY <1>2, EndRedoInv
<1>3. ASSUME NEW n \in 0 .. MaxPoints, NEW isfinite \in BOOLEAN,
             Train(n, isfinite), UNCHANGED params
      PROVE  IInv'
  <2>1. /\ errs' = << >> /\ redo' = 0 /\ nredo' = nredo /\ err' = err
        /\ pc' \in {"redo", "threw"} /\ given' = centroids'
        /\ best_err' = Inf
    BY <1>3 DEF Train, params
  <2>2. errs' \in Seq(0 .. Inf) /\ Len(errs') = 0 /\ DOMAIN errs' = {}
    BY <2>1
  <2>3. RedosCounted'
    BY <2>1, <2>2 DEF IInv, RedosCounted
  <2> QED
    BY <2>1, <2>2, <2>3 DEF IInv, IndexFollows, Training, Iterating, BestSoFar
<1>4. CASE (SetTable \/ ResetIndex \/ Return) /\ UNCHANGED params
  BY <1>4 DEF SetTable, ResetIndex, Return, loop, history, params, IInv,
     RedosCounted, IndexFollows, Training, Iterating
<1>5. CASE BeginRedo /\ UNCHANGED params
  <2>1. /\ errs' = errs /\ redo' = redo /\ nredo' = nredo /\ err' = 0 /\ iter' = 0
        /\ pc = "redo" /\ pc' \in {"search", "threw"} /\ given' = given
        /\ calls' = calls /\ best_err' = best_err
        /\ pc' = "search" => index' = cur'
        /\ nredo = 1 => centroids' = cur'
        /\ nredo # 1 => cur' = <<calls, redo, 0>> /\ centroids' = centroids
    BY <1>5 DEF BeginRedo, SetCurrent, history, params
  <2>2. RedosCounted'
    BY <2>1, Parameters DEF IInv, RedosCounted, Training, Iterating
  <2>3. IndexFollows'
    BY <2>1 DEF IndexFollows, Iterating
  <2> QED
    BY <2>1, <2>2, <2>3 DEF IInv, Training, Iterating, BestSoFar
<1>6. CASE Updated /\ UNCHANGED params
  <2>1. /\ errs' = errs /\ redo' = redo /\ nredo' = nredo /\ err' = err
        /\ pc = "void" /\ pc' = "search" /\ given' = given
        /\ calls' = calls /\ best_err' = best_err
        /\ index' = cur' /\ cur' = <<calls, redo, iter'>>
        /\ nredo = 1 => centroids' = cur'
        /\ nredo # 1 => centroids' = centroids
    BY <1>6 DEF Updated, SetCurrent, history, params
  <2>2. RedosCounted'
    BY <2>1 DEF IInv, RedosCounted, Training, Iterating
  <2>3. IndexFollows'
    BY <2>1 DEF IndexFollows, Iterating
  <2> QED
    BY <2>1, <2>2, <2>3 DEF IInv, Training, Iterating, BestSoFar
<1>7. ASSUME errs' = errs, redo' = redo, iter' = iter, nredo' = nredo, given' = given,
             calls' = calls, best_err' = best_err, index' = index, cur' = cur,
             centroids' = centroids, err' \in 0 .. Inf, Iterating,
             Iterating' \/ pc' = "aborted"
      PROVE  IInv'
  <2>1. Training /\ pc' # "redo"
    BY <1>7 DEF Training, Iterating
  <2>2. RedosCounted'
    BY <1>7, <2>1 DEF IInv, RedosCounted, Training, Iterating
  <2>3. IndexFollows'
    BY <1>7, <2>1 DEF IInv, IndexFollows
  <2> QED
    BY <1>7, <2>1, <2>2, <2>3 DEF IInv, BestSoFar
<1>8. err \in 0 .. Inf
  BY DEF IInv, RedosCounted
<1>9. CASE Search /\ UNCHANGED params
  BY <1>7, <1>9 DEF Search, loop, history, params, Iterating
<1>10. ASSUME NEW rank \in 0 .. nt - 1, Count(rank), UNCHANGED params PROVE IInv'
  BY <1>7, <1>8, <1>10 DEF Count, Histogram, loop, history, params, Iterating
<1>11. CASE (Divide \/ NextCluster \/ PassOver \/ Split) /\ UNCHANGED params
  BY <1>7, <1>8, <1>11 DEF Divide, NextCluster, PassOver, Split, loop, history,
     params, Iterating
<1> QED
  BY <1>1, <1>2, <1>3, <1>4, <1>5, <1>6, <1>9, <1>10, <1>11 DEF Next, Iterate

-----------------------------------------------------------------------------
\* train keeps the table of a redo with the least error, for every number of
\* redos and whatever the errors are.
THEOREM BestSafe == Spec => []BestIsKept
<1>1. IInv => BestIsKept
  <2> SUFFICES ASSUME IInv, pc = "redo", redo = nredo, nredo > 1
      PROVE  IF \A q \in DOMAIN errs : errs[q] = Inf THEN centroids = given
             ELSE \E r \in DOMAIN errs :
                    /\ centroids = <<calls, r - 1, niter>>
                    /\ \A q \in DOMAIN errs : errs[r] <= errs[q]
    BY DEF BestIsKept
  <2>1. /\ BestSoFar
        /\ \A q \in DOMAIN errs : errs[q] \in 0 .. Inf
    <3>1. BestSoFar
      BY DEF IInv, RedosCounted, Training
    <3>2. errs \in Seq(0 .. Inf)
      BY DEF IInv, RedosCounted
    <3>3. DOMAIN errs = 1 .. Len(errs)
      BY <3>2
    <3>4. \A q \in 1 .. Len(errs) : errs[q] \in 0 .. Inf
      BY <3>2, Parameters
    <3> QED
      BY <3>1, <3>3, <3>4
  <2>2. ASSUME NEW r \in DOMAIN errs, errs[r] < Inf
        PROVE  ~ \A q \in DOMAIN errs : errs[q] = Inf
    BY <2>1, <2>2, Parameters
  <2> QED
    BY <2>1, <2>2 DEF BestSoFar
<1> QED
  BY <1>1, InitInv, StepInv, PTL DEF Spec

\* When train returns after a single redo, the index holds the table.
THEOREM OutputSafe == Spec => OutputIsIndexed
<1>1. IInv /\ [Next]_vars =>
        [pc = "redo" /\ pc' = "idle" /\ nredo = 1 => index' = centroids']_vars
  <2> SUFFICES ASSUME IInv, Next, pc = "redo", pc' = "idle", nredo = 1
      PROVE  index' = centroids'
    OBVIOUS
  <2>1. Return
    BY DEF Next, Iterate, SetTable, ResetIndex, Train, BeginRedo, Search, Count,
       Histogram, Divide, NextCluster, PassOver, Split, Updated, EndRedo, EndRedoWith
  <2>2. redo = nredo /\ index' = index /\ centroids' = centroids /\ nredo \in Nat \ {0}
    BY <2>1 DEF Return, IInv, RedosCounted
  <2> QED
    BY <2>2 DEF IInv, IndexFollows
<1> QED
  BY <1>1, InitInv, StepInv, PTL DEF Spec, OutputIsIndexed

-----------------------------------------------------------------------------
(* Division, and subsets of a given size *)

\* Multiplication by a natural number is monotonic, and by M # 0 reflects <.
LEMMA TimesLess ==
  ASSUME NEW M \in Nat \ {0}, NEW x \in Int, NEW y \in Int
  PROVE  /\ x <= y <=> M * x <= M * y
         /\ M * (x + 1) = M * x + M
         /\ M * x \in Int
<1>1. M * x \in Int /\ M * y \in Int
  OBVIOUS
<1>2. M * (x + 1) = M * x + M
  OBVIOUS
<1>3. x <= y => M * x <= M * y
  <2> SUFFICES ASSUME x <= y PROVE M * x <= M * y
    OBVIOUS
  <2>1. PICK d \in Nat : y = x + d
    <3>1. y - x \in Nat /\ y = x + (y - x)
      OBVIOUS
    <3> QED
      BY <3>1
  <2>2. M * y = M * x + M * d /\ M * d >= 0
    BY <2>1
  <2> QED
    BY <1>1, <2>2
<1>4. x > y => M * x > M * y
  <2> SUFFICES ASSUME x > y PROVE M * x > M * y
    OBVIOUS
  <2>1. PICK d \in Nat : x = y + 1 + d
    <3>1. x - y - 1 \in Nat /\ x = y + 1 + (x - y - 1)
      OBVIOUS
    <3> QED
      BY <3>1
  <2>2. M * x = M * y + M + M * d /\ M * d >= 0
    BY <2>1
  <2> QED
    BY <1>1, <2>2
<1> QED
  BY <1>1, <1>2, <1>3, <1>4

\* A quotient by comparisons of products.
LEMMA Quotient ==
  ASSUME NEW x \in Nat, NEW M \in Nat \ {0}, NEW c \in Int
  PROVE  /\ x \div M \in Nat
         /\ x \div M <= c <=> x < M * (c + 1)
<1>1. PICK q \in Int, r \in Int : q = x \div M /\ r = x % M
  OBVIOUS
<1>2. r \in 0 .. M - 1 /\ x = M * q + r /\ q \in Nat
  <2>1. r \in 0 .. M - 1
    BY <1>1
  <2>2. x % M = x - M * (x \div M)
    OBVIOUS
  <2>3. x \div M >= 0
    OBVIOUS
  <2>4. M * q \in Int
    BY <1>1
  <2> QED
    BY <1>1, <2>1, <2>2, <2>3, <2>4
<1>3. CASE q <= c
  <2>1. M * q <= M * c /\ M * (c + 1) = M * c + M /\ M * q \in Int /\ M * c \in Int
    BY <1>3, TimesLess
  <2> QED
    BY <1>1, <1>2, <1>3, <2>1
<1>4. CASE ~(q <= c)
  <2>1. c + 1 <= q /\ c + 1 \in Int
    BY <1>4
  <2>2. M * (c + 1) <= M * q /\ M * q \in Int /\ M * (c + 1) \in Int
    BY <2>1, TimesLess
  <2> QED
    BY <1>1, <1>2, <1>4, <2>2
<1> QED
  BY <1>3, <1>4

\* Every cluster is in the slice of exactly one thread.
LEMMA Slices ==
  ASSUME NEW c \in Clusters
  PROVE  /\ \E rank \in 0 .. nt - 1 : c \in Slice(rank)
         /\ \A a \in 0 .. nt - 1, b \in 0 .. nt - 1 :
              c \in Slice(a) /\ c \in Slice(b) => a = b
<1> USE Parameters
<1>0. c \in 0 .. k - 1
  BY DEF Clusters
<1>1. ASSUME NEW rank \in 0 .. nt - 1
      PROVE  /\ k * rank \in Nat /\ nt * (c + 1) \in Nat
             /\ c \in Slice(rank) <=> k * rank < nt * (c + 1) /\ nt * (c + 1) <= k * (rank + 1)
  <2>1. k * rank \in Nat /\ k * (rank + 1) \in Nat /\ nt * (c + 1) \in Nat
    BY <1>0
  <2>2. PICK x \in Nat, y \in Nat : x = k * rank /\ y = k * (rank + 1)
    BY <2>1
  <2>3. x \div nt \in Nat /\ (x \div nt <= c <=> x < nt * (c + 1))
    BY <1>0, Quotient
  <2>4. y \div nt \in Nat /\ (y \div nt <= c <=> y < nt * (c + 1))
    BY <1>0, Quotient
  <2>5. c \in Slice(rank) <=> x \div nt <= c /\ ~(y \div nt <= c)
    BY <1>0, <2>2, <2>3, <2>4 DEF Slice
  <2>6. ~(y < nt * (c + 1)) <=> nt * (c + 1) <= y
    BY <2>1
  <2> QED
    BY <2>1, <2>2, <2>3, <2>4, <2>5, <2>6
<1>2. \E rank \in 0 .. nt - 1 : c \in Slice(rank)
  <2>1. PICK z \in Nat : z = nt * (c + 1) - 1
    <3>1. nt * (c + 1) = nt * c + nt /\ nt * c >= 0
      BY <1>0
    <3>2. nt * (c + 1) - 1 \in Nat
      BY <1>0, <3>1
    <3> QED
      BY <3>2
  <2>2. PICK rank \in Nat : rank = z \div k
    BY Quotient
  <2>3. z < k * (rank + 1)
    BY <2>2, Quotient
  <2>4. ~(z < k * rank)
    <3>1. rank - 1 \in Int /\ rank - 1 + 1 = rank
      OBVIOUS
    <3>2. z \div k <= rank - 1 <=> z < k * (rank - 1 + 1)
      BY <3>1, Quotient
    <3> QED
      BY <2>2, <3>1, <3>2
  <2>5. rank <= nt - 1
    <3>1. c + 1 <= k
      BY <1>0
    <3>2. nt * (c + 1) <= nt * k
      BY <1>0, <3>1, TimesLess
    <3>3. nt - 1 \in Int /\ k * (nt - 1 + 1) = nt * k /\ nt * k \in Nat
      OBVIOUS
    <3>4. z < k * (nt - 1 + 1)
      BY <1>0, <2>1, <3>2, <3>3
    <3> QED
      BY <2>2, <3>3, <3>4, Quotient
  <2>6. k * rank < nt * (c + 1) /\ nt * (c + 1) <= k * (rank + 1)
    <3>1. k * rank \in Int /\ k * (rank + 1) \in Int /\ nt * (c + 1) \in Int
      BY <1>0
    <3> QED
      BY <2>1, <2>3, <2>4, <3>1
  <2>7. rank \in 0 .. nt - 1
    BY <2>5
  <2> QED
    BY <1>1, <2>6, <2>7
<1>3. ASSUME NEW a \in 0 .. nt - 1, NEW b \in 0 .. nt - 1, a < b,
             c \in Slice(a), c \in Slice(b)
      PROVE  FALSE
  <2>1. nt * (c + 1) <= k * (a + 1) /\ k * b < nt * (c + 1)
    BY <1>1, <1>3
  <2>2. k * (a + 1) <= k * b /\ k * (a + 1) \in Int /\ k * b \in Int
    <3>1. a + 1 <= b /\ a + 1 \in Int /\ b \in Int
      BY <1>3
    <3> QED
      BY <3>1, TimesLess
  <2> QED
    BY <1>0, <2>1, <2>2
<1>4. \A a \in 0 .. nt - 1, b \in 0 .. nt - 1 : a = b \/ a < b \/ b < a
  OBVIOUS
<1> QED
  BY <1>2, <1>3, <1>4

\* A finite set has subsets of every smaller size.
LEMMA SubsetOfSize ==
  ASSUME NEW T, IsFiniteSet(T), NEW m \in 0 .. Cardinality(T)
  PROVE  \E S \in SUBSET T : /\ Cardinality(S) = m
                             /\ Cardinality(T \ S) = Cardinality(T) - m
<1>1. Cardinality(T) \in Nat /\ m \in Nat
  BY FS_CardinalityType
<1>2. PICK b \in Bijection(1 .. Cardinality(T), T) : TRUE
  BY FS_CardinalityType DEF ExistsBijection
<1> DEFINE S == {b[i] : i \in 1 .. m}
           g == [i \in 1 .. m |-> b[i]]
<1>3. /\ \A i \in 1 .. m : i \in 1 .. Cardinality(T)
      /\ b \in [1 .. Cardinality(T) -> T]
      /\ \A i, j \in 1 .. Cardinality(T) : b[i] = b[j] => i = j
  BY <1>1, <1>2 DEF Bijection, Injection, IsInjective
<1>4. S \in SUBSET T
  BY <1>3
<1>5. g \in Bijection(1 .. m, S)
  BY <1>3 DEF Bijection, Injection, IsInjective, Surjection
<1>6. Cardinality(S) = m
  BY <1>1, <1>5, FS_CountingElements DEF ExistsBijection
<1>7. IsFiniteSet(S) /\ IsFiniteSet(T \ S)
  BY <1>4, FS_Subset
<1>8. /\ Cardinality(S \cup (T \ S)) =
           Cardinality(S) + Cardinality(T \ S) - Cardinality(S \cap (T \ S))
      /\ S \cup (T \ S) = T /\ S \cap (T \ S) = {}
  <2>1. S \cup (T \ S) = T /\ S \cap (T \ S) = {}
    BY <1>4
  <2> QED
    BY <1>7, <2>1, FS_Union
<1>9. Cardinality({}) = 0 /\ Cardinality(T \ S) \in Nat
  BY <1>7, FS_EmptySet, FS_CardinalityType
<1>10. Cardinality(T \ S) = Cardinality(T) - m
  <2> HIDE DEF S
  <2>1. Cardinality(T) = Cardinality(S) + Cardinality(T \ S) - Cardinality({})
    BY <1>8
  <2> QED
    BY <1>1, <1>6, <1>9, <2>1
<1> QED
  BY <1>4, <1>6, <1>10

-----------------------------------------------------------------------------
(* The values of the variables *)

Loads == [Points(nx) -> Clusters \cup {-1}]

TypeMore ==
  /\ nredo \in Nat \ {0} /\ max_points_per_centroid \in Nat \ {0}
  /\ calls * nredo <= MaxRedos
  /\ Iterating => redo < nredo
  /\ pc \in {"count", "void", "donor"} => iter < niter
  /\ pc = "count" => /\ assign \in Loads
                     /\ placed = {i \in Points(nx) : assign[i] # -1}
  /\ pc = "donor" => ci < k /\ hassign[ci] = 0

TypeInv == TypeOK /\ TypeMore

LEMMA OfFinite ==
  ASSUME NEW a, NEW c, DOMAIN a \subseteq Points(nx), nx \in Nat
  PROVE  IsFiniteSet(Of(c, a)) /\ Cardinality(Of(c, a)) \in Nat
<1>1. IsFiniteSet(Points(nx))
  BY FS_Interval DEF Points
<1>2. Of(c, a) \in SUBSET Points(nx)
  BY DEF Of
<1> QED
  BY <1>1, <1>2, FS_Subset, FS_CardinalityType

LEMMA InitType == Init => TypeInv
<1> SUFFICES ASSUME Init PROVE TypeInv
  OBVIOUS
<1> USE Parameters, Bounds
<1>1. nredo \in Nat \ {0} /\ max_points_per_centroid \in Nat \ {0}
  BY DEF Init
<1>2. k * max_points_per_centroid \in Nat
  BY <1>1
<1>3. TypeOK
  BY <1>1, <1>2 DEF Init, TypeOK, Tables, Clusters, Points
<1>4. TypeMore
  BY <1>1 DEF Init, TypeMore, Iterating
<1> QED
  BY <1>3, <1>4 DEF TypeInv

LEMMA TypeStep == TypeInv /\ [Next]_vars => TypeInv'
<1> SUFFICES ASSUME TypeInv, [Next]_vars PROVE TypeInv'
  OBVIOUS
<1> USE Parameters, Bounds
<1>1. TypeOK /\ TypeMore
  BY DEF TypeInv
<1>2. /\ nredo \in Nat \ {0} /\ max_points_per_centroid \in Nat \ {0}
      /\ calls \in Nat /\ calls <= MaxRedos /\ MaxRedos \in Nat
      /\ redo \in 0 .. nredo /\ iter \in 0 .. niter
  BY <1>1 DEF TypeOK, TypeMore
<1>3. /\ None \in Tables /\ Own \in Tables /\ OddSize \in Tables
      /\ \A r \in 0 .. nredo - 1, i \in 0 .. niter : <<calls, r, i>> \in Tables
  BY <1>2, Parameters DEF Tables, Own, OddSize
<1>4. CASE UNCHANGED vars
  BY <1>1, <1>4 DEF vars, loop, history, params, TypeInv, TypeOK, TypeMore, Tables,
     Iterating, Points, Loads
<1>5. ASSUME UNCHANGED params, Next PROVE Tables' = Tables
  BY <1>5 DEF params, Tables
<1>6. CASE (SetTable \/ ResetIndex \/ Return) /\ UNCHANGED params
  <2>1. Tables' = Tables
    BY <1>6 DEF params, Tables
  <2>2. TypeOK'
    BY <1>1, <1>3, <1>6, <2>1 DEF SetTable, ResetIndex, Return, loop, history, params,
       TypeOK, Points
  <2>3. TypeMore'
    BY <1>1, <1>6 DEF SetTable, ResetIndex, Return, loop, history, params,
       TypeMore, Iterating
  <2> QED
    BY <2>2, <2>3 DEF TypeInv
<1>7. ASSUME NEW n \in 0 .. MaxPoints, NEW isfinite \in BOOLEAN,
             Train(n, isfinite), UNCHANGED params
      PROVE  TypeInv'
  <2>1. Tables' = Tables /\ nredo' = nredo
        /\ max_points_per_centroid' = max_points_per_centroid
    BY <1>7 DEF params, Tables
  <2>2. calls' = calls + 1 /\ (calls + 1) * nredo <= MaxRedos
    BY <1>7 DEF Train
  <2>3. calls' \in 0 .. MaxRedos
    <3>1. calls + 1 \in Nat /\ calls + 1 <= (calls + 1) * nredo
      <4>1. (calls + 1) * nredo = (calls + 1) * (nredo - 1 + 1)
        BY <1>2
      <4>2. (calls + 1) * (nredo - 1 + 1) = (calls + 1) * (nredo - 1) + (calls + 1)
            /\ (calls + 1) * (nredo - 1) >= 0
        BY <1>2
      <4> QED
        BY <1>2, <4>1, <4>2
    <3>2. (calls + 1) * nredo \in Nat
      BY <1>2
    <3> QED
      BY <1>2, <2>2, <3>1, <3>2
  <2>4. nx' \in 0 .. MaxPoints /\ nx' <= k * max_points_per_centroid
    <3>1. k * max_points_per_centroid \in Nat
      BY <1>2
    <3> QED
      BY <1>7, <3>1 DEF Train, Sampled
  <2>5. TypeOK'
    BY <1>1, <1>2, <1>3, <1>7, <2>1, <2>3, <2>4 DEF Train, TypeOK, Points
  <2>6. TypeMore'
    BY <1>1, <1>7, <2>1, <2>2 DEF Train, TypeMore, Iterating
  <2> QED
    BY <2>5, <2>6 DEF TypeInv
<1>8. CASE BeginRedo /\ UNCHANGED params
  <2>1. Tables' = Tables
    BY <1>8 DEF params, Tables
  <2>2. <<calls, redo, 0>> \in Tables /\ redo < nredo
    BY <1>2, <1>3, <1>8 DEF BeginRedo
  <2>3. cur' \in Tables /\ centroids' \in Tables /\ index' \in Tables
    BY <1>1, <1>8, <2>2 DEF BeginRedo, SetCurrent, TypeOK
  <2>4. TypeOK'
    BY <1>1, <1>8, <2>1, <2>3 DEF BeginRedo, history, params, TypeOK, Points
  <2>5. TypeMore'
    BY <1>1, <1>8, <2>2 DEF BeginRedo, history, params, TypeMore, Iterating
  <2> QED
    BY <2>4, <2>5 DEF TypeInv
<1>9. CASE Search /\ UNCHANGED params
  <2>1. Tables' = Tables
    BY <1>9 DEF params, Tables
  <2>2. /\ assign' \in Loads /\ placed' = {i \in Points(nx) : assign'[i] # -1}
        /\ hassign' \in [Clusters -> Nat] /\ nx' = nx
    BY <1>9 DEF Search, Loads, loop
  <2>3. TypeOK'
    BY <1>1, <1>9, <2>1, <2>2 DEF Search, loop, history, params, TypeOK, Points
  <2>4. TypeMore'
    BY <1>1, <1>9, <2>2 DEF Search, loop, history, params, TypeMore, Iterating,
       Loads, Points
  <2> QED
    BY <2>3, <2>4 DEF TypeInv
<1>10. ASSUME NEW rank \in 0 .. nt - 1, Count(rank), UNCHANGED params PROVE TypeInv'
  <2>1. Tables' = Tables
    BY <1>10 DEF params, Tables
  <2>2. pc = "count" /\ assign' = assign /\ nx' = nx /\ placed' = placed
        /\ pc' \in {"count", "aborted"}
    BY <1>10 DEF Count, Histogram, loop
  <2>3. assign \in Loads /\ nx \in Nat
    BY <1>1, <2>2 DEF TypeMore, TypeOK
  <2>4. \A c \in Clusters : Cardinality(Of(c, assign)) \in Nat
    BY <2>3, OfFinite DEF Loads
  <2>5. hassign' \in [Clusters -> Nat]
    BY <1>1, <1>10, <2>4 DEF Count, Histogram, TypeOK
  <2>6. TypeOK'
    BY <1>1, <1>10, <2>1, <2>5 DEF Count, Histogram, loop, history, params, TypeOK, Points
  <2>7. TypeMore'
    BY <1>1, <1>10, <2>2 DEF Count, Histogram, loop, history, params, TypeMore, Iterating,
       Loads, Points
  <2> QED
    BY <2>6, <2>7 DEF TypeInv
<1>11. CASE (Divide \/ NextCluster \/ PassOver) /\ UNCHANGED params
  <2>1. Tables' = Tables
    BY <1>11 DEF params, Tables
  <2>2. cj' \in Clusters
    <3>1. (cj + 1) % k \in Clusters /\ 0 \in Clusters /\ cj \in Clusters
      BY <1>1 DEF TypeOK, Clusters
    <3> QED
      BY <1>11, <3>1 DEF Divide, NextCluster, PassOver
  <2>3. ci' \in 0 .. k
    BY <1>1, <1>11 DEF Divide, NextCluster, PassOver, TypeOK
  <2>4. TypeOK'
    BY <1>1, <1>11, <2>1, <2>2, <2>3 DEF Divide, NextCluster, PassOver, loop, history,
       params, TypeOK, Points
  <2>5. TypeMore'
    BY <1>1, <1>11 DEF Divide, NextCluster, PassOver, loop, history, params, TypeMore,
       Iterating
  <2> QED
    BY <2>4, <2>5 DEF TypeInv
<1>12. CASE Split /\ UNCHANGED params
  <2>1. Tables' = Tables
    BY <1>12 DEF params, Tables
  <2>2. /\ hassign \in [Clusters -> Nat] /\ cj \in Clusters /\ hassign[cj] > 1
        /\ hassign[cj] \in Nat /\ hassign[cj] \div 2 \in Nat
        /\ hassign[cj] - hassign[cj] \div 2 \in Nat
    <3>1. hassign \in [Clusters -> Nat] /\ cj \in Clusters /\ hassign[cj] > 1
      BY <1>1, <1>12 DEF Split, MayPick, TypeOK
    <3>2. PICK h \in Nat : h = hassign[cj]
      BY <3>1
    <3>3. h \div 2 \in Nat /\ h - (h \div 2) \in Nat
      OBVIOUS
    <3> QED
      BY <3>1, <3>2, <3>3
  <2>3. hassign' \in [Clusters -> Nat]
    BY <1>12, <2>2 DEF Split
  <2>4. ci' \in 0 .. k
    BY <1>1, <1>12 DEF Split, TypeOK, TypeMore
  <2>5. TypeOK'
    BY <1>1, <1>12, <2>1, <2>3, <2>4 DEF Split, loop, history, params, TypeOK, Points
  <2>6. TypeMore'
    BY <1>1, <1>12 DEF Split, loop, history, params, TypeMore, Iterating
  <2> QED
    BY <2>5, <2>6 DEF TypeInv
<1>13. CASE Updated /\ UNCHANGED params
  <2>1. Tables' = Tables
    BY <1>13 DEF params, Tables
  <2>2. redo \in 0 .. nredo - 1 /\ iter + 1 \in 0 .. niter
    BY <1>1, <1>2, <1>13 DEF Updated, TypeMore, Iterating
  <2>3. <<calls, redo, iter + 1>> \in Tables
    BY <1>3, <2>2
  <2>4. cur' \in Tables /\ centroids' \in Tables /\ index' \in Tables
    BY <1>1, <1>13, <2>3 DEF Updated, SetCurrent, TypeOK
  <2>5. TypeOK'
    BY <1>1, <1>13, <2>1, <2>2, <2>4 DEF Updated, history, params, TypeOK, Points
  <2>6. TypeMore'
    BY <1>1, <1>13 DEF Updated, history, params, TypeMore, Iterating
  <2> QED
    BY <2>5, <2>6 DEF TypeInv
<1>14. CASE EndRedo /\ UNCHANGED params
  <2>1. Tables' = Tables
    BY <1>14 DEF params, Tables
  <2>2. redo + 1 \in 0 .. nredo
    BY <1>1, <1>2, <1>14 DEF EndRedo, EndRedoWith, TypeMore, Iterating
  <2>3. centroids' \in Tables /\ index' \in Tables /\ best_err' \in 0 .. Inf
    BY <1>1, <1>3, <1>14 DEF EndRedo, EndRedoWith, Keep, TypeOK
  <2>4. TypeOK'
    BY <1>1, <1>14, <2>1, <2>2, <2>3 DEF EndRedo, EndRedoWith, params, TypeOK, Points
  <2>5. TypeMore'
    BY <1>1, <1>14 DEF EndRedo, EndRedoWith, params, TypeMore, Iterating
  <2> QED
    BY <2>4, <2>5 DEF TypeInv
<1> QED
  BY <1>4, <1>6, <1>7, <1>8, <1>9, <1>10, <1>11, <1>12, <1>13, <1>14 DEF Next, Iterate

-----------------------------------------------------------------------------
(* The sizes of the clusters *)

\* The slices counted so far are right and the others are still void.
Counted ==
  \A c \in Clusters :
    hassign[c] = IF \E rank \in counted : c \in Slice(rank)
                   THEN Cardinality(Of(c, assign)) ELSE 0

SizeInv == /\ pc = "count" => counted \subseteq 0 .. nt - 1 /\ Counted
           /\ SizesAddUp /\ NoVoidCluster

\* A thread counts what no other thread counts.
LEMMA CountSizes ==
  ASSUME TypeInv, SizeInv, NEW rank \in 0 .. nt - 1, Count(rank)
  PROVE  SizeInv'
<1>1. CASE pc' = "aborted"
  BY <1>1 DEF SizeInv, SizesAddUp, NoVoidCluster, Updating
<1>2. CASE pc' # "aborted"
  <2>1. /\ pc = "count" /\ pc' = "count" /\ rank \notin counted
        /\ counted' = counted \cup {rank} /\ assign' = assign
        /\ hassign' = [c \in Clusters |->
                         IF c \in Slice(rank) THEN hassign[c] + Cardinality(Of(c, assign))
                                              ELSE hassign[c]]
    BY <1>2 DEF Count, Histogram
  <2>2. counted \subseteq 0 .. nt - 1 /\ Counted
    BY <2>1 DEF SizeInv
  <2>3. \A c \in Clusters : Cardinality(Of(c, assign)) \in Nat
    BY <2>1, OfFinite DEF TypeInv, TypeOK, TypeMore, Loads
  <2>4. ASSUME NEW c \in Clusters
        PROVE  hassign'[c] = IF \E r \in counted' : c \in Slice(r)
                               THEN Cardinality(Of(c, assign')) ELSE 0
    <3>1. CASE c \in Slice(rank)
      <4>1. \A r \in counted : c \notin Slice(r)
        BY <2>1, <2>2, <3>1, Slices
      <4>2. hassign[c] = 0
        BY <2>2, <4>1 DEF Counted
      <4>3. hassign'[c] = Cardinality(Of(c, assign))
        BY <2>1, <2>3, <3>1, <4>2
      <4> QED
        BY <2>1, <3>1, <4>3
    <3>2. CASE c \notin Slice(rank)
      <4>1. (\E r \in counted' : c \in Slice(r)) <=> \E r \in counted : c \in Slice(r)
        BY <2>1, <3>2
      <4>2. hassign'[c] = hassign[c]
        BY <2>1, <3>2
      <4> QED
        BY <2>1, <2>2, <4>1, <4>2 DEF Counted
    <3> QED
      BY <3>1, <3>2
  <2> QED
    BY <2>1, <2>2, <2>4 DEF SizeInv, Counted, SizesAddUp, NoVoidCluster, Updating
<1> QED
  BY <1>1, <1>2

\* After the team the sizes are those of the assignment.
LEMMA DivideSizes == ASSUME TypeInv, SizeInv, Divide PROVE SizeInv'
<1>1. /\ pc = "count" /\ counted = 0 .. nt - 1 /\ pc' = "void" /\ ci' = 0
      /\ hassign' = hassign /\ placed' = placed
  BY DEF Divide
<1>2. /\ assign \in Loads /\ placed = {i \in Points(nx) : assign[i] # -1}
      /\ Counted
  BY <1>1 DEF TypeInv, TypeMore, SizeInv
<1> DEFINE f == [i \in placed |-> assign[i]]
<1>3. f \in [placed -> Clusters]
  BY <1>2 DEF Loads
<1>4. ASSUME NEW c \in Clusters PROVE hassign[c] = Cardinality(Of(c, f))
  <2>1. hassign[c] = Cardinality(Of(c, assign))
    BY <1>1, <1>2, Slices DEF Counted
  <2>2. c # -1
    BY Parameters DEF Clusters
  <2>3. Of(c, f) = Of(c, assign)
    BY <1>2, <2>2 DEF Of, Loads
  <2> QED
    BY <2>1, <2>3
<1>5. SizesAddUp'
  BY <1>1, <1>3, <1>4 DEF SizesAddUp
<1>6. NoVoidCluster'
  BY <1>1, Parameters DEF NoVoidCluster, Clusters
<1> QED
  BY <1>1, <1>5, <1>6 DEF SizeInv

\* Half of the donor's points go to the void cluster.
LEMMA SplitSizes == ASSUME TypeInv, SizeInv, Split PROVE SizeInv'
<1> USE Parameters
<1>1. /\ pc = "donor" /\ pc' = "void" /\ ci' = ci + 1 /\ placed' = placed
      /\ hassign' = [hassign EXCEPT ![ci] = hassign[cj] \div 2,
                                    ![cj] = hassign[cj] - hassign[cj] \div 2]
      /\ hassign[cj] > 1
  BY DEF Split, MayPick
<1>2. /\ hassign \in [Clusters -> Nat] /\ cj \in Clusters /\ ci \in Clusters
      /\ hassign[ci] = 0 /\ nx \in Nat /\ placed \subseteq Points(nx)
      /\ hassign[cj] \in Nat
  BY <1>1 DEF TypeInv, TypeOK, TypeMore, Clusters
<1>3. ci # cj
  BY <1>1, <1>2
<1>4. PICK h \in Nat, m \in Nat : h = hassign[cj] /\ m = hassign[cj] \div 2
  <2>1. PICK h \in Nat : h = hassign[cj]
    BY <1>2
  <2>2. h \div 2 \in Nat
    OBVIOUS
  <2> QED
    BY <2>1, <2>2
<1>5. h > 1 /\ m = h \div 2 /\ m \in 0 .. h /\ m >= 1 /\ h - m >= 1
  <2>1. h > 1 /\ m = h \div 2
    BY <1>1, <1>4
  <2> QED
    BY <2>1
<1>6. /\ hassign'[ci] = m /\ hassign'[cj] = h - m
      /\ \A c \in Clusters : c # ci /\ c # cj => hassign'[c] = hassign[c]
  BY <1>1, <1>2, <1>3, <1>4
<1>7. PICK f \in [placed -> Clusters] :
        \A c \in Clusters : hassign[c] = Cardinality(Of(c, f))
  BY <1>1 DEF SizeInv, SizesAddUp, Updating
<1>8. \A c \in Clusters : IsFiniteSet(Of(c, f))
  BY <1>2, <1>7, OfFinite
<1>9. Of(ci, f) = {}
  BY <1>2, <1>7, <1>8, FS_EmptySet
<1>10. PICK S \in SUBSET Of(cj, f) : /\ Cardinality(S) = m
                                     /\ Cardinality(Of(cj, f) \ S) = h - m
  <2>1. Cardinality(Of(cj, f)) = h
    BY <1>2, <1>4, <1>7
  <2> QED
    BY <1>2, <1>5, <1>8, <2>1, SubsetOfSize
<1> DEFINE g == [i \in placed |-> IF i \in S THEN ci ELSE f[i]]
<1>11. g \in [placed -> Clusters]
  BY <1>2, <1>7
<1>12. Of(ci, g) = S
  BY <1>2, <1>7, <1>9, <1>10 DEF Of
<1>13. Of(cj, g) = Of(cj, f) \ S
  BY <1>3, <1>7, <1>10 DEF Of
<1>14. \A c \in Clusters : c # ci /\ c # cj => Of(c, g) = Of(c, f)
  BY <1>7, <1>10 DEF Of
<1>15. \A c \in Clusters : hassign'[c] = Cardinality(Of(c, g))
  <2> HIDE DEF g
  <2> QED
    BY <1>6, <1>7, <1>10, <1>12, <1>13, <1>14
<1>16. SizesAddUp'
  <2> HIDE DEF g
  <2> QED
    BY <1>1, <1>11, <1>15 DEF SizesAddUp
<1>17. \A c \in Clusters : c < ci + 1 => hassign'[c] > 0
  <2> SUFFICES ASSUME NEW c \in Clusters, c < ci + 1 PROVE hassign'[c] > 0
    OBVIOUS
  <2>1. CASE c = ci \/ c = cj
    BY <1>4, <1>5, <1>6, <2>1
  <2>2. CASE c # ci /\ c # cj
    <3>1. c < ci
      BY <1>2, <2>2 DEF Clusters
    <3>2. hassign[c] > 0
      BY <1>1, <3>1 DEF SizeInv, NoVoidCluster, Updating
    <3> QED
      BY <1>6, <2>2, <3>2
  <2> QED
    BY <2>1, <2>2
<1>18. NoVoidCluster'
  BY <1>1, <1>17 DEF NoVoidCluster
<1> QED
  BY <1>1, <1>16, <1>18 DEF SizeInv

LEMMA SizeStep == TypeInv /\ SizeInv /\ [Next]_vars => SizeInv'
<1> SUFFICES ASSUME TypeInv, SizeInv, [Next]_vars PROVE SizeInv'
  OBVIOUS
<1>1. CASE UNCHANGED vars
  BY <1>1 DEF vars, SizeInv, Counted, SizesAddUp, NoVoidCluster, Updating
<1>2. ASSUME pc' \notin {"count", "void", "donor"} PROVE SizeInv'
  BY <1>2 DEF SizeInv, SizesAddUp, NoVoidCluster, Updating
<1>3. CASE SetTable \/ ResetIndex \/ Return \/ BeginRedo \/ Updated \/ EndRedo
  <2>1. pc' \in {"idle", "redo", "threw", "search"}
    BY <1>3 DEF SetTable, ResetIndex, Return, BeginRedo, Updated, EndRedo, EndRedoWith
  <2> QED
    BY <1>2, <2>1
<1>4. ASSUME NEW n \in 0 .. MaxPoints, NEW isfinite \in BOOLEAN, Train(n, isfinite)
      PROVE  SizeInv'
  BY <1>2, <1>4 DEF Train
<1>5. CASE Search
  BY <1>5 DEF Search, SizeInv, Counted, SizesAddUp, NoVoidCluster, Updating
<1>6. ASSUME NEW rank \in 0 .. nt - 1, Count(rank) PROVE SizeInv'
  BY <1>6, CountSizes
<1>7. CASE Divide
  BY <1>7, DivideSizes
<1>8. CASE NextCluster
  <2>1. /\ pc = "void" /\ ci < k /\ hassign' = hassign /\ placed' = placed
        /\ pc' \in {"void", "donor"}
        /\ IF hassign[ci] # 0 THEN ci' = ci + 1 ELSE ci' = ci
    BY <1>8 DEF NextCluster
  <2>2. ci \in Clusters /\ hassign[ci] \in Nat
    BY <2>1, Parameters DEF TypeInv, TypeOK, Clusters
  <2>3. \A c \in Clusters : c < ci' => hassign[c] > 0
    <3> SUFFICES ASSUME NEW c \in Clusters, c < ci' PROVE hassign[c] > 0
      OBVIOUS
    <3>1. c < ci \/ (c = ci /\ hassign[ci] # 0)
      BY <2>1, <2>2, Parameters DEF Clusters
    <3>2. c < ci => hassign[c] > 0
      BY <2>1 DEF SizeInv, NoVoidCluster, Updating
    <3> QED
      BY <2>2, <3>1, <3>2
  <2>4. SizesAddUp' /\ NoVoidCluster'
    BY <2>1, <2>3 DEF SizeInv, SizesAddUp, NoVoidCluster, Updating
  <2> QED
    BY <2>1, <2>4 DEF SizeInv
<1>9. CASE PassOver
  BY <1>9 DEF PassOver, SizeInv, SizesAddUp, NoVoidCluster, Updating
<1>10. CASE Split
  BY <1>10, SplitSizes
<1> QED
  BY <1>1, <1>3, <1>4, <1>5, <1>6, <1>7, <1>8, <1>9, <1>10 DEF Next, Iterate

\* No point is lost or invented by the histogram of the team and the repair of
\* void clusters, for every number of centroids, threads and points.
THEOREM PointsSafe == Spec => []EveryClusterHasItsPoints
<1>1. Init => SizeInv
  BY DEF Init, SizeInv, SizesAddUp, NoVoidCluster, Updating
<1>2. TypeInv /\ SizeInv => EveryClusterHasItsPoints
  BY DEF TypeInv, SizeInv, EveryClusterHasItsPoints
<1> QED
  BY <1>1, <1>2, InitType, TypeStep, SizeStep, PTL DEF Spec
=============================================================================
