--------------------- MODULE PrefetchingDataLayerProofs ---------------------
(***************************************************************************)
(* The prefetching layer's invariants, for every number of buffers, list,  *)
(* batch size and number of Forwards, with and without shuffle and GPU;    *)
(* the proof that the layer implements the stream of batches; and that     *)
(* every pass over the list is complete.                                   *)
(***************************************************************************)
EXTENDS PrefetchingDataLayer, FiniteSetTheorems, TLAPS

-----------------------------------------------------------------------------
(* Queues *)

\* Pushing adds one element, at the end.
LEMMA PushFacts ==
  ASSUME NEW S, NEW q \in Seq(S), NEW e \in S
  PROVE  /\ Append(q, e) \in Seq(S)
         /\ Append(q, e) # << >>
         /\ Len(Append(q, e)) = Len(q) + 1
         /\ \A i \in DOMAIN q : Append(q, e)[i] = q[i]
         /\ Append(q, e)[Len(q) + 1] = e
         /\ DOMAIN Append(q, e) = DOMAIN q \cup {Len(q) + 1}
         /\ Elements(Append(q, e)) = Elements(q) \cup {e}
         /\ Distinct(q) /\ e \notin Elements(q) => Distinct(Append(q, e))
<1>1. /\ Append(q, e) \in Seq(S)
      /\ Append(q, e) # << >>
      /\ Len(Append(q, e)) = Len(q) + 1
      /\ \A i \in DOMAIN q : Append(q, e)[i] = q[i]
      /\ Append(q, e)[Len(q) + 1] = e
      /\ DOMAIN Append(q, e) = DOMAIN q \cup {Len(q) + 1}
  OBVIOUS
<1>2. Elements(Append(q, e)) = Elements(q) \cup {e}
  BY <1>1 DEF Elements
<1>3. Distinct(q) /\ e \notin Elements(q) => Distinct(Append(q, e))
  BY <1>1 DEF Elements, Distinct
<1>4. QED
  BY <1>1, <1>2, <1>3

\* Popping takes the first element away.
LEMMA PopFacts ==
  ASSUME NEW S, NEW q \in Seq(S), q # << >>
  PROVE  /\ Head(q) \in S
         /\ Head(q) = q[1]
         /\ 1 \in DOMAIN q
         /\ Tail(q) \in Seq(S)
         /\ Len(Tail(q)) = Len(q) - 1
         /\ \A i \in DOMAIN Tail(q) : i + 1 \in DOMAIN q /\ Tail(q)[i] = q[i + 1]
         /\ Elements(q) = Elements(Tail(q)) \cup {Head(q)}
         /\ Distinct(q) => Distinct(Tail(q)) /\ Head(q) \notin Elements(Tail(q))
<1>1. /\ Head(q) \in S
      /\ Head(q) = q[1]
      /\ 1 \in DOMAIN q
      /\ Tail(q) \in Seq(S)
      /\ Len(Tail(q)) = Len(q) - 1
      /\ \A i \in DOMAIN Tail(q) : i + 1 \in DOMAIN q /\ Tail(q)[i] = q[i + 1]
  OBVIOUS
<1>2. ASSUME NEW i \in DOMAIN q, i # 1
      PROVE  i - 1 \in DOMAIN Tail(q) /\ q[i] = Tail(q)[i - 1]
  <2>1. i \in 1..Len(q) /\ DOMAIN Tail(q) = 1..(Len(q) - 1) /\ Len(q) \in Nat
    BY <1>1
  <2>2. i - 1 \in DOMAIN Tail(q) /\ (i - 1) + 1 = i
    BY <1>2, <2>1
  <2>3. QED
    BY <1>1, <2>2
<1>3. Elements(q) = Elements(Tail(q)) \cup {Head(q)}
  <2>1. ASSUME NEW i \in DOMAIN q
        PROVE  q[i] \in Elements(Tail(q)) \cup {Head(q)}
    <3>1. CASE i = 1
      BY <1>1, <3>1
    <3>2. CASE i # 1
      BY <1>2, <3>2 DEF Elements
    <3>3. QED
      BY <3>1, <3>2
  <2>2. Elements(Tail(q)) \cup {Head(q)} \subseteq Elements(q)
    BY <1>1 DEF Elements
  <2>3. QED
    BY <2>1, <2>2 DEF Elements
<1>4. ASSUME Distinct(q)
      PROVE  Distinct(Tail(q)) /\ Head(q) \notin Elements(Tail(q))
  <2>1. \A i \in DOMAIN Tail(q) : i \in Nat \ {0}
    BY <1>1
  <2>2. \A i \in DOMAIN Tail(q) : q[i + 1] # q[1]
    BY <1>1, <1>4, <2>1 DEF Distinct
  <2>3. Distinct(Tail(q))
    BY <1>1, <1>4, <2>1 DEF Distinct
  <2>4. QED
    BY <1>1, <2>2, <2>3 DEF Elements
<1>5. QED
  BY <1>1, <1>3, <1>4

\* A queue of distinct buffers that lacks one of them is shorter than Depth.
LEMMA ShortQueue ==
  ASSUME NEW q \in Seq(Buffers), Distinct(q),
         NEW b \in Buffers, b \notin Elements(q)
  PROVE  Len(q) < Depth
<1>1. IsFiniteSet(Buffers) /\ Cardinality(Buffers) = Depth
  BY FS_Interval, DepthPositive DEF Buffers
<1>2. IsFiniteSet(Buffers \ {b}) /\ Cardinality(Buffers \ {b}) = Depth - 1
  BY <1>1, FS_RemoveElement
<1>3. IsFiniteSet(1..Len(q)) /\ Cardinality(1..Len(q)) = Len(q)
  <2>1. Len(q) \in Nat
    OBVIOUS
  <2>2. QED
    BY <2>1, FS_Interval
<1>4. q \in [1..Len(q) -> Buffers \ {b}]
  BY DEF Elements
<1>5. q \in Injection(1..Len(q), Buffers \ {b})
  BY <1>4 DEF Injection, IsInjective, Distinct
<1>6. Cardinality(1..Len(q)) <= Cardinality(Buffers \ {b})
  BY <1>2, <1>5, FS_Injection
<1>7. QED
  BY <1>2, <1>3, <1>6, DepthPositive

-----------------------------------------------------------------------------
(* The steps *)

\* The variables keep to their types.
LEMMA TypeStep == IInv /\ [Next]_vars => TypeOK'
<1> SUFFICES ASSUME IInv, [Next]_vars PROVE TypeOK'
  OBVIOUS
<1> USE DepthPositive, NPositive, BatchSizePositive, SwitchesAreBool, BoundsAreNat
<1>1. TypeOK /\ Bookkeeping
  BY DEF IInv
<1>2. CASE UNCHANGED vars
  BY <1>1, <1>2 DEF TypeOK, vars, mainVars, queues, source, data
<1>3. CASE LayerSetUp
  <2>1. lines' \in [Lines -> Lines]
    BY <1>1, <1>3 DEF LayerSetUp, ShuffleImages, Orders, TypeOK
  <2>2. lines_id' \in 0..(N - 1)
    BY <1>1, <1>3 DEF LayerSetUp, Skips, TypeOK
  <2>3. QED
    BY <1>1, <1>3, <2>1, <2>2
       DEF LayerSetUp, Abort, TypeOK, queues, data
<1>4. CASE PopFree
  <2>1. CASE free # << >>
    <3>1. Head(free) \in Buffers /\ Tail(free) \in Seq(Buffers)
      BY <1>1, <2>1, PopFacts DEF TypeOK
    <3>2. QED
      BY <1>1, <1>4, <2>1, <3>1 DEF PopFree, TypeOK, mainVars, source
  <2>2. CASE free = << >>
    BY <1>1, <1>4, <2>2 DEF PopFree, TypeOK, mainVars, source
  <2>3. QED
    BY <2>1, <2>2
<1>5. CASE LoadItem
  <2>1. /\ batch \in Buffers /\ item + 1 \in 1..BatchSize /\ item + 1 \in 0..BatchSize
        /\ lines_id + 1 \in Lines
    BY <1>1, <1>5 DEF TypeOK, Bookkeeping, LoadItem, LoadItemOf, WorkerHolds, Lines
  <2>2. lines[lines_id + 1] \in Lines
    BY <1>1, <2>1 DEF TypeOK
  <2>3. host[batch] \in Batches
    BY <1>1, <2>1 DEF TypeOK
  <2>4. [host[batch] EXCEPT ![item + 1] = lines[lines_id + 1]] \in Batches
    BY <2>1, <2>2, <2>3 DEF Batches
  <2>5. host' = [host EXCEPT ![batch] = [host[batch] EXCEPT ![item + 1] = lines[lines_id + 1]]]
    BY <1>1, <1>5, <2>1 DEF LoadItem, LoadItemOf, TypeOK
  <2>6. host' \in [Buffers -> Batches] /\ host'[batch] \in Batches
    BY <1>1, <2>1, <2>4, <2>5 DEF TypeOK
  <2>7. loaded' \in Seq(Batches)
    <3>1. loaded \in Seq(Batches) /\ Append(loaded, host'[batch]) \in Seq(Batches)
      BY <1>1, <2>6, PushFacts DEF TypeOK
    <3>2. loaded' = loaded \/ loaded' = Append(loaded, host'[batch])
      BY <1>5 DEF LoadItem, LoadItemOf
    <3>3. QED
      BY <3>1, <3>2
  <2>8. lines_id' \in 0..(N - 1)
    BY <1>1, <1>5 DEF LoadItem, LoadItemOf, TypeOK
  <2>9. lines' \in [Lines -> Lines]
    BY <1>1, <1>5 DEF LoadItem, LoadItemOf, ShuffleImages, Orders, TypeOK
  <2>10. item' \in 0..BatchSize
    BY <1>5, <2>1 DEF LoadItem, LoadItemOf
  <2>11. worker' \in {"load", "copy", "push"}
    BY <1>5 DEF LoadItem, LoadItemOf
  <2>12. QED
    BY <1>1, <1>5, <2>6, <2>7, <2>8, <2>9, <2>10, <2>11
       DEF LoadItem, LoadItemOf, TypeOK, mainVars, queues
<1>6. CASE PushToGpu
  <2>1. batch \in Buffers /\ host[batch] \in Batches
    BY <1>1, <1>6 DEF TypeOK, Bookkeeping, WorkerHolds, PushToGpu
  <2>2. QED
    BY <1>1, <1>6, <2>1 DEF PushToGpu, TypeOK, mainVars, queues, source
<1>7. CASE PushFull
  <2>1. Append(full, batch) \in Seq(Buffers)
    BY <1>1, <1>7, PushFacts DEF TypeOK, Bookkeeping, WorkerHolds, PushFull
  <2>2. QED
    BY <1>1, <1>7, <2>1 DEF PushFull, TypeOK, mainVars, source, data
<1>8. CASE Forward
  <2>1. current # None => Append(free, current) \in Seq(Buffers)
    BY <1>1, PushFacts DEF TypeOK
  <2>2. QED
    BY <1>1, <1>8, <2>1 DEF Forward, TypeOK, source, data
<1>9. CASE PopFull
  <2>1. CASE full # << >>
    <3>1. Head(full) \in Buffers /\ Tail(full) \in Seq(Buffers)
      BY <1>1, <2>1, PopFacts DEF TypeOK
    <3>2. full' \in Seq(Buffers) /\ current' \in Buffers \cup {None}
      BY <1>9, <2>1, <3>1 DEF PopFull
    <3>3. served' \in Nat
      BY <1>1, <1>9, <2>1 DEF PopFull, TypeOK
    <3>4. QED
      BY <1>1, <1>9, <2>1, <3>2, <3>3 DEF PopFull, TypeOK, source, data
  <2>2. CASE full = << >>
    BY <1>1, <1>9, <2>2 DEF PopFull, TypeOK, source, data
  <2>3. QED
    BY <2>1, <2>2
<1>10. CASE ThreadAssigned \/ TestStop \/ Interrupted \/ LoadFails
  BY <1>1, <1>10
     DEF ThreadAssigned, TestStop, Interrupted, LoadFails, Abort,
         TypeOK, mainVars, queues, source, data
<1>11. CASE NotifyFull \/ NotifyFree
  BY <1>1, <1>11 DEF NotifyFull, NotifyFree, TypeOK, queues, source, data
<1>12. CASE StopInternalThread \/ Join \/ SpuriousWakeUp
  BY <1>1, <1>12
     DEF StopInternalThread, Join, SpuriousWakeUp, TypeOK, mainVars, queues, source, data
<1>13. QED
  BY <1>2, <1>3, <1>4, <1>5, <1>6, <1>7, <1>8, <1>9, <1>10, <1>11, <1>12
     DEF Next, WorkerStep, MainStep, CallerStep, WakeStep


-----------------------------------------------------------------------------
(* Who owns which buffer *)

\* The steps that move no batch and load none.
Quiet == \/ UNCHANGED vars
         \/ LayerSetUp \/ ThreadAssigned \/ TestStop \/ Interrupted \/ LoadFails
         \/ NotifyFull \/ NotifyFree \/ StopInternalThread \/ Join
         \/ SpuriousWakeUp

LEMMA QuietStep ==
  ASSUME TypeOK, Bookkeeping, Quiet
  PROVE  /\ free' = free /\ full' = full /\ current' = current /\ batch' = batch
         /\ host' = host /\ dev' = dev /\ item' = item
         /\ loaded' = loaded /\ served' = served
         /\ WorkerHolds' = WorkerHolds
         /\ Between' = Between
         /\ Viewing' = Viewing
         /\ InHands' = InHands
<1>1. /\ free' = free /\ full' = full /\ current' = current /\ batch' = batch
      /\ host' = host /\ dev' = dev /\ item' = item
      /\ loaded' = loaded /\ served' = served
  BY DEF Quiet, vars, mainVars, queues, source, data, LayerSetUp, ThreadAssigned,
         TestStop, Interrupted, LoadFails, NotifyFull, NotifyFree,
         StopInternalThread, Join, SpuriousWakeUp
<1>2. \/ worker' = worker
      \/ /\ worker \in {"none", "test", "wait", "notify"}
         /\ worker' \in {"test", "done", "pop"}
  BY DEF Quiet, vars, mainVars, queues, source, data, LayerSetUp, ThreadAssigned,
         TestStop, Interrupted, LoadFails, NotifyFull, NotifyFree, Bookkeeping,
         StopInternalThread, Join, SpuriousWakeUp
<1>3. \/ main' = main
      \/ main \in {"notify", "wait"} /\ main' = "pop"
      \/ /\ main \in {"setup", "starting", "ready", "join"}
         /\ main' \in {"starting", "ready", "join", "gone"}
  BY DEF Quiet, vars, mainVars, queues, source, data, LayerSetUp, ThreadAssigned,
         TestStop, Interrupted, LoadFails, NotifyFull, NotifyFree,
         StopInternalThread, Join, SpuriousWakeUp
<1>4. WorkerHolds' = WorkerHolds /\ InHands' = InHands
  BY <1>2 DEF WorkerHolds, InHands
<1>5. Between' = Between
  BY <1>3 DEF Between
<1>6. Viewing' = Viewing
  BY <1>1, <1>5 DEF Viewing
<1>7. QED
  BY <1>1, <1>4, <1>5, <1>6

\* A next-state step is quiet, or is one of the six that handle batches.
LEMMA StepCases ==
  ASSUME [Next]_vars
  PROVE  Quiet \/ PopFree \/ LoadItem \/ PushToGpu \/ PushFull \/ Forward \/ PopFull
BY DEF Next, WorkerStep, MainStep, CallerStep, WakeStep, Quiet

\* No batch gets a second owner and none is lost.
LEMMA OwnerStep == IInv /\ [Next]_vars => OneOwner' /\ NoBatchLost'
<1> SUFFICES ASSUME IInv, [Next]_vars PROVE OneOwner' /\ NoBatchLost'
  OBVIOUS
<1>1. TypeOK /\ OneOwner /\ NoBatchLost /\ Bookkeeping
  BY DEF IInv
<1>2. CASE Quiet
  BY <1>1, <1>2, QuietStep DEF OneOwner, NoBatchLost, Elements, Distinct
<1>3. CASE PopFree
  <2>1. CASE free # << >>
    <3>1. /\ free' = Tail(free) /\ batch' = Head(free) /\ worker' = "load"
          /\ full' = full /\ current' = current /\ main' = main /\ worker = "pop"
      BY <1>3, <2>1 DEF PopFree, mainVars
    <3>2. /\ Elements(free) = Elements(free') \cup {batch'}
          /\ Distinct(free') /\ batch' \notin Elements(free')
      BY <1>1, <2>1, <3>1, PopFacts DEF TypeOK, OneOwner
    <3>3. /\ Elements(full') = Elements(full) /\ Distinct(full') = Distinct(full)
          /\ Viewing' = Viewing /\ WorkerHolds' /\ ~WorkerHolds
      BY <3>1 DEF Elements, Distinct, Viewing, Between, WorkerHolds
    <3>4. OneOwner'
      BY <1>1, <3>1, <3>2, <3>3 DEF OneOwner
    <3>5. NoBatchLost'
      BY <1>1, <3>1, <3>2, <3>3 DEF NoBatchLost
    <3>6. QED
      BY <3>4, <3>5
  <2>2. CASE free = << >>
    <3>1. /\ free' = free /\ full' = full /\ current' = current /\ batch' = batch
          /\ main' = main /\ worker = "pop" /\ worker' \in {"done", "wait"}
      BY <1>3, <2>2 DEF PopFree, mainVars
    <3>2. WorkerHolds' = WorkerHolds /\ Viewing' = Viewing
      BY <3>1 DEF WorkerHolds, Viewing, Between
    <3>3. QED
      BY <1>1, <3>1, <3>2 DEF OneOwner, NoBatchLost, Elements, Distinct
  <2>3. QED
    BY <2>1, <2>2
<1>4. CASE LoadItem \/ PushToGpu
  <2>1. /\ free' = free /\ full' = full /\ current' = current /\ batch' = batch
        /\ main' = main /\ worker \in {"load", "copy"}
        /\ worker' \in {"load", "copy", "push"}
    BY <1>4 DEF LoadItem, LoadItemOf, PushToGpu, mainVars, queues
  <2>2. WorkerHolds' = WorkerHolds /\ Viewing' = Viewing
    BY <2>1 DEF WorkerHolds, Viewing, Between
  <2>3. QED
    BY <1>1, <2>1, <2>2 DEF OneOwner, NoBatchLost, Elements, Distinct
<1>5. CASE PushFull
  <2>1. /\ full' = Append(full, batch) /\ worker = "push" /\ worker' = "notify"
        /\ free' = free /\ current' = current /\ batch' = batch /\ main' = main
    BY <1>5 DEF PushFull, mainVars, data
  <2>2. WorkerHolds /\ ~WorkerHolds' /\ Viewing' = Viewing
    BY <2>1 DEF WorkerHolds, Viewing, Between
  <2>3. /\ Elements(full') = Elements(full) \cup {batch} /\ Distinct(full')
    BY <1>1, <2>1, <2>2, PushFacts DEF TypeOK, OneOwner, Bookkeeping
  <2>4. Elements(free') = Elements(free) /\ Distinct(free') = Distinct(free)
    BY <2>1 DEF Elements, Distinct
  <2>5. OneOwner'
    BY <1>1, <2>1, <2>2, <2>3, <2>4 DEF OneOwner
  <2>6. NoBatchLost'
    BY <1>1, <2>1, <2>2, <2>3, <2>4 DEF NoBatchLost
  <2>7. QED
    BY <2>5, <2>6
<1>6. CASE Forward
  <2>1. /\ full' = full /\ current' = current /\ batch' = batch
        /\ worker' = worker /\ main = "ready" /\ main' \in {"notify", "pop"}
    BY <1>6 DEF Forward, data
  <2>2. ~Viewing' /\ WorkerHolds' = WorkerHolds
    BY <2>1 DEF Viewing, Between, WorkerHolds
  <2>3. Elements(full') = Elements(full) /\ Distinct(full') = Distinct(full)
    BY <2>1 DEF Elements, Distinct
  <2>4. CASE current = None
    <3>1. free' = free /\ ~Viewing
      BY <1>6, <2>4 DEF Forward, Viewing
    <3>2. QED
      BY <1>1, <2>1, <2>2, <3>1 DEF OneOwner, NoBatchLost, Elements, Distinct
  <2>5. CASE current # None
    <3>1. free' = Append(free, current) /\ Viewing /\ current \in Buffers
      BY <1>1, <1>6, <2>1, <2>5 DEF Forward, Viewing, Between, TypeOK
    <3>2. Elements(free') = Elements(free) \cup {current} /\ Distinct(free')
      BY <1>1, <3>1, PushFacts DEF TypeOK, OneOwner
    <3>3. OneOwner'
      BY <1>1, <2>1, <2>2, <2>3, <3>1, <3>2 DEF OneOwner
    <3>4. NoBatchLost'
      BY <1>1, <2>1, <2>2, <2>3, <3>1, <3>2 DEF NoBatchLost
    <3>5. QED
      BY <3>3, <3>4
  <2>6. QED
    BY <2>4, <2>5
<1>7. CASE PopFull
  <2>1. /\ free' = free /\ batch' = batch /\ worker' = worker /\ main = "pop"
    BY <1>7 DEF PopFull, data
  <2>2. ~Viewing /\ WorkerHolds' = WorkerHolds
    BY <2>1 DEF Viewing, Between, WorkerHolds
  <2>3. Elements(free') = Elements(free) /\ Distinct(free') = Distinct(free)
    BY <2>1 DEF Elements, Distinct
  <2>4. CASE full # << >>
    <3>1. full' = Tail(full) /\ current' = Head(full) /\ main' = "ready"
      BY <1>7, <2>4 DEF PopFull
    <3>2. /\ Elements(full) = Elements(full') \cup {current'} /\ Distinct(full')
          /\ current' \notin Elements(full') /\ current' \in Buffers
      BY <1>1, <2>4, <3>1, PopFacts DEF TypeOK, OneOwner
    <3>3. Viewing'
      BY <3>1, <3>2, DepthPositive DEF Viewing, Between, Buffers, None
    <3>4. OneOwner'
      BY <1>1, <2>1, <2>2, <2>3, <3>2, <3>3 DEF OneOwner
    <3>5. NoBatchLost'
      BY <1>1, <2>1, <2>2, <2>3, <3>2, <3>3 DEF NoBatchLost
    <3>6. QED
      BY <3>4, <3>5
  <2>5. CASE full = << >>
    <3>1. full' = full /\ current' = current /\ main' = "wait"
      BY <1>7, <2>5 DEF PopFull
    <3>2. ~Viewing'
      BY <3>1 DEF Viewing, Between
    <3>3. QED
      BY <1>1, <2>1, <2>2, <3>1, <3>2 DEF OneOwner, NoBatchLost, Elements, Distinct
  <2>6. QED
    BY <2>4, <2>5
<1>8. QED
  BY StepCases, <1>2, <1>3, <1>4, <1>5, <1>6, <1>7


-----------------------------------------------------------------------------
(* Which batch is where *)

\* No thread is left asleep with a batch for it in its queue.
LEMMA WakeUpStep == IInv /\ [Next]_vars => NoLostWakeUp'
<1> SUFFICES ASSUME IInv, [Next]_vars PROVE NoLostWakeUp'
  OBVIOUS
<1>1. NoLostWakeUp /\ TypeOK /\ Bookkeeping
  BY DEF IInv
<1>2. CASE UNCHANGED vars
  BY <1>1, <1>2 DEF NoLostWakeUp, vars, mainVars, queues
<1>3. CASE PopFree \/ TestStop \/ Interrupted \/ LoadFails
  BY <1>1, <1>3
     DEF NoLostWakeUp, PopFree, TestStop, Interrupted, LoadFails, mainVars, queues
<1>4. CASE LoadItem \/ PushToGpu
  BY <1>1, <1>4 DEF NoLostWakeUp, LoadItem, LoadItemOf, PushToGpu, mainVars, queues
<1>5. CASE PushFull \/ NotifyFull
  BY <1>1, <1>5 DEF NoLostWakeUp, PushFull, NotifyFull, mainVars, queues
<1>6. CASE Forward \/ NotifyFree \/ PopFull
  BY <1>1, <1>6 DEF NoLostWakeUp, Forward, NotifyFree, PopFull, queues
<1>7. CASE LayerSetUp \/ ThreadAssigned \/ StopInternalThread \/ Join \/ SpuriousWakeUp
  BY <1>1, <1>7
     DEF NoLostWakeUp, LayerSetUp, ThreadAssigned, StopInternalThread, Join,
         SpuriousWakeUp, mainVars, queues
<1>8. QED
  BY <1>2, <1>3, <1>4, <1>5, <1>6, <1>7
     DEF Next, WorkerStep, MainStep, CallerStep, WakeStep

\* The network's thread is in set-up exactly until the worker exists.
LEMMA SetUpStep ==
  ASSUME Bookkeeping, [Next]_vars
  PROVE  main' = "setup" => worker' = "none"
<1>1. CASE UNCHANGED vars
  BY <1>1 DEF vars, mainVars, Bookkeeping
<1>2. CASE WorkerStep
  BY <1>2 DEF WorkerStep, TestStop, PopFree, Interrupted, LoadItem, LoadItemOf,
              LoadFails, PushToGpu, PushFull, NotifyFull, mainVars, Bookkeeping
<1>3. CASE MainStep \/ CallerStep \/ WakeStep
  BY <1>3 DEF MainStep, LayerSetUp, ThreadAssigned, NotifyFree, PopFull, Join,
              CallerStep, Forward, StopInternalThread, WakeStep, SpuriousWakeUp,
              mainVars, Bookkeeping
<1>4. QED
  BY <1>1, <1>2, <1>3 DEF Next

\* A quiet step reaches none of the worker's loading positions.
LEMMA QuietWorker ==
  ASSUME Bookkeeping, Quiet, WorkerHolds
  PROVE  worker' = worker
BY DEF Quiet, Bookkeeping, WorkerHolds, vars, mainVars, queues, source, data,
       LayerSetUp, ThreadAssigned, TestStop, Interrupted, LoadFails, NotifyFull,
       NotifyFree, StopInternalThread, Join, SpuriousWakeUp

\* Each buffer holds the batch its place calls for: the batches in full are
\* those after the served ones, and the one in view is the last served.
LEMMA BookStep == IInv /\ [Next]_vars => Bookkeeping' /\ ServedInOrder'
<1> SUFFICES ASSUME IInv, [Next]_vars PROVE Bookkeeping' /\ ServedInOrder'
  OBVIOUS
<1>1. TypeOK /\ OneOwner /\ Bookkeeping /\ ServedInOrder
  BY DEF IInv
<1>s. main' = "setup" => worker' = "none"
  BY <1>1, SetUpStep
<1>l. Len(loaded) \in Nat /\ Len(full) \in Nat /\ served \in Nat
  BY <1>1 DEF TypeOK
<1>2. CASE Quiet
  <2>1. WorkerHolds => worker' = worker
    BY <1>1, <1>2, QuietWorker
  <2>2. worker' \in {"load", "copy", "push"} => worker' = worker
    BY <1>1, <1>2, <2>1, QuietStep DEF WorkerHolds
  <2>3. Bookkeeping'
    BY <1>1, <1>2, <1>s, <2>2, QuietStep DEF Bookkeeping, Content, WorkerHolds
  <2>4. ServedInOrder'
    BY <1>1, <1>2, QuietStep DEF ServedInOrder, Seen
  <2>5. QED
    BY <2>3, <2>4
<1>3. CASE PopFree
  <2>1. /\ UNCHANGED <<full, main, current, served, host, dev, loaded>>
        /\ worker = "pop" /\ worker' \in {"load", "done", "wait"}
        /\ worker' = "load" => free # << >> /\ batch' = Head(free) /\ item' = 0
    BY <1>3 DEF PopFree, mainVars
  <2>2. InHands' = InHands /\ Viewing' = Viewing
    BY <2>1 DEF InHands, Viewing, Between
  <2>3. worker' = "load" => batch' \in Buffers /\ item' < BatchSize
    BY <1>1, <2>1, PopFacts, BatchSizePositive DEF TypeOK
  <2>4. Bookkeeping'
    BY <1>1, <1>s, <2>1, <2>2, <2>3 DEF Bookkeeping, Content, WorkerHolds
  <2>5. ServedInOrder'
    BY <1>1, <2>1, <2>2 DEF ServedInOrder, Seen
  <2>6. QED
    BY <2>4, <2>5
<1>4. CASE LoadItem
  <2>1. /\ UNCHANGED <<full, main, current, served, batch, dev>>
        /\ worker = "load" /\ batch \in Buffers
        /\ item < BatchSize /\ item \in Nat
    BY <1>1, <1>4 DEF LoadItem, LoadItemOf, mainVars, queues, TypeOK, Bookkeeping,
                      WorkerHolds
  <2>2. \A b \in Buffers : b # batch => Content(b)' = Content(b)
    BY <1>1, <1>4, <2>1 DEF LoadItem, LoadItemOf, Content, TypeOK
  <2>3. \A i \in DOMAIN full : full[i] \in Buffers /\ full[i] # batch
    BY <1>1, <2>1 DEF OneOwner, WorkerHolds, Elements, TypeOK
  <2>4. Viewing' = Viewing
    BY <2>1 DEF Viewing, Between
  <2>5. Viewing => Seen' = Seen
    BY <1>1, <2>1, <2>2 DEF Viewing, Seen, Content, OneOwner, WorkerHolds, TypeOK
  <2>6. Len(loaded) = served + Len(full)
    BY <1>1, <2>1, <1>l DEF Bookkeeping, InHands
  <2>7. CASE item' < BatchSize
    <3>1. worker' = worker /\ loaded' = loaded
      BY <1>4, <2>7 DEF LoadItem, LoadItemOf
    <3>2. Bookkeeping'
      BY <1>1, <1>s, <2>1, <2>2, <2>3, <2>7, <3>1 DEF Bookkeeping, InHands, WorkerHolds
    <3>3. ServedInOrder'
      BY <1>1, <2>1, <2>4, <2>5, <3>1 DEF ServedInOrder
    <3>4. QED
      BY <3>2, <3>3
  <2>8. CASE ~(item' < BatchSize)
    <3>1. /\ worker' = (IF Gpu THEN "copy" ELSE "push")
          /\ loaded' = Append(loaded, host'[batch])
      BY <1>4, <2>8 DEF LoadItem, LoadItemOf
    <3>2. host'[batch] \in Batches
      BY <2>1, TypeStep DEF TypeOK
    <3>3. /\ Len(loaded') = Len(loaded) + 1
          /\ \A i \in DOMAIN loaded : loaded'[i] = loaded[i]
          /\ loaded'[Len(loaded')] = host'[batch]
          /\ DOMAIN loaded = 1..Len(loaded)
      BY <1>1, <3>1, <3>2, PushFacts DEF TypeOK
    <3>4. InHands' = 1 /\ Len(loaded') = served' + Len(full') + InHands'
      BY <1>l, <2>1, <2>6, <3>1, <3>3 DEF InHands
    <3>5. \A i \in DOMAIN full : served + i \in DOMAIN loaded
      BY <1>1, <1>l, <2>6, <3>3 DEF TypeOK
    <3>6. \A i \in DOMAIN full' : Content(full[i])' = loaded'[served' + i]
      BY <1>1, <2>1, <2>2, <2>3, <3>3, <3>5 DEF Bookkeeping
    <3>7. /\ worker' = "copy" => host'[batch'] = loaded'[Len(loaded')]
          /\ worker' = "push" => Content(batch)' = loaded'[Len(loaded')]
          /\ worker' # "load"
      BY <2>1, <3>1, <3>3, SwitchesAreBool DEF Content
    <3>8. Bookkeeping'
      BY <1>s, <2>1, <3>4, <3>6, <3>7 DEF Bookkeeping
    <3>9. ServedInOrder'
      BY <1>1, <1>l, <2>1, <2>4, <2>5, <3>3 DEF ServedInOrder
    <3>10. QED
      BY <3>8, <3>9
  <2>9. QED
    BY <2>7, <2>8
<1>5. CASE PushToGpu
  <2>1. /\ UNCHANGED <<full, main, current, served, batch, host, loaded>>
        /\ worker = "copy" /\ worker' = "push" /\ batch \in Buffers
        /\ dev' = [dev EXCEPT ![batch] = host[batch]]
    BY <1>1, <1>5 DEF PushToGpu, mainVars, queues, Bookkeeping, WorkerHolds
  <2>2. \A b \in Buffers : b # batch => Content(b)' = Content(b)
    BY <1>1, <2>1 DEF Content, TypeOK
  <2>3. \A i \in DOMAIN full : full[i] \in Buffers /\ full[i] # batch
    BY <1>1, <2>1 DEF OneOwner, WorkerHolds, Elements, TypeOK
  <2>4. Viewing' = Viewing /\ InHands' = InHands
    BY <2>1 DEF Viewing, Between, InHands
  <2>5. Viewing => Seen' = Seen
    BY <1>1, <2>1, <2>2 DEF Viewing, Seen, Content, OneOwner, WorkerHolds, TypeOK
  <2>6. Content(batch)' = loaded[Len(loaded)]
    BY <1>1, <2>1 DEF Content, Bookkeeping, TypeOK
  <2>7. Bookkeeping'
    BY <1>1, <1>s, <2>1, <2>2, <2>3, <2>4, <2>6 DEF Bookkeeping
  <2>8. ServedInOrder'
    BY <1>1, <2>1, <2>4, <2>5 DEF ServedInOrder
  <2>9. QED
    BY <2>7, <2>8
<1>6. CASE PushFull
  <2>1. /\ UNCHANGED <<main, current, served, batch, host, dev, loaded>>
        /\ worker = "push" /\ worker' = "notify" /\ batch \in Buffers
        /\ full' = Append(full, batch)
    BY <1>1, <1>6 DEF PushFull, mainVars, data, Bookkeeping, WorkerHolds
  <2>2. Viewing' = Viewing /\ InHands = 1 /\ InHands' = 0
    BY <2>1 DEF Viewing, Between, InHands
  <2>3. /\ Len(full') = Len(full) + 1
        /\ DOMAIN full' = DOMAIN full \cup {Len(full) + 1}
        /\ \A i \in DOMAIN full : full'[i] = full[i]
        /\ full'[Len(full) + 1] = batch
    BY <1>1, <2>1, PushFacts DEF TypeOK
  <2>4. Len(loaded) = served + (Len(full) + 1)
    BY <1>1, <1>l, <2>2 DEF Bookkeeping
  <2>5. Content(batch) = loaded[served + (Len(full) + 1)]
    BY <1>1, <2>1, <2>4 DEF Bookkeeping
  <2>6. \A i \in DOMAIN full' : Content(full[i])' = loaded'[served' + i]
    BY <1>1, <2>1, <2>3, <2>5 DEF Bookkeeping, Content
  <2>7. Len(loaded') = served' + Len(full') + InHands'
    BY <1>l, <2>1, <2>2, <2>3, <2>4
  <2>8. Bookkeeping'
    BY <1>s, <2>1, <2>6, <2>7 DEF Bookkeeping, WorkerHolds
  <2>9. ServedInOrder'
    BY <1>1, <2>1, <2>2 DEF ServedInOrder, Seen
  <2>10. QED
    BY <2>8, <2>9
<1>7. CASE Forward
  <2>1. /\ UNCHANGED <<full, current, served, worker, batch, item, host, dev, loaded>>
        /\ main' \in {"notify", "pop"}
    BY <1>7 DEF Forward, data
  <2>2. Bookkeeping'
    BY <1>1, <2>1 DEF Bookkeeping, Content, InHands, WorkerHolds
  <2>3. ServedInOrder'
    BY <2>1 DEF ServedInOrder, Viewing, Between
  <2>4. QED
    BY <2>2, <2>3
<1>8. CASE PopFull
  <2>1. /\ UNCHANGED <<worker, batch, item, host, dev, loaded>>
        /\ main' \in {"ready", "wait"}
    BY <1>8 DEF PopFull, data
  <2>2. CASE full = << >>
    <3>1. UNCHANGED <<full, current, served>> /\ main' = "wait"
      BY <1>8, <2>2 DEF PopFull
    <3>2. Bookkeeping'
      BY <1>1, <2>1, <3>1 DEF Bookkeeping, Content, InHands, WorkerHolds
    <3>3. ServedInOrder'
      BY <3>1 DEF ServedInOrder, Viewing, Between
    <3>4. QED
      BY <3>2, <3>3
  <2>3. CASE full # << >>
    <3>1. current' = Head(full) /\ full' = Tail(full) /\ served' = served + 1
      BY <1>8, <2>3 DEF PopFull
    <3>2. /\ Head(full) = full[1] /\ 1 \in DOMAIN full
          /\ Len(full') = Len(full) - 1
          /\ \A i \in DOMAIN full' : i + 1 \in DOMAIN full /\ full'[i] = full[i + 1]
          /\ DOMAIN full' = 1..Len(full')
      BY <1>1, <2>3, <3>1, PopFacts DEF TypeOK
    <3>3. \A i \in DOMAIN full' : served + (i + 1) = served' + i
      BY <1>l, <3>1, <3>2
    <3>4. \A i \in DOMAIN full' : Content(full[i])' = loaded'[served' + i]
      BY <1>1, <2>1, <3>2, <3>3 DEF Bookkeeping, Content
    <3>5. InHands' = InHands /\ InHands \in {0, 1}
      BY <2>1 DEF InHands
    <3>6. Len(loaded') = served' + Len(full') + InHands'
      <4>1. Len(loaded') = served + Len(full) + InHands
        BY <1>1, <2>1 DEF Bookkeeping
      <4>2. served' = served + 1 /\ Len(full') = Len(full) - 1
        BY <3>1, <3>2
      <4>3. served' + Len(full') + InHands = served + Len(full) + InHands
        BY <1>l, <3>5, <4>2
      <4>4. QED
        BY <3>5, <4>1, <4>3, Zenon
    <3>7. Bookkeeping'
      BY <1>1, <2>1, <3>4, <3>6 DEF Bookkeeping, Content, WorkerHolds
    <3>8. Len(full) >= 1
      BY <1>l, <2>3, <1>1 DEF TypeOK
    <3>9. served' \in 1..Len(loaded')
      BY <1>1, <1>l, <2>1, <3>1, <3>5, <3>8 DEF Bookkeeping
    <3>10. Seen' = loaded'[served']
      BY <1>1, <2>1, <3>1, <3>2 DEF Bookkeeping, Seen, Content
    <3>11. QED
      BY <3>7, <3>9, <3>10 DEF ServedInOrder
  <2>4. QED
    BY <2>2, <2>3
<1>9. QED
  BY StepCases, <1>2, <1>3, <1>4, <1>5, <1>6, <1>7, <1>8


-----------------------------------------------------------------------------
(* Theorems *)

\* The initial state satisfies the invariant: every buffer waits in free.
LEMMA InitInv == Init => IInv
<1> SUFFICES ASSUME Init PROVE IInv
  OBVIOUS
<1> USE DepthPositive, NPositive, BatchSizePositive
<1>1. /\ free = [b \in Buffers |-> b] /\ full = << >> /\ loaded = << >> /\ served = 0
      /\ current = None /\ main = "setup" /\ worker = "none"
  BY DEF Init
<1>2. free \in Seq(Buffers) /\ DOMAIN free = Buffers
  BY <1>1 DEF Buffers
<1>3. [i \in 1..BatchSize |-> Blank] \in Batches
  BY DEF Batches, Lines, Blank
<1>4. host \in [Buffers -> Batches] /\ dev \in [Buffers -> Batches]
  BY <1>3 DEF Init
<1>t. full \in Seq(Buffers) /\ loaded \in Seq(Batches)
  BY <1>1
<1>u. lines \in [Lines -> Lines] /\ lines_id \in 0..(N - 1) /\ item \in 0..BatchSize
  BY DEF Init, FileOrder
<1>5. TypeOK
  BY <1>2, <1>4, <1>t, <1>u DEF Init, TypeOK
<1>6. Elements(free) = Buffers /\ Distinct(free)
  BY <1>1, <1>2 DEF Elements, Distinct
<1>7. Elements(full) = {} /\ Distinct(full) /\ Len(full) = 0 /\ DOMAIN full = {}
  BY <1>1 DEF Elements, Distinct
<1>8. ~WorkerHolds /\ ~Viewing /\ InHands = 0 /\ Len(loaded) = 0
  BY <1>1 DEF WorkerHolds, Viewing, InHands
<1>9. OneOwner /\ NoBatchLost /\ ServedInOrder /\ NoLostWakeUp
  BY <1>1, <1>6, <1>7, <1>8 DEF OneOwner, NoBatchLost, ServedInOrder, NoLostWakeUp
<1>10. Bookkeeping
  BY <1>1, <1>7, <1>8 DEF Bookkeeping
<1>11. QED
  BY <1>5, <1>9, <1>10 DEF IInv

\* Every reachable state satisfies the invariant, whatever the constants.
THEOREM Invariance == Spec => []IInv
<1>1. Init => IInv
  BY InitInv
<1>2. IInv /\ [Next]_vars => IInv'
  BY TypeStep, OwnerStep, WakeUpStep, BookStep DEF IInv
<1>3. QED
  BY <1>1, <1>2, PTL DEF Spec

\* Every variable stays in its set, whatever the constants.
THEOREM TypeSafe == Spec => []TypeOK
<1>1. IInv => TypeOK
  BY DEF IInv
<1> QED
  BY Invariance, <1>1, PTL

\* A batch is in one place only: the worker never loads a buffer that the
\* network may be reading (base_data_layer.cpp:88-98, 115-118).
THEOREM OneOwnerSafe == Spec => []OneOwner
<1>1. IInv => OneOwner
  BY DEF IInv
<1>2. QED
  BY <1>1, Invariance, PTL

\* No batch drops out of the circulation between the two queues.
THEOREM NoBatchLostSafe == Spec => []NoBatchLost
<1>1. IInv => NoBatchLost
  BY DEF IInv
<1>2. QED
  BY <1>1, Invariance, PTL

\* The k-th Forward shows the k-th batch loaded, whole.
THEOREM ServedInOrderSafe == Spec => []ServedInOrder
<1>1. IInv => ServedInOrder
  BY DEF IInv
<1>2. QED
  BY <1>1, Invariance, PTL

\* Notifying after the unlock loses no wake-up (blocking_queue.cpp:22-28).
THEOREM NoLostWakeUpSafe == Spec => []NoLostWakeUp
<1>1. IInv => NoLostWakeUp
  BY DEF IInv
<1>2. QED
  BY <1>1, Invariance, PTL

-----------------------------------------------------------------------------
(* Refinement *)

View == IF Viewing THEN Seen ELSE NoBatch

\* Every step of the layer is a step of the stream, or stutters.
LEMMA StreamStep == IInv /\ IInv' /\ [Next]_vars => [Stream!Next]_Stream!vars
<1> SUFFICES ASSUME IInv, IInv', [Next]_vars PROVE [Stream!Next]_Stream!vars
  OBVIOUS
<1>1. TypeOK /\ OneOwner /\ Bookkeeping /\ ServedInOrder
      /\ TypeOK' /\ OneOwner' /\ Bookkeeping' /\ ServedInOrder'
  BY DEF IInv
<1>l. Len(loaded) \in Nat /\ Len(full) \in Nat /\ served \in Nat
  BY <1>1 DEF TypeOK
<1>2. ASSUME UNCHANGED <<loaded, served>>, View' = View
      PROVE  [Stream!Next]_Stream!vars
  BY <1>2 DEF Stream!vars, View
<1>3. CASE Quiet
  <2>1. UNCHANGED <<loaded, served>> /\ View' = View
    BY <1>1, <1>3, QuietStep DEF View, Seen
  <2>2. QED
    BY <1>2, <2>1
<1>4. CASE PopFree
  <2>1. UNCHANGED <<main, current, served, host, dev, loaded>>
    BY <1>4 DEF PopFree, mainVars
  <2>2. View' = View
    BY <2>1 DEF View, Viewing, Between, Seen
  <2>3. QED
    BY <1>2, <2>1, <2>2
<1>5. CASE LoadItem \/ PushToGpu
  <2>1. /\ UNCHANGED <<main, current, served, full, batch>>
        /\ worker \in {"load", "copy"} /\ WorkerHolds /\ batch \in Buffers
    BY <1>1, <1>5 DEF LoadItem, LoadItemOf, PushToGpu, mainVars, queues, Bookkeeping,
                      WorkerHolds
  <2>2. \A b \in Buffers : b # batch => host'[b] = host[b] /\ dev'[b] = dev[b]
    BY <1>1, <1>5, <2>1 DEF LoadItem, LoadItemOf, PushToGpu, TypeOK
  <2>3. View' = View
    BY <1>1, <2>1, <2>2 DEF View, Viewing, Between, Seen, OneOwner, TypeOK
  <2>4. CASE loaded' = loaded
    BY <1>2, <2>1, <2>3, <2>4
  <2>5. CASE loaded' # loaded
    <3>1. worker = "load" /\ loaded' = Append(loaded, host'[batch])
      BY <1>5, <2>5 DEF LoadItem, LoadItemOf, PushToGpu
    <3>2. Len(loaded) = served + Len(full)
      BY <1>1, <1>l, <3>1 DEF Bookkeeping, InHands
    <3>3. Len(full) < Depth
      BY <1>1, <2>1, ShortQueue DEF TypeOK, OneOwner
    <3>4. host'[batch] \in Batches
      BY <1>1, <2>1 DEF TypeOK
    <3>5. Len(loaded) - served < Depth
      BY <1>l, <3>2, <3>3, DepthPositive
    <3>6. Stream!Load
      BY <2>1, <2>3, <3>1, <3>4, <3>5 DEF Stream!Load, View
    <3>7. QED
      BY <3>6 DEF Stream!Next
  <2>6. QED
    BY <2>4, <2>5
<1>6. CASE PushFull
  <2>1. UNCHANGED <<main, current, served, host, dev, loaded>>
    BY <1>6 DEF PushFull, mainVars, data
  <2>2. View' = View
    BY <2>1 DEF View, Viewing, Between, Seen
  <2>3. QED
    BY <1>2, <2>1, <2>2
<1>7. CASE Forward
  <2>1. /\ UNCHANGED <<current, served, host, dev, loaded>>
        /\ main = "ready" /\ main' \in {"notify", "pop"}
    BY <1>7 DEF Forward, data
  <2>2. View' = NoBatch
    BY <2>1 DEF View, Viewing, Between
  <2>3. CASE View = NoBatch
    BY <1>2, <2>1, <2>2, <2>3
  <2>4. CASE View # NoBatch
    <3>1. Stream!Release
      BY <2>1, <2>2, <2>4 DEF Stream!Release, View
    <3>2. QED
      BY <3>1 DEF Stream!Next
  <2>5. QED
    BY <2>3, <2>4
<1>8. CASE PopFull
  <2>1. main = "pop" /\ UNCHANGED <<host, dev, loaded, worker>>
    BY <1>8 DEF PopFull, data
  <2>2. View = NoBatch
    BY <2>1 DEF View, Viewing, Between
  <2>3. CASE full = << >>
    <3>1. main' = "wait" /\ UNCHANGED <<current, served>>
      BY <1>8, <2>3 DEF PopFull
    <3>2. View' = NoBatch
      BY <3>1 DEF View, Viewing, Between
    <3>3. QED
      BY <1>2, <2>1, <2>2, <3>1, <3>2
  <2>4. CASE full # << >>
    <3>1. main' = "ready" /\ current' = Head(full) /\ served' = served + 1
      BY <1>8, <2>4 DEF PopFull
    <3>2. Head(full) \in Buffers
      BY <1>1, <2>4, PopFacts DEF TypeOK
    <3>3. Viewing'
      BY <3>1, <3>2, DepthPositive DEF Viewing, Between, Buffers, None
    <3>4. /\ View' = loaded[served'] /\ served' \in 1..Len(loaded)
      BY <1>1, <2>1, <3>3 DEF View, ServedInOrder
    <3>5. served < Len(loaded)
      BY <1>l, <3>1, <3>4
    <3>6. Stream!Take
      BY <2>1, <2>2, <3>1, <3>4, <3>5 DEF Stream!Take, View
    <3>7. QED
      BY <3>6 DEF Stream!Next
  <2>5. QED
    BY <2>3, <2>4
<1>9. QED
  BY StepCases, <1>3, <1>4, <1>5, <1>6, <1>7, <1>8

\* The layer implements the stream of batches: batches are handed out once
\* each, in the order loaded, unchanged while viewed, at most Depth ahead.
THEOREM ImplementsBatchStream == Spec => StreamSpec
<1>1. Init => Stream!Init
  BY DEF Init, Stream!Init, Viewing
<1>2. IInv /\ IInv' /\ [Next]_vars => [Stream!Next]_Stream!vars
  BY StreamStep
<1>3. QED
  BY <1>1, <1>2, Invariance, PTL DEF Spec, StreamSpec, Stream!Spec

-----------------------------------------------------------------------------
(***************************************************************************)
(* EachPassComplete: the items are drawn one by one; f[k] is the k-th item *)
(* drawn, d of them so far, and the pass under way began after item s      *)
(* (before the first one if lines were skipped).                           *)
(***************************************************************************)

PassOf(k, s)  == (k - 1 - s) \div N
PlaceOf(k, s) == (k - 1 - s) % N

\* The order of the list is one it may have.
Order(v) == v \in Orders /\ (~Shuffle => v = FileOrder)

\* The pass under way follows the order v, and no pass has an item twice.
Passes(f, d, s, v) ==
  /\ \A k \in 1..d : k > s => f[k] = v[k - s]
  /\ \A k \in 1..d : \A j \in 1..(k - 1) :
       PassOf(j, s) = PassOf(k, s) => f[j] # f[k]
  /\ ~Shuffle => \A k \in 1..d : f[k] = 1 + PlaceOf(k, s)

Begun == IF worker = "load" THEN item ELSE 0
Total == Len(loaded) * BatchSize
Drawn == Total + Begun

\* The items drawn: those of the loaded batches, then those of the batch that
\* is being loaded.
DrawnItems == [k \in 1..Drawn |-> IF k <= Total THEN Item(k)
                                               ELSE host[batch][k - Total]]

PassInv ==
  /\ main = "setup" => loaded = << >> /\ worker = "none"
  /\ Order(lines)
  /\ Passes(DrawnItems, Drawn, Drawn - lines_id, lines)

-----------------------------------------------------------------------------
(* Division *)

LEMMA DivMod ==
  ASSUME NEW x \in Int, NEW M \in Nat \ {0}
  PROVE  /\ x \div M \in Int
         /\ x % M \in 0..(M - 1)
<1>1. x \div M \in Int
  OBVIOUS
<1>2. x % M \in 0..(M - 1)
  OBVIOUS
<1> QED
  BY <1>1, <1>2

LEMMA DivUnique ==
  ASSUME NEW q \in Int, NEW M \in Nat \ {0}, NEW r \in 0..(M - 1)
  PROVE  (q * M + r) \div M = q /\ (q * M + r) % M = r
<1>1. (q * M + r) \div M = q
  OBVIOUS
<1>2. (q * M + r) % M = r
  OBVIOUS
<1> QED
  BY <1>1, <1>2

LEMMA DivBack ==
  ASSUME NEW x \in Int, NEW M \in Nat \ {0}
  PROVE  (x - M) \div M = (x \div M) - 1 /\ (x - M) % M = x % M
<1>1. (x - M) \div M = (x \div M) - 1
  OBVIOUS
<1>a. x \div M \in Int /\ x % M \in 0..(M - 1)
  BY DivMod
<1>b. x % M \in Int
  BY <1>a
<1>2. PICK q \in Int, r \in Int : q = x \div M /\ r = x % M
  BY <1>a, <1>b, Zenon
<1>3. x = q * M + r
  BY <1>2
<1>4. x - M = (q - 1) * M + r
  BY <1>3
<1>5. r \in 0..(M - 1) /\ q - 1 \in Int
  BY <1>2, DivMod
<1>6. (x - M) % M = x % M
  <2>1. ((q - 1) * M + r) % M = r
    BY <1>5, DivUnique
  <2> QED
    BY <1>2, <1>4, <2>1
<1> QED
  BY <1>1, <1>6

\* x is at least 0 where its quotient is.
LEMMA DivZero ==
  ASSUME NEW x \in Int, NEW M \in Nat \ {0}
  PROVE  /\ x \div M = 0 <=> x \in 0..(M - 1)
         /\ x \in 0..(M - 1) => x % M = x
<1>1. x \div M = 0 => x \in 0..(M - 1)
  OBVIOUS
<1>2. x \in 0..(M - 1) => x \div M = 0
  OBVIOUS
<1>3. x \in 0..(M - 1) => x % M = x
  OBVIOUS
<1> QED
  BY <1>1, <1>2, <1>3

\* The place of an item in n batches.
LEMMA Position ==
  ASSUME NEW n \in Nat, NEW M \in Nat \ {0}, NEW k \in 1..(n * M)
  PROVE  1 + ((k - 1) \div M) \in 1..n /\ 1 + ((k - 1) % M) \in 1..M
<1>1. k - 1 \in Int /\ k - 1 >= 0 /\ k - 1 < n * M
  OBVIOUS
<1>2. (k - 1) \div M >= 0 /\ (k - 1) \div M < n
  BY <1>1
<1>3. (k - 1) \div M \in Int /\ (k - 1) % M \in 0..(M - 1)
  BY <1>1, DivMod
<1> QED
  BY <1>2, <1>3

-----------------------------------------------------------------------------
(* Drawing an item, and wrapping around *)

\* One more item of the pass under way.
LEMMA PassGoesOn ==
  ASSUME NEW f, NEW g, NEW d \in Nat, NEW s \in Int, NEW v, Order(v),
         d - s \in 0..(N - 1), Passes(f, d, s, v),
         \A k \in 1..d : g[k] = f[k], g[d + 1] = v[d + 1 - s]
  PROVE  Passes(g, d + 1, s, v)
<1> USE NPositive
<1>1. \A k \in 1..(d + 1) : k = d + 1 \/ k \in 1..d
  OBVIOUS
<1>2. \A k \in 1..(d + 1) : k > s => g[k] = v[k - s]
  BY <1>1 DEF Passes
<1>3. PassOf(d + 1, s) = 0 /\ PlaceOf(d + 1, s) = d - s
  <2>1. d + 1 - 1 - s = d - s
    OBVIOUS
  <2>2. (d - s) \div N = 0 /\ (d - s) % N = d - s
    BY DivZero
  <2> QED
    BY <2>1, <2>2 DEF PassOf, PlaceOf
<1>4. ASSUME NEW k \in 1..(d + 1), NEW j \in 1..(k - 1), PassOf(j, s) = PassOf(k, s)
      PROVE  g[j] # g[k]
  <2>1. j \in 1..d /\ j < k /\ g[j] = f[j]
    OBVIOUS
  <2>2. CASE k \in 1..d
    BY <1>4, <2>1, <2>2 DEF Passes
  <2>3. CASE k = d + 1
    <3>1. (j - 1 - s) \div N = 0 /\ j - 1 - s \in Int
      BY <1>3, <1>4, <2>3 DEF PassOf
    <3>2. j - 1 - s \in 0..(N - 1)
      BY <3>1, DivZero
    <3>3. j > s /\ j - s \in Lines /\ d + 1 - s \in Lines /\ j - s # d + 1 - s
      BY <2>1, <3>2 DEF Lines
    <3>4. g[j] = v[j - s]
      BY <2>1, <3>3 DEF Passes
    <3>5. v[j - s] # v[d + 1 - s]
      BY <3>3 DEF Order, Orders
    <3> QED
      BY <2>3, <3>4, <3>5
  <2> QED
    BY <1>1, <2>2, <2>3
<1>5. ASSUME ~Shuffle, NEW k \in 1..(d + 1) PROVE g[k] = 1 + PlaceOf(k, s)
  <2>1. CASE k \in 1..d
    BY <1>5, <2>1 DEF Passes
  <2>2. CASE k = d + 1
    <3>1. d + 1 - s \in Lines
      BY DEF Lines
    <3>2. v[d + 1 - s] = d + 1 - s
      BY <1>5, <3>1 DEF Order, FileOrder
    <3> QED
      BY <1>3, <2>2, <3>2
  <2> QED
    BY <1>1, <2>1, <2>2
<1> QED
  BY <1>2, <1>4, <1>5 DEF Passes

\* At the end of a pass another one begins, in whatever order.
LEMMA PassEnds ==
  ASSUME NEW f, NEW d \in Nat, NEW s \in Int, NEW v, NEW w,
         d - s = N, Passes(f, d, s, v)
  PROVE  Passes(f, d, d, w)
<1> USE NPositive
<1>1. ASSUME NEW k \in 1..d
      PROVE  PassOf(k, d) = PassOf(k, s) - 1 /\ PlaceOf(k, d) = PlaceOf(k, s)
  <2>1. k - 1 - d = (k - 1 - s) - N /\ k - 1 - s \in Int
    OBVIOUS
  <2> QED
    BY <2>1, DivBack DEF PassOf, PlaceOf
<1>2. \A k \in 1..d : PassOf(k, s) \in Int
  BY DivMod DEF PassOf
<1>3. ASSUME NEW k \in 1..d, NEW j \in 1..(k - 1), PassOf(j, d) = PassOf(k, d)
      PROVE  f[j] # f[k]
  <2>1. j \in 1..d
    OBVIOUS
  <2>2. PassOf(j, s) = PassOf(k, s)
    BY <1>1, <1>2, <1>3, <2>1
  <2> QED
    BY <2>2 DEF Passes
<1>4. ~Shuffle => \A k \in 1..d : f[k] = 1 + PlaceOf(k, d)
  BY <1>1 DEF Passes
<1>5. \A k \in 1..d : ~(k > d)
  OBVIOUS
<1> QED
  BY <1>3, <1>4, <1>5 DEF Passes

-----------------------------------------------------------------------------
(* The layer *)

LEMMA OrderFacts ==
  /\ Order(FileOrder)
  /\ \A v : Order(v) => v \in [Lines -> Lines]
BY DEF Order, Orders, FileOrder

\* A pass is about items drawn only.
LEMMA SamePasses ==
  ASSUME NEW f, NEW g, NEW d \in Nat, NEW s \in Int, NEW v, Passes(f, d, s, v),
         \A k \in 1..d : g[k] = f[k]
  PROVE  Passes(g, d, s, v)
<1>1. ASSUME NEW k \in 1..d, NEW j \in 1..(k - 1), PassOf(j, s) = PassOf(k, s)
      PROVE  g[j] # g[k]
  <2>1. j \in 1..d
    OBVIOUS
  <2> QED
    BY <1>1, <2>1 DEF Passes
<1>2. \A k \in 1..d : k > s => g[k] = v[k - s]
  BY DEF Passes
<1>3. ~Shuffle => \A k \in 1..d : g[k] = 1 + PlaceOf(k, s)
  BY DEF Passes
<1> QED
  BY <1>1, <1>2, <1>3 DEF Passes

LEMMA NothingDrawn ==
  ASSUME NEW f, NEW s \in Int, NEW v
  PROVE  Passes(f, 0, s, v)
<1>1. \A k \in 1..0 : FALSE
  OBVIOUS
<1> QED
  BY <1>1 DEF Passes

LEMMA Counts ==
  ASSUME TypeOK
  PROVE  /\ Len(loaded) \in Nat /\ Total \in Nat /\ Begun \in Nat
         /\ Drawn \in Nat /\ Drawn - lines_id \in Int
<1> USE BatchSizePositive, NPositive
<1>1. Len(loaded) \in Nat /\ item \in Nat /\ lines_id \in Nat
  BY DEF TypeOK
<1>2. Total \in Nat
  BY <1>1 DEF Total
<1>3. Begun \in Nat
  BY <1>1 DEF Begun
<1> QED
  BY <1>1, <1>2, <1>3 DEF Drawn

LEMMA InitPass == Init => PassInv
<1> SUFFICES ASSUME Init PROVE PassInv
  OBVIOUS
<1>1. TypeOK
  BY InitInv DEF IInv
<1>2. Len(loaded) = 0 /\ Begun = 0
  BY DEF Init, Begun
<1>3. Drawn = 0
  BY <1>2, BatchSizePositive DEF Drawn, Total
<1>4. Passes(DrawnItems, Drawn, Drawn - lines_id, lines)
  BY <1>1, <1>3, Counts, NothingDrawn
<1> QED
  BY <1>4, OrderFacts DEF PassInv, Init

\* A step that draws nothing and leaves the list alone.
LEMMA NoItemDrawn ==
  ASSUME TypeOK, PassInv, loaded' = loaded, host' = host,
         lines' = lines, lines_id' = lines_id, Begun' = Begun,
         Begun > 0 => batch' = batch,
         main' = "setup" => main = "setup" /\ worker' = "none"
  PROVE  PassInv'
<1>1. Total' = Total /\ Drawn' = Drawn
  BY DEF Total, Drawn
<1>2. \A k : Item(k)' = Item(k)
  BY DEF Item
<1>3. ASSUME NEW k \in 1..Drawn PROVE DrawnItems'[k] = DrawnItems[k]
  <2>1. k <= Total \/ Begun > 0
    BY Counts DEF Drawn
  <2>2. DrawnItems[k] = IF k <= Total THEN Item(k) ELSE host[batch][k - Total]
    BY DEF DrawnItems
  <2>3. DrawnItems'[k] = IF k <= Total THEN Item(k) ELSE host[batch'][k - Total]
    BY <1>1, <1>2 DEF DrawnItems
  <2> QED
    BY <2>1, <2>2, <2>3
<1>4. Passes(DrawnItems', Drawn, Drawn - lines_id, lines)
  BY <1>3, Counts, SamePasses DEF PassInv
<1>5. Passes(DrawnItems, Drawn, Drawn - lines_id, lines)'
  BY <1>1, <1>4
<1> QED
  BY <1>5 DEF PassInv

\* The last item of a batch, wherever the batches end.
LEMMA AppendedItem ==
  ASSUME TypeOK, NEW b \in Batches, loaded' = Append(loaded, b)
  PROVE  /\ Len(loaded') = Len(loaded) + 1
         /\ Total' = Total + BatchSize
         /\ \A k \in 1..Total : Item(k)' = Item(k)
         /\ \A k \in (Total + 1)..(Total + BatchSize) : Item(k)' = b[k - Total]
<1> USE BatchSizePositive
<1>1. loaded \in Seq(Batches) /\ Len(loaded) \in Nat
  BY DEF TypeOK
<1>2. /\ Len(loaded') = Len(loaded) + 1
      /\ \A m \in 1..Len(loaded) : loaded'[m] = loaded[m]
      /\ loaded'[Len(loaded) + 1] = b
  BY <1>1
<1>3. Total' = Total + BatchSize
  BY <1>1, <1>2 DEF Total
<1>4. ASSUME NEW k \in 1..Total PROVE Item(k)' = Item(k)
  <2>1. 1 + ((k - 1) \div BatchSize) \in 1..Len(loaded)
    BY <1>1, Position DEF Total
  <2> QED
    BY <1>2, <2>1 DEF Item
<1>5. ASSUME NEW k \in (Total + 1)..(Total + BatchSize) PROVE Item(k)' = b[k - Total]
  <2>a. k - 1 - Total \in Int /\ Total \in Nat
    BY Counts
  <2>1. PICK n \in Nat, r \in Int : n = Len(loaded) /\ r = k - 1 - Total
    BY <1>1, <2>a, Zenon
  <2>2. r \in 0..(BatchSize - 1) /\ k - 1 = n * BatchSize + r /\ 1 + r = k - Total
    BY <2>1, <2>a DEF Total
  <2>3. (k - 1) \div BatchSize = n /\ (k - 1) % BatchSize = r
    <3>1. (n * BatchSize + r) \div BatchSize = n /\ (n * BatchSize + r) % BatchSize = r
      <4>1. n \in Int
        OBVIOUS
      <4> QED
        BY <2>2, <4>1, DivUnique
    <3> QED
      BY <2>2, <3>1
  <2>4. Item(k)' = loaded'[1 + n][1 + r]
    BY <2>3 DEF Item
  <2>5. 1 + n = Len(loaded) + 1
    BY <1>1, <2>1
  <2> QED
    BY <1>2, <2>2, <2>4, <2>5
<1> QED
  BY <1>2, <1>3, <1>4, <1>5

\* A turn of load_batch draws the next line of the list.
LEMMA ItemDrawn ==
  ASSUME TypeOK, TypeOK', Bookkeeping, LoadItem
  PROVE  /\ Drawn' = Drawn + 1
         /\ \A k \in 1..Drawn : DrawnItems'[k] = DrawnItems[k]
         /\ DrawnItems'[Drawn + 1] = lines[lines_id + 1]
<1> USE BatchSizePositive
<1>1. /\ worker = "load" /\ item \in 0..(BatchSize - 1) /\ batch \in Buffers
      /\ batch' = batch /\ item' = item + 1
      /\ host' = [host EXCEPT ![batch][item + 1] = lines[lines_id + 1]]
  <2>1. worker = "load" /\ batch \in Buffers /\ item < BatchSize
    BY DEF LoadItem, LoadItemOf, Bookkeeping, WorkerHolds
  <2>2. item \in 0..(BatchSize - 1)
    BY <2>1 DEF TypeOK
  <2> QED
    BY <2>1, <2>2 DEF LoadItem, LoadItemOf
<1>2. /\ host[batch] \in Batches /\ host'[batch] \in Batches
      /\ host'[batch][item + 1] = lines[lines_id + 1]
      /\ \A m \in 1..BatchSize : m # item + 1 => host'[batch][m] = host[batch][m]
  <2>1. host[batch] \in Batches /\ host'[batch] \in Batches
    BY <1>1 DEF TypeOK
  <2>2. host'[batch] = [host[batch] EXCEPT ![item + 1] = lines[lines_id + 1]]
    BY <1>1 DEF TypeOK
  <2>3. item + 1 \in 1..BatchSize
    BY <1>1
  <2> QED
    BY <2>1, <2>2, <2>3 DEF Batches
<1>3. Total \in Nat /\ Begun = item /\ Drawn = Total + item
  BY <1>1, Counts DEF Begun, Drawn
<1>4. \A k \in 1..Drawn :
        DrawnItems[k] = IF k <= Total THEN Item(k) ELSE host[batch][k - Total]
  BY DEF DrawnItems
<1>5. CASE item + 1 < BatchSize
  <2>1. worker' = "load" /\ loaded' = loaded
    BY <1>1, <1>5 DEF LoadItem, LoadItemOf
  <2>2. Total' = Total /\ Drawn' = Drawn + 1 /\ \A k : Item(k)' = Item(k)
    BY <1>1, <1>3, <2>1 DEF Total, Drawn, Begun, Item
  <2>3. \A k \in 1..(Drawn + 1) :
          DrawnItems'[k] = IF k <= Total THEN Item(k) ELSE host'[batch][k - Total]
    BY <1>1, <2>2 DEF DrawnItems
  <2>4. ASSUME NEW k \in 1..Drawn PROVE DrawnItems'[k] = DrawnItems[k]
    <3>1. k > Total => k - Total \in 1..BatchSize /\ k - Total # item + 1
      BY <1>1, <1>3
    <3> QED
      BY <1>2, <1>3, <1>4, <2>3, <3>1
  <2>5. DrawnItems'[Drawn + 1] = lines[lines_id + 1]
    <3>1. PICK d \in 1..(Drawn + 1) : d = Drawn + 1
      BY <1>1, <1>3
    <3>2. ~(d <= Total) /\ d - Total = item + 1
      BY <1>1, <1>3, <3>1
    <3>3. DrawnItems'[d] = IF d <= Total THEN Item(d) ELSE host'[batch][d - Total]
      BY <2>3, Zenon
    <3>4. DrawnItems'[d] = host'[batch][item + 1]
      BY <3>2, <3>3
    <3> QED
      BY <1>2, <3>1, <3>4
  <2> QED
    BY <2>2, <2>4, <2>5
<1>6. CASE ~(item + 1 < BatchSize)
  <2>1. item + 1 = BatchSize /\ worker' # "load" /\ loaded' = Append(loaded, host'[batch])
    BY <1>1, <1>6 DEF LoadItem, LoadItemOf
  <2>2. /\ Total' = Total + BatchSize
        /\ \A k \in 1..Total : Item(k)' = Item(k)
        /\ \A k \in (Total + 1)..(Total + BatchSize) : Item(k)' = host'[batch][k - Total]
    BY <1>2, <2>1, AppendedItem
  <2>3. Begun' = 0 /\ Drawn' = Total' /\ Drawn' = Drawn + 1
    <3>1. Begun' = 0
      BY <2>1 DEF Begun
    <3>2. Drawn' = Total' + 0
      BY <3>1 DEF Drawn
    <3> QED
      BY <1>1, <1>3, <2>1, <2>2, <3>1, <3>2
  <2>4. \A k \in 1..(Drawn + 1) : DrawnItems'[k] = Item(k)'
    <3>1. \A k \in 1..Drawn' : DrawnItems'[k] = IF k <= Total' THEN Item(k)'
                                                ELSE host'[batch'][k - Total']
      BY DEF DrawnItems
    <3> QED
      BY <1>1, <1>3, <2>3, <3>1
  <2>5. ASSUME NEW k \in 1..Drawn PROVE DrawnItems'[k] = DrawnItems[k]
    <3>1. DrawnItems'[k] = Item(k)'
      BY <1>1, <1>3, <2>4
    <3>2. CASE k <= Total
      BY <1>3, <1>4, <2>2, <3>1, <3>2
    <3>3. CASE k > Total
      <4>1. /\ k - Total \in 1..BatchSize /\ k - Total # item + 1
            /\ k \in (Total + 1)..(Total + BatchSize)
        BY <1>1, <1>3, <3>3
      <4> QED
        BY <1>2, <1>3, <1>4, <2>2, <3>1, <3>3, <4>1
    <3> QED
      BY <1>3, <3>2, <3>3
  <2>6. DrawnItems'[Drawn + 1] = lines[lines_id + 1]
    <3>1. PICK d \in 1..(Drawn + 1) : d = Drawn + 1
      BY <1>1, <1>3
    <3>2. d - Total = item + 1 /\ d \in (Total + 1)..(Total + BatchSize)
      BY <1>1, <1>3, <2>1, <3>1
    <3>3. DrawnItems'[d] = Item(d)'
      BY <2>4, Zenon
    <3>4. Item(d)' = host'[batch][d - Total]
      BY <2>2, <3>2, Zenon
    <3>5. DrawnItems'[d] = host'[batch][item + 1]
      BY <3>2, <3>3, <3>4
    <3> QED
      BY <1>2, <3>1, <3>5
  <2> QED
    BY <2>3, <2>5, <2>6
<1> QED
  BY <1>5, <1>6

LEMMA LoadItemPass == ASSUME IInv, IInv', PassInv, LoadItem PROVE PassInv'
<1> USE NPositive
<1> DEFINE s == Drawn - lines_id
<1>1. TypeOK /\ TypeOK' /\ Bookkeeping
  BY DEF IInv
<1>2. /\ Drawn' = Drawn + 1
      /\ \A k \in 1..Drawn : DrawnItems'[k] = DrawnItems[k]
      /\ DrawnItems'[Drawn + 1] = lines[lines_id + 1]
  BY <1>1, ItemDrawn
<1>3. Drawn \in Nat /\ s \in Int /\ Drawn - s = lines_id /\ lines_id \in 0..(N - 1)
      /\ Drawn + 1 - s = lines_id + 1
  BY <1>1, Counts DEF TypeOK
<1>4. Order(lines) /\ Passes(DrawnItems, Drawn, s, lines)
  BY DEF PassInv
<1>5. main' = main /\ main # "setup"
  BY <1>1 DEF LoadItem, LoadItemOf, mainVars, Bookkeeping
<1>6. Passes(DrawnItems', Drawn + 1, s, lines)
  <2> HIDE DEF s
  <2> QED
    BY <1>2, <1>3, <1>4, PassGoesOn
<1>7. CASE lines_id + 1 >= N
  <2>1. lines_id' = 0 /\ lines_id + 1 = N /\ ShuffleImages
    BY <1>3, <1>7 DEF LoadItem, LoadItemOf
  <2>2. Order(lines')
    BY <1>4, <2>1, SwitchesAreBool DEF ShuffleImages, Order
  <2>3. Drawn + 1 \in Nat /\ Drawn + 1 - s = N
    BY <1>3, <2>1
  <2>4. Passes(DrawnItems', Drawn + 1, Drawn + 1, lines')
    <3> HIDE DEF s
    <3> QED
      BY <1>3, <1>6, <2>3, PassEnds
  <2>5. Drawn' - lines_id' = Drawn + 1
    BY <1>2, <1>3, <2>1
  <2>6. Passes(DrawnItems', Drawn', Drawn' - lines_id', lines')
    BY <1>2, <2>4, <2>5
  <2> QED
    BY <1>5, <2>2, <2>6 DEF PassInv
<1>8. CASE ~(lines_id + 1 >= N)
  <2>1. lines_id' = lines_id + 1 /\ lines' = lines
    BY <1>8 DEF LoadItem, LoadItemOf
  <2>2. Drawn' - lines_id' = s
    BY <1>2, <1>3, <2>1
  <2>3. Passes(DrawnItems', Drawn', Drawn' - lines_id', lines')
    BY <1>2, <1>6, <2>1, <2>2
  <2> QED
    BY <1>4, <1>5, <2>1, <2>3 DEF PassInv
<1> QED
  BY <1>7, <1>8

\* The list may be shuffled and lines skipped before anything is drawn.
LEMMA SetUpPass == ASSUME IInv, IInv', PassInv, LayerSetUp PROVE PassInv'
<1>1. TypeOK' /\ main = "setup" /\ loaded' = << >> /\ worker' \in {"none", "test"}
      /\ (main' = "setup" => worker' = "none")
  BY DEF IInv, PassInv, LayerSetUp, data, Bookkeeping
<1>2. Order(lines')
  BY SwitchesAreBool DEF PassInv, LayerSetUp, ShuffleImages, Order
<1>3. Len(loaded') = 0 /\ Begun' = 0
  BY <1>1 DEF Begun
<1>4. Drawn' = 0
  BY <1>3, BatchSizePositive DEF Drawn, Total
<1>5. lines_id' \in Int
  BY <1>1, NPositive DEF TypeOK
<1>6. Passes(DrawnItems', Drawn', Drawn' - lines_id', lines')
  BY <1>4, <1>5, NothingDrawn
<1> QED
  BY <1>1, <1>2, <1>6 DEF PassInv

LEMMA StepPass == IInv /\ IInv' /\ PassInv /\ [Next]_vars => PassInv'
<1> SUFFICES ASSUME IInv, IInv', PassInv, [Next]_vars PROVE PassInv'
  OBVIOUS
<1>1. TypeOK /\ Bookkeeping
  BY DEF IInv
<1>2. CASE LayerSetUp
  BY <1>2, SetUpPass
<1>3. CASE LoadItem
  BY <1>3, LoadItemPass
<1>4. ASSUME loaded' = loaded, host' = host, source' = source, Begun' = Begun,
             Begun > 0 => batch' = batch,
             main' = "setup" => main = "setup" /\ worker' = "none"
      PROVE  PassInv'
  BY <1>1, <1>4, NoItemDrawn DEF source
<1>5. main' = "setup" => main = "setup" /\ worker' = "none"
  <2>1. main' = "setup" => worker' = "none"
    BY <1>1, SetUpStep
  <2>2. main' = "setup" => main = "setup"
    BY DEF Next, WorkerStep, MainStep, CallerStep, WakeStep, TestStop, PopFree,
       Interrupted, LoadItem, LoadItemOf, LoadFails, PushToGpu, PushFull, NotifyFull,
       LayerSetUp, ThreadAssigned, NotifyFree, PopFull, Join, Forward,
       StopInternalThread, SpuriousWakeUp, vars, mainVars
  <2> QED
    BY <2>1, <2>2
<1>6. CASE PopFree
  <2>1. /\ loaded' = loaded /\ host' = host /\ source' = source
        /\ worker = "pop" /\ (worker' = "load" => item' = 0)
    BY <1>6 DEF PopFree, source
  <2>2. Begun' = 0 /\ Begun = 0
    BY <2>1 DEF Begun
  <2> QED
    BY <1>4, <1>5, <2>1, <2>2
<1>7. CASE PushToGpu \/ PushFull \/ Forward \/ PopFull
  <2>1. /\ loaded' = loaded /\ host' = host /\ source' = source
        /\ batch' = batch /\ item' = item
    BY <1>7 DEF PushToGpu, PushFull, Forward, PopFull, source, data
  <2>2. worker' = "load" <=> worker = "load"
    BY <1>7 DEF PushToGpu, PushFull, Forward, PopFull
  <2>3. Begun' = Begun
    BY <2>1, <2>2 DEF Begun
  <2> QED
    BY <1>4, <1>5, <2>1, <2>3
<1>8. CASE Quiet /\ ~LayerSetUp
  <2>1. /\ loaded' = loaded /\ host' = host /\ source' = source
        /\ batch' = batch /\ item' = item
    BY <1>8 DEF Quiet, vars, mainVars, queues, source, data, ThreadAssigned, TestStop,
       Interrupted, LoadFails, NotifyFull, NotifyFree, StopInternalThread, Join,
       SpuriousWakeUp
  <2>2. worker' = "load" <=> worker = "load"
    BY <1>8 DEF Quiet, vars, mainVars, ThreadAssigned, TestStop,
       Interrupted, LoadFails, NotifyFull, NotifyFree, StopInternalThread, Join,
       SpuriousWakeUp
  <2>3. Begun' = Begun
    BY <2>1, <2>2 DEF Begun
  <2> QED
    BY <1>4, <1>5, <2>1, <2>3
<1> QED
  BY <1>2, <1>3, <1>6, <1>7, <1>8, StepCases

\* Every pass over the list serves every line once, for every list and batch
\* size, whatever is shuffled or skipped.
THEOREM EachPassSafe == Spec => []EachPassComplete
<1>1. Init => IInv /\ PassInv
  BY InitInv, InitPass
<1>2. IInv /\ [Next]_vars => IInv'
  BY TypeStep, OwnerStep, WakeUpStep, BookStep DEF IInv
<1>3. IInv /\ PassInv /\ [Next]_vars => IInv' /\ PassInv'
  BY <1>2, StepPass
<1>4. IInv /\ PassInv => EachPassComplete
  <2> SUFFICES ASSUME IInv, PassInv PROVE EachPassComplete
    OBVIOUS
  <2>1. Total \in Nat /\ Begun \in Nat /\ Drawn \in Nat /\ Drawn = Total + Begun
    BY Counts DEF IInv, Drawn
  <2>2. \A k \in 1..Total : k \in 1..Drawn /\ DrawnItems[k] = Item(k)
    BY <2>1 DEF DrawnItems
  <2>3. Passes(DrawnItems, Drawn, Drawn - lines_id, lines)
    BY DEF PassInv
  <2>4. \A k \in 1..Total :
          /\ ~Shuffle => Item(k) = 1 + PlaceOf(k, Drawn - lines_id)
          /\ \A j \in 1..(k - 1) :
               PassOf(j, Drawn - lines_id) = PassOf(k, Drawn - lines_id)
                 => Item(j) # Item(k)
    <3> TAKE k \in 1..Total
    <3>1. \A j \in 1..(k - 1) : j \in 1..Total
      BY <2>1
    <3>2. ~Shuffle => Item(k) = 1 + PlaceOf(k, Drawn - lines_id)
      <4>1. ~Shuffle => \A m \in 1..Drawn : DrawnItems[m] = 1 + PlaceOf(m, Drawn - lines_id)
        BY <2>3, Zenon DEF Passes
      <4>2. k \in 1..Drawn /\ DrawnItems[k] = Item(k)
        BY <2>2
      <4> QED
        BY <4>1, <4>2, Zenon
    <3>3. ASSUME NEW j \in 1..(k - 1), PassOf(j, Drawn - lines_id) = PassOf(k, Drawn - lines_id)
          PROVE  Item(j) # Item(k)
      BY <2>2, <2>3, <3>1, <3>3 DEF Passes
    <3> QED
      BY <3>2, <3>3, Zenon
  <2> QED
    <3> DEFINE start == Total + Begun - lines_id
    <3>0. Drawn - lines_id = start
      BY <2>1 DEF IInv, TypeOK
    <3>1. ASSUME NEW k \in 1..Total, ~Shuffle
          PROVE  Item(k) = 1 + ((k - 1 - start) % N)
      BY <2>4, <3>0, <3>1, Zenon DEF PlaceOf
    <3>2. ASSUME NEW k \in 1..Total, NEW j \in 1..(k - 1),
                 (j - 1 - start) \div N
                   = (k - 1 - start) \div N
          PROVE  Item(j) # Item(k)
      BY <2>4, <3>0, <3>2, Zenon DEF PassOf
    <3> QED
      BY <3>1, <3>2, Zenon DEF EachPassComplete, Total, Begun
<1> QED
  BY <1>1, <1>3, <1>4, PTL DEF Spec
=============================================================================
