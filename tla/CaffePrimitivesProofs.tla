----------------------- MODULE CaffePrimitivesProofs -----------------------
(***************************************************************************)
(* The two primitives of caffe that the extraction stands on.  The         *)
(* blocking queue, for any number of threads, any items and any mix of its *)
(* operations: items keep their order, no wake-up is lost, and the queue   *)
(* is a FIFO queue for its users.  SyncedMemory, for any contents: the two *)
(* sides stay coherent, memory is freed once, and readers and writers on   *)
(* both sides share one memory.  The two modules share no variable.        *)
(***************************************************************************)
EXTENDS BlockingQueue, SyncedMemory, FiniteSetTheorems, SequenceTheorems, TLAPS

AwakeIn(f) == {t \in Threads : f[t] \in {"notify", "pop", "peek"}}

\* Being awake counts the threads at three places.
LEMMA AwakeIsAwakeIn ==
  TypeOK => Awake = AwakeIn(pc) /\ IsFiniteSet(Awake) /\ Cardinality(Awake) \in Nat
<1>1. ASSUME TypeOK PROVE Awake = AwakeIn(pc)
  BY DEF Awake, AwakeIn, At
<1>2. Awake \subseteq Threads
  BY DEF Awake, At
<1>3. IsFiniteSet(Awake)
  BY <1>2, ThreadsFinite, FS_Subset
<1> QED BY <1>1, <1>3, FS_CardinalityType

\* A thread that becomes awake adds one to the count.
LEMMA Wakes ==
  ASSUME NEW f \in [Threads -> Places], NEW t \in Threads, NEW p \in Places,
         f[t] \notin {"notify", "pop", "peek"}, p \in {"notify", "pop", "peek"}
  PROVE  Cardinality(AwakeIn([f EXCEPT ![t] = p])) = Cardinality(AwakeIn(f)) + 1
<1>1. AwakeIn([f EXCEPT ![t] = p]) = AwakeIn(f) \cup {t}
  BY DEF AwakeIn
<1>2. t \notin AwakeIn(f)
  BY DEF AwakeIn
<1>3. IsFiniteSet(AwakeIn(f))
  BY ThreadsFinite, FS_Subset DEF AwakeIn
<1> QED BY <1>1, <1>2, <1>3, FS_AddElement

\* A thread that stops being awake takes one from it.
LEMMA Rests ==
  ASSUME NEW f \in [Threads -> Places], NEW t \in Threads, NEW p \in Places,
         f[t] \in {"notify", "pop", "peek"}, p \notin {"notify", "pop", "peek"}
  PROVE  /\ Cardinality(AwakeIn([f EXCEPT ![t] = p])) = Cardinality(AwakeIn(f)) - 1
         /\ Cardinality(AwakeIn(f)) \in Nat
<1>1. AwakeIn([f EXCEPT ![t] = p]) = AwakeIn(f) \ {t}
  BY DEF AwakeIn
<1>2. t \in AwakeIn(f)
  BY DEF AwakeIn
<1>3. IsFiniteSet(AwakeIn(f))
  BY ThreadsFinite, FS_Subset DEF AwakeIn
<1>4. Cardinality(AwakeIn(f)) \in Nat
  BY <1>3, FS_CardinalityType
<1> QED BY <1>1, <1>2, <1>3, <1>4, FS_RemoveElement

-----------------------------------------------------------------------------
THEOREM InitIInv == Init => QueueIInv
<1> SUFFICES ASSUME Init PROVE QueueIInv
  OBVIOUS
<1>1. TypeOK
  BY DEF Init, TypeOK, Places
<1>2. FifoOrder
  BY ConcatEmptySeq, EmptySeq DEF Init, FifoOrder
<1>3. Waiting = {}
  BY DEF Init, Waiting, At
<1> QED BY <1>1, <1>2, <1>3 DEF QueueIInv, Covered

LEMMA StepTypeOK == TypeOK /\ [Next]_vars => TypeOK'
<1> SUFFICES ASSUME TypeOK, [Next]_vars PROVE TypeOK'
  OBVIOUS
<1>0. peeks \in Nat
  BY DEF TypeOK
<1> USE DEF Places
<1>1. CASE UNCHANGED vars
  BY <1>1 DEF vars, TypeOK
<1>2. ASSUME NEW t \in Threads, push(t) PROVE TypeOK'
  <2>1. PICK item \in Items : queue_' = Append(queue_, item) /\ pushed' = Append(pushed, item)
    BY <1>2 DEF push
  <2>2. queue_' \in Seq(Items) /\ pushed' \in Seq(Items)
    BY <2>1, AppendProperties DEF TypeOK
  <2> QED BY <1>2, <2>2 DEF push, TypeOK
<1>3. ASSUME queue_ # << >>, TakeFront PROVE queue_' \in Seq(Items) /\ popped' \in Seq(Items)
  BY <1>3, AppendProperties, HeadTailProperties DEF TakeFront, TypeOK
<1>4. ASSUME NEW t \in Threads, try_pop(t) PROVE TypeOK'
  BY <1>3, <1>4 DEF try_pop, TypeOK
<1>5. ASSUME NEW t \in Threads, NEW op \in {"pop", "peek"}, Call(t, op) PROVE TypeOK'
  BY <1>5 DEF Call, TypeOK
<1>6. ASSUME NEW t \in Threads, notify_one(t) PROVE TypeOK'
  BY <1>6 DEF notify_one, Woken, Waiting, At, TypeOK
<1>7. ASSUME NEW t \in Threads, pop(t) PROVE TypeOK'
  BY <1>3, <1>7 DEF pop, TypeOK
<1>8. ASSUME NEW t \in Threads, peek(t) PROVE TypeOK'
  <2>1. peeks' = peeks \/ peeks' = peeks + 1
    BY <1>8 DEF peek
  <2>2. pc' \in [Threads -> Places]
    BY <1>8 DEF peek, TypeOK
  <2>3. peeks' \in Nat
    BY <1>0, <2>1
  <2> QED BY <1>8, <2>2, <2>3 DEF peek, TypeOK
<1>9. ASSUME NEW t \in Threads, SpuriousWakeUp(t) PROVE TypeOK'
  BY <1>9 DEF SpuriousWakeUp, Woken, Waiting, At, TypeOK
<1> QED BY <1>1, <1>2, <1>4, <1>5, <1>6, <1>7, <1>8, <1>9 DEF Next, Continue

\* Appending at one end and taking at the other keep the order.
LEMMA TakeKeepsOrder ==
  TypeOK /\ FifoOrder /\ queue_ # << >> /\ TakeFront => popped' \o queue_' = pushed
<1> SUFFICES ASSUME TypeOK, FifoOrder, queue_ # << >>, TakeFront
             PROVE popped' \o queue_' = pushed
  OBVIOUS
<1>1. /\ Head(queue_) \in Items /\ Tail(queue_) \in Seq(Items)
      /\ queue_ = <<Head(queue_)>> \o Tail(queue_)
  BY HeadTailProperties, ConcatProperties DEF TypeOK
<1>2. popped' = popped \o <<Head(queue_)>>
  BY <1>1, AppendIsConcat DEF TakeFront, TypeOK
<1>3. <<Head(queue_)>> \in Seq(Items)
  BY <1>1
<1>4. popped' \o queue_' = popped \o (<<Head(queue_)>> \o Tail(queue_))
  BY <1>1, <1>2, <1>3, ConcatAssociative DEF TakeFront, TypeOK
<1> QED BY <1>1, <1>4 DEF FifoOrder

LEMMA StepFifoOrder == TypeOK /\ FifoOrder /\ [Next]_vars => FifoOrder'
<1> SUFFICES ASSUME TypeOK, FifoOrder, [Next]_vars PROVE FifoOrder'
  OBVIOUS
<1>1. CASE UNCHANGED vars
  BY <1>1 DEF vars, FifoOrder
<1>2. ASSUME NEW t \in Threads, push(t) PROVE FifoOrder'
  <2>1. PICK item \in Items : queue_' = Append(queue_, item) /\ pushed' = Append(pushed, item)
    BY <1>2 DEF push
  <2>2. queue_' = queue_ \o <<item>> /\ pushed' = pushed \o <<item>>
    BY <2>1, AppendIsConcat DEF TypeOK
  <2>3. <<item>> \in Seq(Items)
    OBVIOUS
  <2>4. popped \o (queue_ \o <<item>>) = (popped \o queue_) \o <<item>>
    BY <2>3, ConcatAssociative DEF TypeOK
  <2> QED BY <2>2, <2>4, <1>2 DEF push, FifoOrder
<1>3. ASSUME NEW t \in Threads, try_pop(t) PROVE FifoOrder'
  BY <1>3, TakeKeepsOrder DEF try_pop, FifoOrder
<1>4. ASSUME NEW t \in Threads, pop(t) PROVE FifoOrder'
  BY <1>4, TakeKeepsOrder DEF pop, FifoOrder
<1>5. ASSUME NEW t \in Threads,
             notify_one(t) \/ peek(t) \/ SpuriousWakeUp(t) \/ \E op \in {"pop", "peek"} : Call(t, op)
      PROVE FifoOrder'
  BY <1>5 DEF notify_one, peek, SpuriousWakeUp, Call, FifoOrder
<1> QED BY <1>1, <1>2, <1>3, <1>4, <1>5 DEF Next, Continue

LEMMA StepCovered == QueueIInv /\ [Next]_vars => Covered'
<1> SUFFICES ASSUME QueueIInv, [Next]_vars, Waiting' # {}
             PROVE Len(queue_)' <= Cardinality(Awake)' + peeks'
  BY DEF Covered
<1>t. TypeOK /\ TypeOK' /\ pc \in [Threads -> Places]
  BY StepTypeOK DEF QueueIInv, TypeOK
<1>a. /\ Awake = AwakeIn(pc) /\ Awake' = AwakeIn(pc')
      /\ Cardinality(Awake) \in Nat /\ Cardinality(Awake)' \in Nat
  <2>1. TypeOK' => (Awake = AwakeIn(pc))' /\ (Cardinality(Awake) \in Nat)'
    BY AwakeIsAwakeIn, PTL
  <2> QED BY <1>t, <2>1, AwakeIsAwakeIn DEF AwakeIn
<1>l. Len(queue_) \in Nat /\ Len(queue_') \in Nat /\ peeks \in Nat /\ peeks' \in Nat
  BY <1>t, LenProperties DEF TypeOK
<1>w. Waiting # {} => Len(queue_) <= Cardinality(Awake) + peeks
  BY DEF QueueIInv, Covered
<1> USE DEF Places
<1>1. CASE UNCHANGED vars
  BY <1>1, <1>w, <1>a DEF vars, Waiting, At
<1>2. ASSUME NEW t \in Threads, push(t) PROVE Len(queue_)' <= Cardinality(Awake)' + peeks'
  <2>1. Cardinality(Awake)' = Cardinality(Awake) + 1
    BY <1>2, <1>a, <1>t, Wakes DEF push
  <2>2. Len(queue_') = Len(queue_) + 1 /\ peeks' = peeks
    <3>1. PICK item \in Items : queue_' = Append(queue_, item)
      BY <1>2 DEF push
    <3>2. Len(queue_') = Len(queue_) + 1
      BY <3>1, <1>t, AppendProperties DEF TypeOK
    <3> QED BY <3>2, <1>2 DEF push
  <2>3. Waiting # {}
    BY <1>2, <1>t DEF push, Waiting, At
  <2> QED BY <2>1, <2>2, <2>3, <1>w, <1>l, <1>a
<1>3. ASSUME NEW t \in Threads, try_pop(t) PROVE Len(queue_)' <= Cardinality(Awake)' + peeks'
  <2>1. Len(queue_') = Len(queue_) - 1 /\ peeks' = peeks
    BY <1>3, <1>t, HeadTailProperties DEF try_pop, TakeFront, TypeOK
  <2>2. Waiting # {} /\ Awake' = Awake
    BY <1>3, <1>t DEF try_pop, Waiting, Awake, At
  <2> QED BY <2>1, <2>2, <1>w, <1>l, <1>a
<1>4. ASSUME NEW t \in Threads, NEW op \in {"pop", "peek"}, Call(t, op)
      PROVE Len(queue_)' <= Cardinality(Awake)' + peeks'
  <2>1. Cardinality(Awake)' = Cardinality(Awake) + 1
    BY <1>4, <1>a, <1>t, Wakes DEF Call
  <2>2. Waiting # {} /\ queue_' = queue_ /\ peeks' = peeks
    BY <1>4, <1>t DEF Call, Waiting, At
  <2> QED BY <2>1, <2>2, <1>w, <1>l, <1>a
<1>5. ASSUME NEW t \in Threads, notify_one(t) PROVE Len(queue_)' <= Cardinality(Awake)' + peeks'
  <2>1. CASE Waiting = {} /\ pc' = [pc EXCEPT ![t] = "idle"]
    BY <2>1, <1>t DEF Waiting, At
  <2>2. ASSUME NEW w \in Waiting, pc' = [pc EXCEPT ![t] = "idle", ![w] = Woken[pc[w]]]
        PROVE Len(queue_)' <= Cardinality(Awake)' + peeks'
    <3> DEFINE mid == [pc EXCEPT ![t] = "idle"]
    <3>1. /\ w \in Threads /\ pc[w] \in {"pop waits", "peek waits"} /\ pc[t] = "notify"
          /\ Woken[pc[w]] \in {"pop", "peek"}
      BY <1>5 DEF Waiting, At, Woken, notify_one
    <3>2. mid \in [Threads -> Places] /\ mid[w] = pc[w] /\ pc' = [mid EXCEPT ![w] = Woken[pc[w]]]
      BY <3>1, <2>2, <1>t
    <3>3. Cardinality(AwakeIn(mid)) = Cardinality(AwakeIn(pc)) - 1
      BY <3>1, <1>t, Rests
    <3> HIDE DEF mid
    <3>4. Cardinality(AwakeIn(pc')) = Cardinality(AwakeIn(mid)) + 1
      BY <3>1, <3>2, Wakes
    <3>5. Cardinality(Awake)' = Cardinality(Awake)
      BY <3>3, <3>4, <1>a
    <3> QED BY <3>5, <2>2, <1>5, <1>w, <1>l, <1>a DEF notify_one
  <2> QED BY <1>5, <2>1, <2>2 DEF notify_one
<1>6. ASSUME NEW t \in Threads, pop(t) PROVE Len(queue_)' <= Cardinality(Awake)' + peeks'
  <2>1. CASE queue_ # << >> /\ TakeFront /\ pc' = [pc EXCEPT ![t] = "idle"]
    <3>1. Cardinality(Awake)' = Cardinality(Awake) - 1
      BY <2>1, <1>6, <1>a, <1>t, Rests DEF pop
    <3>2. Len(queue_') = Len(queue_) - 1 /\ peeks' = peeks
      BY <2>1, <1>6, <1>t, HeadTailProperties DEF pop, TakeFront, TypeOK
    <3>3. Waiting # {}
      BY <2>1, <1>t DEF Waiting, At
    <3> QED BY <3>1, <3>2, <3>3, <1>w, <1>l, <1>a
  <2>2. CASE queue_ = << >> /\ queue_' = queue_
    BY <2>2, <1>l, <1>a
  <2> QED BY <1>6, <2>1, <2>2 DEF pop
<1>7. ASSUME NEW t \in Threads, peek(t) PROVE Len(queue_)' <= Cardinality(Awake)' + peeks'
  <2>1. CASE queue_ # << >> /\ peeks' = peeks + 1 /\ pc' = [pc EXCEPT ![t] = "idle"]
    <3>1. Cardinality(Awake)' = Cardinality(Awake) - 1
      BY <2>1, <1>7, <1>a, <1>t, Rests DEF peek
    <3>2. Waiting # {} /\ queue_' = queue_
      BY <2>1, <1>7, <1>t DEF peek, Waiting, At
    <3> QED BY <2>1, <3>1, <3>2, <1>w, <1>l, <1>a
  <2>2. CASE queue_ = << >> /\ queue_' = queue_
    BY <2>2, <1>l, <1>a
  <2> QED BY <1>7, <2>1, <2>2 DEF peek
<1>8. ASSUME NEW t \in Threads, SpuriousWakeUp(t) PROVE Len(queue_)' <= Cardinality(Awake)' + peeks'
  <2>1. pc[t] \in {"pop waits", "peek waits"} /\ Woken[pc[t]] \in {"pop", "peek"} /\ Waiting # {}
    BY <1>8 DEF SpuriousWakeUp, Waiting, At, Woken
  <2>2. Cardinality(Awake)' = Cardinality(Awake) + 1
    BY <2>1, <1>8, <1>a, <1>t, Wakes DEF SpuriousWakeUp
  <2>3. Len(queue_)' = Len(queue_) /\ peeks' = peeks
    BY <1>8 DEF SpuriousWakeUp
  <2>4. Len(queue_) <= Cardinality(Awake) + peeks
    BY <2>1, <1>w
  <2> QED BY <2>2, <2>3, <2>4, <1>l, <1>a
<1> QED BY <1>1, <1>2, <1>3, <1>4, <1>5, <1>6, <1>7, <1>8 DEF Next, Continue

(* The inductive invariant of the queue holds for all threads and calls.   *)
THEOREM Invariance == Spec => []QueueIInv
<1>1. QueueIInv /\ [Next]_vars => QueueIInv'
  BY StepTypeOK, StepFifoOrder, StepCovered DEF QueueIInv
<1> QED BY InitIInv, <1>1, PTL DEF Spec

(* TypeOK: each thread is at one of the places, the queue holds items.     *)
THEOREM TypeSafe == Spec => []TypeOK
<1>1. QueueIInv => TypeOK
  BY DEF QueueIInv
<1> QED BY <1>1, Invariance, PTL

(* NoLostWakeUp: no thread waits beside an item with nobody on the way.    *)
THEOREM NoLostWakeUpSafe == Spec => []NoLostWakeUp
<1>1. QueueIInv => NoLostWakeUp
  <2> SUFFICES ASSUME QueueIInv, Waiting # {}, queue_ # << >>, peeks = 0, Awake = {}
               PROVE FALSE
    BY DEF NoLostWakeUp
  <2>1. Len(queue_) \in Nat /\ Len(queue_) # 0
    BY LenProperties, EmptySeq DEF QueueIInv, TypeOK
  <2>2. Cardinality(Awake) = 0
    BY FS_EmptySet
  <2> QED BY <2>1, <2>2 DEF QueueIInv, Covered
<1> QED BY <1>1, Invariance, PTL

(* FifoSafety: for its users the queue is a FIFO queue, whichever calls    *)
(* they mix; a thread inside pop, waiting or not, is one that asks.        *)
THEOREM ImplementsFifoQueue == Spec => FifoSafety
<1>1. Init => Fifo!Init
  BY DEF Init, Fifo!Init, At
<1>2. TypeOK /\ [Next]_vars => [Fifo!Next]_(Fifo!fifoVars)
  <2> SUFFICES ASSUME TypeOK, [Next]_vars PROVE [Fifo!Next]_(Fifo!fifoVars)
    OBVIOUS
  <2> DEFINE asking == At("pop") \cup At("pop waits")
  <2>p. pc \in [Threads -> Places]
    BY DEF TypeOK
  <2>1. CASE UNCHANGED vars
    BY <2>1 DEF vars, Fifo!fifoVars, At
  <2>2. ASSUME NEW t \in Threads, push(t) PROVE Fifo!Put
    BY <2>2, <2>p DEF push, Fifo!Put, At, Places
  <2>3. ASSUME NEW t \in Threads, try_pop(t) PROVE Fifo!TryTake
    BY <2>3 DEF try_pop, TakeFront, Fifo!TryTake, At
  <2>4. ASSUME NEW t \in Threads, Call(t, "pop") PROVE Fifo!Ask(t)
    BY <2>4, <2>p DEF Call, Fifo!Ask, At, Places
  <2>5. ASSUME NEW t \in Threads, Call(t, "peek") PROVE UNCHANGED Fifo!fifoVars
    BY <2>5, <2>p DEF Call, Fifo!fifoVars, At, Places
  <2>6. ASSUME NEW t \in Threads, notify_one(t) PROVE UNCHANGED Fifo!fifoVars
    BY <2>6, <2>p DEF notify_one, Waiting, Woken, Fifo!fifoVars, At, Places
  <2>7. ASSUME NEW t \in Threads, pop(t) PROVE Fifo!Take(t) \/ UNCHANGED Fifo!fifoVars
    BY <2>7, <2>p DEF pop, TakeFront, Fifo!Take, Fifo!fifoVars, At, Places
  <2>8. ASSUME NEW t \in Threads, peek(t) PROVE UNCHANGED Fifo!fifoVars
    BY <2>8, <2>p DEF peek, Fifo!fifoVars, At, Places
  <2>9. ASSUME NEW t \in Threads, SpuriousWakeUp(t) PROVE UNCHANGED Fifo!fifoVars
    BY <2>9, <2>p DEF SpuriousWakeUp, Waiting, Woken, Fifo!fifoVars, At, Places
  <2> QED BY <2>1, <2>2, <2>3, <2>4, <2>5, <2>6, <2>7, <2>8, <2>9
          DEF Next, Continue, Fifo!Next
<1> QED BY <1>1, <1>2, TypeSafe, PTL DEF Spec, FifoSafety, Fifo!Safety

-----------------------------------------------------------------------------
THEOREM InitMemIInv == MemInit => MemIInv
  BY ZeroIsContent, GarbageIsNone, CpuOnlyBool
  DEF MemInit, MemIInv, MemTypeOK, Coherent, FreedOnce, Owned, CopyIsSynced

\* Every call leaves the variables in their sets.
LEMMA StepMemTypeOK == MemIInv /\ [MemNext]_memVars => MemTypeOK'
<1> SUFFICES ASSUME MemIInv, [MemNext]_memVars PROVE MemTypeOK'
  OBVIOUS
<1> USE ZeroIsContent, GarbageIsNone DEF MemIInv, MemTypeOK, Coherent, CopyIsSynced, Ready
<1>0. CASE UNCHANGED memVars
  BY <1>0 DEF memVars, flags, blocks
<1>1. ASSUME SetMode PROVE MemTypeOK'
  BY <1>1 DEF SetMode, flags, blocks
<1>2. ASSUME cpu_data PROVE MemTypeOK'
  <2> USE <1>2 DEF cpu_data, to_cpu, HeadOnCpu, MallocHost, SameHost, SameDevice, flags, blocks
  <2>1. mode' \in {"CPU", "GPU"}
    OBVIOUS
  <2>2. head_' \in {"UNINITIALIZED", "HEAD_AT_CPU", "HEAD_AT_GPU", "SYNCED"}
    OBVIOUS
  <2>3. cpu_ptr_' \in {"null", "own", "user"} /\ gpu_ptr_' \in {"null", "own", "user"}
    OBVIOUS
  <2>4. own_cpu_data_' \in BOOLEAN
    OBVIOUS
  <2>5. own_gpu_data_' \in BOOLEAN
    OBVIOUS
  <2>6. cpu_malloc_use_cuda_' \in BOOLEAN
    OBVIOUS
  <2>7. cpu' \in Contents \cup {Garbage} /\ gpu' \in Contents \cup {Garbage}
    OBVIOUS
  <2>8. copying' \in BOOLEAN /\ life' \in {"alive", "deleted", "aborted"}
    OBVIOUS
  <2>9. host' \in {"none", "malloc", "cuda", "freed"} /\ device' \in {"none", "cuda", "freed"}
    OBVIOUS
  <2>10. misfreed' \in BOOLEAN /\ seen' \in Contents
    OBVIOUS
  <2> QED BY <2>1, <2>2, <2>3, <2>4, <2>5, <2>6, <2>7, <2>8, <2>9, <2>10
<1>3. ASSUME gpu_data PROVE MemTypeOK'
  <2> USE <1>3 DEF gpu_data, to_gpu, HeadOnGpu, MallocDevice, SameHost, SameDevice, flags, blocks
  <2>1. mode' \in {"CPU", "GPU"}
    OBVIOUS
  <2>2. head_' \in {"UNINITIALIZED", "HEAD_AT_CPU", "HEAD_AT_GPU", "SYNCED"}
    OBVIOUS
  <2>3. cpu_ptr_' \in {"null", "own", "user"} /\ gpu_ptr_' \in {"null", "own", "user"}
    OBVIOUS
  <2>4. own_cpu_data_' \in BOOLEAN
    OBVIOUS
  <2>5. own_gpu_data_' \in BOOLEAN
    OBVIOUS
  <2>6. cpu_malloc_use_cuda_' \in BOOLEAN
    OBVIOUS
  <2>7. cpu' \in Contents \cup {Garbage} /\ gpu' \in Contents \cup {Garbage}
    OBVIOUS
  <2>8. copying' \in BOOLEAN /\ life' \in {"alive", "deleted", "aborted"}
    OBVIOUS
  <2>9. host' \in {"none", "malloc", "cuda", "freed"} /\ device' \in {"none", "cuda", "freed"}
    OBVIOUS
  <2>10. misfreed' \in BOOLEAN /\ seen' \in Contents
    OBVIOUS
  <2> QED BY <2>1, <2>2, <2>3, <2>4, <2>5, <2>6, <2>7, <2>8, <2>9, <2>10
<1>4. ASSUME mutable_cpu_data PROVE MemTypeOK'
  <2> USE <1>4 DEF mutable_cpu_data, to_cpu, MallocHost, SameHost, SameDevice, flags, blocks
  <2>1. mode' \in {"CPU", "GPU"}
    OBVIOUS
  <2>2. head_' \in {"UNINITIALIZED", "HEAD_AT_CPU", "HEAD_AT_GPU", "SYNCED"}
    OBVIOUS
  <2>3. cpu_ptr_' \in {"null", "own", "user"} /\ gpu_ptr_' \in {"null", "own", "user"}
    OBVIOUS
  <2>4. own_cpu_data_' \in BOOLEAN
    OBVIOUS
  <2>5. own_gpu_data_' \in BOOLEAN
    OBVIOUS
  <2>6. cpu_malloc_use_cuda_' \in BOOLEAN
    OBVIOUS
  <2>7. cpu' \in Contents \cup {Garbage} /\ gpu' \in Contents \cup {Garbage}
    OBVIOUS
  <2>8. copying' \in BOOLEAN /\ life' \in {"alive", "deleted", "aborted"}
    OBVIOUS
  <2>9. host' \in {"none", "malloc", "cuda", "freed"} /\ device' \in {"none", "cuda", "freed"}
    OBVIOUS
  <2>10. misfreed' \in BOOLEAN /\ seen' \in Contents
    OBVIOUS
  <2> QED BY <2>1, <2>2, <2>3, <2>4, <2>5, <2>6, <2>7, <2>8, <2>9, <2>10
<1>5. ASSUME mutable_gpu_data PROVE MemTypeOK'
  <2> USE <1>5 DEF mutable_gpu_data, to_gpu, MallocDevice, SameHost, SameDevice, flags, blocks
  <2>1. mode' \in {"CPU", "GPU"}
    OBVIOUS
  <2>2. head_' \in {"UNINITIALIZED", "HEAD_AT_CPU", "HEAD_AT_GPU", "SYNCED"}
    OBVIOUS
  <2>3. cpu_ptr_' \in {"null", "own", "user"} /\ gpu_ptr_' \in {"null", "own", "user"}
    OBVIOUS
  <2>4. own_cpu_data_' \in BOOLEAN
    OBVIOUS
  <2>5. own_gpu_data_' \in BOOLEAN
    OBVIOUS
  <2>6. cpu_malloc_use_cuda_' \in BOOLEAN
    OBVIOUS
  <2>7. cpu' \in Contents \cup {Garbage} /\ gpu' \in Contents \cup {Garbage}
    OBVIOUS
  <2>8. copying' \in BOOLEAN /\ life' \in {"alive", "deleted", "aborted"}
    OBVIOUS
  <2>9. host' \in {"none", "malloc", "cuda", "freed"} /\ device' \in {"none", "cuda", "freed"}
    OBVIOUS
  <2>10. misfreed' \in BOOLEAN /\ seen' \in Contents
    OBVIOUS
  <2> QED BY <2>1, <2>2, <2>3, <2>4, <2>5, <2>6, <2>7, <2>8, <2>9, <2>10
<1>6. ASSUME NEW c \in Contents, WriteCpu(c) PROVE MemTypeOK'
  BY <1>6 DEF WriteCpu, flags, blocks
<1>7. ASSUME NEW c \in Contents, WriteGpu(c) PROVE MemTypeOK'
  BY <1>7 DEF WriteGpu, flags, blocks
<1>8. ASSUME NEW c \in Contents, set_cpu_data(c) PROVE MemTypeOK'
  BY <1>8 DEF set_cpu_data, FreeHost, flags, blocks
<1>9. ASSUME NEW c \in Contents, set_gpu_data(c) PROVE MemTypeOK'
  BY <1>9 DEF set_gpu_data, FreeDevice, flags, blocks
<1>10. ASSUME async_gpu_push PROVE MemTypeOK'
  <2> USE <1>10 DEF async_gpu_push, MallocDevice, SameDevice, flags, blocks
  <2>1. mode' \in {"CPU", "GPU"}
    OBVIOUS
  <2>2. head_' \in {"UNINITIALIZED", "HEAD_AT_CPU", "HEAD_AT_GPU", "SYNCED"}
    OBVIOUS
  <2>3. cpu_ptr_' \in {"null", "own", "user"} /\ gpu_ptr_' \in {"null", "own", "user"}
    OBVIOUS
  <2>4. own_cpu_data_' \in BOOLEAN
    OBVIOUS
  <2>5. own_gpu_data_' \in BOOLEAN
    OBVIOUS
  <2>6. cpu_malloc_use_cuda_' \in BOOLEAN
    OBVIOUS
  <2>7. cpu' \in Contents \cup {Garbage} /\ gpu' \in Contents \cup {Garbage}
    OBVIOUS
  <2>8. copying' \in BOOLEAN /\ life' \in {"alive", "deleted", "aborted"}
    OBVIOUS
  <2>9. host' \in {"none", "malloc", "cuda", "freed"} /\ device' \in {"none", "cuda", "freed"}
    OBVIOUS
  <2>10. misfreed' \in BOOLEAN /\ seen' \in Contents
    OBVIOUS
  <2> QED BY <2>1, <2>2, <2>3, <2>4, <2>5, <2>6, <2>7, <2>8, <2>9, <2>10
<1>11. ASSUME Copied PROVE MemTypeOK'
  BY <1>11 DEF Copied, flags, blocks
<1>12. ASSUME Abort PROVE MemTypeOK'
  BY <1>12 DEF Abort, flags, blocks
<1>13. ASSUME Delete PROVE MemTypeOK'
  BY <1>13 DEF Delete, flags, blocks
<1> QED BY <1>0, <1>1, <1>2, <1>3, <1>4, <1>5, <1>6, <1>7, <1>8, <1>9, <1>10, <1>11, <1>12, <1>13 DEF MemNext

\* Every call leaves the sides in agreement with the head.
LEMMA StepCoherent == MemIInv /\ [MemNext]_memVars => Coherent'
<1> SUFFICES ASSUME MemIInv, [MemNext]_memVars PROVE Coherent'
  OBVIOUS
<1> USE ZeroIsContent, GarbageIsNone DEF MemIInv, MemTypeOK, Coherent, CopyIsSynced, Ready
<1>0. CASE UNCHANGED memVars
  BY <1>0 DEF memVars, flags, blocks
<1>1. ASSUME SetMode PROVE Coherent'
  BY <1>1 DEF SetMode, flags, blocks
<1>2. ASSUME cpu_data PROVE Coherent'
  BY <1>2 DEF cpu_data, to_cpu, HeadOnCpu, MallocHost, SameHost, SameDevice, flags, blocks
<1>3. ASSUME gpu_data PROVE Coherent'
  BY <1>3 DEF gpu_data, to_gpu, HeadOnGpu, MallocDevice, SameHost, SameDevice, flags, blocks
<1>4. ASSUME mutable_cpu_data PROVE Coherent'
  BY <1>4 DEF mutable_cpu_data, to_cpu, MallocHost, SameHost, SameDevice, flags, blocks
<1>5. ASSUME mutable_gpu_data PROVE Coherent'
  BY <1>5 DEF mutable_gpu_data, to_gpu, MallocDevice, SameHost, SameDevice, flags, blocks
<1>6. ASSUME NEW c \in Contents, WriteCpu(c) PROVE Coherent'
  BY <1>6 DEF WriteCpu, flags, blocks
<1>7. ASSUME NEW c \in Contents, WriteGpu(c) PROVE Coherent'
  BY <1>7 DEF WriteGpu, flags, blocks
<1>8. ASSUME NEW c \in Contents, set_cpu_data(c) PROVE Coherent'
  BY <1>8 DEF set_cpu_data, FreeHost, flags, blocks
<1>9. ASSUME NEW c \in Contents, set_gpu_data(c) PROVE Coherent'
  BY <1>9 DEF set_gpu_data, FreeDevice, flags, blocks
<1>10. ASSUME async_gpu_push PROVE Coherent'
  BY <1>10 DEF async_gpu_push, MallocDevice, SameDevice, flags, blocks
<1>11. ASSUME Copied PROVE Coherent'
  BY <1>11 DEF Copied, flags, blocks
<1>12. ASSUME Abort PROVE Coherent'
  BY <1>12 DEF Abort, flags, blocks
<1>13. ASSUME Delete PROVE Coherent'
  BY <1>13 DEF Delete, flags, blocks
<1> QED BY <1>0, <1>1, <1>2, <1>3, <1>4, <1>5, <1>6, <1>7, <1>8, <1>9, <1>10, <1>11, <1>12, <1>13 DEF MemNext

\* No call frees a block twice, wrongly or not at all.
LEMMA StepFreedOnce == MemIInv /\ [MemNext]_memVars => FreedOnce'
<1> SUFFICES ASSUME MemIInv, [MemNext]_memVars PROVE FreedOnce'
  OBVIOUS
<1> USE ZeroIsContent, GarbageIsNone DEF MemIInv, MemTypeOK, Coherent, FreedOnce, Owned, CopyIsSynced, Ready
<1>0. CASE UNCHANGED memVars
  BY <1>0 DEF memVars, flags, blocks
<1>1. ASSUME SetMode PROVE FreedOnce'
  BY <1>1 DEF SetMode, flags, blocks
<1>2. ASSUME cpu_data PROVE FreedOnce'
  BY <1>2 DEF cpu_data, to_cpu, HeadOnCpu, MallocHost, SameHost, SameDevice, flags, blocks
<1>3. ASSUME gpu_data PROVE FreedOnce'
  BY <1>3 DEF gpu_data, to_gpu, HeadOnGpu, MallocDevice, SameHost, SameDevice, flags, blocks
<1>4. ASSUME mutable_cpu_data PROVE FreedOnce'
  BY <1>4 DEF mutable_cpu_data, to_cpu, MallocHost, SameHost, SameDevice, flags, blocks
<1>5. ASSUME mutable_gpu_data PROVE FreedOnce'
  BY <1>5 DEF mutable_gpu_data, to_gpu, MallocDevice, SameHost, SameDevice, flags, blocks
<1>6. ASSUME NEW c \in Contents, WriteCpu(c) PROVE FreedOnce'
  BY <1>6 DEF WriteCpu, flags, blocks
<1>7. ASSUME NEW c \in Contents, WriteGpu(c) PROVE FreedOnce'
  BY <1>7 DEF WriteGpu, flags, blocks
<1>8. ASSUME NEW c \in Contents, set_cpu_data(c) PROVE FreedOnce'
  BY <1>8 DEF set_cpu_data, FreeHost, flags, blocks
<1>9. ASSUME NEW c \in Contents, set_gpu_data(c) PROVE FreedOnce'
  BY <1>9 DEF set_gpu_data, FreeDevice, flags, blocks
<1>10. ASSUME async_gpu_push PROVE FreedOnce'
  BY <1>10 DEF async_gpu_push, MallocDevice, SameDevice, flags, blocks
<1>11. ASSUME Copied PROVE FreedOnce'
  BY <1>11 DEF Copied, flags, blocks
<1>12. ASSUME Abort PROVE FreedOnce'
  BY <1>12 DEF Abort, flags, blocks
<1>13. ASSUME Delete PROVE FreedOnce'
  BY <1>13 DEF Delete, flags, blocks
<1> QED BY <1>0, <1>1, <1>2, <1>3, <1>4, <1>5, <1>6, <1>7, <1>8, <1>9, <1>10, <1>11, <1>12, <1>13 DEF MemNext

\* Every call keeps the flags true.
LEMMA StepOwned == MemIInv /\ [MemNext]_memVars => Owned'
<1> SUFFICES ASSUME MemIInv, [MemNext]_memVars PROVE Owned'
  OBVIOUS
<1> USE ZeroIsContent, GarbageIsNone DEF MemIInv, MemTypeOK, Coherent, FreedOnce, Owned, CopyIsSynced, Ready
<1>0. CASE UNCHANGED memVars
  BY <1>0 DEF memVars, flags, blocks
<1>1. ASSUME SetMode PROVE Owned'
  BY <1>1 DEF SetMode, flags, blocks
<1>2. ASSUME cpu_data PROVE Owned'
  BY <1>2 DEF cpu_data, to_cpu, HeadOnCpu, MallocHost, SameHost, SameDevice, flags, blocks
<1>3. ASSUME gpu_data PROVE Owned'
  BY <1>3 DEF gpu_data, to_gpu, HeadOnGpu, MallocDevice, SameHost, SameDevice, flags, blocks
<1>4. ASSUME mutable_cpu_data PROVE Owned'
  BY <1>4 DEF mutable_cpu_data, to_cpu, MallocHost, SameHost, SameDevice, flags, blocks
<1>5. ASSUME mutable_gpu_data PROVE Owned'
  BY <1>5 DEF mutable_gpu_data, to_gpu, MallocDevice, SameHost, SameDevice, flags, blocks
<1>6. ASSUME NEW c \in Contents, WriteCpu(c) PROVE Owned'
  BY <1>6 DEF WriteCpu, flags, blocks
<1>7. ASSUME NEW c \in Contents, WriteGpu(c) PROVE Owned'
  BY <1>7 DEF WriteGpu, flags, blocks
<1>8. ASSUME NEW c \in Contents, set_cpu_data(c) PROVE Owned'
  BY <1>8 DEF set_cpu_data, FreeHost, flags, blocks
<1>9. ASSUME NEW c \in Contents, set_gpu_data(c) PROVE Owned'
  BY <1>9 DEF set_gpu_data, FreeDevice, flags, blocks
<1>10. ASSUME async_gpu_push PROVE Owned'
  BY <1>10 DEF async_gpu_push, MallocDevice, SameDevice, flags, blocks
<1>11. ASSUME Copied PROVE Owned'
  BY <1>11 DEF Copied, flags, blocks
<1>12. ASSUME Abort PROVE Owned'
  BY <1>12 DEF Abort, flags, blocks
<1>13. ASSUME Delete PROVE Owned'
  BY <1>13 DEF Delete, flags, blocks
<1> QED BY <1>0, <1>1, <1>2, <1>3, <1>4, <1>5, <1>6, <1>7, <1>8, <1>9, <1>10, <1>11, <1>12, <1>13 DEF MemNext

\* A copy is only ever under way in a synchronized memory.
LEMMA StepCopyIsSynced == MemIInv /\ [MemNext]_memVars => CopyIsSynced'
<1> SUFFICES ASSUME MemIInv, [MemNext]_memVars PROVE CopyIsSynced'
  OBVIOUS
<1> USE ZeroIsContent, GarbageIsNone DEF MemIInv, MemTypeOK, CopyIsSynced, Ready
<1>0. CASE UNCHANGED memVars
  BY <1>0 DEF memVars, flags, blocks
<1>1. ASSUME SetMode PROVE CopyIsSynced'
  BY <1>1 DEF SetMode, flags, blocks
<1>2. ASSUME cpu_data PROVE CopyIsSynced'
  BY <1>2 DEF cpu_data, to_cpu, HeadOnCpu, MallocHost, SameHost, SameDevice, flags, blocks
<1>3. ASSUME gpu_data PROVE CopyIsSynced'
  BY <1>3 DEF gpu_data, to_gpu, HeadOnGpu, MallocDevice, SameHost, SameDevice, flags, blocks
<1>4. ASSUME mutable_cpu_data PROVE CopyIsSynced'
  BY <1>4 DEF mutable_cpu_data, to_cpu, MallocHost, SameHost, SameDevice, flags, blocks
<1>5. ASSUME mutable_gpu_data PROVE CopyIsSynced'
  BY <1>5 DEF mutable_gpu_data, to_gpu, MallocDevice, SameHost, SameDevice, flags, blocks
<1>6. ASSUME NEW c \in Contents, WriteCpu(c) PROVE CopyIsSynced'
  BY <1>6 DEF WriteCpu, flags, blocks
<1>7. ASSUME NEW c \in Contents, WriteGpu(c) PROVE CopyIsSynced'
  BY <1>7 DEF WriteGpu, flags, blocks
<1>8. ASSUME NEW c \in Contents, set_cpu_data(c) PROVE CopyIsSynced'
  BY <1>8 DEF set_cpu_data, FreeHost, flags, blocks
<1>9. ASSUME NEW c \in Contents, set_gpu_data(c) PROVE CopyIsSynced'
  BY <1>9 DEF set_gpu_data, FreeDevice, flags, blocks
<1>10. ASSUME async_gpu_push PROVE CopyIsSynced'
  BY <1>10 DEF async_gpu_push, MallocDevice, SameDevice, flags, blocks
<1>11. ASSUME Copied PROVE CopyIsSynced'
  BY <1>11 DEF Copied, flags, blocks
<1>12. ASSUME Abort PROVE CopyIsSynced'
  BY <1>12 DEF Abort, flags, blocks
<1>13. ASSUME Delete PROVE CopyIsSynced'
  BY <1>13 DEF Delete, flags, blocks
<1> QED BY <1>0, <1>1, <1>2, <1>3, <1>4, <1>5, <1>6, <1>7, <1>8, <1>9, <1>10, <1>11, <1>12, <1>13 DEF MemNext

-----------------------------------------------------------------------------
(* The inductive invariant of a memory holds in every build and mode.      *)
THEOREM MemInvariance == MemSpec => []MemIInv
<1>1. MemIInv /\ [MemNext]_memVars => MemIInv'
  BY StepMemTypeOK, StepCoherent, StepFreedOnce, StepOwned, StepCopyIsSynced DEF MemIInv
<1> QED BY InitMemIInv, <1>1, PTL DEF MemSpec

(* MemTypeOK: the head, the pointers and the flags take only their values. *)
THEOREM MemTypeSafe == MemSpec => []MemTypeOK
<1>1. MemIInv => MemTypeOK
  BY DEF MemIInv
<1> QED BY <1>1, MemInvariance, PTL

(* Coherent: the side or sides the head names hold the same written data.  *)
THEOREM CoherentSafe == MemSpec => []Coherent
<1>1. MemIInv => Coherent
  BY DEF MemIInv
<1> QED BY <1>1, MemInvariance, PTL

(* FreedOnce: allocations are freed once and rightly, the user's never.    *)
THEOREM FreedOnceSafe == MemSpec => []FreedOnce
<1>1. MemIInv => FreedOnce
  BY DEF MemIInv
<1> QED BY <1>1, MemInvariance, PTL

(* CellSpec: both sides together are one memory to readers and writers.    *)
THEOREM ImplementsCell == MemSpec => CellSpec
<1>1. MemInit => OneMemory!Init
  BY DEF MemInit, OneMemory!Init, Content
<1>2. MemIInv /\ MemIInv' /\ [MemNext]_memVars => [OneMemory!Next]_(OneMemory!cellVars)
  <2> SUFFICES ASSUME MemIInv, MemIInv', [MemNext]_memVars PROVE [OneMemory!Next]_(OneMemory!cellVars)
    OBVIOUS
  <2> USE DEF MemIInv, MemTypeOK, Coherent, CopyIsSynced, Ready
  <2>0. CASE UNCHANGED memVars
    BY <2>0 DEF memVars, flags, blocks, Content, OneMemory!cellVars
  <2>1. ASSUME SetMode PROVE UNCHANGED OneMemory!cellVars
    BY <2>1 DEF SetMode, flags, blocks, Content, OneMemory!cellVars
  <2>2. ASSUME cpu_data PROVE OneMemory!Read
    BY <2>2 DEF cpu_data, to_cpu, HeadOnCpu, MallocHost, SameHost, SameDevice, flags, blocks, Content, OneMemory!Read
  <2>3. ASSUME gpu_data PROVE OneMemory!Read
    BY <2>3 DEF gpu_data, to_gpu, HeadOnGpu, MallocDevice, SameHost, SameDevice, flags, blocks, Content, OneMemory!Read
  <2>4. ASSUME mutable_cpu_data PROVE UNCHANGED OneMemory!cellVars
    BY <2>4 DEF mutable_cpu_data, to_cpu, MallocHost, SameHost, SameDevice, flags, blocks, Content, OneMemory!cellVars
  <2>5. ASSUME mutable_gpu_data PROVE UNCHANGED OneMemory!cellVars
    BY <2>5 DEF mutable_gpu_data, to_gpu, MallocDevice, SameHost, SameDevice, flags, blocks, Content, OneMemory!cellVars
  <2>6. ASSUME NEW c \in Contents, WriteCpu(c) PROVE OneMemory!Write(c)
    BY <2>6 DEF WriteCpu, flags, blocks, Content, OneMemory!Write
  <2>7. ASSUME NEW c \in Contents, WriteGpu(c) PROVE OneMemory!Write(c)
    BY <2>7 DEF WriteGpu, flags, blocks, Content, OneMemory!Write
  <2>8. ASSUME NEW c \in Contents, set_cpu_data(c) PROVE OneMemory!Write(c)
    BY <2>8 DEF set_cpu_data, FreeHost, flags, blocks, Content, OneMemory!Write
  <2>9. ASSUME NEW c \in Contents, set_gpu_data(c) PROVE OneMemory!Write(c)
    BY <2>9 DEF set_gpu_data, FreeDevice, flags, blocks, Content, OneMemory!Write
  <2>10. ASSUME async_gpu_push PROVE UNCHANGED OneMemory!cellVars
    BY <2>10 DEF async_gpu_push, MallocDevice, SameDevice, flags, blocks, Content, OneMemory!cellVars
  <2>11. ASSUME Copied PROVE UNCHANGED OneMemory!cellVars
    BY <2>11 DEF Copied, flags, blocks, Content, OneMemory!cellVars
  <2>12. ASSUME Abort PROVE UNCHANGED OneMemory!cellVars
    BY <2>12 DEF Abort, flags, blocks, Content, OneMemory!cellVars
  <2>13. ASSUME Delete PROVE UNCHANGED OneMemory!cellVars
    BY <2>13 DEF Delete, flags, blocks, Content, OneMemory!cellVars
  <2> QED BY <2>0, <2>1, <2>2, <2>3, <2>4, <2>5, <2>6, <2>7, <2>8, <2>9, <2>10, <2>11, <2>12, <2>13 DEF MemNext, OneMemory!Next
<1> QED BY <1>1, <1>2, MemInvariance, PTL DEF MemSpec, CellSpec, OneMemory!Spec
=============================================================================
