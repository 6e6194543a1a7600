------------------------ MODULE PrefetchingDataLayer ------------------------
(***************************************************************************)
(* The image layer that feeds the feature network                          *)
(* (caffe/src/caffe/layers/base_data_layer.cpp, image_data_layer.cpp,      *)
(* internal_thread.cpp, util/blocking_queue.cpp).  A worker thread fills   *)
(* Depth buffers from the list of images; the network's thread takes them  *)
(* in Forward.  The buffers circulate through two blocking queues:         *)
(* prefetch_free_ (free) and prefetch_full_ (full).                        *)
(*                                                                         *)
(* A queue operation holds the queue's mutex, so it is one step up to      *)
(* unlock; push notifies only after it has unlocked, a step of its own.    *)
(* A thread in condition_.wait is at "wait"; it leaves by a notification,  *)
(* spuriously, or (the worker) by being interrupted.                       *)
(*                                                                         *)
(* An image and its label are one line of the list, named by its number.   *)
(* A CHECK that fails aborts the whole process.                            *)
(***************************************************************************)
EXTENDS Integers, Sequences

CONSTANTS Depth,        \* prefetch_.size()
          N,            \* lines in the source file
          BatchSize,    \* image_data_param().batch_size()
          Shuffle,      \* image_data_param().shuffle()
          RandSkip,     \* image_data_param().rand_skip()
          Gpu,          \* Caffe::mode() == Caffe::GPU
          MaxForwards   \* bound on the calls of Forward

ASSUME DepthPositive     == Depth \in Nat \ {0}
ASSUME NPositive         == N \in Nat \ {0}
ASSUME BatchSizePositive == BatchSize \in Nat \ {0}
ASSUME SwitchesAreBool   == Shuffle \in BOOLEAN /\ Gpu \in BOOLEAN
ASSUME BoundsAreNat      == RandSkip \in Nat /\ MaxForwards \in Nat

Buffers == 1..Depth
Lines   == 1..N
Blank   == 0             \* an item of a buffer that was never loaded
Batches == [1..BatchSize -> Lines \cup {Blank}]
NoBatch == << >>
None    == 0             \* a null pointer to a batch

VARIABLES main,        \* where the network's thread is
          worker,      \* where the prefetching thread is
          interrupted, \* thread_->interruption_requested()
          aborted,     \* a CHECK failed: the process is gone
          free, full,  \* prefetch_free_, prefetch_full_
          current,     \* prefetch_current_
          batch,       \* the worker's local batch
          item,        \* load_batch's item_id
          host, dev,   \* the buffers' data_ on the CPU and on the GPU
          lines,       \* lines_
          lines_id,    \* lines_id_
          loaded,      \* history: every batch load_batch completed
          served       \* history: how many Forward has returned

mainVars == <<main, current, served>>
queues   == <<free, full>>
source   == <<lines, lines_id>>
data     == <<host, dev, batch, item, loaded>>
vars     == <<mainVars, worker, interrupted, aborted, queues, source, data>>

-----------------------------------------------------------------------------
(* Construction and set-up *)

Orders == {p \in [Lines -> Lines] : \A i, j \in Lines : i # j => p[i] # p[j]}

FileOrder == [i \in Lines |-> i]

Init == /\ main = "setup"
        /\ worker = "none"
        /\ interrupted = FALSE
        /\ aborted = FALSE
        /\ free = [b \in Buffers |-> b]
        /\ full = << >>
        /\ current = None
        /\ batch = None
        /\ item = 0
        /\ host = [b \in Buffers |-> [i \in 1..BatchSize |-> Blank]]
        /\ dev = host
        /\ lines = FileOrder
        /\ lines_id = 0
        /\ loaded = << >>
        /\ served = 0

Abort == aborted' = TRUE

\* ImageDataLayer::ShuffleImages: any permutation of the lines.
ShuffleImages == IF Shuffle THEN lines' \in Orders ELSE UNCHANGED lines

\* The random number of lines DataLayerSetUp skips.
Skips == IF RandSkip = 0 THEN {0} ELSE 0..(RandSkip - 1)

\* LayerSetUp: the list is shuffled, some lines are skipped, the first image
\* is read, and the thread starts; thread_ is assigned only afterwards.
LayerSetUp ==
  /\ main = "setup"
  /\ ShuffleImages
  /\ \E skip \in Skips :
       \/ /\ skip < N
          /\ lines_id' = skip
          /\ main' = "starting"
          /\ worker' = "test"
          /\ UNCHANGED aborted
       \/ /\ Abort                  \* too few lines, or an unreadable image
          /\ UNCHANGED <<main, worker, lines_id>>
  /\ UNCHANGED <<interrupted, queues, data, current, served>>

ThreadAssigned == /\ main = "starting"
                  /\ main' = "ready"
                  /\ UNCHANGED <<current, served, worker, interrupted, aborted,
                                 queues, source, data>>

-----------------------------------------------------------------------------
(* The worker: InternalThreadEntry *)

\* must_stop reads thread_, which may not be assigned yet.
MustStop == main # "starting" /\ interrupted

TestStop == /\ worker = "test"
            /\ worker' = IF MustStop THEN "done" ELSE "pop"
            /\ UNCHANGED <<mainVars, interrupted, aborted, queues, source, data>>

\* Mutant of PopFree: peek() where pop() is meant.
PopFreePeek ==
  /\ worker = "pop"
  /\ free # << >>
  /\ batch' = Head(free)
  /\ item' = 0
  /\ worker' = "load"
  /\ UNCHANGED <<mainVars, interrupted, aborted, queues, source, host, dev, loaded>>

\* prefetch_free_.pop(): an empty queue is waited on, and wait is an
\* interruption point.
PopFree ==
  /\ worker = "pop"
  /\ IF free # << >>
       THEN /\ batch' = Head(free)
            /\ free' = Tail(free)
            /\ item' = 0
            /\ worker' = "load"
       ELSE /\ worker' = IF interrupted THEN "done" ELSE "wait"
            /\ UNCHANGED <<batch, free, item>>
  /\ UNCHANGED <<mainVars, interrupted, aborted, full, source, host, dev, loaded>>

Interrupted == /\ worker = "wait"
               /\ interrupted
               /\ worker' = "done"
               /\ UNCHANGED <<mainVars, interrupted, aborted, queues, source, data>>

\* One turn of load_batch's loop over a list of size lines.
LoadItemOf(size) ==
  /\ worker = "load"
  /\ host' = [host EXCEPT ![batch][item + 1] = lines[lines_id + 1]]
  /\ item' = item + 1
  /\ IF lines_id + 1 >= size
       THEN lines_id' = 0 /\ ShuffleImages
       ELSE lines_id' = lines_id + 1 /\ UNCHANGED lines
  /\ IF item' < BatchSize
       THEN UNCHANGED <<worker, loaded>>
       ELSE /\ worker' = IF Gpu THEN "copy" ELSE "push"
            /\ loaded' = Append(loaded, host'[batch])
  /\ UNCHANGED <<mainVars, interrupted, aborted, queues, batch, dev>>

\* Mutant of LoadItem: the bound of the list is off by one.
LoadItemWrapsEarly == LoadItemOf(N - 1)

LoadItem == LoadItemOf(N)

\* CHECK(cv_img.data): the file cannot be read.
LoadFails == /\ worker = "load"
             /\ Abort
             /\ UNCHANGED <<mainVars, worker, interrupted, queues, source, data>>

\* Mutant of PushToGpu: the stream is not synchronised.
PushToGpuUnsynchronized ==
  /\ worker = "copy"
  /\ worker' = "push"
  /\ UNCHANGED <<mainVars, interrupted, aborted, queues, source, data>>

\* async_gpu_push and the synchronisation of its stream.
PushToGpu == /\ worker = "copy"
             /\ dev' = [dev EXCEPT ![batch] = host[batch]]
             /\ worker' = "push"
             /\ UNCHANGED <<mainVars, interrupted, aborted, queues, source,
                            host, batch, item, loaded>>

\* Mutant of PushFull: no notification follows.
PushFullSilently ==
  /\ worker = "push"
  /\ full' = Append(full, batch)
  /\ worker' = "test"
  /\ UNCHANGED <<mainVars, interrupted, aborted, free, source, data>>

PushFull == /\ worker = "push"
            /\ full' = Append(full, batch)
            /\ worker' = "notify"
            /\ UNCHANGED <<mainVars, interrupted, aborted, free, source, data>>

NotifyFull == /\ worker = "notify"
              /\ worker' = "test"
              /\ main' = IF main = "wait" THEN "pop" ELSE main
              /\ UNCHANGED <<current, served, interrupted, aborted, queues,
                             source, data>>

-----------------------------------------------------------------------------
(* The network's thread: Forward_cpu, Forward_gpu *)

\* Mutant of Forward: the batch of the previous call is not given back.
ForwardKeeps ==
  /\ main = "ready"
  /\ served < MaxForwards
  /\ main' = "pop"
  /\ UNCHANGED <<current, served, worker, interrupted, aborted, queues, source, data>>

\* Forward gives the batch of the previous call back first.
Forward ==
  /\ main = "ready"
  /\ served < MaxForwards
  /\ IF current # None
       THEN free' = Append(free, current) /\ main' = "notify"
       ELSE main' = "pop" /\ UNCHANGED free
  /\ UNCHANGED <<current, served, worker, interrupted, aborted, full, source, data>>

NotifyFree == /\ main = "notify"
              /\ main' = "pop"
              /\ worker' = IF worker = "wait" THEN "pop" ELSE worker
              /\ UNCHANGED <<current, served, interrupted, aborted, queues,
                             source, data>>

\* Mutant of PopFull: the newest batch first.
PopFullNewest ==
  /\ main = "pop"
  /\ full # << >>
  /\ current' = full[Len(full)]
  /\ full' = SubSeq(full, 1, Len(full) - 1)
  /\ served' = served + 1
  /\ main' = "ready"
  /\ UNCHANGED <<worker, interrupted, aborted, free, source, data>>

\* prefetch_full_.pop(), and top made to alias the batch.
PopFull ==
  /\ main = "pop"
  /\ IF full # << >>
       THEN /\ current' = Head(full)
            /\ full' = Tail(full)
            /\ served' = served + 1
            /\ main' = "ready"
       ELSE main' = "wait" /\ UNCHANGED <<current, full, served>>
  /\ UNCHANGED <<worker, interrupted, aborted, free, source, data>>

\* Mutant of StopInternalThread: join without interrupt.
StopWithoutInterrupt ==
  /\ main = "ready"
  /\ main' = "join"
  /\ UNCHANGED <<current, served, worker, interrupted, aborted, queues, source, data>>

\* ~ImageDataLayer: StopInternalThread interrupts the worker and joins it.
StopInternalThread == /\ main = "ready"
                      /\ interrupted' = TRUE
                      /\ main' = "join"
                      /\ UNCHANGED <<current, served, worker, aborted, queues,
                                     source, data>>

Join == /\ main = "join"
        /\ worker = "done"
        /\ main' = "gone"
        /\ UNCHANGED <<current, served, worker, interrupted, aborted, queues,
                       source, data>>

SpuriousWakeUp ==
  \/ /\ main = "wait" /\ main' = "pop"
     /\ UNCHANGED <<current, served, worker, interrupted, aborted, queues,
                    source, data>>
  \/ /\ worker = "wait" /\ worker' = "pop"
     /\ UNCHANGED <<mainVars, interrupted, aborted, queues, source, data>>

-----------------------------------------------------------------------------
WorkerStep == /\ ~aborted
              /\ \/ TestStop \/ PopFree \/ Interrupted \/ LoadItem \/ LoadFails
                 \/ PushToGpu \/ PushFull \/ NotifyFull

\* What the network's thread does by itself; when it calls Forward or
\* destroys the layer is the caller's choice.
MainStep == /\ ~aborted
            /\ LayerSetUp \/ ThreadAssigned \/ NotifyFree \/ PopFull \/ Join

CallerStep == ~aborted /\ (Forward \/ StopInternalThread)

WakeStep == ~aborted /\ SpuriousWakeUp

Next == WorkerStep \/ MainStep \/ CallerStep \/ WakeStep

Spec == Init /\ [][Next]_vars

\* The scheduler lets both threads run.
FairSpec == Spec /\ WF_vars(WorkerStep) /\ WF_vars(MainStep)

-----------------------------------------------------------------------------
(* Properties *)

Elements(q) == {q[i] : i \in DOMAIN q}

Distinct(q) == \A i, j \in DOMAIN q : i # j => q[i] # q[j]

\* The worker has a batch in its hands between pop and push.
WorkerHolds == worker \in {"load", "copy", "push"}

\* Forward has given the previous batch back and has no other yet.
Between == main \in {"notify", "pop", "wait"}

\* top aliases a batch that the network may be reading.
Viewing == current # None /\ ~Between

\* What the network reads: the alias is of the device's data in GPU mode.
Seen == IF Gpu THEN dev[current] ELSE host[current]

\* The values of the variables.
TypeOK ==
  /\ main \in {"setup", "starting", "ready", "notify", "pop", "wait", "join", "gone"}
  /\ worker \in {"none", "test", "pop", "wait", "load", "copy", "push", "notify", "done"}
  /\ interrupted \in BOOLEAN
  /\ aborted \in BOOLEAN
  /\ free \in Seq(Buffers) /\ full \in Seq(Buffers)
  /\ current \in Buffers \cup {None}
  /\ batch \in Buffers \cup {None}
  /\ item \in 0..BatchSize
  /\ host \in [Buffers -> Batches] /\ dev \in [Buffers -> Batches]
  /\ lines \in [Lines -> Lines]
  /\ lines_id \in 0..(N - 1)
  /\ loaded \in Seq(Batches)
  /\ served \in Nat

\* A batch is in one place only: waiting to be loaded, in the worker's hands,
\* waiting to be taken, or aliased by the network's input.  Forward pushes
\* prefetch_current_ back before it pops, and the worker drops its batch when
\* it pushes it (base_data_layer.cpp:88-98, 115-118).
OneOwner ==
  /\ Distinct(free)
  /\ Distinct(full)
  /\ Elements(free) \cap Elements(full) = {}
  /\ WorkerHolds => batch \notin Elements(free) \cup Elements(full)
  /\ Viewing => current \notin Elements(free) \cup Elements(full)
  /\ WorkerHolds /\ Viewing => batch # current

\* No batch is ever lost from the circulation.
NoBatchLost ==
  Buffers = Elements(free) \cup Elements(full)
              \cup (IF WorkerHolds THEN {batch} ELSE {})
              \cup (IF Viewing THEN {current} ELSE {})

\* The k-th Forward shows the network the k-th batch that was loaded, and
\* the batch stays whole for as long as the network may read it.
ServedInOrder == Viewing => /\ served \in 1..Len(loaded)
                            /\ Seen = loaded[served]

\* The items of the loaded batches, numbered from 1 across the batches.
Item(k) == loaded[1 + ((k - 1) \div BatchSize)][1 + ((k - 1) % BatchSize)]

\* A pass over the list serves no line twice, so every line once, across the
\* borders of batches and whatever the shuffle; without the shuffle it serves
\* them in the order of the file, which is how the caller knows whose feature
\* it reads.  The worker wraps around, and reshuffles, only when the list is
\* exhausted (image_data_layer.cpp:158-166).
EachPassComplete ==
  LET total  == Len(loaded) * BatchSize
      begun  == IF worker = "load" THEN item ELSE 0
      start  == total + begun - lines_id   \* items loaded before this pass
      Pass(k)  == (k - 1 - start) \div N
      Place(k) == (k - 1 - start) % N
  IN  \A k \in 1..total :
        /\ ~Shuffle => Item(k) = 1 + Place(k)
        /\ \A j \in 1..(k - 1) : Pass(j) = Pass(k) => Item(j) # Item(k)

\* A thread never sleeps on a queue that has a batch for it, unless the
\* notification is on its way: push unlocks before it notifies, pop checks
\* and waits under the mutex (blocking_queue.cpp:22-28, 43-57).
NoLostWakeUp ==
  /\ main = "wait" => full = << >> \/ worker = "notify"
  /\ worker = "wait" => free = << >> \/ main = "notify"

\* The bookkeeping behind these properties: which of the loaded batches is in
\* which buffer.  (Inductive with the properties above.)
Content(b) == IF Gpu THEN dev[b] ELSE host[b]

InHands == IF worker \in {"copy", "push"} THEN 1 ELSE 0

Bookkeeping ==
  /\ main = "setup" => worker = "none"
  /\ WorkerHolds => batch \in Buffers
  /\ worker = "load" => item < BatchSize
  /\ worker = "copy" => host[batch] = loaded[Len(loaded)]
  /\ worker = "push" => Content(batch) = loaded[Len(loaded)]
  /\ Len(loaded) = served + Len(full) + InHands
  /\ \A i \in DOMAIN full : Content(full[i]) = loaded[served + i]

IInv == /\ TypeOK /\ OneOwner /\ NoBatchLost /\ ServedInOrder
        /\ NoLostWakeUp /\ Bookkeeping

\* What the network sees of the layer.
Stream == INSTANCE BatchStream
            WITH view <- IF Viewing THEN Seen ELSE NoBatch

\* The layer implements the stream of batches: in order, each once, stable
\* while viewed, at most Depth ahead.
StreamSpec == Stream!Spec

\* Forward returns (base_data_layer.cpp:112-127), unless the process aborts.
ForwardReturns == main \in {"notify", "pop", "wait"} ~> main = "ready" \/ aborted

\* Destroying the layer returns: the interrupted worker ends, wherever the
\* interruption finds it (internal_thread.cpp:56-66).
StopReturns == main = "join" ~> main = "gone" \/ aborted

=============================================================================
