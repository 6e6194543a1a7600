--------------------------- MODULE BlockingQueue ---------------------------
(***************************************************************************)
(* BlockingQueue (caffe/src/caffe/util/blocking_queue.cpp): push, try_pop, *)
(* pop and peek called by any number of threads.  try_peek and size change *)
(* nothing.                                                                *)
(*                                                                         *)
(* What a thread does between taking the mutex and giving it back is one   *)
(* step: a whole try_pop, a push up to its unlock, one test of queue_ by   *)
(* pop or peek with what follows it, the return or the wait.  push         *)
(* notifies after it has unlocked.  A waiting thread is woken by a         *)
(* notification or spuriously; it is then again about to test queue_.      *)
(***************************************************************************)
EXTENDS Integers, Sequences, FiniteSets

CONSTANTS Threads, Items,
          Calls,         \* the operations the threads call
          MaxPushes      \* bound on the calls of push

ASSUME ThreadsFinite == IsFiniteSet(Threads)
ASSUME CallsKnown    == Calls \subseteq {"push", "try_pop", "pop", "peek"}

VARIABLES queue_,
          pc,            \* where each thread is
          pushed,        \* history: the items pushed, in order
          popped,        \* history: the items pop and try_pop returned
          peeks          \* history: how many calls of peek returned

vars == <<queue_, pc, pushed, popped, peeks>>

Init ==
  /\ queue_ = << >>
  /\ pc = [t \in Threads |-> "idle"]
  /\ pushed = << >> /\ popped = << >>
  /\ peeks = 0

At(place) == {t \in Threads : pc[t] = place}
Waiting == At("pop waits") \cup At("peek waits")
Awake == At("notify") \cup At("pop") \cup At("peek")

Call(t, op) ==
  /\ op \in Calls \cap {"pop", "peek"}
  /\ pc[t] = "idle"
  /\ pc' = [pc EXCEPT ![t] = op]
  /\ UNCHANGED <<queue_, pushed, popped, peeks>>

\* Faulty: only the push to an empty queue notifies.
pushQuietly(t) ==
  /\ "push" \in Calls /\ Len(pushed) < MaxPushes
  /\ pc[t] = "idle"
  /\ \E item \in Items :
       queue_' = Append(queue_, item) /\ pushed' = Append(pushed, item)
  /\ pc' = [pc EXCEPT ![t] = IF queue_ = << >> THEN "notify" ELSE "idle"]
  /\ UNCHANGED <<popped, peeks>>

push(t) ==
  /\ "push" \in Calls /\ Len(pushed) < MaxPushes
  /\ pc[t] = "idle"
  /\ \E item \in Items :
       queue_' = Append(queue_, item) /\ pushed' = Append(pushed, item)
  /\ pc' = [pc EXCEPT ![t] = "notify"]
  /\ UNCHANGED <<popped, peeks>>

Woken == [p \in {"pop waits", "peek waits"} |->
            IF p = "pop waits" THEN "pop" ELSE "peek"]

\* notify_one: of the threads that wait, if any, one is woken.
notify_one(t) ==
  /\ pc[t] = "notify"
  /\ \/ Waiting = {} /\ pc' = [pc EXCEPT ![t] = "idle"]
     \/ \E w \in Waiting :
          pc' = [pc EXCEPT ![t] = "idle", ![w] = Woken[pc[w]]]
  /\ UNCHANGED <<queue_, pushed, popped, peeks>>

\* Faulty: the newest item is returned.
TakeNewest ==
  /\ queue_' = SubSeq(queue_, 1, Len(queue_) - 1)
  /\ popped' = Append(popped, queue_[Len(queue_)])

\* queue_.front() and queue_.pop()
TakeFront ==
  /\ queue_' = Tail(queue_)
  /\ popped' = Append(popped, Head(queue_))

try_pop(t) ==
  /\ "try_pop" \in Calls /\ pc[t] = "idle"
  /\ queue_ # << >> /\ TakeFront
  /\ UNCHANGED <<pc, pushed, peeks>>

pop(t) ==
  /\ pc[t] = "pop"
  /\ \/ queue_ # << >> /\ TakeFront /\ pc' = [pc EXCEPT ![t] = "idle"]
     \/ /\ queue_ = << >> /\ pc' = [pc EXCEPT ![t] = "pop waits"]
        /\ UNCHANGED <<queue_, popped>>
  /\ UNCHANGED <<pushed, peeks>>

peek(t) ==
  /\ pc[t] = "peek"
  /\ \/ /\ queue_ # << >> /\ peeks' = peeks + 1
        /\ pc' = [pc EXCEPT ![t] = "idle"]
     \/ /\ queue_ = << >> /\ UNCHANGED peeks
        /\ pc' = [pc EXCEPT ![t] = "peek waits"]
  /\ UNCHANGED <<queue_, pushed, popped>>

SpuriousWakeUp(t) ==
  /\ t \in Waiting
  /\ pc' = [pc EXCEPT ![t] = Woken[pc[t]]]
  /\ UNCHANGED <<queue_, pushed, popped, peeks>>

\* What a thread inside an operation does next.
Continue(t) == notify_one(t) \/ pop(t) \/ peek(t)

Next ==
  \E t \in Threads :
    \/ push(t) \/ try_pop(t) \/ \E op \in {"pop", "peek"} : Call(t, op)
    \/ Continue(t)
    \/ SpuriousWakeUp(t)

\* A thread inside an operation is scheduled; nobody has to call one.
Spec == Init /\ [][Next]_vars /\ \A t \in Threads : WF_vars(Continue(t))

-----------------------------------------------------------------------------
Places == {"idle", "notify", "pop", "pop waits", "peek", "peek waits"}

(* The values of the variables.                                            *)
TypeOK ==
  /\ queue_ \in Seq(Items) /\ pushed \in Seq(Items) /\ popped \in Seq(Items)
  /\ pc \in [Threads -> Places]
  /\ peeks \in Nat

(* Items leave the queue in the order they were pushed, each of them once, *)
(* whatever pops and tries run side by side.                               *)
FifoOrder == pushed = popped \o queue_

(* No thread is left waiting beside a queue that has an item: push         *)
(* notifies one thread after it has unlocked, and as long as items and     *)
(* waiting threads are both there, some thread is on its way to take one   *)
(* or to wake another.  The exception is a queue that is peeked at: a      *)
(* peek takes a notification and leaves the item (blocking_queue.cpp:71).  *)
NoLostWakeUp ==
  Waiting # {} /\ queue_ # << >> /\ peeks = 0 => Awake # {}

(* The inductive form: while threads wait there are no more items than     *)
(* threads awake, but for those a peek left.                               *)
Covered == Waiting # {} => Len(queue_) <= Cardinality(Awake) + peeks

QueueIInv == TypeOK /\ FifoOrder /\ Covered

\* The queue its users see; a thread that waits inside pop is asking.
Fifo == INSTANCE FifoQueue WITH
          queue <- queue_,
          asking <- At("pop") \cup At("pop waits")

(* Every step of the queue, peeks included, is one of a FIFO queue or      *)
(* changes nothing of it.                                                  *)
FifoSafety == Fifo!Safety

(* The queue is a FIFO queue in which, when items and threads that ask for *)
(* one are there, one of them gets one, if nobody ever peeks: a peek takes *)
(* the notification that was another's.                                    *)
FifoSpec ==
  /\ FifoSafety
  /\ [](At("peek") \cup At("peek waits") = {} /\ peeks = 0) => Fifo!Progress
=============================================================================
