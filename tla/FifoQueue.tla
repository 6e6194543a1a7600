----------------------------- MODULE FifoQueue -----------------------------
(***************************************************************************)
(* What a blocking queue (caffe/include/caffe/util/blocking_queue.hpp)     *)
(* promises its users: items leave in the order they came, each to one     *)
(* thread, and a thread that asks for one does not wait while there is one.*)
(***************************************************************************)
EXTENDS Sequences

CONSTANTS Threads, Items

VARIABLES queue,         \* the items inside
          asking         \* the threads inside pop

fifoVars == <<queue, asking>>

Init == queue = << >> /\ asking = {}

Put == \E item \in Items : queue' = Append(queue, item) /\ UNCHANGED asking

Ask(t) == t \notin asking /\ asking' = asking \cup {t} /\ UNCHANGED queue

\* The first item goes to a thread that asked, or to one that only tries.
Take(t) ==
  /\ t \in asking /\ queue # << >>
  /\ queue' = Tail(queue)
  /\ asking' = asking \ {t}

TryTake ==
  /\ queue # << >>
  /\ queue' = Tail(queue)
  /\ UNCHANGED asking

Next == Put \/ TryTake \/ \E t \in Threads : Ask(t) \/ Take(t)

Safety == Init /\ [][Next]_fifoVars

\* Some thread that asks gets an item if the items do not run out.
Progress == WF_fifoVars(\E t \in Threads : Take(t))
=============================================================================
