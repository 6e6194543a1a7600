---------------------------- MODULE BatchStream ----------------------------
(***************************************************************************)
(* What a prefetching data layer promises the network it feeds: batches    *)
(* are loaded one after the other, each is handed out once, in the order   *)
(* they were loaded, and what is handed out stays as it was loaded until   *)
(* the next call.  At most Depth batches are read ahead.                   *)
(***************************************************************************)
EXTENDS Naturals, Sequences

CONSTANTS Batches,   \* the values a batch can have
          Depth,     \* how many batches may be loaded and not yet taken
          NoBatch    \* what the network sees between two batches

VARIABLES loaded,    \* every batch loaded so far
          served,    \* how many of them were handed out
          view       \* what the network's input blob shows

vars == <<loaded, served, view>>

Init == /\ loaded = << >>
        /\ served = 0
        /\ view = NoBatch

Load == /\ Len(loaded) - served < Depth
        /\ \E b \in Batches : loaded' = Append(loaded, b)
        /\ UNCHANGED <<served, view>>

Release == /\ view # NoBatch
           /\ view' = NoBatch
           /\ UNCHANGED <<loaded, served>>

Take == /\ view = NoBatch
        /\ served < Len(loaded)
        /\ served' = served + 1
        /\ view' = loaded[served']
        /\ UNCHANGED loaded

Next == Load \/ Release \/ Take

Spec == Init /\ [][Next]_vars
=============================================================================
