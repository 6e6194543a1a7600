-------------------------------- MODULE Cell -------------------------------
(***************************************************************************)
(* What a SyncedMemory promises (caffe/include/caffe/syncedmem.hpp:51): one*)
(* memory, whichever of the two devices it is read and written from.       *)
(***************************************************************************)
CONSTANTS Contents, Zero

VARIABLES content,       \* what is stored
          seen           \* what the last reader found

cellVars == <<content, seen>>

Init == content = Zero /\ seen = Zero

Write(c) == content' = c /\ UNCHANGED seen

Read == seen' = content /\ UNCHANGED content

Next == Read \/ \E c \in Contents : Write(c)

Spec == Init /\ [][Next]_cellVars
=============================================================================
