------------------------- MODULE MCCaffePrimitives -------------------------
(***************************************************************************)
(* A blocking queue and a synced memory, of which one is followed.  Four   *)
(* threads at the queue, so that two may wait while two push, and one call *)
(* of peek among them; a memory with three contents, in a build with CUDA, *)
(* under every order of calls.                                             *)
(***************************************************************************)
EXTENDS BlockingQueue, SyncedMemory

CONSTANT MaxPeeks

ASSUME MaxPeeksNat == MaxPeeks \in Nat

VARIABLE followed      \* "queue" or "memory"

FewPeeks == peeks + Cardinality(At("peek") \cup At("peek waits")) <= MaxPeeks

MCInit ==
  /\ Init /\ MemInit
  /\ followed \in {"queue", "memory"}
  /\ followed = "queue" => mode = "CPU"

MCNext ==
  /\ \/ followed = "queue" /\ Next /\ FewPeeks' /\ UNCHANGED memVars
     \/ followed = "memory" /\ MemNext /\ UNCHANGED vars
  /\ UNCHANGED followed

MCSpec ==
  /\ MCInit /\ [][MCNext]_<<vars, memVars, followed>>
  /\ \A t \in Threads : WF_vars(Continue(t))
=============================================================================
