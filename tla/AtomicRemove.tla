---------------------------- MODULE AtomicRemove ----------------------------
(***************************************************************************)
(* What IndexIVFPQ::remove_ids promises its caller                         *)
(* (faiss/IndexIVFPQ.cpp:1091-1120): in one step the entries whose label   *)
(* the selector accepts leave the index, no other entry does, ntotal drops *)
(* by their number and that number is the result.                          *)
(***************************************************************************)
EXTENDS Integers, FiniteSets

VARIABLES live,        \* entries in the inverted lists
          doomed,      \* the entries whose label the selector accepts
          total,       \* ntotal
          result       \* what the call returned, -1 while it runs

vars == <<live, doomed, total, result>>

Init == doomed \subseteq live /\ result = -1

Remove ==
  /\ result = -1
  /\ live' = live \ doomed
  /\ total' = total - Cardinality(doomed)
  /\ result' = Cardinality(doomed)
  /\ UNCHANGED doomed

Spec == Init /\ [][Remove]_vars
=============================================================================
