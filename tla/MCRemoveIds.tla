---------------------------- MODULE MCRemoveIds -----------------------------
(***************************************************************************)
(* RemoveIds on three inverted lists, more than there are threads, that    *)
(* hold up to MaxTotal entries between them, with one label in the         *)
(* selector's range and one outside, and either of two codes each: equal   *)
(* and different neighbours, empty lists, lists that vanish, lists that    *)
(* stay, and an ntotal that counts one ignored vector more than the lists  *)
(* hold.                                                                   *)
(***************************************************************************)
EXTENDS RemoveIds, FiniteSetsExt

CONSTANT MaxTotal

ASSUME MaxTotalNat == MaxTotal \in Nat

ShortLists(S) ==
  {ls \in ListsOf(S) : MapThenSumSet(LAMBDA i : Len(ls[i]), Lists) <= MaxTotal}

MCInit == ids \in ShortLists(Ids) /\ codes \in ShortLists(Codes) /\ Init

MCSpec == MCInit /\ [][Next]_vars /\ Fairness
=============================================================================
