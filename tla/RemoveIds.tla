----------------------------- MODULE RemoveIds ------------------------------
(***************************************************************************)
(* One call of faiss::IndexIVFPQ::remove_ids, the loop behind              *)
(* FeatureIndex::DeleteItemFromFeature and DeleteItemList                  *)
(* (src/retrieval/Retrieval.cpp:71-99).  An OpenMP team removes in place,  *)
(* one inverted list per iteration: a selected entry is overwritten by the *)
(* last one of the list, label and PQ code separately, and the position is *)
(* looked at again.  Each thread counts in a private nremove that the      *)
(* reduction adds up before the master updates ntotal.                     *)
(*                                                                         *)
(* l and j are locals of an iteration, so they are indexed by the list.    *)
(* The schedule is left open: a thread takes any list nobody took, which   *)
(* covers every OpenMP schedule.  An entry is identified by <<i, q>>, the  *)
(* list and the position it had when the call began; orig and gone are     *)
(* history variables over these identities.                                *)
(***************************************************************************)
EXTENDS Integers, Sequences, FiniteSets

CONSTANTS Lists,       \* 0 .. nlist-1
          Threads,     \* the OpenMP team
          Ids,         \* labels
          Codes,       \* PQ codes
          Imin, Imax,  \* the IDSelectorRange of the call
          MaxLen,      \* bound: the length of a list
          Ignored      \* bound: how far ntotal may exceed the stored entries

ASSUME FiniteTeam == IsFiniteSet(Threads) /\ Threads # {} /\ IsFiniteSet(Lists)
ASSUME NatBounds == MaxLen \in Nat /\ Ignored \subseteq Nat
ASSUME IntLabels == Ids \subseteq Int /\ Imin \in Int /\ Imax \in Int

VARIABLES ids, codes,  \* ids[i], codes[i]: the parallel vectors of list i
          start,       \* ids, codes and ntotal when the call began
          orig,        \* orig[i][p]: the entry now at position p of list i
          gone,        \* gone[i]: the entries dropped from list i so far
          phase,       \* phase[i]: iteration i is "todo", "scan" or "done"
          worker,      \* worker[i]: the thread that took iteration i
          l, j,        \* the cursors of iteration i
          part,        \* part[t]: thread t's private nremove
          joined,      \* threads whose part was reduced
          nremove, ntotal,
          returned

loop   == <<ids, codes, orig, gone, phase, worker, l, j>>
result == <<nremove, ntotal, returned>>
vars   == <<loop, start, part, joined, result>>

is_member(id) == Imin <= id /\ id < Imax

EntriesOf(ls) == {e \in Lists \X (1 .. MaxLen) : e[2] <= Len(ls[e[1]])}

Entries  == EntriesOf(start.ids)
Selected == {e \in Entries : is_member(start.ids[e[1]][e[2]])}

ListsOf(S) == [Lists -> UNION {[1 .. n -> S] : n \in 0 .. MaxLen}]

-----------------------------------------------------------------------------
Init ==
  /\ ids \in ListsOf(Ids)
  /\ codes \in ListsOf(Codes)
  /\ \A i \in Lists : Len(ids[i]) = Len(codes[i])
  /\ orig = [i \in Lists |-> [p \in 1 .. Len(ids[i]) |-> <<i, p>>]]
  /\ gone = [i \in Lists |-> {}]
  /\ \E g \in Ignored :
       start = [ids |-> ids, codes |-> codes,
                ntotal |-> Cardinality(EntriesOf(ids)) + g]
  /\ phase = [i \in Lists |-> "todo"]
  /\ worker = [i \in Lists |-> CHOOSE t \in Threads : TRUE]
  /\ l = [i \in Lists |-> 0]
  /\ j = [i \in Lists |-> 0]
  /\ part = [t \in Threads |-> 0]
  /\ joined = {}
  /\ nremove = 0
  /\ ntotal = start.ntotal
  /\ returned = FALSE

Idle(t) == t \notin joined /\ \A i \in Lists : ~(phase[i] = "scan" /\ worker[i] = t)

\* A thread enters the iteration of a list nobody took.
Begin(t, i) ==
  /\ Idle(t)
  /\ phase[i] = "todo"
  /\ phase' = [phase EXCEPT ![i] = "scan"]
  /\ worker' = [worker EXCEPT ![i] = t]
  /\ l' = [l EXCEPT ![i] = Len(ids[i])]
  /\ j' = [j EXCEPT ![i] = 0]
  /\ UNCHANGED <<ids, codes, orig, gone, start, part, joined, result>>

Scanning(t, i) == phase[i] = "scan" /\ worker[i] = t

\* The last entry's label goes where the selected entry at j was.
MoveLast(t, i) ==
  /\ Scanning(t, i) /\ j[i] < l[i]
  /\ is_member(ids[i][j[i] + 1])
  /\ l' = [l EXCEPT ![i] = @ - 1]
  /\ ids' = [ids EXCEPT ![i][j[i] + 1] = ids[i][l[i]]]
  /\ orig' = [orig EXCEPT ![i][j[i] + 1] = orig[i][l[i]]]
  /\ gone' = [gone EXCEPT ![i] = @ \cup {orig[i][j[i] + 1]}]
  /\ UNCHANGED <<phase, worker, start, part, joined, result>>

MoveLastCode(i) == codes' = [codes EXCEPT ![i][j[i] + 1] = codes[i][l[i]]]

\* Faulty: the memmove of the code is forgotten.
OverwriteLabelOnly(t, i) == MoveLast(t, i) /\ UNCHANGED <<codes, j>>

\* Faulty: j moves past the entry that was moved in.
OverwriteAndAdvance(t, i) ==
  MoveLast(t, i) /\ MoveLastCode(i) /\ j' = [j EXCEPT ![i] = @ + 1]

Overwrite(t, i) == MoveLast(t, i) /\ MoveLastCode(i) /\ UNCHANGED j

\* Faulty: j does not advance past an entry that stays.
KeepForever(t, i) ==
  /\ Scanning(t, i) /\ j[i] < l[i]
  /\ ~is_member(ids[i][j[i] + 1])
  /\ UNCHANGED vars

Keep(t, i) ==
  /\ Scanning(t, i) /\ j[i] < l[i]
  /\ ~is_member(ids[i][j[i] + 1])
  /\ j' = [j EXCEPT ![i] = @ + 1]
  /\ UNCHANGED <<ids, codes, orig, gone, phase, worker, l, start, part,
                 joined, result>>

\* The list is scanned: count what was dropped and resize both vectors.
ResizeTo(t, i, kept, dropped) ==
  /\ Scanning(t, i) /\ j[i] >= l[i]
  /\ part' = [part EXCEPT ![t] = @ + dropped]
  /\ ids' = [ids EXCEPT ![i] = SubSeq(@, 1, kept)]
  /\ codes' = [codes EXCEPT ![i] = SubSeq(@, 1, kept)]
  /\ orig' = [orig EXCEPT ![i] = SubSeq(@, 1, kept)]
  /\ phase' = [phase EXCEPT ![i] = "done"]
  /\ UNCHANGED <<gone, worker, l, j, start, joined, result>>

\* Faulty: the vectors are counted but never shrunk.
ResizeSkipped(t, i) == ResizeTo(t, i, Len(ids[i]), Len(ids[i]) - l[i])

Resize(t, i) == ResizeTo(t, i, l[i], Len(ids[i]) - l[i])

JoinWith(t, sum) ==
  /\ Idle(t) /\ \A i \in Lists : phase[i] # "todo"
  /\ joined' = joined \cup {t}
  /\ nremove' = sum
  /\ UNCHANGED <<loop, start, part, ntotal, returned>>

\* Faulty: without the reduction clause the last thread's store wins.
JoinUnreduced(t) == JoinWith(t, part[t])

\* No iteration is left to take: the reduction adds the thread's part.
Join(t) == JoinWith(t, nremove + part[t])

\* After the barrier of the loop the master alone goes on.
Return ==
  /\ joined = Threads /\ ~returned
  /\ ntotal' = ntotal - nremove
  /\ returned' = TRUE
  /\ UNCHANGED <<loop, start, part, joined, nremove>>

ListStep(t, i) ==
  Begin(t, i) \/ Overwrite(t, i) \/ Keep(t, i) \/ Resize(t, i)

Next == \/ \E t \in Threads, i \in Lists : ListStep(t, i)
        \/ \E t \in Threads : Join(t)
        \/ Return

\* Every thread of the team keeps running.
Fairness == /\ \A t \in Threads : WF_vars(Join(t) \/ \E i \in Lists : ListStep(t, i))
            /\ WF_vars(Return)

Spec == Init /\ [][Next]_vars
FairSpec == Spec /\ Fairness
-----------------------------------------------------------------------------
(* The values of the variables; the counters never go below zero.          *)
TypeOK ==
  /\ start \in [ids : ListsOf(Ids), codes : ListsOf(Codes), ntotal : Nat]
  /\ \A i \in Lists : Len(start.ids[i]) = Len(start.codes[i])
  /\ ids \in [Lists -> Seq(Ids)] /\ codes \in [Lists -> Seq(Codes)]
  /\ orig \in [Lists -> Seq(Entries)] /\ gone \in [Lists -> SUBSET Entries]
  /\ phase \in [Lists -> {"todo", "scan", "done"}]
  /\ worker \in [Lists -> Threads]
  /\ l \in [Lists -> Nat] /\ j \in [Lists -> Nat]
  /\ part \in [Threads -> Nat]
  /\ joined \subseteq Threads
  /\ nremove \in Nat /\ ntotal \in Int
  /\ returned \in BOOLEAN

EntriesIn(i) == {e \in Entries : e[1] = i}

\* The entries of list i that count: what is beyond l is garbage.
Last(i) == IF phase[i] = "scan" THEN l[i] ELSE Len(ids[i])

Paired(i) ==
  /\ Len(codes[i]) = Len(ids[i])
  /\ Len(orig[i]) = Len(ids[i])
  /\ \A p \in 1 .. Len(ids[i]) :
       /\ ids[i][p] = start.ids[i][orig[i][p][2]]
       /\ codes[i][p] = start.codes[i][orig[i][p][2]]

(* A label and its PQ code never come apart: whatever the loop has moved,  *)
(* position p of the two parallel vectors holds the label and the code     *)
(* that one entry had when the call began.                                 *)
PairsIntact == \A i \in Lists : Paired(i)

Accounted(i) ==
  /\ \A p, r \in 1 .. Last(i) : orig[i][p] = orig[i][r] => p = r
  /\ {orig[i][p] : p \in 1 .. Last(i)} = EntriesIn(i) \ gone[i]
  /\ gone[i] \subseteq Selected \cap EntriesIn(i)

(* An entry is in its list exactly once or dropped, at every step of the   *)
(* in-place loop, and only selected entries are dropped: the duplicate the *)
(* overwrite leaves behind is never beyond reach of the final resize.      *)
NoEntryLost == \A i \in Lists : Accounted(i)

(* When the call returns, no selected entry survives in any list, and      *)
(* ntotal dropped by exactly the number of entries the lists lost, however *)
(* the team shared the lists.                                              *)
CountsExact ==
  returned => /\ \A i \in Lists : \A p \in DOMAIN ids[i] : ~is_member(ids[i][p])
              /\ nremove = Cardinality(Selected)
              /\ ntotal = start.ntotal - Cardinality(Selected)

\* The entries dropped in the iterations that threads of T completed.
DroppedBy(T) ==
  UNION {gone[i] : i \in {k \in Lists : phase[k] = "done" /\ worker[k] \in T}}

Scanned(i) ==
  /\ phase[i] = "todo" => gone[i] = {}
  /\ phase[i] = "scan" => /\ j[i] <= l[i] /\ l[i] <= Len(ids[i])
                          /\ Len(ids[i]) = Len(start.ids[i])
                          /\ \A p \in 1 .. j[i] : ~is_member(ids[i][p])
  /\ phase[i] = "done" => \A p \in 1 .. Len(ids[i]) : ~is_member(ids[i][p])
  /\ Cardinality(gone[i]) = Len(start.ids[i]) - Last(i)

Reduced ==
  /\ \A t \in Threads : part[t] = Cardinality(DroppedBy({t}))
  /\ nremove = Cardinality(DroppedBy(joined))
  /\ joined # {} => \A i \in Lists : phase[i] # "todo"
  /\ \A i \in Lists : worker[i] \in joined => phase[i] = "done"
  /\ returned => joined = Threads
  /\ ntotal = start.ntotal - (IF returned THEN nremove ELSE 0)

(* The inductive invariant: what the cursors have passed is not selected,  *)
(* each list is short by exactly what was dropped from it, and the private *)
(* counters add up to the entries dropped by completed iterations.         *)
IInv ==
  /\ TypeOK
  /\ \A i \in Lists : Paired(i) /\ Accounted(i) /\ Scanned(i)
  /\ Reduced

(* Every call returns: the cursors of every iteration meet and every       *)
(* thread reaches the barrier.                                             *)
Returns == <>returned

(* The whole call is one atomic removal: until it returns its caller has   *)
(* the old index, afterwards the entries that were not selected.           *)
Live == IF returned THEN UNION {{orig[i][p] : p \in DOMAIN ids[i]} : i \in Lists}
        ELSE Entries
Abs == INSTANCE AtomicRemove WITH
         live <- Live, doomed <- Selected, total <- ntotal,
         result <- IF returned THEN nremove ELSE -1
Atomic == Abs!Spec
=============================================================================
