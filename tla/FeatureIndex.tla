---------------------------- MODULE FeatureIndex ----------------------------
(***************************************************************************)
(* retrieval::FeatureIndex (include/Retrieval.h, src/retrieval/            *)
(* Retrieval.cpp): one object in one process, and the index file that      *)
(* outlives it.  Any sequence of calls of the class is allowed.  A call on *)
(* a NULL _index and an exception of faiss, which nothing catches, end the *)
(* process.  _dimension, _groups, _nbits and _nlist are set and never used *)
(* by the class, so they are left out.                                     *)
(***************************************************************************)
EXTENDS IndexIVFPQ

CONSTANTS Null,      \* the pointer _index before an index is built or read
          Garbage,   \* a field no constructor initialised
          NoFile,
          Probes,    \* arguments of setProbe
          Batches,   \* arguments of AddItemList, sequences of vectors
          TrainSizes,\* how many vectors TrainIndex may be given
          MaxAdded,  \* bound: vectors added to an index over its life
          MaxBook    \* bound: trainings of an index over its life

ASSUME ProbesType == Probes \subseteq Nat
ASSUME BatchesType == Batches \subseteq Seq(Vectors)
ASSUME SizesType == TrainSizes \subseteq Nat
ASSUME NullsDiffer == Null \notin Index /\ Garbage \notin Int

VARIABLES alive,     \* "none", "running" or "crashed"
          index, nprobe, size,
          file       \* the index file: NoFile or what it holds

fields == <<index, nprobe, size>>
vars   == <<alive, fields, file>>

Running == alive = "running"
Built   == Running /\ index # Null

NoObject == index' = Null /\ nprobe' = Garbage /\ size' = Garbage

Init ==
  /\ alive = "none" /\ file = NoFile
  /\ index = Null /\ nprobe = Garbage /\ size = Garbage

\* A NULL dereference or an uncaught exception.
Crash == alive' = "crashed" /\ NoObject /\ UNCHANGED file

\* A new process may be started after this one ended either way.
Exit == alive # "none" /\ alive' = "none" /\ NoObject /\ UNCHANGED file

-----------------------------------------------------------------------------
\* FeatureIndex(): the pointers only.
ConstructEmpty ==
  /\ alive = "none" /\ alive' = "running"
  /\ NoObject /\ UNCHANGED file

\* FeatureIndex(NumOfData): nprobe 15, set on both sides.
ConstructSized ==
  /\ alive = "none" /\ alive' = "running"
  /\ index' = NewIndex(15) /\ nprobe' = 15 /\ size' = 0
  /\ UNCHANGED file

\* FeatureIndex(dimension, nlist, groups, nbits): faiss' own nprobe, 1.
ConstructWithParams ==
  /\ alive = "none" /\ alive' = "running"
  /\ index' = NewIndex(1) /\ nprobe' = Garbage /\ size' = Garbage
  /\ UNCHANGED file

\* Every method but getTotalIndex, WriteIndexToFile, ReadIndexFromFile and
\* the plain getters dereferences _index first: isTrainIndex, setTranVerbose
\* and RetievalIndex, which change no field, and the methods below.
CallOnNull == Running /\ index = Null /\ Crash

TrainIndex(n) ==
  /\ Built
  /\ \/ TrainThrows(index, n) /\ Crash
     \/ /\ ~TrainThrows(index, n) /\ index.book < MaxBook
        /\ index' = Trained(index)
        /\ UNCHANGED <<alive, nprobe, size, file>>

setProbe(p) ==
  /\ Built
  /\ nprobe' = p /\ index' = [index EXCEPT !.nprobe = p]
  /\ UNCHANGED <<alive, size, file>>

-----------------------------------------------------------------------------
Add(xs) ==
  /\ Built
  /\ \/ ~index.is_trained /\ Crash
     \/ /\ index.is_trained
        /\ index.added + Len(xs) <= MaxAdded
        /\ index' = Added(index, xs)
        /\ size' = index'.ntotal
        /\ UNCHANGED <<alive, nprobe, file>>

AddItemToFeature(v) == Add(<<v>>)
AddItemList(xs)     == Add(xs)

Remove(lo, hi) ==
  /\ Built
  /\ index' = Removed(index, lo, hi)
  /\ size' = index'.ntotal
  /\ UNCHANGED <<alive, nprobe, file>>

DeleteItemFromFeature(id) == Remove(id, id + 1)

\* Faulty: _size keeps its value.
DeleteItemListStale(beginId, numOfdata) ==
  /\ Built
  /\ index' = Removed(index, beginId, beginId + numOfdata)
  /\ UNCHANGED <<alive, nprobe, size, file>>

DeleteItemList(beginId, numOfdata) == Remove(beginId, beginId + numOfdata)

-----------------------------------------------------------------------------
\* The checks before the write; it is refused when any file has the name.
Writable == Built /\ index.is_trained /\ file = NoFile

\* Refused writes change nothing.  A last buffer that cannot be flushed goes
\* unnoticed: the fclose of ScopeFileCloser is not checked.
WriteIndexToFile ==
  /\ Writable
  /\ \E whole \in BOOLEAN : file' = [ix |-> index, whole |-> whole]
  /\ UNCHANGED <<alive, fields>>

\* The process dies in the write, or fwrite fails and faiss throws.
WriteInterrupted ==
  /\ Writable
  /\ file' = [ix |-> index, whole |-> FALSE]
  /\ alive' = "crashed" /\ NoObject

ReadIndexFromFile ==
  /\ Running /\ file # NoFile
  /\ \/ ~file.whole /\ Crash
     \/ /\ file.whole
        /\ index' = file.ix
        /\ nprobe' = file.ix.nprobe /\ size' = file.ix.ntotal
        /\ UNCHANGED <<alive, file>>

Labels == 0 .. MaxAdded

Next ==
  \/ Exit \/ ConstructEmpty \/ ConstructSized \/ ConstructWithParams
  \/ CallOnNull
  \/ \E n \in TrainSizes : TrainIndex(n)
  \/ \E p \in Probes : setProbe(p)
  \/ \E v \in Vectors : AddItemToFeature(v)
  \/ \E xs \in Batches : AddItemList(xs)
  \/ \E id \in Labels : DeleteItemFromFeature(id)
  \/ \E b \in Labels, n \in Labels : DeleteItemList(b, n)
  \/ WriteIndexToFile \/ WriteInterrupted \/ ReadIndexFromFile

Spec == Init /\ [][Next]_vars
-----------------------------------------------------------------------------
File == {NoFile} \cup [ix : Index, whole : BOOLEAN]

(* The values of the variables.                                            *)
TypeOK ==
  /\ alive \in {"none", "running", "crashed"}
  /\ alive = "running" \/ index = Null
  /\ index \in Index \cup {Null}
  /\ nprobe \in Nat \cup {Garbage}
  /\ size \in Nat \cup {Garbage}
  /\ file \in File

(* Once set, the fields the getters answer from agree with the index they  *)
(* cache: through adds, deletes, probes, writes, reloads of another index, *)
(* and calls refused half-way.  The four-argument constructor does not set *)
(* nprobe, which getProbe (Retrieval.h:64-65, "get index Param") answers   *)
(* from all the same.                                                      *)
CachesAgree ==
  Built => /\ nprobe # Garbage => nprobe = index.nprobe
           /\ size # Garbage => size = index.ntotal

\* What holds of an index in memory must hold of one in the file.
EveryIndex(P(_)) ==
  (index # Null => P(index)) /\ (file # NoFile => P(file.ix))

Accounts(ix) == ix.ntotal = Cardinality(ix.entries) + ix.ignored

Identifies(ix) ==
  ~ix.holed => /\ \A e, f \in ix.entries : e.id = f.id => e = f
               /\ \A e \in ix.entries : e.id < ix.ntotal

(* ntotal is the number of entries in the lists plus the vectors that add  *)
(* ignored: it is the "total nb of indexed vectors" of faiss/Index.h:65    *)
(* only while no NaN vector was added.                                     *)
NtotalAccounts == EveryIndex(Accounts)

(* Labels identify vectors as long as deletes only take the highest labels *)
(* off: then they stay below ntotal, so the next add cannot reuse one.     *)
LabelsIdentify == EveryIndex(Identifies)

(* The inductive invariant.  No entry has a serial number yet to be given, *)
(* so the entries an add makes are new to the lists and add to their count.*)
IndexInv(ix) ==
  /\ ix \in Index /\ IsFiniteSet(ix.entries)
  /\ \A e \in ix.entries : e.serial <= ix.added
  /\ Accounts(ix) /\ Identifies(ix)

IInv == TypeOK /\ CachesAgree /\ EveryIndex(IndexInv)
=============================================================================
