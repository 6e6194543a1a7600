---------------------------- MODULE IndexPrograms ---------------------------
(***************************************************************************)
(* The programs of src/main that share the index file "index_IVFPQ", as    *)
(* processes over one file system:                                         *)
(*   builder: testRetrieval.cpp, trains, saves, then adds and searches;    *)
(*   server:  testRead.cpp, reads, trains if need be, adds and searches;   *)
(*   query:   FeatureWithAttrTest.cpp, reads and searches.                 *)
(* They may overlap, be killed at any point and be started again.          *)
(*                                                                         *)
(* The file is a sequence of parts in the order faiss::write_index writes  *)
(* them: 1 the header and the coarse quantizer, 2 the labels, 3 the product*)
(* quantizer and the codes.  A process that fwrites a part has it on disk  *)
(* some time later, in order, at the offset of its own stream.             *)
(***************************************************************************)
EXTENDS Integers, Sequences, FiniteSets

CONSTANTS Procs,
          Rows,          \* vectors in the data file the programs load
          Null,
          Hole,          \* a part never written, before one that was
          MaxTrainings   \* bound: trainings over the life of the system

ASSUME RowsNat == Rows \in Nat \ {0} /\ MaxTrainings \in Nat

NParts == 3

VARIABLES prog, pc,      \* per process: the program it runs, where it is
          index,         \* per process: FeatureIndex::_index
          at,            \* per process: next part to write or to read
          file,          \* Null, or the parts of the file
          trainings,     \* trainings so far: each makes its own quantizers
          overlap        \* history: two builders were between the check
                         \* for the file and its completion at once

vars == <<prog, pc, index, at, file, trainings, overlap>>

\* coarse, pq: the training that made the quantizers, 0 before any.
\* stored: label and row of every entry.
Blank == [coarse |-> 0, pq |-> 0, ntotal |-> 0, stored |-> {}]

Writing(p) == pc[p] \in {"open", "write"}
Exists     == file # Null

Part(ix, n) == CASE n = 1 -> [coarse |-> ix.coarse, ntotal |-> ix.ntotal]
                 [] n = 2 -> [stored |-> ix.stored]
                 [] n = 3 -> [pq |-> ix.pq]

\* Faulty: a stream opened for append.
WrittenAtEnd(f, n, x) == Append(f, x)

\* A stream of its own offset writes past the end of a truncated file.
Written(f, n, x) ==
  [m \in 1 .. (IF Len(f) > n THEN Len(f) ELSE n) |->
     IF m = n THEN x ELSE IF m <= Len(f) THEN f[m] ELSE Hole]

Go(p, label) == pc' = [pc EXCEPT ![p] = label]

Init ==
  /\ prog \in [Procs -> {"builder", "server", "query"}]
  /\ pc = [p \in Procs |-> "start"]
  /\ index = [p \in Procs |-> Null]
  /\ at = [p \in Procs |-> 0]
  /\ file = Null /\ trainings = 0 /\ overlap = FALSE

Die(p) ==
  /\ Go(p, "dead")
  /\ index' = [index EXCEPT ![p] = Null] /\ at' = [at EXCEPT ![p] = 0]

-----------------------------------------------------------------------------
FromRow(n) == {<<n + r, r>> : r \in 0 .. Rows - 1}

BuildHolding(p, n, stored) ==
  /\ prog[p] = "builder" /\ pc[p] = "start"
  /\ trainings < MaxTrainings
  /\ trainings' = trainings + 1
  /\ index' = [index EXCEPT ![p] = [coarse |-> trainings', pq |-> trainings',
                                    ntotal |-> n, stored |-> stored]]
  /\ Go(p, "check")
  /\ UNCHANGED <<prog, at, file, overlap>>

\* Faulty: the vectors are added before the index is saved.
BuildAndAdd(p) == BuildHolding(p, Rows, FromRow(0))

\* builder: FeatureIndex fea(dataCount); TrainIndex on all the data.
Build(p) == BuildHolding(p, 0, {})

\* Faulty: WriteIndexToFile opens whatever is there.
CheckNothing(p) ==
  /\ pc[p] = "check" /\ Go(p, "open")
  /\ overlap' = (overlap \/ \E q \in Procs \ {p} : Writing(q))
  /\ UNCHANGED <<prog, index, at, file, trainings>>

\* WriteIndexToFile: refused if the file exists.
Check(p) ==
  /\ pc[p] = "check"
  /\ \/ Exists /\ Go(p, "saved") /\ UNCHANGED overlap
     \/ /\ ~Exists /\ Go(p, "open")
        /\ overlap' = (overlap \/ \E q \in Procs \ {p} : Writing(q))
  /\ UNCHANGED <<prog, index, at, file, trainings>>

\* fopen(fname, "w") creates or truncates.
Open(p) ==
  /\ pc[p] = "open" /\ Go(p, "write")
  /\ file' = <<>> /\ at' = [at EXCEPT ![p] = 1]
  /\ UNCHANGED <<prog, index, trainings, overlap>>

\* A part reaches the disk.  If it does not, WRITEANDCHECK throws, except
\* for the last buffer: fclose flushes it and nobody looks at its result.
WritePart(p) ==
  /\ pc[p] = "write"
  /\ \/ /\ file' = Written(file, at[p], Part(index[p], at[p]))
        /\ at' = [at EXCEPT ![p] = @ + 1]
        /\ Go(p, IF at[p] = NParts THEN "saved" ELSE "write")
        /\ UNCHANGED index
     \/ at[p] = NParts /\ Go(p, "saved") /\ UNCHANGED <<index, at, file>>
     \/ at[p] < NParts /\ Die(p) /\ UNCHANGED file
  /\ UNCHANGED <<prog, trainings, overlap>>

-----------------------------------------------------------------------------
\* server and query: FeatureIndex fea; ReadIndexFromFile.
Find(p) ==
  /\ prog[p] # "builder" /\ pc[p] = "start"
  /\ \/ Exists /\ Go(p, "read") /\ at' = [at EXCEPT ![p] = 1]
        /\ index' = [index EXCEPT ![p] = Blank]
     \/ ~Exists /\ Go(p, "loaded") /\ UNCHANGED <<at, index>>
  /\ UNCHANGED <<prog, file, trainings, overlap>>

\* Labels that were never written read as empty lists, like those of an
\* index without vectors; a header or quantizer that is not there throws.
Readable(n) == n <= Len(file) /\ (file[n] # Hole \/ n = 2)

TakePart(ix, n) ==
  CASE n = 1 -> [ix EXCEPT !.coarse = file[1].coarse, !.ntotal = file[1].ntotal]
    [] n = 2 -> IF file[2] = Hole THEN ix ELSE [ix EXCEPT !.stored = file[2].stored]
    [] n = 3 -> [ix EXCEPT !.pq = file[3].pq]

\* Faulty: a short read is taken for the end of the index.
ReadPartUnchecked(p) ==
  /\ pc[p] = "read"
  /\ index' = [index EXCEPT ![p] = IF Readable(at[p]) THEN TakePart(@, at[p]) ELSE @]
  /\ at' = [at EXCEPT ![p] = @ + 1]
  /\ Go(p, IF at[p] = NParts THEN "loaded" ELSE "read")
  /\ UNCHANGED <<prog, file, trainings, overlap>>

ReadPart(p) ==
  /\ pc[p] = "read"
  /\ \/ /\ Readable(at[p])
        /\ index' = [index EXCEPT ![p] = TakePart(@, at[p])]
        /\ at' = [at EXCEPT ![p] = @ + 1]
        /\ Go(p, IF at[p] = NParts THEN "loaded" ELSE "read")
     \/ ~Readable(at[p]) /\ Die(p)
  /\ UNCHANGED <<prog, file, trainings, overlap>>

\* setTranVerbose (server) or setProbe (query) on the index that was read.
\* The server goes on to add; a saved index is trained, so it never trains.
Configure(p) ==
  /\ pc[p] = "loaded"
  /\ \/ index[p] = Null /\ Die(p)
     \/ /\ index[p] # Null /\ UNCHANGED <<index, at>>
        /\ Go(p, IF prog[p] = "server" THEN "saved" ELSE "search")
  /\ UNCHANGED <<prog, file, trainings, overlap>>

-----------------------------------------------------------------------------
\* builder (after "Index Save Done") and server: AddItemList of every row.
AddItemList(p) ==
  /\ pc[p] = "saved" /\ Go(p, "search")
  /\ index' = [index EXCEPT ![p].ntotal = @ + Rows,
                            ![p].stored = @ \cup FromRow(index[p].ntotal)]
  /\ UNCHANGED <<prog, at, file, trainings, overlap>>

\* RetievalIndex and the end of main.
Search(p) ==
  /\ pc[p] = "search" /\ Go(p, "exit")
  /\ UNCHANGED <<prog, index, at, file, trainings, overlap>>

\* The process is killed, with what it had not flushed.
Kill(p) ==
  /\ pc[p] \notin {"dead", "exit"} /\ Die(p)
  /\ UNCHANGED <<prog, file, trainings, overlap>>

\* Another program is started in its place.
Start(p) ==
  /\ pc[p] \in {"dead", "exit"} /\ Go(p, "start")
  /\ prog' \in {[prog EXCEPT ![p] = x] : x \in {"builder", "server", "query"}}
  /\ index' = [index EXCEPT ![p] = Null] /\ at' = [at EXCEPT ![p] = 0]
  /\ UNCHANGED <<file, trainings, overlap>>

Step(p) ==
  \/ Build(p) \/ Check(p) \/ Open(p) \/ WritePart(p)
  \/ Find(p) \/ ReadPart(p) \/ Configure(p)
  \/ AddItemList(p) \/ Search(p)

Next == \E p \in Procs : Step(p) \/ Kill(p) \/ Start(p)

Spec == Init /\ [][Next]_vars
-----------------------------------------------------------------------------
Labels == {"start", "check", "open", "write", "read", "loaded", "saved",
           "search", "exit", "dead"}

Memory == [coarse : Nat, pq : Nat, ntotal : Nat, stored : SUBSET (Nat \X Nat)]

(* The values of the variables.                                            *)
TypeOK ==
  /\ prog \in [Procs -> {"builder", "server", "query"}]
  /\ pc \in [Procs -> Labels]
  /\ index \in [Procs -> Memory \cup {Null}]
  /\ at \in [Procs -> 0 .. NParts + 1]
  /\ Exists => Len(file) <= NParts
  /\ trainings \in 0 .. MaxTrainings

Parts == {Hole} \cup [coarse : Nat, ntotal : Nat]
                \cup [stored : SUBSET (Nat \X Nat)] \cup [pq : Nat]

ASSUME NullIsNoFile == Null \notin Seq(Parts)

(* An index is never searched with the quantizers of two trainings, even   *)
(* if builders and readers are killed and overlap in any way, except after *)
(* two builders were past the check for the file at once.                  *)
OneTraining ==
  \A p \in Procs :
    pc[p] \in {"saved", "search"} /\ ~overlap => /\ index[p].coarse = index[p].pq
                                                 /\ index[p].pq > 0

(* The answer of a search is a row of the data file: label r is row r in   *)
(* every process that searches its data, because the index is saved before *)
(* the vectors are added, even when the file mixes the writes of two.      *)
(* The query program adds no row after reading the file: it has none to    *)
(* find (FeatureWithAttrTest.cpp:19-23 announces a faiss search).          *)
LabelsAreRows ==
  \A p \in Procs :
    pc[p] = "search" => \A s \in index[p].stored : s[1] = s[2]

Loaded(p) == pc[p] = "loaded" /\ index[p] # Null

\* A process holds an index wherever its program uses one, and none before.
Holding ==
  \A p \in Procs :
    /\ pc[p] = "start" => index[p] = Null
    /\ pc[p] \in {"check", "open", "write", "read", "saved", "search"}
         => index[p] \in Memory
    /\ pc[p] \in {"write", "read"} => at[p] \in 1 .. NParts /\ Exists

\* No vector is in it before AddItemList, nor in any part of the file.
Unfilled ==
  /\ \A p \in Procs :
       pc[p] \in {"check", "open", "write", "read", "saved"} \/ Loaded(p)
         => index[p].stored = {} /\ index[p].ntotal = 0
  /\ Exists => /\ file \in Seq(Parts)
               /\ Len(file) >= 1 /\ file[1] # Hole
                    => file[1] \in [coarse : Nat, ntotal : {0}]
               /\ Len(file) >= 2 /\ file[2] # Hole => file[2] = [stored |-> {}]
               /\ Len(file) >= 3 /\ file[3] # Hole => file[3] \in [pq : Nat]

\* A builder that has not saved has the quantizers of its own training.
Trained ==
  \A p \in Procs : pc[p] \in {"check", "open", "write"}
                     => index[p].coarse = index[p].pq /\ index[p].pq > 0

\* Without an overlap there is one writer, it creates the file and goes on
\* at its end, and every part of the file is of one training.
OneWriter ==
  ~overlap =>
    \A p \in Procs :
      /\ Writing(p) => \A q \in Procs : Writing(q) => p = q
      /\ pc[p] = "open" => ~Exists
      /\ pc[p] = "write" => /\ Len(file) = at[p] - 1
                            /\ at[p] > 1 => file[1].coarse = index[p].coarse

OneSource ==
  ~overlap /\ Exists =>
    /\ Len(file) >= 1 => /\ file[1] \in [coarse : Nat, ntotal : {0}]
                         /\ file[1].coarse > 0
    /\ Len(file) >= 3 => file[3].pq = file[1].coarse

\* What was read so far is of the file as it is now.
ReadSoFar ==
  ~overlap =>
    \A p \in Procs :
      /\ pc[p] = "read" /\ at[p] > 1
           => Len(file) >= 1 /\ index[p].coarse = file[1].coarse
      /\ Loaded(p) => index[p].coarse = index[p].pq /\ index[p].pq > 0

(* The inductive invariant: a file of one training, written by one process *)
(* and read as it grows, as long as no two builders passed the check; and  *)
(* no vector in any index before its program adds the rows.                *)
IInv == /\ TypeOK /\ Holding /\ Unfilled /\ Trained
        /\ OneWriter /\ OneSource /\ ReadSoFar
        /\ OneTraining /\ LabelsAreRows

(* But for such an overlap, a file nobody has open never changes.  A saved *)
(* index survives every later builder, and a file cut short by a kill or a *)
(* full disk stays in the way of every later save.                         *)
(* testRetrieval.cpp:53 prints "Index Save Done" over it none the less.    *)
ClosedFileIsFinal ==
  [][Exists /\ ~overlap /\ (\A p \in Procs : pc[p] # "write") => file' = file]_vars
=============================================================================
