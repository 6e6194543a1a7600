------------------------ MODULE IndexAndSearchProofs -----------------------
(***************************************************************************)
(* The programs that share an index file, and the search they make in the  *)
(* index.  For any number of programs, trainings and rows: IInv of         *)
(* IndexPrograms is inductive, and a file nobody has open is final.  For   *)
(* any lists, query, nprobe, k and max_codes: SInv of KnnSearch is         *)
(* inductive, on lemmas about the heaps of ResultHeap of any size.         *)
(***************************************************************************)
EXTENDS IndexPrograms, KnnSearch, FiniteSetTheorems, WellFoundedInduction, TLAPS

-----------------------------------------------------------------------------
(* The programs that share an index file.                                  *)

(* What is on disk after a write at the offset of part n.                  *)
LEMMA WrittenFacts ==
  ASSUME NEW f \in Seq(Parts), NEW n \in 1 .. 3, NEW x \in Parts, Len(f) <= 3
  PROVE  /\ Written(f, n, x) \in Seq(Parts)
         /\ Len(Written(f, n, x)) = IF Len(f) > n THEN Len(f) ELSE n
         /\ Written(f, n, x)[n] = x
         /\ \A m \in 1 .. 3 : m <= Len(f) /\ m # n => Written(f, n, x)[m] = f[m]
         /\ \A m \in 1 .. 3 : Len(f) < m /\ m < n => Written(f, n, x)[m] = Hole
<1> DEFINE size == IF Len(f) > n THEN Len(f) ELSE n
           W(m) == IF m = n THEN x ELSE IF m <= Len(f) THEN f[m] ELSE Hole
<1>1. size \in Nat /\ Len(f) \in Nat /\ n <= size
  OBVIOUS
<1>2. \A m \in 1 .. size : W(m) \in Parts
  BY <1>1 DEF Parts
<1>3. Written(f, n, x) = [m \in 1 .. size |-> W(m)]
  BY DEF Written
<1>4. [m \in 1 .. size |-> W(m)] \in Seq(Parts) /\ Len([m \in 1 .. size |-> W(m)]) = size
  BY <1>1, <1>2
<1>5. \A m \in 1 .. size : Written(f, n, x)[m] = W(m)
  BY <1>3
<1> HIDE DEF size, W
<1>6. Written(f, n, x) \in Seq(Parts) /\ Len(Written(f, n, x)) = size
  BY <1>3, <1>4
<1> QED
  BY <1>1, <1>5, <1>6 DEF size, W

(* Nothing has started: no index, no file.                                 *)
LEMMA InitInv == Init => IInv
<1> SUFFICES ASSUME Init PROVE IInv
  OBVIOUS
<1> USE DEF Init, Exists
<1>1. TypeOK
  BY RowsNat DEF TypeOK, Labels, NParts
<1>2. Holding /\ Unfilled /\ Trained
  BY DEF Holding, Unfilled, Trained, Loaded
<1>3. OneWriter /\ OneSource /\ ReadSoFar
  BY DEF OneWriter, OneSource, ReadSoFar, Writing, Loaded
<1>4. OneTraining /\ LabelsAreRows
  BY DEF OneTraining, LabelsAreRows
<1> QED
  BY <1>1, <1>2, <1>3, <1>4 DEF IInv

(* A process that dies leaves the file as it is and holds nothing.         *)
LEMMA DieInv ==
  ASSUME IInv, NEW p \in Procs, Die(p), UNCHANGED <<prog, file, trainings, overlap>>
  PROVE  IInv'
<1> USE DEF IInv, Die, Go
<1>1. TypeOK'
  BY DEF TypeOK, Labels, Exists, NParts
<1>2. Holding' /\ Unfilled' /\ Trained'
  BY DEF TypeOK, Holding, Unfilled, Trained, Loaded, Exists
<1>3. OneWriter' /\ OneSource' /\ ReadSoFar'
  BY DEF TypeOK, OneWriter, OneSource, ReadSoFar, Writing, Loaded, Exists
<1>4. OneTraining' /\ LabelsAreRows'
  BY DEF TypeOK, OneTraining, LabelsAreRows
<1> QED
  BY <1>1, <1>2, <1>3, <1>4

(* The builder's own training: its index is whole and holds no vector.     *)
LEMMA BuildInv == ASSUME IInv, NEW p \in Procs, Build(p) PROVE IInv'
<1> USE DEF IInv, Build, BuildHolding, Go
<1>1. trainings \in Nat /\ trainings' = trainings + 1 /\ trainings' <= MaxTrainings
  BY RowsNat DEF TypeOK
<1>2. /\ index' = [index EXCEPT ![p] = index'[p]]
      /\ index'[p] = [coarse |-> trainings', pq |-> trainings', ntotal |-> 0, stored |-> {}]
      /\ pc' = [pc EXCEPT ![p] = "check"]
  BY DEF TypeOK
<1>3. /\ index'[p] \in Memory /\ index'[p].stored = {} /\ index'[p].ntotal = 0
      /\ index'[p].coarse = index'[p].pq /\ index'[p].pq > 0
  BY <1>1, <1>2 DEF Memory
<1>4. TypeOK'
  BY <1>1, <1>2, <1>3 DEF TypeOK, Labels, Exists, NParts
<1>5. Holding' /\ Unfilled' /\ Trained'
  BY <1>2, <1>3 DEF TypeOK, Holding, Unfilled, Trained, Loaded, Exists
<1>6. OneWriter' /\ OneSource' /\ ReadSoFar'
  BY <1>2, <1>3 DEF TypeOK, OneWriter, OneSource, ReadSoFar, Writing, Loaded, Exists
<1>7. OneTraining' /\ LabelsAreRows'
  BY <1>2, <1>3 DEF TypeOK, OneTraining, LabelsAreRows
<1> QED
  BY <1>4, <1>5, <1>6, <1>7

(* Whoever passes the check finds no file, and nobody between the check    *)
(* and the end of a write, unless there is an overlap.                     *)
LEMMA CheckInv == ASSUME IInv, NEW p \in Procs, Check(p) PROVE IInv'
<1> USE DEF IInv, Check, Go
<1>1. TypeOK'
  BY DEF TypeOK, Labels, Exists, NParts
<1>2. Holding' /\ Unfilled' /\ Trained'
  BY DEF TypeOK, Holding, Unfilled, Trained, Loaded, Exists
<1>3. OneWriter'
  BY DEF TypeOK, OneWriter, Writing, Exists, Holding
<1>4. OneSource' /\ ReadSoFar'
  BY DEF TypeOK, OneSource, ReadSoFar, Loaded, Exists
<1>5. overlap => overlap'
  OBVIOUS
<1>6. /\ pc' \in [Procs -> Labels] /\ index' = index
      /\ \A q \in Procs : q # p => pc'[q] = pc[q]
      /\ pc[p] = "check" /\ pc'[p] # "search"
  BY DEF TypeOK, Labels
<1>7. OneTraining'
  BY <1>5, <1>6 DEF OneTraining, Trained
<1>8. LabelsAreRows'
  BY <1>6 DEF LabelsAreRows
<1> QED
  BY <1>1, <1>2, <1>3, <1>4, <1>7, <1>8

(* fopen makes an empty file, where there was none unless there was an     *)
(* overlap.                                                                *)
LEMMA OpenInv == ASSUME IInv, NEW p \in Procs, Open(p) PROVE IInv'
<1> USE DEF IInv, Open, Go
<1>0. <<>> \in Seq(Parts) /\ Len(<<>>) = 0
  OBVIOUS
<1>1. /\ file' = <<>> /\ Len(file') = 0 /\ file' \in Seq(Parts) /\ Exists'
  BY <1>0, NullIsNoFile DEF Exists
<1>2. TypeOK'
  BY <1>1 DEF TypeOK, Labels, NParts
<1>3. Holding' /\ Trained'
  BY <1>1 DEF TypeOK, Holding, Trained, NParts
<1>4. Unfilled'
  BY <1>1 DEF TypeOK, Unfilled, Loaded
<1>5. OneWriter' /\ OneSource'
  BY <1>1 DEF TypeOK, OneWriter, OneSource, Writing
<1>6. ReadSoFar'
  BY <1>1 DEF TypeOK, OneWriter, ReadSoFar, Loaded, Holding, Writing
<1>7. OneTraining' /\ LabelsAreRows'
  BY DEF TypeOK, OneTraining, LabelsAreRows
<1> QED
  BY <1>2, <1>3, <1>4, <1>5, <1>6, <1>7

(* A part is written at the end of the only writer's file; with an overlap *)
(* wherever the writer's stream is, and then only the shape is known.      *)
LEMMA PartFacts ==
  ASSUME NEW ix \in Memory, NEW n \in 1 .. 3
  PROVE  /\ Part(ix, n) \in Parts
         /\ n = 1 => Part(ix, n) = [coarse |-> ix.coarse, ntotal |-> ix.ntotal]
         /\ n = 2 => Part(ix, n) = [stored |-> ix.stored]
         /\ n = 3 => Part(ix, n) = [pq |-> ix.pq] /\ Part(ix, n) \in [pq : Nat]
<1> USE DEF Memory, Parts, Part
<1>1. CASE n = 1
  BY <1>1
<1>2. CASE n = 2
  BY <1>2
<1>3. CASE n = 3
  BY <1>3
<1> QED
  BY <1>1, <1>2, <1>3

LEMMA WritePartInv == ASSUME IInv, NEW p \in Procs, WritePart(p) PROVE IInv'
<1> DEFINE n == at[p]
           x == Part(index[p], n)
           g == Written(file, n, x)
<1>0. /\ pc[p] = "write" /\ n \in 1 .. 3 /\ Exists /\ index[p] \in Memory
      /\ index[p].stored = {} /\ index[p].ntotal = 0
      /\ index[p].coarse = index[p].pq /\ index[p].pq > 0
      /\ Len(file) \in Nat /\ Len(file) <= 3
  <2>1. pc[p] = "write" /\ IInv
    BY DEF WritePart
  <2>2. n \in 1 .. 3 /\ Exists /\ index[p] \in Memory
    BY <2>1 DEF IInv, Holding, NParts
  <2>3. /\ index[p].stored = {} /\ index[p].ntotal = 0
        /\ index[p].coarse = index[p].pq /\ index[p].pq > 0
    BY <2>1 DEF IInv, Unfilled, Trained
  <2>4. file \in Seq(Parts)
    BY <2>1, <2>2 DEF IInv, Unfilled
  <2>5. Len(file) \in Nat
    BY <2>4
  <2>6. Len(file) <= 3
    BY <2>1, <2>2 DEF IInv, TypeOK, NParts
  <2> QED
    BY <2>1, <2>2, <2>3, <2>5, <2>6
<1>s. file \in Seq(Parts)
  BY <1>0 DEF IInv, Unfilled
<1>1. ASSUME file' = g, at' = [at EXCEPT ![p] = @ + 1],
             Go(p, IF n = NParts THEN "saved" ELSE "write"),
             UNCHANGED <<index, prog, trainings, overlap>>
      PROVE  IInv'
  <2>1. /\ g \in Seq(Parts) /\ Len(g) = (IF Len(file) > n THEN Len(file) ELSE n)
        /\ g[n] = x
        /\ \A m \in 1 .. 3 : m <= Len(file) /\ m # n => g[m] = file[m]
        /\ \A m \in 1 .. 3 : Len(file) < m /\ m < n => g[m] = Hole
    <3>1. x \in Parts
      BY <1>0, PartFacts
    <3>2. Len(file) <= 3 /\ n \in 1 .. 3
      BY <1>0
    <3> HIDE DEF n, x
    <3>3. g \in Seq(Parts)
      BY <1>s, <3>1, <3>2, WrittenFacts
    <3>4. Len(g) = (IF Len(file) > n THEN Len(file) ELSE n)
      BY <1>s, <3>1, <3>2, WrittenFacts
    <3>5. g[n] = x
      BY <1>s, <3>1, <3>2, WrittenFacts
    <3>6. \A m \in 1 .. 3 : m <= Len(file) /\ m # n => g[m] = file[m]
      BY <1>s, <3>1, <3>2, WrittenFacts, ZenonT(60)
    <3>7. \A m \in 1 .. 3 : Len(file) < m /\ m < n => g[m] = Hole
      BY <1>s, <3>1, <3>2, WrittenFacts, ZenonT(60)
    <3> HIDE DEF g
    <3> QED
      BY <3>3, <3>4, <3>5, <3>6, <3>7
  <2>2. /\ n = 1 => x = [coarse |-> index[p].coarse, ntotal |-> 0]
        /\ n = 2 => x = [stored |-> {}]
        /\ n = 3 => x = [pq |-> index[p].pq] /\ x \in [pq : Nat]
    BY <1>0, PartFacts
  <2> HIDE DEF g, x
  <2>s. file' = g /\ file' \in Seq(Parts)
    BY <1>1, <2>1
  <2>3. file' = g /\ Exists' /\ Len(g) >= 1 /\ Len(g) <= 3
    <3>1. Exists'
      BY <2>s, NullIsNoFile DEF Exists
    <3>2. Len(g) >= 1 /\ Len(g) <= 3
      BY <1>0, <2>1
    <3> QED
      BY <2>s, <3>1, <3>2
  <2>4. /\ index' = index /\ overlap' = overlap
        /\ pc'[p] = (IF n = 3 THEN "saved" ELSE "write") /\ at'[p] = n + 1
        /\ \A q \in Procs : q # p => pc'[q] = pc[q] /\ at'[q] = at[q]
    BY <1>0, <1>1 DEF IInv, TypeOK, Go, NParts
  <2>5. TypeOK'
    <3>1. at' \in [Procs -> 0 .. NParts + 1]
      BY <1>0, <1>1 DEF IInv, TypeOK, NParts
    <3>2. pc' \in [Procs -> Labels]
      BY <1>1 DEF IInv, TypeOK, Labels, Go
    <3>3. Len(file') <= NParts
      BY <2>3 DEF NParts
    <3> QED
      BY <1>1, <3>1, <3>2, <3>3 DEF IInv, TypeOK
  <2>6. Holding'
    BY <1>0, <2>3, <2>4 DEF IInv, Holding, NParts
  <2>7. Trained'
    BY <1>0, <2>4 DEF IInv, Trained
  <2>8. /\ Len(g) >= 1 /\ g[1] # Hole => g[1] \in [coarse : Nat, ntotal : {0}]
        /\ Len(g) >= 2 /\ g[2] # Hole => g[2] = [stored |-> {}]
        /\ Len(g) >= 3 /\ g[3] # Hole => g[3] \in [pq : Nat]
    <3>1. index[p].coarse \in Nat
      BY <1>0 DEF Memory
    <3>2. /\ Len(file) >= 1 /\ file[1] # Hole => file[1] \in [coarse : Nat, ntotal : {0}]
          /\ Len(file) >= 2 /\ file[2] # Hole => file[2] = [stored |-> {}]
          /\ Len(file) >= 3 /\ file[3] # Hole => file[3] \in [pq : Nat]
      BY <1>0 DEF IInv, Unfilled
    <3>3. \A m \in 1 .. 3 : m <= Len(g) /\ m # n =>
            \/ m <= Len(file) /\ g[m] = file[m]
            \/ g[m] = Hole
      BY <1>0, <2>1
    <3>4. Len(g) >= 1 /\ g[1] # Hole => g[1] \in [coarse : Nat, ntotal : {0}]
      BY <1>0, <2>1, <2>2, <3>1, <3>2, <3>3
    <3>5. Len(g) >= 2 /\ g[2] # Hole => g[2] = [stored |-> {}]
      <4>1. CASE n = 2
        BY <2>1, <2>2, <4>1
      <4>2. CASE n # 2
        <5>1. Len(g) >= 2 => (2 <= Len(file) /\ g[2] = file[2]) \/ g[2] = Hole
          BY <3>3, <4>2
        <5> QED
          BY <3>2, <5>1
      <4> QED
        BY <4>1, <4>2
    <3>6. Len(g) >= 3 /\ g[3] # Hole => g[3] \in [pq : Nat]
      BY <1>0, <2>1, <2>2, <3>2, <3>3
    <3> QED
      BY <3>4, <3>5, <3>6
  <2>9. Unfilled'
    BY <1>0, <2>s, <2>3, <2>4, <2>8 DEF IInv, Unfilled, Loaded
  <2>10. ASSUME ~overlap
         PROVE  /\ Len(file) = n - 1 /\ Len(g) = n
                /\ g[1].coarse = index[p].coarse /\ g[1].coarse > 0
                /\ g[1] \in [coarse : Nat, ntotal : {0}]
                /\ n >= 3 => g[3].pq = g[1].coarse
                /\ Len(file) >= 1 => file[1] = g[1]
    <3>1. Len(file) = n - 1 /\ (n > 1 => file[1].coarse = index[p].coarse)
      BY <1>0, <2>10 DEF IInv, OneWriter
    <3>2. Len(g) = n
      BY <1>0, <2>1, <3>1
    <3>3. CASE n = 1
      BY <1>0, <2>1, <2>2, <2>10, <3>1, <3>2, <3>3 DEF Memory
    <3>4. CASE n > 1
      <4>1. /\ file[1] \in [coarse : Nat, ntotal : {0}] /\ file[1].coarse > 0
            /\ g[1] = file[1]
        BY <1>0, <2>1, <2>10, <3>1, <3>4 DEF IInv, OneSource
      <4>2. n = 3 => g[3].pq = index[p].pq
        BY <2>1, <2>2
      <4> QED
        BY <1>0, <3>1, <3>2, <3>4, <4>1, <4>2
    <3> QED
      BY <1>0, <3>3, <3>4
  <2>11. OneWriter'
    <3> SUFFICES ASSUME ~overlap, NEW q \in Procs
                 PROVE  /\ Writing(q)' => \A r \in Procs : Writing(r)' => q = r
                        /\ pc'[q] = "open" => ~Exists'
                        /\ pc'[q] = "write" =>
                             /\ Len(file') = at'[q] - 1
                             /\ at'[q] > 1 => file'[1].coarse = index'[q].coarse
      BY <2>4 DEF OneWriter
    <3>1. \A r \in Procs : Writing(r) => r = p
      BY <1>0 DEF IInv, OneWriter, Writing
    <3>2. \A r \in Procs : Writing(r)' => r = p
      BY <2>4, <3>1 DEF Writing
    <3>3. pc'[q] # "open"
      BY <2>4, <3>1 DEF Writing
    <3>4. pc'[q] = "write" => q = p
      BY <3>2 DEF Writing
    <3>5. at'[p] - 1 = n
      BY <1>0, <2>4
    <3>6. Len(file') = n /\ file'[1].coarse = index'[p].coarse
      BY <2>3, <2>4, <2>10
    <3> QED
      BY <3>2, <3>3, <3>4, <3>5, <3>6
  <2>12. OneSource'
    BY <1>0, <2>3, <2>4, <2>10 DEF OneSource
  <2>13. ReadSoFar'
    BY <1>0, <2>3, <2>4, <2>10 DEF IInv, ReadSoFar, Loaded
  <2>14. OneTraining' /\ LabelsAreRows'
    BY <1>0, <2>4 DEF IInv, OneTraining, LabelsAreRows
  <2> QED
    BY <2>5, <2>6, <2>7, <2>9, <2>11, <2>12, <2>13, <2>14 DEF IInv
<1>2. ASSUME n = NParts, Go(p, "saved"), UNCHANGED <<index, at, file, prog, trainings, overlap>>
      PROVE  IInv'
  <2> USE <1>0, <1>2 DEF IInv, Go
  <2>1. TypeOK'
    BY DEF TypeOK, Labels, Exists
  <2>2. Holding' /\ Unfilled' /\ Trained'
    BY DEF TypeOK, Holding, Unfilled, Trained, Loaded, Exists
  <2>3. OneWriter' /\ OneSource' /\ ReadSoFar'
    BY DEF TypeOK, OneWriter, OneSource, ReadSoFar, Writing, Loaded, Exists
  <2>4. OneTraining' /\ LabelsAreRows'
    BY DEF TypeOK, OneTraining, LabelsAreRows
  <2> QED
    BY <2>1, <2>2, <2>3, <2>4
<1> QED
  BY <1>1, <1>2, DieInv DEF WritePart

(* A reader begins at the first part of a file that is there.              *)
LEMMA FindInv == ASSUME IInv, NEW p \in Procs, Find(p) PROVE IInv'
<1> USE DEF IInv, Find, Go
<1>1. Blank \in Memory /\ Blank.stored = {} /\ Blank.ntotal = 0
  BY DEF Blank, Memory
<1> HIDE DEF Blank
<1>2. TypeOK'
  BY <1>1 DEF TypeOK, Labels, NParts, Exists
<1>3. Holding'
  BY <1>1 DEF TypeOK, Holding, Exists, NParts
<1>4. Unfilled'
  BY <1>1 DEF TypeOK, Holding, Unfilled, Loaded, Exists
<1>5. Trained' /\ OneWriter' /\ OneSource'
  BY DEF TypeOK, Trained, OneWriter, OneSource, Writing, Exists
<1>7. ReadSoFar'
  BY DEF TypeOK, Holding, ReadSoFar, Loaded
<1>6. OneTraining' /\ LabelsAreRows'
  BY DEF TypeOK, OneTraining, LabelsAreRows
<1> QED
  BY <1>2, <1>3, <1>4, <1>5, <1>6, <1>7

(* A reader takes a part of the file as it is at that moment.              *)
LEMMA ReadPartInv == ASSUME IInv, NEW p \in Procs, ReadPart(p) PROVE IInv'
<1> DEFINE n == at[p]
           ix == TakePart(index[p], n)
<1>0. /\ pc[p] = "read" /\ n \in 1 .. 3 /\ Exists /\ index[p] \in Memory
      /\ index[p].stored = {} /\ index[p].ntotal = 0
  BY DEF IInv, ReadPart, Holding, Unfilled, NParts
<1>1. ASSUME Readable(n), index' = [index EXCEPT ![p] = TakePart(@, n)],
             at' = [at EXCEPT ![p] = @ + 1],
             Go(p, IF n = NParts THEN "loaded" ELSE "read"),
             UNCHANGED <<prog, file, trainings, overlap>>
      PROVE  IInv'
  <2>1. /\ file \in Seq(Parts) /\ Len(file) \in Nat /\ n <= Len(file)
        /\ Len(file) >= 1 /\ file[1] # Hole => file[1] \in [coarse : Nat, ntotal : {0}]
        /\ Len(file) >= 2 /\ file[2] # Hole => file[2] = [stored |-> {}]
        /\ Len(file) >= 3 /\ file[3] # Hole => file[3] \in [pq : Nat]
    BY <1>0, <1>1 DEF IInv, Unfilled, Readable
  <2>2. /\ ix \in Memory /\ ix.stored = {} /\ ix.ntotal = 0
        /\ n = 1 => ix.coarse = file[1].coarse
        /\ n > 1 => ix.coarse = index[p].coarse
        /\ n = 3 => ix.pq = file[3].pq
    <3>1. CASE n = 1
      <4>1. file[1] \in [coarse : Nat, ntotal : {0}]
        BY <1>1, <2>1, <3>1 DEF Readable
      <4>2. ix = [index[p] EXCEPT !.coarse = file[1].coarse, !.ntotal = file[1].ntotal]
        BY <3>1 DEF TakePart
      <4> HIDE DEF ix
      <4>3. /\ ix.stored = index[p].stored /\ ix.ntotal = file[1].ntotal
            /\ ix.coarse = file[1].coarse /\ ix \in Memory
        BY <1>0, <4>1, <4>2 DEF Memory
      <4> QED
        BY <1>0, <3>1, <4>1, <4>3
    <3>2. CASE n = 2
      <4>1. file[2] = Hole \/ file[2] = [stored |-> {}]
        BY <2>1, <3>2
      <4>2. file[2] # Hole => file[2].stored = {}
        BY <4>1
      <4>3. ix = IF file[2] = Hole THEN index[p]
                 ELSE [index[p] EXCEPT !.stored = file[2].stored]
        BY <3>2 DEF TakePart
      <4> HIDE DEF ix
      <4>4. ix \in Memory /\ ix.stored = {} /\ ix.ntotal = 0 /\ ix.coarse = index[p].coarse
        BY <1>0, <4>2, <4>3 DEF Memory
      <4> QED
        BY <3>2, <4>4
    <3>3. CASE n = 3
      <4>1. ix = [index[p] EXCEPT !.pq = file[3].pq]
        BY <3>3 DEF TakePart
      <4>2. file[3] \in [pq : Nat]
        BY <1>1, <2>1, <3>3 DEF Readable
      <4> QED
        BY <1>0, <3>3, <4>1, <4>2 DEF Memory
    <3> QED
      BY <1>0, <3>1, <3>2, <3>3
  <2>3. /\ index' = [index EXCEPT ![p] = ix] /\ index'[p] = ix
        /\ pc'[p] = (IF n = 3 THEN "loaded" ELSE "read") /\ at'[p] = n + 1
        /\ \A q \in Procs : q # p => pc'[q] = pc[q] /\ at'[q] = at[q] /\ index'[q] = index[q]
    BY <1>0, <1>1 DEF IInv, TypeOK, Go, NParts
  <2>4. file' = file /\ overlap' = overlap
    BY <1>1
  <2> HIDE DEF ix
  <2>5. TypeOK'
    <3>1. at' \in [Procs -> 0 .. NParts + 1]
      BY <1>0, <1>1 DEF IInv, TypeOK, NParts
    <3>2. pc' \in [Procs -> Labels]
      BY <1>1 DEF IInv, TypeOK, Labels, Go
    <3>3. index' \in [Procs -> Memory \cup {Null}]
      BY <2>2, <2>3 DEF IInv, TypeOK
    <3> QED
      BY <1>1, <3>1, <3>2, <3>3 DEF IInv, TypeOK, Exists
  <2>6. Holding' /\ Trained'
    BY <1>0, <2>2, <2>3, <2>4 DEF IInv, Holding, Trained, Exists, NParts
  <2>7. Unfilled'
    BY <1>0, <2>2, <2>3, <2>4 DEF IInv, Unfilled, Loaded, Exists
  <2>8. OneWriter' /\ OneSource'
    BY <1>0, <2>3, <2>4 DEF IInv, OneWriter, OneSource, Writing, Exists
  <2>9. ReadSoFar'
    <3>1. ASSUME ~overlap
          PROVE  /\ ix.coarse = file[1].coarse /\ Len(file) >= 1
                 /\ n = 3 => ix.coarse = ix.pq /\ ix.pq > 0
      <4>1. Len(file) >= 1 /\ file[1].coarse > 0
        BY <1>0, <2>1, <3>1 DEF IInv, OneSource
      <4>2. n > 1 => index[p].coarse = file[1].coarse
        BY <1>0, <3>1 DEF IInv, ReadSoFar
      <4>3. n = 3 => file[3].pq = file[1].coarse
        BY <1>0, <2>1, <3>1 DEF IInv, OneSource
      <4> QED
        BY <1>0, <2>2, <4>1, <4>2, <4>3
    <3> QED
      BY <1>0, <2>3, <2>4, <3>1 DEF IInv, ReadSoFar, Loaded
  <2>10. OneTraining' /\ LabelsAreRows'
    BY <1>0, <2>3, <2>4 DEF IInv, OneTraining, LabelsAreRows
  <2> QED
    BY <2>5, <2>6, <2>7, <2>8, <2>9, <2>10 DEF IInv
<1> QED
  BY <1>1, DieInv DEF ReadPart

LEMMA ConfigureInv == ASSUME IInv, NEW p \in Procs, Configure(p) PROVE IInv'
<1>1. CASE index[p] # Null /\ UNCHANGED <<index, at>>
           /\ Go(p, IF prog[p] = "server" THEN "saved" ELSE "search")
  <2> USE <1>1 DEF IInv, Configure, Go
  <2>1. TypeOK'
    BY DEF TypeOK, Labels, Exists
  <2>2. Holding' /\ Unfilled' /\ Trained'
    BY DEF TypeOK, Holding, Unfilled, Trained, Loaded, Exists
  <2>3. OneWriter' /\ OneSource' /\ ReadSoFar'
    BY DEF TypeOK, OneWriter, OneSource, ReadSoFar, Writing, Loaded, Exists
  <2>4. OneTraining' /\ LabelsAreRows'
    BY DEF TypeOK, OneTraining, LabelsAreRows, ReadSoFar, Unfilled, Loaded
  <2> QED
    BY <2>1, <2>2, <2>3, <2>4
<1> QED
  BY <1>1, DieInv DEF Configure

(* Added to an empty index, row r gets label r.                            *)
LEMMA AddItemListInv == ASSUME IInv, NEW p \in Procs, AddItemList(p) PROVE IInv'
<1> DEFINE ix == [index[p] EXCEPT !.ntotal = @ + Rows,
                                  !.stored = @ \cup FromRow(index[p].ntotal)]
<1>0. /\ pc[p] = "saved" /\ index[p] \in Memory
      /\ index[p].stored = {} /\ index[p].ntotal = 0
  BY DEF IInv, AddItemList, Holding, Unfilled
<1>1. FromRow(0) \in SUBSET (Nat \X Nat)
  BY RowsNat DEF FromRow
<1>r. \A s \in FromRow(0) : s[1] = s[2]
  BY RowsNat DEF FromRow
<1>2. /\ ix \in Memory /\ ix.stored = FromRow(0)
      /\ ix.coarse = index[p].coarse /\ ix.pq = index[p].pq
  <2> HIDE DEF ix
  <2>1. ix = [index[p] EXCEPT !.ntotal = 0 + Rows, !.stored = {} \cup FromRow(0)]
    BY <1>0 DEF ix
  <2>2. ix = [index[p] EXCEPT !.ntotal = Rows, !.stored = FromRow(0)]
    <3>1. 0 + Rows = Rows
      BY RowsNat
    <3>2. {} \cup FromRow(0) = FromRow(0)
      OBVIOUS
    <3> QED
      BY <2>1, <3>1, <3>2
  <2> QED
    <3>1. ix \in Memory
      BY <1>0, <1>1, <2>2, RowsNat DEF Memory
    <3>2. ix.stored = FromRow(0)
      BY <1>0, <2>2 DEF Memory
    <3>3. ix.coarse = index[p].coarse /\ ix.pq = index[p].pq
      BY <1>0, <2>2 DEF Memory
    <3> QED
      BY <3>1, <3>2, <3>3
<1>3. index' = [index EXCEPT ![p] = ix] /\ index'[p] = ix
  BY DEF IInv, AddItemList, TypeOK
<1>4. /\ pc' = [pc EXCEPT ![p] = "search"] /\ pc'[p] = "search"
      /\ UNCHANGED <<prog, at, file, trainings, overlap>>
  BY DEF IInv, AddItemList, Go, TypeOK
<1> HIDE DEF ix
<1> USE DEF IInv
<1>5. TypeOK'
  BY <1>2, <1>3, <1>4 DEF TypeOK, Labels, Exists
<1>6. Holding' /\ Unfilled' /\ Trained'
  BY <1>2, <1>3, <1>4 DEF TypeOK, Holding, Unfilled, Trained, Loaded, Exists
<1>7. OneWriter' /\ OneSource' /\ ReadSoFar'
  BY <1>3, <1>4 DEF TypeOK, OneWriter, OneSource, ReadSoFar, Writing, Loaded, Exists
<1>8. OneTraining'
  BY <1>0, <1>2, <1>3, <1>4 DEF TypeOK, OneTraining
<1>9. LabelsAreRows'
  BY <1>2, <1>3, <1>4, <1>r DEF TypeOK, LabelsAreRows
<1> QED
  BY <1>5, <1>6, <1>7, <1>8, <1>9

LEMMA SearchInv == ASSUME IInv, NEW p \in Procs, Search(p) PROVE IInv'
<1> USE DEF IInv, Search, Go
<1>1. TypeOK'
  BY DEF TypeOK, Labels, Exists
<1>2. Holding' /\ Unfilled' /\ Trained'
  BY DEF TypeOK, Holding, Unfilled, Trained, Loaded, Exists
<1>3. OneWriter' /\ OneSource' /\ ReadSoFar'
  BY DEF TypeOK, OneWriter, OneSource, ReadSoFar, Writing, Loaded, Exists
<1>4. OneTraining' /\ LabelsAreRows'
  BY DEF TypeOK, OneTraining, LabelsAreRows
<1> QED
  BY <1>1, <1>2, <1>3, <1>4

LEMMA StartInv == ASSUME IInv, NEW p \in Procs, Start(p) PROVE IInv'
<1> USE DEF IInv, Start, Go
<1>1. TypeOK'
  BY DEF TypeOK, Labels, Exists, NParts
<1>2. Holding' /\ Unfilled' /\ Trained'
  BY DEF TypeOK, Holding, Unfilled, Trained, Loaded, Exists
<1>3. OneWriter' /\ OneSource' /\ ReadSoFar'
  BY DEF TypeOK, OneWriter, OneSource, ReadSoFar, Writing, Loaded, Exists
<1>4. OneTraining' /\ LabelsAreRows'
  BY DEF TypeOK, OneTraining, LabelsAreRows
<1> QED
  BY <1>1, <1>2, <1>3, <1>4

LEMMA StutterInv == ASSUME IInv, UNCHANGED vars PROVE IInv'
<1> USE DEF IInv, vars
<1>1. TypeOK' /\ Holding' /\ Unfilled' /\ Trained'
  BY DEF TypeOK, Holding, Unfilled, Trained, Loaded, Exists
<1>2. OneWriter' /\ OneSource' /\ ReadSoFar'
  BY DEF OneWriter, OneSource, ReadSoFar, Writing, Loaded, Exists
<1>3. OneTraining' /\ LabelsAreRows'
  BY DEF OneTraining, LabelsAreRows
<1> QED
  BY <1>1, <1>2, <1>3

(* Every state the programs reach, killed and started again in any order,  *)
(* satisfies the inductive invariant.                                      *)
THEOREM Invariance == Spec => []IInv
<1>1. ASSUME IInv, [Next]_vars PROVE IInv'
  <2>1. CASE UNCHANGED vars
    BY <1>1, <2>1, StutterInv
  <2>2. ASSUME NEW p \in Procs, Step(p) PROVE IInv'
    BY <1>1, <2>2, BuildInv, CheckInv, OpenInv, WritePartInv, FindInv, ReadPartInv,
       ConfigureInv, AddItemListInv, SearchInv DEF Step
  <2>3. ASSUME NEW p \in Procs, Kill(p) PROVE IInv'
    BY <1>1, <2>3, DieInv DEF Kill
  <2>4. ASSUME NEW p \in Procs, Start(p) PROVE IInv'
    BY <1>1, <2>4, StartInv
  <2> QED
    BY <1>1, <2>1, <2>2, <2>3, <2>4 DEF Next
<1> QED
  BY InitInv, <1>1, PTL DEF Spec

(* The variables stay in their sets.                                       *)
THEOREM TypeSafe == Spec => []TypeOK
<1>1. IInv => TypeOK
  BY DEF IInv
<1> QED
  BY Invariance, <1>1, PTL

(* No index is searched with the quantizers of two trainings, unless two   *)
(* builders passed the check of WriteIndexToFile together.                 *)
THEOREM OneTrainingSafe == Spec => []OneTraining
<1>1. IInv => OneTraining
  BY DEF IInv
<1> QED
  BY Invariance, <1>1, PTL

(* Label r is row r wherever an index is searched, overlaps included.      *)
THEOREM LabelsSafe == Spec => []LabelsAreRows
<1>1. IInv => LabelsAreRows
  BY DEF IInv
<1> QED
  BY Invariance, <1>1, PTL

(* Without an overlap, a file nobody is writing stays as it is.            *)
THEOREM ClosedFileSafe == Spec => ClosedFileIsFinal
<1> DEFINE Closed == Exists /\ ~overlap /\ \A p \in Procs : pc[p] # "write"
<1>1. ASSUME IInv, [Next]_vars, Closed PROVE file' = file
  <2>1. \A p \in Procs : ~Open(p) /\ ~WritePart(p)
    BY <1>1 DEF IInv, OneWriter, Open, WritePart
  <2>2. ASSUME NEW p \in Procs, Step(p) \/ Kill(p) \/ Start(p) PROVE file' = file
    BY <2>1, <2>2 DEF Step, Kill, Start, Build, BuildHolding, Check, Find, ReadPart,
                      Configure, AddItemList, Search
  <2> QED
    BY <1>1, <2>2 DEF Next, vars
<1>2. IInv /\ [Next]_vars => [Closed => file' = file]_vars
  BY <1>1
<1> QED
  BY Invariance, <1>2, PTL DEF Spec, ClosedFileIsFinal

-----------------------------------------------------------------------------
(* Induction and recursion over a rank.                                    *)

\* A set of natural numbers has a least one.
LEMMA LeastOf ==
  ASSUME NEW S \in SUBSET Nat, S # {}
  PROVE  \E x \in S : \A y \in S : x <= y
<1>1. PICK x \in S : \A y \in S : ~(<<y, x>> \in OpToRel(<, Nat))
  BY NatLessThanWellFounded, WFMin, Zenon
<1>2. \A y \in S : ~(y < x)
  BY <1>1, Zenon DEF OpToRel
<1> QED BY <1>2

Progressive(Good, D, rank) ==
  \A d \in D : (\A b \in D : rank[b] < rank[d] => b \in Good) => d \in Good

\* What holds of an element when it holds of those of smaller rank holds of all.
LEMMA RankInduction ==
  ASSUME NEW D, NEW rank \in [D -> Nat], NEW Good, Progressive(Good, D, rank)
  PROVE  \A d \in D : d \in Good
<1> SUFFICES ASSUME NEW bad \in D, bad \notin Good PROVE FALSE
  OBVIOUS
<1>1. PICK S : S = {rank[d] : d \in {d \in D : d \notin Good}}
  OBVIOUS
<1>2. S \in SUBSET Nat /\ S # {}
  BY <1>1
<1>3. PICK x \in S : \A y \in S : x <= y
  BY <1>2, LeastOf
<1>4. PICK d \in D : d \notin Good /\ rank[d] = x
  BY <1>1
<1>5. ASSUME NEW b \in D, rank[b] < rank[d], b \notin Good PROVE FALSE
  <2>1. rank[b] \in S
    BY <1>1, <1>5
  <2>2. x <= rank[b] /\ rank[b] \in Nat /\ x \in Nat
    BY <1>2, <1>3, <2>1
  <2> QED BY <1>4, <1>5, <2>2
<1>6. d \in Good
  BY <1>5, Zenon DEF Progressive
<1> QED BY <1>4, <1>6

Bounded(rank, D, last) == \A d \in D : rank[d] < last

LooksBelow(F, D, S, rank) ==
  \A f, g \in [D -> S] : \A d \in D :
    (\A b \in D : rank[b] < rank[d] => f[b] = g[b]) => F[f][d] = F[g][d]

IsFixed(f, F) == f = F[f]

\* A function is defined by a step that looks only at places of smaller rank.
LEMMA Recursion ==
  ASSUME NEW D, NEW S, S # {}, NEW F \in [[D -> S] -> [D -> S]],
         NEW rank \in [D -> Nat], NEW last \in Nat, Bounded(rank, D, last),
         LooksBelow(F, D, S, rank)
  PROVE  \E f \in [D -> S] : IsFixed(f, F)
<1> DEFINE Upto(m, f) == \A d \in D : rank[d] < m => f[d] = F[f][d]
           Good == {m \in 0 .. last : \E f \in [D -> S] : Upto(m, f)}
<1>1. \A m \in 0 .. last : m \in Good
  <2>1. PICK same : same = [m \in 0 .. last |-> m]
    OBVIOUS
  <2>2. same \in [0 .. last -> Nat]
    BY <2>1
  <2>3. ASSUME NEW m \in 0 .. last, \A b \in 0 .. last : same[b] < same[m] => b \in Good
        PROVE  m \in Good
    <3>1. CASE m = 0
      <4>1. PICK s : s \in S
        OBVIOUS
      <4>2. PICK f : f = [d \in D |-> s]
        OBVIOUS
      <4>3. f \in [D -> S] /\ Upto(0, f)
        BY <4>1, <4>2
      <4> QED BY <3>1, <4>3
    <3>2. CASE m # 0
      <4>1. m - 1 \in 0 .. last /\ same[m - 1] < same[m]
        BY <2>1, <3>2
      <4>2. PICK f \in [D -> S] : Upto(m - 1, f)
        BY <2>3, <4>1
      <4>3. F[f] \in [D -> S]
        BY <4>2
      <4>4. ASSUME NEW d \in D, rank[d] < m PROVE F[f][d] = F[F[f]][d]
        <5>1. \A b \in D : rank[b] < rank[d] => f[b] = F[f][b]
          BY <4>2, <4>4
        <5> QED BY <4>3, <5>1 DEF LooksBelow
      <4>5. Upto(m, F[f])
        BY <4>4
      <4> QED BY <4>3, <4>5
    <3> QED BY <3>1, <3>2
  <2> HIDE DEF Good
  <2>4. Progressive(Good, 0 .. last, same)
    BY <2>3 DEF Progressive
  <2> QED BY <2>2, <2>4, RankInduction
<1>2. PICK f \in [D -> S] : Upto(last, f)
  BY <1>1
<1>3. \A d \in D : f[d] = F[f][d]
  BY <1>2 DEF Bounded
<1>4. F[f] \in [D -> S]
  OBVIOUS
<1> QED BY <1>3, <1>4 DEF IsFixed

-----------------------------------------------------------------------------
Element == [val : Nat, id : Int]

\* P is the way of a hole from i to stop, place by place as next says.
Way(P, i, stop, next, rank) ==
  /\ i \in P /\ stop \in P /\ P \subseteq DOMAIN next
  /\ \A q \in P : /\ next[q] \in P /\ (next[q] = q <=> q = stop)
                  /\ rank[stop] <= rank[q] /\ rank[q] <= rank[i]
  /\ \A p \in P \ {i} : \E pre \in P \ {p} : \A q \in P \ {p} : next[q] = p <=> q = pre

\* What a hole that went its way leaves in h, when e has filled it.
IsFilled(a, h, e, P, next) ==
  a = [p \in DOMAIN h |-> IF p \notin P THEN h[p]
                          ELSE IF next[p] = p THEN e ELSE h[next[p]]]

\* The array when a hole at i has been filled, for each i, and the way down.
Fills(fill, h, e, next) ==
  \A i \in DOMAIN next : fill[i] = IF next[i] = i THEN [h EXCEPT ![i] = e]
                                   ELSE [fill[next[i]] EXCEPT ![i] = h[next[i]]]

Descends(next, rank) == \A i \in DOMAIN next : next[i] # i => rank[next[i]] < rank[i]

\* Filling a hole: if fill[i] is the array after the hole at i has gone where
\* next takes it, the elements on the way have each moved one place, and e is at
\* the end of the way.
LEMMA Filled ==
  ASSUME NEW n \in Nat, NEW m \in Nat, n <= m, NEW h, DOMAIN h = 1 .. m, NEW e,
         NEW next \in [1 .. n -> 1 .. n], NEW rank \in [1 .. n -> Nat],
         Descends(next, rank), NEW fill, Fills(fill, h, e, next)
  PROVE  \A i \in 1 .. n : \E P, stop : /\ Way(P, i, stop, next, rank)
                                        /\ IsFilled(fill[i], h, e, P, next)
<1> DEFINE Good == {i \in 1 .. n : \E P, stop : /\ Way(P, i, stop, next, rank)
                                                /\ IsFilled(fill[i], h, e, P, next)}
<1> HIDE DEF Good
<1>1. ASSUME NEW i \in 1 .. n, \A b \in 1 .. n : rank[b] < rank[i] => b \in Good
      PROVE  i \in Good
  <2>1. CASE next[i] = i
    <3>1. Way({i}, i, i, next, rank)
      BY <2>1 DEF Way
    <3>2. IsFilled(fill[i], h, e, {i}, next)
      <4>1. fill[i] = [h EXCEPT ![i] = e]
        BY <2>1 DEF Fills
      <4>2. fill[i] = [p \in DOMAIN h |-> IF p = i THEN e ELSE h[p]]
        BY <4>1
      <4> QED BY <2>1, <4>2 DEF IsFilled
    <3> QED BY <3>1, <3>2 DEF Good
  <2>2. CASE next[i] # i
    <3>1. PICK c \in 1 .. n : c = next[i]
      OBVIOUS
    <3>2. rank[c] < rank[i] /\ c \in Good /\ c # i
      BY <1>1, <2>2, <3>1 DEF Descends
    <3>3. PICK P, stop : Way(P, c, stop, next, rank) /\ IsFilled(fill[c], h, e, P, next)
      BY <3>2 DEF Good
    <3>4. i \notin P
      BY <3>2, <3>3 DEF Way
    <3>5. PICK Q : Q = P \cup {i}
      OBVIOUS
    <3>6. Way(Q, i, stop, next, rank)
      <4>1. i \in Q /\ stop \in Q /\ Q \subseteq DOMAIN next
        BY <3>3, <3>5 DEF Way
      <4>2. \A q \in Q : /\ next[q] \in Q /\ (next[q] = q <=> q = stop)
                         /\ rank[stop] <= rank[q] /\ rank[q] <= rank[i]
        <5>1. P \subseteq 1 .. n /\ stop \in P
          BY <3>3 DEF Way
        <5>2. ASSUME NEW q \in P
              PROVE  /\ next[q] \in Q /\ (next[q] = q <=> q = stop)
                     /\ rank[stop] <= rank[q] /\ rank[q] <= rank[i]
          <6>1. /\ next[q] \in P /\ (next[q] = q <=> q = stop)
                /\ rank[stop] <= rank[q] /\ rank[q] <= rank[c]
            BY <3>3 DEF Way
          <6>2. rank[q] \in Nat /\ rank[c] \in Nat /\ rank[i] \in Nat
            BY <5>1
          <6>3. rank[q] <= rank[i]
            <7>1. PICK x \in Nat, y \in Nat, z \in Nat :
                    x = rank[q] /\ y = rank[c] /\ z = rank[i]
              BY <6>2, Zenon
            <7>2. x <= y /\ y < z
              BY <3>2, <6>1, <7>1, Zenon
            <7>3. x <= z
              BY <7>2
            <7> QED BY <7>1, <7>3, Zenon
          <6>4. next[q] \in Q
            BY <3>5, <6>1
          <6> QED BY <6>1, <6>3, <6>4, Zenon
        <5>3. next[i] \in Q /\ next[i] # i /\ i # stop /\ rank[stop] <= rank[i] /\ rank[i] <= rank[i]
          <6>1. rank[stop] <= rank[c] /\ c \in P
            BY <3>3 DEF Way
          <6>2. rank[stop] \in Nat /\ rank[c] \in Nat /\ rank[i] \in Nat
            BY <5>1
          <6>3. rank[stop] <= rank[i] /\ rank[i] <= rank[i]
            <7>1. PICK x \in Nat, y \in Nat, z \in Nat :
                    x = rank[stop] /\ y = rank[c] /\ z = rank[i]
              BY <6>2, Zenon
            <7>2. x <= y /\ y < z
              BY <3>2, <6>1, <7>1, Zenon
            <7>3. x <= z /\ z <= z
              BY <7>2
            <7> QED BY <7>1, <7>3, Zenon
          <6>4. next[i] \in Q /\ i # stop
            BY <3>1, <3>4, <3>5, <5>1, <6>1
          <6> QED BY <2>2, <6>1, <6>3, <6>4, Zenon
        <5>4. \A q \in Q : q \in P \/ q = i
          BY <3>5
        <5> QED BY <5>2, <5>3, <5>4, Zenon
      <4>3. ASSUME NEW p \in Q \ {i}
            PROVE  \E pre \in Q \ {p} : \A q \in Q \ {p} : next[q] = p <=> q = pre
        <5>1. CASE p = c
          <6>1. ASSUME NEW q \in Q \ {p}, next[q] = p, q # i PROVE FALSE
            <7>1. q \in P /\ q \in 1 .. n /\ rank[q] <= rank[c]
              BY <3>3, <3>5, <6>1 DEF Way
            <7>2. rank[c] < rank[q]
              BY <5>1, <6>1, <7>1 DEF Descends
            <7>3. rank[q] \in Nat /\ rank[c] \in Nat
              BY <7>1
            <7> QED BY <7>1, <7>2, <7>3
          <6>2. i \in Q \ {p} /\ next[i] = p
            BY <3>1, <3>2, <3>5, <5>1
          <6> QED BY <6>1, <6>2, Zenon
        <5>2. CASE p # c
          <6>1. p \in P \ {c}
            BY <3>5, <5>2
          <6>2. PICK pre \in P \ {p} : \A q \in P \ {p} : next[q] = p <=> q = pre
            BY <3>3, <6>1 DEF Way
          <6>3. \A q \in Q \ {p} : q = i \/ q \in P \ {p}
            BY <3>5
          <6>4. next[i] # p /\ i # pre /\ pre \in Q \ {p}
            BY <3>1, <3>4, <3>5, <5>2, <6>2
          <6> QED BY <6>2, <6>3, <6>4, Zenon
        <5> QED BY <5>1, <5>2
      <4>4. \A p \in Q \ {i} : \E pre \in Q \ {p} : \A q \in Q \ {p} : next[q] = p <=> q = pre
        BY <4>3
      <4> QED BY <4>1, <4>2, <4>4, Zenon DEF Way
    <3>7. IsFilled(fill[i], h, e, Q, next)
      <4>1. fill[i] = [fill[c] EXCEPT ![i] = h[c]]
        BY <2>2, <3>1 DEF Fills
      <4>2. DOMAIN fill[c] = DOMAIN h
        BY <3>3 DEF IsFilled
      <4>3. fill[i] = [p \in DOMAIN h |-> IF p = i THEN h[c] ELSE fill[c][p]]
        BY <4>1, <4>2
      <4>4. \A p \in DOMAIN h : fill[c][p] = IF p \notin P THEN h[p]
                                              ELSE IF next[p] = p THEN e ELSE h[next[p]]
        BY <3>3 DEF IsFilled
      <4>5. \A p \in DOMAIN h :
              (IF p = i THEN h[c] ELSE fill[c][p])
                = (IF p \notin Q THEN h[p] ELSE IF next[p] = p THEN e ELSE h[next[p]])
        BY <2>2, <3>1, <3>4, <3>5, <4>4
      <4>6. fill[i] = [p \in DOMAIN h |-> IF p \notin Q THEN h[p]
                                          ELSE IF next[p] = p THEN e ELSE h[next[p]]]
        BY <4>3, <4>5
      <4> QED BY <4>6 DEF IsFilled
    <3> QED BY <3>6, <3>7 DEF Good
  <2> QED BY <2>1, <2>2
<1>2. Progressive(Good, 1 .. n, rank)
  BY <1>1 DEF Progressive
<1>3. \A i \in 1 .. n : i \in Good
  BY <1>2, RankInduction
<1> QED BY <1>3 DEF Good
\* f moves the first n places among themselves.
IsPermutation(f, n) ==
  /\ f \in [1 .. n -> 1 .. n]
  /\ \A x, y \in 1 .. n : f[x] = f[y] => x = y
  /\ \A y \in 1 .. n : \E x \in 1 .. n : f[x] = y

Rearranged(a, g, n) ==
  \E f : IsPermutation(f, n) /\ \A p \in 1 .. n : a[p] = g[f[p]]

\* So fill[i] has the elements that h with e at i has, in some order.
LEMMA FilledRearranges ==
  ASSUME NEW n \in Nat, NEW m \in Nat, n <= m, NEW h, DOMAIN h = 1 .. m, NEW e,
         NEW next \in [1 .. n -> 1 .. n], NEW rank \in [1 .. n -> Nat],
         Descends(next, rank), NEW i \in 1 .. n, NEW P, NEW stop,
         Way(P, i, stop, next, rank), NEW a, IsFilled(a, h, e, P, next)
  PROVE  Rearranged(a, [h EXCEPT ![i] = e], n)
<1>1. P \subseteq 1 .. n /\ i \in P /\ stop \in P /\ stop \in 1 .. n
  BY DEF Way
<1>2. \A p \in 1 .. n : p \in 1 .. m
  OBVIOUS
<1>3. PICK f : f = [p \in 1 .. n |-> IF p \notin P THEN p ELSE IF p = stop THEN i ELSE next[p]]
  OBVIOUS
<1>4. \A q \in P : next[q] \in P /\ (next[q] = q <=> q = stop)
  BY DEF Way
<1>5. ASSUME NEW q \in P, q # stop, next[q] = i PROVE FALSE
  <2>1. q \in 1 .. n /\ next[q] # q
    BY <1>1, <1>4, <1>5
  <2>2. PICK x \in Nat, y \in Nat : x = rank[i] /\ y = rank[q]
    BY <2>1
  <2>3. y <= x /\ x < y
    <3>1. rank[q] <= rank[i]
      BY DEF Way
    <3>2. rank[next[q]] < rank[q]
      BY <2>1 DEF Descends
    <3> QED BY <1>5, <2>2, <3>1, <3>2
  <2> QED BY <2>3
<1>6. \A p \in P \ {i} : \E pre \in P \ {p} : \A q \in P \ {p} : next[q] = p <=> q = pre
  BY DEF Way
<1>7. \A p \in P : f[p] \in P
  BY <1>1, <1>3, <1>4
<1>8. ASSUME NEW x \in P, NEW y \in P, f[x] = f[y] PROVE x = y
  <2>1. f[x] = (IF x = stop THEN i ELSE next[x]) /\ f[y] = (IF y = stop THEN i ELSE next[y])
    BY <1>1, <1>3
  <2>2. CASE x = stop \/ y = stop
    BY <1>5, <1>8, <2>1, <2>2
  <2>3. CASE x # stop /\ y # stop
    <3>1. PICK p \in P : p = next[x]
      BY <1>4
    <3>2. p # i /\ p # x /\ p # y /\ next[y] = p
      BY <1>4, <1>5, <1>8, <2>1, <2>3, <3>1
    <3>3. PICK pre \in P \ {p} : \A q \in P \ {p} : next[q] = p <=> q = pre
      BY <1>6, <3>2
    <3>4. x \in P \ {p} /\ y \in P \ {p} /\ next[x] = p
      BY <3>1, <3>2
    <3> QED BY <3>2, <3>3, <3>4, Zenon
  <2> QED BY <2>2, <2>3
<1>9. ASSUME NEW y \in P PROVE \E x \in P : f[x] = y
  <2>1. CASE y = i
    BY <1>1, <1>3, <2>1
  <2>2. CASE y # i
    <3>1. PICK pre \in P \ {y} : \A q \in P \ {y} : next[q] = y <=> q = pre
      BY <1>6, <2>2
    <3>2. next[pre] = y /\ pre # y
      BY <3>1
    <3>3. pre # stop
      BY <1>4, <3>1, <3>2
    <3> QED BY <1>1, <1>3, <3>1, <3>2, <3>3
  <2> QED BY <2>1, <2>2
<1>10. IsPermutation(f, n)
  <2>1. f \in [1 .. n -> 1 .. n]
    BY <1>1, <1>3
  <2>2. \A p \in 1 .. n : p \notin P => f[p] = p
    BY <1>3
  <2>3. \A x, y \in 1 .. n : f[x] = f[y] => x = y
    BY <1>7, <1>8, <2>2, Zenon
  <2>4. \A y \in 1 .. n : \E x \in 1 .. n : f[x] = y
    BY <1>1, <1>9, <2>2
  <2> QED BY <2>1, <2>3, <2>4, Zenon DEF IsPermutation
<1>11. \A p \in 1 .. n : a[p] = [h EXCEPT ![i] = e][f[p]]
  <2> SUFFICES ASSUME NEW p \in 1 .. n PROVE a[p] = [h EXCEPT ![i] = e][f[p]]
    OBVIOUS
  <2>1. a[p] = IF p \notin P THEN h[p] ELSE IF next[p] = p THEN e ELSE h[next[p]]
    BY <1>2 DEF IsFilled
  <2>2. CASE p \notin P
    BY <1>1, <1>2, <1>3, <2>1, <2>2
  <2>3. CASE p = stop
    BY <1>1, <1>2, <1>3, <1>4, <2>1, <2>3
  <2>4. CASE p \in P /\ p # stop
    <3>1. f[p] = next[p] /\ next[p] # p /\ next[p] # i /\ next[p] \in 1 .. m
      BY <1>1, <1>2, <1>3, <1>4, <1>5, <2>4
    <3> QED BY <2>1, <2>4, <3>1
  <2> QED BY <2>2, <2>3, <2>4
<1> QED BY <1>10, <1>11 DEF Rearranged

Filling(fill, h, e, next) ==
  fill = [i \in DOMAIN next |-> IF next[i] = i THEN [h EXCEPT ![i] = e]
                                ELSE [fill[next[i]] EXCEPT ![i] = h[next[i]]]]

\* The recursive function there is: fill is defined by its own equation.
LEMMA FillingExists ==
  ASSUME NEW n \in Nat, NEW m \in Nat, n <= m, NEW h \in [1 .. m -> Element],
         NEW e \in Element,
         NEW next \in [1 .. n -> 1 .. n], NEW rank \in [1 .. n -> Nat], NEW last \in Nat,
         Bounded(rank, 1 .. n, last), Descends(next, rank)
  PROVE  \E fill : Filling(fill, h, e, next)
<1>1. PICK S : S = [1 .. m -> Element]
  OBVIOUS
<1>2. PICK F : F = [f \in [1 .. n -> S] |->
                      [i \in 1 .. n |-> IF next[i] = i THEN [h EXCEPT ![i] = e]
                                        ELSE [f[next[i]] EXCEPT ![i] = h[next[i]]]]]
  OBVIOUS
<1>3. F \in [[1 .. n -> S] -> [1 .. n -> S]]
  <2>1. ASSUME NEW f \in [1 .. n -> S], NEW i \in 1 .. n
        PROVE  (IF next[i] = i THEN [h EXCEPT ![i] = e]
                ELSE [f[next[i]] EXCEPT ![i] = h[next[i]]]) \in S
    <3>1. i \in 1 .. m /\ next[i] \in 1 .. m /\ f[next[i]] \in [1 .. m -> Element]
      BY <1>1
    <3> QED BY <1>1, <3>1
  <2> QED BY <1>2, <2>1
<1>4. ASSUME NEW f \in [1 .. n -> S], NEW g \in [1 .. n -> S], NEW d \in 1 .. n,
             \A b \in 1 .. n : rank[b] < rank[d] => f[b] = g[b]
      PROVE  F[f][d] = F[g][d]
  <2>1. next[d] # d => f[next[d]] = g[next[d]]
    BY <1>4 DEF Descends
  <2> QED BY <1>2, <2>1
<1>5. S # {} /\ h \in S
  BY <1>1
<1>6. \E f \in [1 .. n -> S] : f = F[f]
  <2>1. LooksBelow(F, 1 .. n, S, rank)
    BY <1>4 DEF LooksBelow
  <2>2. \E f \in [1 .. n -> S] : IsFixed(f, F)
    BY <1>3, <1>5, <2>1, Recursion
  <2> QED BY <2>2 DEF IsFixed
<1>7. PICK f \in [1 .. n -> S] : f = F[f]
  BY <1>6
<1> QED BY <1>2, <1>7 DEF Filling
-----------------------------------------------------------------------------
(* Pop and push.                                                           *)

IsHeap(h, n) == \A q \in 2 .. n : h[q].val <= h[q \div 2].val

\* Halves, for the father q \div 2 of place q.
LEMMA Half ==
  ASSUME NEW q \in Nat
  PROVE  q \div 2 \in Nat /\ (q = 2 * (q \div 2) \/ q = 2 * (q \div 2) + 1)
OBVIOUS

\* The father of an element of a heap is an element before it.
LEMMA HalfBelow ==
  ASSUME NEW n \in Nat \ {0}, NEW q \in 2 .. n
  PROVE  q \div 2 \in 1 .. n /\ q \div 2 < q
<1>1. q \in Nat /\ n \in Nat /\ 2 <= q /\ q <= n
  OBVIOUS
<1>2. PICK r \in Nat : r = q \div 2
  BY <1>1, Half, Zenon
<1>3. q = 2 * r \/ q = 2 * r + 1
  BY <1>1, <1>2, Half, Zenon
<1>4. r \in 1 .. n /\ r < q
  BY <1>1, <1>3
<1> QED BY <1>2, <1>4, Zenon

\* The two children of r have r for their father.
LEMMA HalfOf ==
  ASSUME NEW q \in Nat, NEW r \in Nat, q = 2 * r \/ q = 2 * r + 1
  PROVE  q \div 2 = r
OBVIOUS

\* The father's place is before both of its sons'.
LEMMA FatherIsBefore ==
  ASSUME NEW r \in Nat, NEW q \in Nat, NEW n \in Nat, 1 <= r, q <= n,
         q = 2 * r \/ q = 2 * r + 1
  PROVE  r < q /\ r <= n - 1
OBVIOUS

\* Where a hole sinks to.
Down(h, n) ==
  [i \in 1 .. n |-> IF 2 * i > n \/ h[n].val > h[Child(h, n, i)].val
                      THEN i ELSE Child(h, n, i)]

HasValues(h, n) == \A q \in 1 .. n : h[q].val \in Nat

LargerChild(c, h, n, i) ==
  /\ c \in {2 * i, 2 * i + 1} /\ c \in 1 .. n
  /\ \A q \in {2 * i, 2 * i + 1} : q <= n => h[q].val <= h[c].val

\* Child is one of the two children, and the other is not larger.
LEMMA ChildIsLarger ==
  ASSUME NEW n \in Nat, NEW h, HasValues(h, n),
         NEW i \in 1 .. n, 2 * i <= n
  PROVE  LargerChild(Child(h, n, i), h, n, i)
<1>1. 2 * i \in 1 .. n /\ h[2 * i].val \in Nat
  BY DEF HasValues
<1>2. CASE 2 * i + 1 = n + 1
  BY <1>1, <1>2 DEF Child, LargerChild
<1>3. CASE 2 * i + 1 # n + 1
  <2>1. 2 * i + 1 \in 1 .. n /\ h[2 * i + 1].val \in Nat
    BY <1>3 DEF HasValues
  <2> QED BY <1>1, <1>3, <2>1 DEF Child, LargerChild
<1> QED BY <1>2, <1>3

GoesDown(next, h, n) ==
  \A i \in 1 .. n :
    \/ /\ next[i] = i
       /\ 2 * i > n \/ h[n].val > h[Child(h, n, i)].val
    \/ /\ 2 * i <= n /\ ~(h[n].val > h[Child(h, n, i)].val)
       /\ next[i] = Child(h, n, i)
       /\ next[i] > i /\ next[i] \div 2 = i

\* A hole goes down to its larger child or stays.
LEMMA DownIsDown ==
  ASSUME NEW n \in Nat \ {0}, NEW h, HasValues(h, n)
  PROVE  Down(h, n) \in [1 .. n -> 1 .. n] /\ GoesDown(Down(h, n), h, n)
<1>1. ASSUME NEW i \in 1 .. n
      PROVE  \/ /\ Down(h, n)[i] = i
                /\ 2 * i > n \/ h[n].val > h[Child(h, n, i)].val
             \/ /\ 2 * i <= n /\ ~(h[n].val > h[Child(h, n, i)].val)
                /\ Down(h, n)[i] = Child(h, n, i) /\ Child(h, n, i) \in 1 .. n
                /\ Down(h, n)[i] > i /\ Down(h, n)[i] \div 2 = i
  <2>1. CASE 2 * i > n \/ h[n].val > h[Child(h, n, i)].val
    BY <2>1 DEF Down
  <2>2. CASE ~(2 * i > n \/ h[n].val > h[Child(h, n, i)].val)
    <3>1. 2 * i <= n
      BY <2>2
    <3>2. Child(h, n, i) \in {2 * i, 2 * i + 1} /\ Child(h, n, i) \in 1 .. n
      BY <3>1, ChildIsLarger DEF LargerChild
    <3>3. Child(h, n, i) > i /\ Child(h, n, i) \div 2 = i
      BY <3>2, HalfOf
    <3>4. Down(h, n)[i] = Child(h, n, i)
      BY <2>2 DEF Down
    <3> QED BY <2>2, <3>1, <3>2, <3>3, <3>4
  <2> QED BY <2>1, <2>2
<1>2. Down(h, n) \in [1 .. n -> 1 .. n]
  <2>1. \A i \in 1 .. n : Down(h, n)[i] \in 1 .. n
    BY <1>1
  <2>2. Down(h, n) = [i \in 1 .. n |-> Down(h, n)[i]]
    BY DEF Down
  <2> QED BY <2>1, <2>2
<1>3. GoesDown(Down(h, n), h, n)
  BY <1>1 DEF GoesDown
<1> QED BY <1>2, <1>3

\* Pop is the filling of a hole on top that goes down.
LEMMA PopFills ==
  ASSUME NEW n \in Nat \ {0}, NEW m \in Nat, n <= m, NEW h \in [1 .. m -> Element]
  PROVE  \E P, stop : /\ Way(P, 1, stop, Down(h, n), [i \in 1 .. n |-> n - i])
                      /\ IsFilled(heap_pop(h, n), h, h[n], P, Down(h, n))
<1>1. HasValues(h, n) /\ \A q \in 1 .. n : h[q] \in Element
  BY DEF Element, HasValues
<1>2. PICK next \in [1 .. n -> 1 .. n] : next = Down(h, n)
  BY <1>1, DownIsDown
<1>3. PICK rank \in [1 .. n -> Nat] : rank = [i \in 1 .. n |-> n - i]
  <2>1. \A i \in 1 .. n : n - i \in Nat
    OBVIOUS
  <2> QED BY <2>1
<1>4. Descends(next, rank) /\ Bounded(rank, 1 .. n, n)
  <2>1. \A i \in 1 .. n : next[i] # i => next[i] > i
    BY <1>1, <1>2, DownIsDown DEF GoesDown
  <2>2. \A i \in 1 .. n : rank[i] < n
    BY <1>3
  <2>3. \A i \in 1 .. n : next[i] # i => rank[next[i]] < rank[i]
    BY <1>3, <2>1
  <2> QED BY <2>2, <2>3 DEF Descends, Bounded
<1> DEFINE Sunk(sink, i) == IF 2 * i > n \/ h[n].val > h[Child(h, n, i)].val
                             THEN [h EXCEPT ![i] = h[n]]
                             ELSE [sink[Child(h, n, i)] EXCEPT ![i] = h[Child(h, n, i)]]
           Gone(sink, i) == IF next[i] = i THEN [h EXCEPT ![i] = h[n]]
                             ELSE [sink[next[i]] EXCEPT ![i] = h[next[i]]]
<1>5. \A sink : Filling(sink, h, h[n], next) <=> sink = [i \in 1 .. n |-> Sunk(sink, i)]
  <2>1. ASSUME NEW sink, NEW i \in 1 .. n PROVE Gone(sink, i) = Sunk(sink, i)
    <3>1. CASE 2 * i > n \/ h[n].val > h[Child(h, n, i)].val
      <4>1. next[i] = i
        BY <1>2, <3>1 DEF Down
      <4> QED BY <3>1, <4>1
    <3>2. CASE ~(2 * i > n \/ h[n].val > h[Child(h, n, i)].val)
      <4>1. next[i] = Child(h, n, i)
        BY <1>2, <3>2 DEF Down
      <4>2. next[i] # i
        <5>1. Child(h, n, i) \in {2 * i, 2 * i + 1}
          <6>1. 2 * i <= n
            BY <3>2
          <6> QED BY <1>1, <6>1, ChildIsLarger DEF LargerChild
        <5>2. i # 2 * i /\ i # 2 * i + 1
          OBVIOUS
        <5> QED BY <4>1, <5>1, <5>2, Zenon
      <4> QED BY <3>2, <4>1, <4>2
    <3> QED BY <3>1, <3>2
  <2>2. \A sink : Filling(sink, h, h[n], next) <=> sink = [i \in 1 .. n |-> Gone(sink, i)]
    BY DEF Filling
  <2> HIDE DEF Sunk, Gone
  <2>3. ASSUME NEW sink
        PROVE  Filling(sink, h, h[n], next) <=> sink = [i \in 1 .. n |-> Sunk(sink, i)]
    <3>1. [i \in 1 .. n |-> Gone(sink, i)] = [i \in 1 .. n |-> Sunk(sink, i)]
      BY <2>1
    <3>2. Filling(sink, h, h[n], next) <=> sink = [i \in 1 .. n |-> Gone(sink, i)]
      BY <2>2, Zenon
    <3> QED BY <3>1, <3>2, Zenon
  <2> QED BY <2>3, Zenon
<1>6. \E sink : Filling(sink, h, h[n], next)
  <2>1. h[n] \in Element
    BY <1>1
  <2> QED BY <1>4, <2>1, FillingExists
<1>7. PICK sink : Filling(sink, h, h[n], next) /\ heap_pop(h, n) = sink[1]
  <2>1. heap_pop(h, n) = (CHOOSE sink : Filling(sink, h, h[n], next))[1]
    BY <1>5 DEF heap_pop
  <2> QED BY <1>6, <2>1
<1>8. Fills(sink, h, h[n], next)
  BY <1>7 DEF Fills, Filling
<1>9. \A i \in 1 .. n : \E P, stop : /\ Way(P, i, stop, next, rank)
                                     /\ IsFilled(sink[i], h, h[n], P, next)
  BY <1>4, <1>8, Filled
<1>10. \E P, stop : /\ Way(P, 1, stop, next, rank)
                     /\ IsFilled(heap_pop(h, n), h, h[n], P, next)
  <2>1. 1 \in 1 .. n
    OBVIOUS
  <2> QED BY <1>7, <1>9, <2>1
<1> QED BY <1>2, <1>3, <1>10
KeepsRest(a, h, n, m) ==
  a \in [1 .. m -> Element] /\ \A p \in 1 .. m : p > n => a[p] = h[p]

\* A filled array has elements everywhere, and is the same behind place n.
LEMMA FilledTyped ==
  ASSUME NEW n \in Nat, NEW m \in Nat, n <= m, NEW h \in [1 .. m -> Element],
         NEW e \in Element, NEW next \in [1 .. n -> 1 .. n], NEW P,
         P \subseteq 1 .. n, NEW a, IsFilled(a, h, e, P, next)
  PROVE  KeepsRest(a, h, n, m)
<1>1. a = [p \in 1 .. m |-> IF p \notin P THEN h[p]
                            ELSE IF next[p] = p THEN e ELSE h[next[p]]]
  BY DEF IsFilled
<1>2. ASSUME NEW p \in 1 .. m
      PROVE  (IF p \notin P THEN h[p] ELSE IF next[p] = p THEN e ELSE h[next[p]]) \in Element
  <2>1. CASE p \notin P
    BY <2>1
  <2>2. CASE p \in P
    <3>1. next[p] \in 1 .. m
      BY <2>2
    <3> QED BY <3>1
  <2> QED BY <2>1, <2>2
<1>3. a \in [1 .. m -> Element]
  BY <1>1, <1>2
<1>4. ASSUME NEW p \in 1 .. m, p > n PROVE a[p] = h[p]
  <2>1. p \notin P
    BY <1>4
  <2> QED BY <1>1, <2>1
<1> QED BY <1>3, <1>4 DEF KeepsRest

\* What a pop makes of h: the last of n elements is where it was, too.
IsPopped(a, h, n, m) ==
  /\ a \in [1 .. m -> Element]
  /\ \A p \in n .. m : a[p] = h[p]
  /\ Rearranged(a, [h EXCEPT ![1] = h[n]], n)
  /\ IsHeap(h, n) => IsHeap(a, n)

\* heap_pop: the other elements, in some order, are a heap if they were one.
LEMMA Popped ==
  ASSUME NEW n \in Nat \ {0}, NEW m \in Nat, n <= m, NEW h \in [1 .. m -> Element]
  PROVE  IsPopped(heap_pop(h, n), h, n, m)
<1>1. HasValues(h, n) /\ \A q \in 1 .. n : h[q] \in Element
  BY DEF Element, HasValues
<1>2. PICK next \in [1 .. n -> 1 .. n] : next = Down(h, n)
  BY <1>1, DownIsDown
<1>3. PICK rank \in [1 .. n -> Nat] : rank = [i \in 1 .. n |-> n - i]
  <2>1. \A i \in 1 .. n : n - i \in Nat
    OBVIOUS
  <2> QED BY <2>1
<1>4. \A i \in 1 .. n :
              \/ /\ next[i] = i
                 /\ 2 * i > n \/ h[n].val > h[Child(h, n, i)].val
              \/ /\ 2 * i <= n /\ ~(h[n].val > h[Child(h, n, i)].val)
                 /\ next[i] = Child(h, n, i)
                 /\ next[i] > i /\ next[i] \div 2 = i
  <2>1. GoesDown(next, h, n)
    BY <1>1, <1>2, DownIsDown
  <2> QED BY <2>1, Zenon DEF GoesDown
<1>5. Descends(next, rank)
  <2>1. \A i \in 1 .. n : next[i] # i => next[i] > i
    BY <1>4
  <2>2. \A i \in 1 .. n : next[i] # i => rank[next[i]] < rank[i]
    BY <1>3, <2>1
  <2> QED BY <2>2 DEF Descends
<1>6. PICK a : a = heap_pop(h, n)
  OBVIOUS
<1>7. PICK P, stop : Way(P, 1, stop, next, rank) /\ IsFilled(a, h, h[n], P, next)
  BY <1>2, <1>3, <1>6, PopFills
<1>8. P \subseteq 1 .. n /\ 1 \in P /\ stop \in P
  BY <1>7 DEF Way
<1>9. h[n] \in Element
  BY <1>1
<1>10. a \in [1 .. m -> Element] /\ \A p \in 1 .. m : p > n => a[p] = h[p]
  <2>1. PICK e \in Element : e = h[n]
    BY <1>9
  <2>2. IsFilled(a, h, e, P, next) /\ P \subseteq 1 .. n
    BY <1>7, <1>8, <2>1
  <2>3. KeepsRest(a, h, n, m)
    BY <2>2, FilledTyped
  <2> QED BY <2>3 DEF KeepsRest
<1>11. /\ \A p \in 1 .. m : p \notin P => a[p] = h[p]
       /\ \A p \in P : next[p] = p => a[p] = h[n]
       /\ \A p \in P : next[p] # p => a[p] = h[next[p]]
  <2>1. P \subseteq 1 .. m
    BY <1>8
  <2> QED BY <1>7, <2>1 DEF IsFilled
<1>12. a[n] = h[n]
  <2>1. next[n] = n
    BY <1>4
  <2> QED BY <1>11, <2>1
<1>13. \A p \in n .. m : a[p] = h[p]
  BY <1>10, <1>12
<1>14. Rearranged(a, [h EXCEPT ![1] = h[n]], n)
  <2>1. 1 \in 1 .. n /\ DOMAIN h = 1 .. m
    OBVIOUS
  <2> QED BY <1>5, <1>7, <2>1, FilledRearranges
<1>15. ASSUME IsHeap(h, n) PROVE IsHeap(a, n)
  <2> SUFFICES ASSUME NEW q \in 2 .. n PROVE a[q].val <= a[q \div 2].val
    BY DEF IsHeap
  <2>0. PICK r \in 1 .. n : r = q \div 2
    BY HalfBelow, Zenon
  <2>1. q \in {2 * r, 2 * r + 1} /\ r < q /\ 2 * r <= n /\ q \in 1 .. n /\ q \in 1 .. m /\ r \in 1 .. m /\ q # r /\ q <= n
    <3>1. q \in Nat /\ r \in Nat /\ 1 <= r /\ r <= n /\ q <= n /\ n <= m
      OBVIOUS
    <3>2. q = 2 * r \/ q = 2 * r + 1
      BY <2>0, <3>1, Half, Zenon
    <3>3. r < q /\ 2 * r <= n
      BY <3>1, <3>2
    <3>4. q \in 1 .. m /\ r \in 1 .. m /\ q \in 1 .. n /\ q # r
      BY <3>1, <3>3
    <3> QED BY <3>1, <3>2, <3>3, <3>4
  <2>2. h[q].val <= h[r].val /\ h[q].val \in Nat /\ h[r].val \in Nat /\ h[n].val \in Nat
    <3>1. h[q].val <= h[r].val
      BY <1>15, <2>0 DEF IsHeap
    <3> QED BY <1>1, <2>1, <3>1 DEF HasValues
  <2> SUFFICES a[q].val <= a[r].val
    BY <2>0, Zenon
  <2>3. q \in P => r \in P /\ next[r] = q
    <3>1. ASSUME q \in P PROVE r \in P /\ next[r] = q
      <4>1. PICK pre \in P \ {q} : \A x \in P \ {q} : next[x] = q <=> x = pre
        BY <1>7, <3>1 DEF Way
      <4>2. next[pre] = q /\ pre \in 1 .. n /\ pre # q
        BY <1>8, <4>1
      <4>3. next[pre] \div 2 = pre
        BY <1>4, <4>2
      <4> QED BY <2>0, <4>1, <4>2, <4>3
    <3> QED BY <3>1
  <2>4. CASE r \notin P
    <3>1. a[q] = h[q] /\ a[r] = h[r]
      BY <1>11, <2>1, <2>3, <2>4, Zenon
    <3> QED BY <2>2, <3>1, Zenon
  <2>5. CASE r \in P /\ next[r] = r
    <3>1. q \notin P /\ a[q] = h[q] /\ a[r] = h[n]
      BY <1>11, <2>1, <2>3, <2>5, Zenon
    <3>2. 2 * r <= n
      BY <2>1
    <3>3. h[n].val > h[Child(h, n, r)].val
      BY <1>4, <2>5, <3>2
    <3>4. h[q].val <= h[Child(h, n, r)].val /\ Child(h, n, r) \in 1 .. n
      <4>1. LargerChild(Child(h, n, r), h, n, r)
        BY <1>1, <3>2, ChildIsLarger
      <4> QED BY <2>1, <4>1, Zenon DEF LargerChild
    <3>5. h[Child(h, n, r)].val \in Nat
      BY <1>1, <3>4 DEF HasValues
    <3>6. h[q].val <= h[n].val
      <4>1. PICK x \in Nat, y \in Nat, z \in Nat :
              x = h[q].val /\ y = h[n].val /\ z = h[Child(h, n, r)].val
        BY <2>2, <3>5, Zenon
      <4>2. y > z /\ x <= z
        BY <3>3, <3>4, <4>1, Zenon
      <4>3. x <= y
        BY <4>2
      <4> QED BY <4>1, <4>3, Zenon
    <3> QED BY <3>1, <3>6, Zenon
  <2>6. CASE r \in P /\ next[r] # r
    <3>1. PICK c \in 1 .. n : c = Child(h, n, r) /\ next[r] = c /\ c > r /\ ~(h[n].val > h[c].val)
      BY <1>4, <2>6
    <3>2. a[r] = h[c] /\ h[c].val \in Nat
      BY <1>1, <1>11, <2>6, <3>1 DEF HasValues
    <3>5. h[n].val <= h[c].val
      BY <2>2, <3>1, <3>2
    <3>3. CASE q = c /\ q \in P
      <4>1. CASE next[q] = q
        <5>1. a[q] = h[n]
          BY <1>11, <3>3, <4>1
        <5> QED BY <3>2, <3>5, <5>1, Zenon
      <4>2. CASE next[q] # q
        <5>1. PICK d \in 2 .. n : d = next[q] /\ d \div 2 = q
          BY <1>4, <4>2
        <5>2. a[q] = h[d] /\ h[d].val \in Nat
          BY <1>1, <1>11, <3>3, <4>2, <5>1 DEF HasValues
        <5>3. h[d].val <= h[q].val
          BY <1>15, <5>1 DEF IsHeap
        <5>4. a[r] = h[q]
          BY <3>2, <3>3
        <5>5. a[q].val = h[d].val /\ a[r].val = h[q].val
          BY <5>2, <5>4
        <5> QED BY <5>3, <5>5
      <4> QED BY <4>1, <4>2
    <3>4. CASE q # c \/ q \notin P
      <4>1. a[q] = h[q]
        <5>1. q \notin P
          BY <2>3, <3>1, <3>4, Zenon
        <5> QED BY <1>11, <2>1, <5>1, Zenon
      <4>2. 2 * r <= n
        BY <2>1
      <4>3. h[q].val <= h[c].val
        <5>1. LargerChild(c, h, n, r)
          BY <1>1, <3>1, <4>2, ChildIsLarger
        <5> QED BY <2>1, <5>1, Zenon DEF LargerChild
      <4> QED BY <3>2, <4>1, <4>3, Zenon
    <3> QED BY <3>3, <3>4
  <2> QED BY <2>4, <2>5, <2>6
<1> QED BY <1>6, <1>10, <1>13, <1>14, <1>15 DEF IsPopped
\* Where a hole rises to.
Up(h, n, e) ==
  [i \in 1 .. n |-> IF i > 1 /\ e.val > h[i \div 2].val THEN i \div 2 ELSE i]

GoesUp(next, h, n, e) ==
  \A i \in 1 .. n :
    \/ next[i] = i /\ ~(i > 1 /\ e.val > h[i \div 2].val)
    \/ next[i] = i \div 2 /\ next[i] < i /\ i > 1 /\ e.val > h[i \div 2].val

\* A hole goes up to its father or stays.
LEMMA UpIsUp ==
  ASSUME NEW n \in Nat \ {0}, NEW h, NEW e
  PROVE  Up(h, n, e) \in [1 .. n -> 1 .. n] /\ GoesUp(Up(h, n, e), h, n, e)
<1>1. ASSUME NEW i \in 1 .. n, i > 1 PROVE i \div 2 \in 1 .. n /\ i \div 2 < i
  <2>1. i \in 2 .. n
    BY <1>1
  <2> QED BY <2>1, HalfBelow, Zenon
<1>2. ASSUME NEW i \in 1 .. n
      PROVE  /\ Up(h, n, e)[i] \in 1 .. n
             /\ \/ Up(h, n, e)[i] = i /\ ~(i > 1 /\ e.val > h[i \div 2].val)
                \/ /\ Up(h, n, e)[i] = i \div 2 /\ Up(h, n, e)[i] < i
                   /\ i > 1 /\ e.val > h[i \div 2].val
  <2>1. CASE i > 1 /\ e.val > h[i \div 2].val
    <3>1. Up(h, n, e)[i] = i \div 2
      BY <2>1 DEF Up
    <3> QED BY <1>1, <2>1, <3>1
  <2>2. CASE ~(i > 1 /\ e.val > h[i \div 2].val)
    BY <2>2 DEF Up
  <2> QED BY <2>1, <2>2
<1>3. Up(h, n, e) = [i \in 1 .. n |-> Up(h, n, e)[i]]
  BY DEF Up
<1>4. Up(h, n, e) \in [1 .. n -> 1 .. n]
  BY <1>2, <1>3
<1>5. GoesUp(Up(h, n, e), h, n, e)
  BY <1>2 DEF GoesUp
<1> QED BY <1>4, <1>5

\* Push is the filling of a hole at the end that goes up.
LEMMA PushFills ==
  ASSUME NEW n \in Nat \ {0}, NEW m \in Nat, n <= m, NEW h \in [1 .. m -> Element],
         NEW e \in Element
  PROVE  \E P, stop : /\ Way(P, n, stop, Up(h, n, e), [i \in 1 .. n |-> i])
                      /\ IsFilled(heap_push(h, n, e), h, e, P, Up(h, n, e))
<1>1. PICK next \in [1 .. n -> 1 .. n] : next = Up(h, n, e)
  BY UpIsUp
<1>2. PICK rank \in [1 .. n -> Nat] : rank = [i \in 1 .. n |-> i]
  <2>1. \A i \in 1 .. n : i \in Nat
    OBVIOUS
  <2> QED BY <2>1
<1>3. GoesUp(next, h, n, e)
  BY <1>1, UpIsUp
<1>4. Descends(next, rank) /\ Bounded(rank, 1 .. n, n + 1)
  <2>1. \A i \in 1 .. n : next[i] # i => next[i] < i
    BY <1>3 DEF GoesUp
  <2>2. \A i \in 1 .. n : rank[i] < n + 1
    BY <1>2
  <2>3. \A i \in 1 .. n : next[i] # i => rank[next[i]] < rank[i]
    BY <1>2, <2>1
  <2> QED BY <2>2, <2>3 DEF Descends, Bounded
<1> DEFINE Risen(rise, i) == IF i > 1 /\ e.val > h[i \div 2].val
                               THEN [rise[i \div 2] EXCEPT ![i] = h[i \div 2]]
                               ELSE [h EXCEPT ![i] = e]
           Gone(rise, i) == IF next[i] = i THEN [h EXCEPT ![i] = e]
                             ELSE [rise[next[i]] EXCEPT ![i] = h[next[i]]]
<1>5. \A rise : Filling(rise, h, e, next) <=> rise = [i \in 1 .. n |-> Risen(rise, i)]
  <2>1. ASSUME NEW rise, NEW i \in 1 .. n PROVE Gone(rise, i) = Risen(rise, i)
    <3>1. CASE i > 1 /\ e.val > h[i \div 2].val
      <4>1. next[i] = i \div 2 /\ next[i] < i
        BY <1>3, <3>1, Zenon DEF GoesUp
      <4>2. next[i] # i
        BY <4>1
      <4> QED BY <3>1, <4>1, <4>2, Zenon
    <3>2. CASE ~(i > 1 /\ e.val > h[i \div 2].val)
      <4>1. next[i] = i
        BY <1>1, <3>2 DEF Up
      <4> QED BY <3>2, <4>1
    <3> QED BY <3>1, <3>2
  <2>2. \A rise : Filling(rise, h, e, next) <=> rise = [i \in 1 .. n |-> Gone(rise, i)]
    BY DEF Filling
  <2> HIDE DEF Risen, Gone
  <2>3. ASSUME NEW rise
        PROVE  Filling(rise, h, e, next) <=> rise = [i \in 1 .. n |-> Risen(rise, i)]
    <3>1. [i \in 1 .. n |-> Gone(rise, i)] = [i \in 1 .. n |-> Risen(rise, i)]
      BY <2>1
    <3>2. Filling(rise, h, e, next) <=> rise = [i \in 1 .. n |-> Gone(rise, i)]
      BY <2>2, Zenon
    <3> QED BY <3>1, <3>2, Zenon
  <2> QED BY <2>3, Zenon
<1>6. \E rise : Filling(rise, h, e, next)
  <2>1. n + 1 \in Nat
    OBVIOUS
  <2> QED BY <1>4, <2>1, FillingExists
<1>7. PICK rise : Filling(rise, h, e, next) /\ heap_push(h, n, e) = rise[n]
  <2>1. heap_push(h, n, e) = (CHOOSE rise : rise = [i \in 1 .. n |-> Risen(rise, i)])[n]
    BY DEF heap_push
  <2> HIDE DEF Risen
  <2>2. (CHOOSE rise : rise = [i \in 1 .. n |-> Risen(rise, i)])
          = (CHOOSE rise : Filling(rise, h, e, next))
    BY <1>5
  <2> QED BY <1>6, <2>1, <2>2
<1>8. Fills(rise, h, e, next)
  BY <1>7 DEF Fills, Filling
<1>9. \A i \in 1 .. n : \E P, stop : /\ Way(P, i, stop, next, rank)
                                     /\ IsFilled(rise[i], h, e, P, next)
  BY <1>4, <1>8, Filled
<1>10. \E P, stop : /\ Way(P, n, stop, next, rank)
                     /\ IsFilled(heap_push(h, n, e), h, e, P, next)
  <2>1. n \in 1 .. n
    OBVIOUS
  <2> QED BY <1>7, <1>9, <2>1
<1> QED BY <1>1, <1>2, <1>10

IsPushed(a, h, n, m, e) ==
  /\ KeepsRest(a, h, n, m)
  /\ Rearranged(a, [h EXCEPT ![n] = e], n)
  /\ IsHeap(h, n - 1) => IsHeap(a, n)

\* heap_push: the elements before place n and e, in some order, are a heap.
LEMMA Pushed ==
  ASSUME NEW n \in Nat \ {0}, NEW m \in Nat, n <= m, NEW h \in [1 .. m -> Element],
         NEW e \in Element
  PROVE  IsPushed(heap_push(h, n, e), h, n, m, e)
<1>1. \A q \in 1 .. n : h[q] \in Element /\ h[q].val \in Nat
  BY DEF Element
<1>0. e.val \in Nat
  BY DEF Element
<1>2. PICK next \in [1 .. n -> 1 .. n] : next = Up(h, n, e)
  BY UpIsUp
<1>3. PICK rank \in [1 .. n -> Nat] : rank = [i \in 1 .. n |-> i]
  <2>1. \A i \in 1 .. n : i \in Nat
    OBVIOUS
  <2> QED BY <2>1
<1>4. \A i \in 1 .. n :
        \/ next[i] = i /\ ~(i > 1 /\ e.val > h[i \div 2].val)
        \/ next[i] = i \div 2 /\ next[i] < i /\ i > 1 /\ e.val > h[i \div 2].val
  <2>1. GoesUp(next, h, n, e)
    BY <1>2, UpIsUp
  <2> QED BY <2>1, Zenon DEF GoesUp
<1>5. Descends(next, rank)
  <2>1. \A i \in 1 .. n : next[i] # i => next[i] < i
    BY <1>4
  <2>2. \A i \in 1 .. n : next[i] # i => rank[next[i]] < rank[i]
    BY <1>3, <2>1
  <2> QED BY <2>2 DEF Descends
<1>6. PICK a : a = heap_push(h, n, e)
  OBVIOUS
<1>7. PICK P, stop : Way(P, n, stop, next, rank) /\ IsFilled(a, h, e, P, next)
  BY <1>2, <1>3, <1>6, PushFills
<1>8. P \subseteq 1 .. n /\ n \in P /\ stop \in P
  BY <1>7 DEF Way
<1>10. KeepsRest(a, h, n, m)
  BY <1>7, <1>8, FilledTyped
<1>11. /\ \A p \in 1 .. m : p \notin P => a[p] = h[p]
       /\ \A p \in P : next[p] = p => a[p] = e
       /\ \A p \in P : next[p] # p => a[p] = h[next[p]]
  <2>1. P \subseteq 1 .. m
    BY <1>8
  <2> QED BY <1>7, <2>1 DEF IsFilled
<1>14. Rearranged(a, [h EXCEPT ![n] = e], n)
  <2>1. n \in 1 .. n /\ DOMAIN h = 1 .. m
    OBVIOUS
  <2> QED BY <1>5, <1>7, <2>1, FilledRearranges
<1>15. ASSUME IsHeap(h, n - 1) PROVE IsHeap(a, n)
  <2> SUFFICES ASSUME NEW q \in 2 .. n PROVE a[q].val <= a[q \div 2].val
    BY DEF IsHeap
  <2>0. PICK r \in 1 .. n : r = q \div 2
    BY HalfBelow, Zenon
  <2>1. /\ q \in {2 * r, 2 * r + 1} /\ r < q /\ r <= n - 1
        /\ q \in 1 .. n /\ q \in 1 .. m /\ r \in 1 .. m /\ q # r /\ r # n
    <3>1. q \in Nat /\ r \in Nat /\ 1 <= r /\ r <= n /\ q <= n /\ n <= m
      OBVIOUS
    <3>2. q = 2 * r \/ q = 2 * r + 1
      BY <2>0, <3>1, Half, Zenon
    <3>3. r < q /\ r <= n - 1
      BY <3>1, <3>2, FatherIsBefore, n \in Nat, Zenon
    <3>4. q \in 1 .. m /\ r \in 1 .. m /\ q \in 1 .. n /\ q # r /\ r # n
      BY <3>1, <3>3
    <3> QED BY <3>2, <3>3, <3>4
  <2>2. h[q].val \in Nat /\ h[r].val \in Nat /\ h[n].val \in Nat
    <3>1. n \in 1 .. n
      OBVIOUS
    <3> QED BY <1>1, <2>1, <3>1, Zenon
  <2>3. q # n => h[q].val <= h[r].val
    <3>1. q # n => q \in 2 .. n - 1
      OBVIOUS
    <3> QED BY <1>15, <2>0, <3>1 DEF IsHeap
  <2> SUFFICES a[q].val <= a[r].val
    BY <2>0, Zenon
  \* If r is passed, its father is no smaller.
  <2>4. r \in P /\ next[r] # r => a[r].val \in Nat /\ h[r].val <= a[r].val
    <3> SUFFICES ASSUME r \in P, next[r] # r PROVE a[r].val \in Nat /\ h[r].val <= a[r].val
      OBVIOUS
    <3>1. next[r] = r \div 2 /\ r > 1 /\ next[r] \in 1 .. n
      BY <1>4
    <3>2. r \in 2 .. n - 1
      BY <2>1, <3>1
    <3>3. h[r].val <= h[r \div 2].val
      BY <1>15, <3>2 DEF IsHeap
    <3>4. a[r] = h[next[r]]
      BY <1>11
    <3>5. h[next[r]].val \in Nat
      BY <1>1, <3>1
    <3> QED BY <3>1, <3>3, <3>4, <3>5, Zenon
  \* If r is where e ends, e is larger than what was there.
  <2>5. r \in P /\ next[r] = r => a[r] = e /\ h[r].val <= e.val
    <3> SUFFICES ASSUME r \in P, next[r] = r PROVE a[r] = e /\ h[r].val <= e.val
      OBVIOUS
    <3>1. a[r] = e
      BY <1>11
    <3>2. PICK pre \in P \ {r} : \A x \in P \ {r} : next[x] = r <=> x = pre
      BY <1>7, <2>1 DEF Way
    <3>3. next[pre] = r /\ pre \in 1 .. n /\ pre # r
      BY <1>8, <3>2
    <3>4. e.val > h[r].val
      BY <1>4, <3>3
    <3>5. PICK x \in Nat, y \in Nat : x = e.val /\ y = h[r].val
      BY <1>0, <2>2, Zenon
    <3>6. x > y
      BY <3>4, <3>5
    <3>7. y <= x
      BY <3>6
    <3> QED BY <3>1, <3>5, <3>7, Zenon
  <2>6. CASE q \notin P
    <3>1. q # n
      BY <1>8, <2>6
    <3>2. a[q] = h[q] /\ h[q].val <= h[r].val
      BY <1>11, <2>1, <2>3, <2>6, <3>1, Zenon
    <3>3. CASE r \notin P
      <4>1. a[r] = h[r]
        BY <1>11, <2>1, <3>3, Zenon
      <4> QED BY <3>2, <4>1, Zenon
    <3>4. CASE r \in P
      <4>1. h[r].val <= a[r].val /\ a[r].val \in Nat
        BY <1>0, <2>4, <2>5, <3>4, Zenon
      <4>2. PICK x \in Nat, y \in Nat, z \in Nat :
              x = h[q].val /\ y = h[r].val /\ z = a[r].val
        BY <2>2, <4>1, Zenon
      <4>3. x <= y /\ y <= z
        BY <3>2, <4>1, <4>2, Zenon
      <4>4. x <= z
        BY <4>3
      <4> QED BY <3>2, <4>2, <4>4, Zenon
    <3> QED BY <3>3, <3>4
  <2>7. CASE q \in P /\ next[q] = q
    <3>1. a[q] = e
      BY <1>11, <2>7
    <3>2. e.val <= h[r].val
      <4>1. ~(e.val > h[r].val)
        <5>1. q > 1 /\ ~(next[q] < q)
          BY <2>1, <2>7
        <5> QED BY <1>4, <2>0, <2>1, <5>1, Zenon
      <4>2. PICK x \in Nat, y \in Nat : x = e.val /\ y = h[r].val
        BY <1>0, <2>2, Zenon
      <4>3. ~(x > y)
        BY <4>1, <4>2, Zenon
      <4>4. x <= y
        BY <4>3
      <4> QED BY <4>2, <4>4, Zenon
    <3>3. r \notin P
      <4>1. q = stop
        BY <1>7, <2>7 DEF Way
      <4>2. ASSUME r \in P PROVE FALSE
        <5>1. rank[stop] <= rank[r]
          BY <1>7, <4>2 DEF Way
        <5> QED BY <1>3, <2>1, <4>1, <5>1
      <4> QED BY <4>2
    <3>4. a[r] = h[r]
      BY <1>11, <2>1, <3>3, Zenon
    <3> QED BY <3>1, <3>2, <3>4, Zenon
  <2>8. CASE q \in P /\ next[q] # q
    <3>1. next[q] = r /\ e.val > h[r].val
      BY <1>4, <2>0, <2>1, <2>8
    <3>2. a[q] = h[r]
      BY <1>11, <2>8, <3>1
    <3>3. r \in P
      BY <1>7, <2>8, <3>1 DEF Way
    <3>4. h[r].val <= a[r].val
      BY <2>4, <2>5, <3>3, Zenon
    <3> QED BY <3>2, <3>4, Zenon
  <2> QED BY <2>6, <2>7, <2>8
<1> QED BY <1>6, <1>10, <1>14, <1>15 DEF IsPushed
-----------------------------------------------------------------------------
(* An element takes the place of the top.                                  *)

\* What is rearranged twice is rearranged.
LEMMA RearrangedTwice ==
  ASSUME NEW n \in Nat, NEW a, NEW b, NEW c, Rearranged(a, b, n), Rearranged(b, c, n)
  PROVE  Rearranged(a, c, n)
<1>1. PICK f : IsPermutation(f, n) /\ \A p \in 1 .. n : a[p] = b[f[p]]
  BY DEF Rearranged
<1>2. PICK g : IsPermutation(g, n) /\ \A p \in 1 .. n : b[p] = c[g[p]]
  BY DEF Rearranged
<1>3. f \in [1 .. n -> 1 .. n] /\ g \in [1 .. n -> 1 .. n]
  BY <1>1, <1>2 DEF IsPermutation
<1>4. PICK both : both = [p \in 1 .. n |-> g[f[p]]]
  OBVIOUS
<1>5. both \in [1 .. n -> 1 .. n]
  BY <1>3, <1>4
<1>6. \A p \in 1 .. n : both[p] = g[f[p]] /\ f[p] \in 1 .. n
  BY <1>3, <1>4
<1>7. \A x, y \in 1 .. n : both[x] = both[y] => x = y
  <2>1. ASSUME NEW x \in 1 .. n, NEW y \in 1 .. n, both[x] = both[y] PROVE x = y
    <3>1. g[f[x]] = g[f[y]] /\ f[x] \in 1 .. n /\ f[y] \in 1 .. n
      BY <1>6, <2>1
    <3>2. f[x] = f[y]
      BY <1>2, <3>1, Zenon DEF IsPermutation
    <3> QED BY <1>1, <3>2, Zenon DEF IsPermutation
  <2> QED BY <2>1
<1>8. \A y \in 1 .. n : \E x \in 1 .. n : both[x] = y
  <2>1. ASSUME NEW y \in 1 .. n PROVE \E x \in 1 .. n : both[x] = y
    <3>1. PICK z \in 1 .. n : g[z] = y
      BY <1>2 DEF IsPermutation
    <3>2. PICK x \in 1 .. n : f[x] = z
      BY <1>1 DEF IsPermutation
    <3> QED BY <1>6, <3>1, <3>2
  <2> QED BY <2>1
<1>9. IsPermutation(both, n)
  BY <1>5, <1>7, <1>8, Zenon DEF IsPermutation
<1>10. \A p \in 1 .. n : a[p] = c[both[p]]
  <2>1. ASSUME NEW p \in 1 .. n PROVE a[p] = c[both[p]]
    <3>1. a[p] = b[f[p]] /\ b[f[p]] = c[g[f[p]]]
      BY <1>1, <1>2, <1>6
    <3> QED BY <1>6, <3>1
  <2> QED BY <2>1
<1> QED BY <1>9, <1>10 DEF Rearranged

\* A rearrangement that has the last element in its place leaves it there.
LEMMA LastStays ==
  ASSUME NEW n \in Nat \ {0}, NEW a, NEW g, Rearranged(a, g, n), a[n] = g[n]
  PROVE  \E f : IsPermutation(f, n) /\ f[n] = n /\ \A p \in 1 .. n : a[p] = g[f[p]]
<1>1. PICK f : IsPermutation(f, n) /\ \A p \in 1 .. n : a[p] = g[f[p]]
  BY DEF Rearranged
<1>2. f \in [1 .. n -> 1 .. n] /\ n \in 1 .. n
  <2>1. n \in 1 .. n
    OBVIOUS
  <2> QED BY <1>1, <2>1 DEF IsPermutation
<1>3. PICK w : w = [p \in 1 .. n |-> IF p = n THEN n ELSE IF f[p] = n THEN f[n] ELSE f[p]]
  OBVIOUS
<1>4. w \in [1 .. n -> 1 .. n] /\ w[n] = n
  BY <1>2, <1>3
<1>5. \A p \in 1 .. n : p # n => w[p] = IF f[p] = n THEN f[n] ELSE f[p]
  BY <1>3
<1>6. ASSUME NEW x \in 1 .. n, NEW y \in 1 .. n, w[x] = w[y] PROVE x = y
  <2>1. \A u, v \in 1 .. n : f[u] = f[v] => u = v
    BY <1>1 DEF IsPermutation
  <2>2. CASE x = n
    <3>1. CASE y # n
      <4>1. w[y] = n
        BY <1>4, <1>6, <2>2
      <4>2. CASE f[y] = n
        <5>1. f[n] = n
          BY <1>5, <3>1, <4>1, <4>2
        <5> QED BY <1>2, <2>1, <2>2, <4>2, <5>1, Zenon
      <4>3. CASE f[y] # n
        BY <1>5, <3>1, <4>1, <4>3
      <4> QED BY <4>2, <4>3
    <3> QED BY <2>2, <3>1
  <2>3. CASE y = n /\ x # n
    <3>1. w[x] = n
      BY <1>4, <1>6, <2>3
    <3>2. CASE f[x] = n
      <4>1. f[n] = n
        BY <1>5, <2>3, <3>1, <3>2
      <4> QED BY <1>2, <2>1, <2>3, <3>2, <4>1, Zenon
    <3>3. CASE f[x] # n
      BY <1>5, <2>3, <3>1, <3>3
    <3> QED BY <3>2, <3>3
  <2>4. CASE x # n /\ y # n
    BY <1>2, <1>5, <1>6, <2>1, <2>4
  <2> QED BY <2>2, <2>3, <2>4
<1>7. ASSUME NEW y \in 1 .. n PROVE \E x \in 1 .. n : w[x] = y
  <2>1. PICK u \in 1 .. n : f[u] = y
    BY <1>1 DEF IsPermutation
  <2>2. PICK v \in 1 .. n : f[v] = n
    BY <1>1, <1>2 DEF IsPermutation
  <2>3. CASE y = n
    BY <1>2, <1>4, <2>3
  <2>4. CASE y # n /\ u # n
    BY <1>5, <2>1, <2>4
  <2>5. CASE y # n /\ u = n
    <3>1. v # n
      BY <2>1, <2>2, <2>5
    <3> QED BY <1>5, <2>1, <2>2, <2>5, <3>1
  <2> QED BY <2>3, <2>4, <2>5
<1>8. IsPermutation(w, n)
  BY <1>4, <1>6, <1>7 DEF IsPermutation
<1>9. ASSUME NEW p \in 1 .. n PROVE a[p] = g[w[p]]
  <2>1. a[p] = g[f[p]] /\ a[n] = g[f[n]]
    BY <1>1, <1>2
  <2>2. CASE p = n
    BY <1>4, <2>2
  <2>3. CASE p # n /\ f[p] = n
    BY <1>5, <2>1, <2>3
  <2>4. CASE p # n /\ f[p] # n
    BY <1>5, <2>1, <2>4
  <2> QED BY <2>2, <2>3, <2>4
<1> QED BY <1>4, <1>8, <1>9

\* Replacing the last element before or after a rearrangement that leaves it
\* in its place is the same.
LEMMA LastReplaced ==
  ASSUME NEW n \in Nat \ {0}, NEW a, NEW g, Rearranged(a, g, n), a[n] = g[n],
         1 .. n \subseteq DOMAIN a, 1 .. n \subseteq DOMAIN g, NEW e
  PROVE  Rearranged([a EXCEPT ![n] = e], [g EXCEPT ![n] = e], n)
<1>1. PICK f : IsPermutation(f, n) /\ f[n] = n /\ \A p \in 1 .. n : a[p] = g[f[p]]
  BY LastStays
<1>2. f \in [1 .. n -> 1 .. n] /\ n \in 1 .. n
  BY <1>1 DEF IsPermutation
<1>3. ASSUME NEW p \in 1 .. n
      PROVE  [a EXCEPT ![n] = e][p] = [g EXCEPT ![n] = e][f[p]]
  <2>1. f[p] \in DOMAIN g /\ p \in DOMAIN a /\ a[p] = g[f[p]]
    BY <1>1, <1>2
  <2>2. CASE p = n
    BY <1>1, <2>1, <2>2
  <2>3. CASE p # n
    <3>1. f[p] # n
      BY <1>1, <1>2, <2>3 DEF IsPermutation
    <3> QED BY <2>1, <2>3, <3>1
  <2> QED BY <2>2, <2>3
<1> QED BY <1>1, <1>3 DEF Rearranged

\* Which of two exchanged elements is replaced makes no difference but for order.
LEMMA Swapped ==
  ASSUME NEW n \in Nat, NEW x \in 1 .. n, NEW y \in 1 .. n, NEW a, NEW b,
         a[x] = b[y], a[y] = b[x], \A p \in 1 .. n : p # x /\ p # y => a[p] = b[p]
  PROVE  Rearranged(a, b, n)
<1>1. PICK f : f = [p \in 1 .. n |-> IF p = x THEN y ELSE IF p = y THEN x ELSE p]
  OBVIOUS
<1>2. IsPermutation(f, n)
  BY <1>1 DEF IsPermutation
<1>3. \A p \in 1 .. n : a[p] = b[f[p]]
  BY <1>1
<1> QED BY <1>2, <1>3 DEF Rearranged

\* A pop followed by a push is the exchange of the top for e.
LEMMA Offered ==
  ASSUME NEW m \in Nat \ {0}, NEW h \in [1 .. m -> Element], IsHeap(h, m), NEW e \in Element
  PROVE  /\ Offer(h, e) \in [1 .. m -> Element] /\ IsHeap(Offer(h, e), m)
         /\ e.val < h[1].val => Rearranged(Offer(h, e), [h EXCEPT ![1] = e], m)
         /\ ~(e.val < h[1].val) => Offer(h, e) = h
<1>1. CASE ~(e.val < h[1].val)
  BY <1>1 DEF Offer
<1>2. CASE e.val < h[1].val
  <2>1. Len(h) = m
    OBVIOUS
  <2>2. PICK a : a = heap_pop(h, m)
    OBVIOUS
  <2>3. PICK b : b = heap_push(a, m, e)
    OBVIOUS
  <2>4. Offer(h, e) = b
    BY <1>2, <2>1, <2>2, <2>3 DEF Offer
  <2>5. PICK g : g = [h EXCEPT ![1] = h[m]]
    OBVIOUS
  <2>6. /\ a \in [1 .. m -> Element] /\ a[m] = h[m]
        /\ Rearranged(a, g, m) /\ IsHeap(a, m)
    <3>1. m \in m .. m /\ m <= m /\ m \in Nat
      OBVIOUS
    <3>2. IsPopped(a, h, m, m)
      BY <2>2, <3>1, Popped
    <3> QED BY <2>5, <3>1, <3>2 DEF IsPopped
  <2>7. IsHeap(a, m - 1)
    BY <2>6 DEF IsHeap
  <2>8. /\ KeepsRest(b, a, m, m) /\ Rearranged(b, [a EXCEPT ![m] = e], m)
        /\ IsHeap(b, m)
    <3>1. m <= m /\ m \in Nat
      OBVIOUS
    <3>2. IsPushed(b, a, m, m, e)
      BY <2>3, <2>6, <3>1, Pushed
    <3> QED BY <2>7, <3>2 DEF IsPushed
  <2>9. b \in [1 .. m -> Element]
    BY <2>8 DEF KeepsRest
  <2>10. 1 .. m \subseteq DOMAIN a /\ 1 .. m \subseteq DOMAIN g /\ DOMAIN g = 1 .. m
         /\ 1 \in 1 .. m /\ m \in 1 .. m
    BY <2>5, <2>6
  <2>11. a[m] = g[m]
    BY <2>5, <2>6, <2>10
  <2>12. Rearranged([a EXCEPT ![m] = e], [g EXCEPT ![m] = e], m)
    BY <2>6, <2>10, <2>11, LastReplaced
  <2>13. Rearranged([g EXCEPT ![m] = e], [h EXCEPT ![1] = e], m)
    <3>1. PICK t : t = [h EXCEPT ![1] = e]
      OBVIOUS
    <3>2. PICK s : s = [g EXCEPT ![m] = e]
      OBVIOUS
    <3>3. s[1] = t[m] /\ s[m] = t[1]
      BY <2>5, <2>10, <3>1, <3>2
    <3>4. \A p \in 1 .. m : p # 1 /\ p # m => s[p] = t[p]
      BY <2>5, <2>10, <3>1, <3>2
    <3>5. Rearranged(s, t, m)
      BY <2>10, <3>3, <3>4, Swapped
    <3> QED BY <3>1, <3>2, <3>5
  <2>14. Rearranged(b, [h EXCEPT ![1] = e], m)
    BY <2>8, <2>12, <2>13, RearrangedTwice
  <2> QED BY <1>2, <2>4, <2>8, <2>9, <2>14
<1> QED BY <1>1, <1>2

\* No element of a heap is above its top.
LEMMA TopIsLargest ==
  ASSUME NEW n \in Nat, NEW h, HasValues(h, n), IsHeap(h, n)
  PROVE  \A q \in 1 .. n : h[q].val <= h[1].val
<1> DEFINE Good == {q \in 1 .. n : h[q].val <= h[1].val}
<1>1. PICK rank \in [1 .. n -> Nat] : rank = [i \in 1 .. n |-> i]
  <2>1. \A i \in 1 .. n : i \in Nat
    OBVIOUS
  <2> QED BY <2>1
<1>2. ASSUME NEW q \in 1 .. n, \A b \in 1 .. n : rank[b] < rank[q] => b \in Good
      PROVE  q \in Good
  <2>1. h[q].val \in Nat /\ h[1].val \in Nat
    BY DEF HasValues
  <2>2. CASE q = 1
    BY <2>1, <2>2
  <2>3. CASE q # 1
    <3>1. PICK r \in 1 .. n : r = q \div 2 /\ r < q
      <4>1. q \in 2 .. n /\ n \in Nat \ {0}
        BY <2>3
      <4> QED BY <4>1, HalfBelow, Zenon
    <3>2. h[r].val <= h[1].val /\ h[r].val \in Nat
      BY <1>1, <1>2, <3>1 DEF HasValues
    <3>3. q \in 2 .. n
      BY <2>3
    <3>4. h[q].val <= h[r].val
      BY <3>1, <3>3 DEF IsHeap
    <3> QED BY <2>1, <3>2, <3>4
  <2> QED BY <2>2, <2>3
<1> HIDE DEF Good
<1>3. Progressive(Good, 1 .. n, rank)
  BY <1>2 DEF Progressive
<1>4. \A q \in 1 .. n : q \in Good
  BY <1>3, RankInduction
<1> QED BY <1>4 DEF Good
-----------------------------------------------------------------------------
(* A heap holds the nearest of the elements offered.                       *)

\* An element of the index: results that no element has come to have id -1.
Found == {e \in Element : e.id # -1}

HoldsNearest(h, m, elements) ==
  /\ \A p \in 1 .. m : h[p] = Unused \/ (h[p] \in elements /\ h[p].val < Neutral)
  /\ \A p, q \in 1 .. m : h[p] = h[q] /\ h[p].id # -1 => p = q
  /\ \A e \in elements : e.val < Neutral =>
       \/ \E p \in 1 .. m : h[p] = e
       \/ \A p \in 1 .. m : h[p].id # -1 /\ h[p].val <= e.val

\* An unused place has the largest distance and no label.
LEMMA UnusedIs == Unused \in Element /\ Unused.id = -1 /\ Unused.val = Neutral /\ Neutral \in Nat
BY NeutralNat DEF Unused, Element

\* The nearest of elements and e are what a heap of the nearest of elements
\* holds when e has been offered.
LEMMA OfferKeeps ==
  ASSUME NEW m \in Nat \ {0}, NEW h \in [1 .. m -> Element], IsHeap(h, m),
         NEW elements \in SUBSET Found, HoldsNearest(h, m, elements),
         NEW e \in Found, e \notin elements
  PROVE  HoldsNearest(Offer(h, e), m, elements \cup {e})
<1>1. e \in Element /\ e.val \in Nat /\ e.id # -1
  BY DEF Found, Element
<1>2. 1 \in 1 .. m /\ \A p \in 1 .. m : h[p] \in Element /\ h[p].val \in Nat
  BY DEF Element
<1>3. \A p \in 1 .. m : h[p].val <= h[1].val
  <2>1. HasValues(h, m)
    BY <1>2 DEF HasValues
  <2> QED BY <2>1, TopIsLargest
<1>4. /\ \A p \in 1 .. m : h[p] = Unused \/ (h[p] \in elements /\ h[p].val < Neutral)
      /\ \A p, q \in 1 .. m : h[p] = h[q] /\ h[p].id # -1 => p = q
      /\ \A x \in elements : x.val < Neutral =>
           \/ \E p \in 1 .. m : h[p] = x
           \/ \A p \in 1 .. m : h[p].id # -1 /\ h[p].val <= x.val
  BY Zenon DEF HoldsNearest
<1>5. \A x \in elements : x.id # -1 /\ x.val \in Nat /\ x # e
  BY DEF Found, Element
<1>6. \A p \in 1 .. m : h[p] # e
  BY <1>1, <1>4, <1>5, UnusedIs
<1>7. ASSUME NEW y \in Nat, y < Neutral, h[1].val <= y, NEW p \in 1 .. m
      PROVE  h[p].id # -1 /\ h[p].val <= y
  <2>1. h[p].val <= y
    <3>1. h[p].val <= h[1].val /\ h[p].val \in Nat /\ h[1].val \in Nat
      BY <1>2, <1>3
    <3> QED BY <1>7, <3>1
  <2>2. h[p] # Unused
    BY <1>2, <1>7, <2>1, UnusedIs
  <2> QED BY <1>4, <1>5, <2>1, <2>2
<1>8. CASE ~(e.val < h[1].val)
  <2>1. Offer(h, e) = h
    BY <1>1, <1>8, Offered
  <2>2. e.val < Neutral => \A p \in 1 .. m : h[p].id # -1 /\ h[p].val <= e.val
    BY <1>1, <1>2, <1>7, <1>8
  <2>3. \A x \in elements \cup {e} : x \in elements \/ x = e
    OBVIOUS
  <2>4. \A x \in elements : x \in elements \cup {e}
    OBVIOUS
  <2> QED BY <1>4, <2>1, <2>2, <2>3, <2>4, Zenon DEF HoldsNearest
<1>9. CASE e.val < h[1].val
  <2>1. PICK a \in [1 .. m -> Element] : a = Offer(h, e) /\ Rearranged(a, [h EXCEPT ![1] = e], m)
    BY <1>1, <1>9, Offered
  <2>2. PICK f : IsPermutation(f, m) /\ \A p \in 1 .. m : a[p] = [h EXCEPT ![1] = e][f[p]]
    BY <2>1 DEF Rearranged
  <2>3. \A p \in 1 .. m : f[p] \in 1 .. m
    BY <2>2 DEF IsPermutation
  <2>4. /\ \A p \in 1 .. m : f[p] = 1 => a[p] = e
        /\ \A p \in 1 .. m : f[p] # 1 => a[p] = h[f[p]]
    BY <1>2, <2>2, <2>3
  <2>5. h[1].val <= Neutral
    BY <1>2, <1>4, UnusedIs
  <2>6. e.val < Neutral
    BY <1>1, <1>2, <1>9, <2>5, UnusedIs
  <2>7. \A p \in 1 .. m : a[p] = Unused \/ (a[p] \in elements \cup {e} /\ a[p].val < Neutral)
    <3>1. ASSUME NEW p \in 1 .. m
          PROVE  a[p] = Unused \/ (a[p] \in elements \cup {e} /\ a[p].val < Neutral)
      BY <1>4, <2>3, <2>4, <2>6
    <3> QED BY <3>1
  <2>8. \A p, q \in 1 .. m : a[p] = a[q] /\ a[p].id # -1 => p = q
    <3>1. ASSUME NEW p \in 1 .. m, NEW q \in 1 .. m, a[p] = a[q], a[p].id # -1 PROVE p = q
      <4>1. f[p] = f[q]
        <5>1. CASE f[p] = 1 \/ f[q] = 1
          BY <1>6, <2>3, <2>4, <3>1, <5>1
        <5>2. CASE f[p] # 1 /\ f[q] # 1
          <6>1. h[f[p]] = h[f[q]] /\ h[f[p]].id # -1
            BY <2>4, <3>1, <5>2
          <6> QED BY <1>4, <2>3, <6>1, Zenon
        <5> QED BY <5>1, <5>2
      <4> QED BY <2>2, <4>1, Zenon DEF IsPermutation
    <3> QED BY <3>1
  <2>9. ASSUME NEW x \in elements \cup {e}, x.val < Neutral
        PROVE  \/ \E p \in 1 .. m : a[p] = x
               \/ \A p \in 1 .. m : a[p].id # -1 /\ a[p].val <= x.val
    <3>1. x.val \in Nat
      BY <1>1, <1>5
    <3>2. CASE x = e
      <4>1. PICK p \in 1 .. m : f[p] = 1
        BY <1>2, <2>2 DEF IsPermutation
      <4> QED BY <2>4, <3>2, <4>1
    <3>3. CASE x # e /\ \E p \in 1 .. m : p # 1 /\ h[p] = x
      <4>1. PICK p \in 1 .. m : p # 1 /\ h[p] = x
        BY <3>3
      <4>2. PICK q \in 1 .. m : f[q] = p
        BY <2>2 DEF IsPermutation
      <4> QED BY <2>4, <4>1, <4>2
    <3>4. CASE x # e /\ h[1].val <= x.val
      <4>1. ASSUME NEW p \in 1 .. m PROVE a[p].id # -1 /\ a[p].val <= x.val
        <5>1. CASE f[p] = 1
          BY <1>1, <1>2, <1>9, <2>4, <3>1, <3>4, <5>1
        <5>2. CASE f[p] # 1
          <6>1. a[p] = h[f[p]] /\ f[p] \in 1 .. m
            BY <2>3, <2>4, <5>2
          <6>2. h[f[p]].id # -1 /\ h[f[p]].val <= x.val
            BY <1>7, <2>9, <3>1, <3>4, <6>1
          <6> QED BY <6>1, <6>2
        <5> QED BY <5>1, <5>2
      <4> QED BY <4>1
    <3>5. x = e \/ (\E p \in 1 .. m : p # 1 /\ h[p] = x) \/ h[1].val <= x.val
      <4>1. CASE x \in elements /\ h[1] = x
        <5>1. h[1].val <= x.val
          BY <3>1, <4>1
        <5> QED BY <5>1
      <4>2. CASE x \in elements /\ h[1] # x
        BY <1>2, <1>4, <2>9, <4>2
      <4> QED BY <4>1, <4>2
    <3> QED BY <3>2, <3>3, <3>4, <3>5
  <2>10. \A x \in elements \cup {e} : x.val < Neutral =>
           \/ \E p \in 1 .. m : a[p] = x
           \/ \A p \in 1 .. m : a[p].id # -1 /\ a[p].val <= x.val
    BY <2>9
  <2> QED BY <2>1, <2>7, <2>8, <2>10, Zenon DEF HoldsNearest
<1> QED BY <1>8, <1>9

\* A new heap holds the nearest of no elements.
LEMMA EmptyHeap ==
  ASSUME NEW m \in Nat
  PROVE  /\ heapify(m) \in [1 .. m -> Element] /\ IsHeap(heapify(m), m)
         /\ HoldsNearest(heapify(m), m, {})
<1>1. heapify(m) = [i \in 1 .. m |-> Unused]
  BY DEF heapify
<1>2. heapify(m) \in [1 .. m -> Element]
  BY <1>1, UnusedIs
<1>3. IsHeap(heapify(m), m)
  <2>1. ASSUME NEW q \in 2 .. m PROVE heapify(m)[q].val <= heapify(m)[q \div 2].val
    <3>1. q \in 1 .. m /\ q \div 2 \in 1 .. m
      <4>1. m \in Nat \ {0} /\ q \in 1 .. m
        OBVIOUS
      <4> QED BY <4>1, HalfBelow, Zenon
    <3>2. heapify(m)[q] = Unused /\ heapify(m)[q \div 2] = Unused
      BY <1>1, <3>1
    <3> QED BY <3>2, UnusedIs
  <2> QED BY <2>1 DEF IsHeap
<1>4. HoldsNearest(heapify(m), m, {})
  BY <1>1, UnusedIs DEF HoldsNearest
<1> QED BY <1>2, <1>3, <1>4
-----------------------------------------------------------------------------
(* All elements of a sequence are offered.                                 *)

Elements(s, x) == {s[i] : i \in 1 .. x}

HeapOf(h, m, elements) ==
  h \in [1 .. m -> Element] /\ IsHeap(h, m) /\ HoldsNearest(h, m, elements)

\* heap_addn: a heap of the nearest of all elements of a sequence.
LEMMA AddedN ==
  ASSUME NEW m \in Nat \ {0}, NEW s \in Seq(Found),
         \A x, y \in 1 .. Len(s) : s[x] = s[y] => x = y
  PROVE  HeapOf(addn(heapify(m), s), m, Elements(s, Len(s)))
<1>1. PICK n \in Nat : n = Len(s)
  OBVIOUS
<1>2. PICK S : S = {a \in [1 .. m -> Element] : IsHeap(a, m)}
  OBVIOUS
<1>3. PICK h \in S : h = heapify(m) /\ HoldsNearest(h, m, {})
  BY <1>2, EmptyHeap
<1>4. \A a \in S : a \in [1 .. m -> Element] /\ IsHeap(a, m)
  BY <1>2
<1>5. \A x \in 1 .. n : s[x] \in Found /\ s[x] \in Element
  BY <1>1 DEF Found
<1>6. PICK rank \in [0 .. n -> Nat] : rank = [x \in 0 .. n |-> x]
  <2>1. \A x \in 0 .. n : x \in Nat
    OBVIOUS
  <2> QED BY <2>1
<1> DEFINE After(f, x) == IF x = 0 THEN h ELSE Offer(f[x - 1], s[x])
<1>7. PICK F : F = [f \in [0 .. n -> S] |-> [x \in 0 .. n |-> After(f, x)]]
  OBVIOUS
<1>8. ASSUME NEW f \in [0 .. n -> S], NEW x \in 0 .. n PROVE After(f, x) \in S
  <2>1. CASE x = 0
    BY <1>3, <2>1
  <2>2. CASE x # 0
    <3>1. f[x - 1] \in S /\ s[x] \in Element
      BY <1>5, <2>2
    <3>2. PICK a \in [1 .. m -> Element] : a = f[x - 1] /\ IsHeap(a, m)
      BY <1>4, <3>1
    <3>3. PICK e \in Element : e = s[x]
      BY <3>1
    <3>4. Offer(a, e) \in S
      BY <1>2, <3>2, Offered
    <3> QED BY <2>2, <3>2, <3>3, <3>4
  <2> QED BY <2>1, <2>2
<1>9. F \in [[0 .. n -> S] -> [0 .. n -> S]]
  <2> HIDE DEF After
  <2> QED BY <1>7, <1>8
<1>10. LooksBelow(F, 0 .. n, S, rank)
  <2>1. ASSUME NEW f \in [0 .. n -> S], NEW g \in [0 .. n -> S], NEW x \in 0 .. n,
               \A b \in 0 .. n : rank[b] < rank[x] => f[b] = g[b]
        PROVE  F[f][x] = F[g][x]
    <3>1. x # 0 => f[x - 1] = g[x - 1]
      <4>1. x # 0 => x - 1 \in 0 .. n /\ rank[x - 1] < rank[x]
        BY <1>6
      <4> QED BY <2>1, <4>1
    <3>2. After(f, x) = After(g, x)
      BY <3>1
    <3> HIDE DEF After
    <3> QED BY <1>7, <3>2
  <2> QED BY <2>1 DEF LooksBelow
<1>11. PICK after \in [0 .. n -> S] : after = [x \in 0 .. n |-> After(after, x)]
  <2>1. S # {} /\ n + 1 \in Nat
    BY <1>3
  <2>2. Bounded(rank, 0 .. n, n + 1)
    BY <1>6 DEF Bounded
  <2>3. \E f \in [0 .. n -> S] : IsFixed(f, F)
    BY <1>9, <1>10, <2>1, <2>2, Recursion
  <2> HIDE DEF After
  <2> QED BY <1>7, <2>3 DEF IsFixed
<1>12. PICK f : f = [x \in 0 .. n |-> After(f, x)] /\ addn(h, s) = f[n]
  <2>1. addn(h, s) = (CHOOSE f : f = [x \in 0 .. n |-> After(f, x)])[n]
    BY <1>1 DEF addn
  <2> HIDE DEF After
  <2> QED BY <1>11, <2>1
<1> DEFINE Good == {x \in 0 .. n : f[x] \in S /\ HoldsNearest(f[x], m, Elements(s, x))}
<1>13. ASSUME NEW x \in 0 .. n, \A b \in 0 .. n : rank[b] < rank[x] => b \in Good
       PROVE  x \in Good
  <2>1. f[x] = After(f, x)
    BY <1>12
  <2>2. CASE x = 0
    <3>1. f[x] = h
      BY <2>1, <2>2
    <3>2. Elements(s, x) = {}
      BY <2>2 DEF Elements
    <3> QED BY <1>3, <3>1, <3>2
  <2>3. CASE x # 0
    <3>1. x - 1 \in 0 .. n /\ x \in 1 .. n /\ rank[x - 1] < rank[x]
      BY <1>6, <2>3
    <3>2. f[x - 1] \in S /\ HoldsNearest(f[x - 1], m, Elements(s, x - 1))
      BY <1>13, <3>1
    <3>3. PICK a \in [1 .. m -> Element] : a = f[x - 1] /\ IsHeap(a, m)
      BY <1>4, <3>2
    <3>4. PICK e \in Found : e = s[x] /\ e \in Element
      BY <1>5, <3>1
    <3>5. PICK E \in SUBSET Found : E = Elements(s, x - 1)
      <4>1. \A i \in 1 .. x - 1 : i \in 1 .. n
        BY <3>1
      <4>2. Elements(s, x - 1) \in SUBSET Found
        BY <1>5, <4>1, Zenon DEF Elements
      <4> QED BY <4>2
    <3>6. e \notin E
      <4>1. \A i \in 1 .. x - 1 : i \in 1 .. n /\ i # x
        BY <3>1
      <4>2. \A i \in 1 .. x - 1 : s[i] # s[x]
        BY <1>1, <3>1, <4>1
      <4> QED BY <3>4, <3>5, <4>2 DEF Elements
    <3>7. HoldsNearest(Offer(a, e), m, E \cup {e})
      BY <3>2, <3>3, <3>5, <3>6, OfferKeeps
    <3>8. Elements(s, x) = E \cup {e}
      <4>1. 1 .. x = (1 .. x - 1) \cup {x}
        BY <3>1
      <4> QED BY <3>4, <3>5, <4>1 DEF Elements
    <3>9. f[x] = Offer(a, e)
      BY <2>1, <2>3, <3>3, <3>4
    <3>10. Offer(a, e) \in S
      BY <1>2, <3>3, <3>4, Offered
    <3> QED BY <3>7, <3>8, <3>9, <3>10
  <2> QED BY <2>2, <2>3
<1> HIDE DEF Good, After
<1>14. Progressive(Good, 0 .. n, rank)
  BY <1>13 DEF Progressive
<1>15. \A x \in 0 .. n : x \in Good
  BY <1>14, RankInduction
<1>16. f[n] \in S /\ HoldsNearest(f[n], m, Elements(s, n))
  <2>1. n \in 0 .. n
    OBVIOUS
  <2> QED BY <1>15, <2>1 DEF Good
<1> QED BY <1>1, <1>3, <1>4, <1>12, <1>16 DEF HeapOf

-----------------------------------------------------------------------------
(* The heap is put in order.                                               *)

IsRest(f, a, h, n) ==
  /\ \A p \in 1 .. n - 1 : f[p] \in 2 .. n /\ a[p] = h[f[p]]
  /\ \A p, q \in 1 .. n - 1 : f[p] = f[q] => p = q
  /\ \A y \in 2 .. n : \E p \in 1 .. n - 1 : f[p] = y

\* What a pop leaves before place n are the other elements.
LEMMA PoppedRest ==
  ASSUME NEW n \in Nat \ {0}, NEW m \in Nat, n <= m, NEW h \in [1 .. m -> Element],
         NEW a, IsPopped(a, h, n, m)
  PROVE  \E f : IsRest(f, a, h, n)
<1>1. PICK g : g = [h EXCEPT ![1] = h[n]]
  OBVIOUS
<1>2. n \in 1 .. n /\ n \in n .. m /\ 1 \in 1 .. m /\ n \in 1 .. m
  OBVIOUS
<1>3. Rearranged(a, g, n) /\ a[n] = g[n]
  BY <1>1, <1>2 DEF IsPopped
<1>4. PICK w : IsPermutation(w, n) /\ w[n] = n /\ \A p \in 1 .. n : a[p] = g[w[p]]
  BY <1>3, LastStays
<1>5. \A p \in 1 .. n - 1 : p \in 1 .. n /\ p # n
  OBVIOUS
<1>6. \A p \in 1 .. n - 1 : w[p] \in 1 .. n - 1
  <2>1. ASSUME NEW p \in 1 .. n - 1 PROVE w[p] \in 1 .. n - 1
    <3>1. w[p] \in 1 .. n
      BY <1>4, <1>5 DEF IsPermutation
    <3>2. ASSUME w[p] = n PROVE FALSE
      <4>1. w[p] = w[n] /\ p \in 1 .. n /\ p # n
        BY <1>4, <1>5, <3>2
      <4> QED BY <1>2, <1>4, <4>1, Zenon DEF IsPermutation
    <3> QED BY <3>1, <3>2
  <2> QED BY <2>1
<1>7. PICK f : f = [p \in 1 .. n - 1 |-> IF w[p] = 1 THEN n ELSE w[p]]
  OBVIOUS
<1>8. \A p \in 1 .. n - 1 : f[p] = IF w[p] = 1 THEN n ELSE w[p]
  BY <1>7
<1>9. ASSUME NEW p \in 1 .. n - 1 PROVE f[p] \in 2 .. n /\ a[p] = h[f[p]]
  <2>1. a[p] = g[w[p]] /\ w[p] \in 1 .. n - 1
    BY <1>4, <1>5, <1>6
  <2>2. CASE w[p] = 1
    BY <1>1, <1>2, <1>8, <2>1, <2>2
  <2>3. CASE w[p] # 1
    BY <1>1, <1>2, <1>8, <2>1, <2>3
  <2> QED BY <2>2, <2>3
<1>10. ASSUME NEW p \in 1 .. n - 1, NEW q \in 1 .. n - 1, f[p] = f[q] PROVE p = q
  <2>1. w[p] = w[q]
    BY <1>6, <1>8, <1>10
  <2> QED BY <1>4, <1>5, <2>1, Zenon DEF IsPermutation
<1>11. ASSUME NEW y \in 2 .. n PROVE \E p \in 1 .. n - 1 : f[p] = y
  <2>1. PICK z \in 1 .. n - 1 : z = IF y = n THEN 1 ELSE y
    BY <1>11
  <2>2. PICK p \in 1 .. n : w[p] = z
    BY <1>4, <1>5 DEF IsPermutation
  <2>3. p \in 1 .. n - 1
    BY <1>4, <2>1, <2>2
  <2>4. f[p] = y
    BY <1>8, <2>1, <2>2, <2>3
  <2> QED BY <2>3, <2>4
<1> QED BY <1>9, <1>10, <1>11 DEF IsRest

\* The places that count after x turns, of which r.ii have put something aside:
\* what is left of the heap, and the elements put aside.
Left(m, x) == 1 .. m - x
Aside(m, r) == m - r.ii + 1 .. m

Holds(bh, left, aside, h, m) ==
  /\ \A p \in left \cup aside : \E q \in 1 .. m : bh[p] = h[q]
  /\ \A q \in 1 .. m : h[q].id # -1 => \E p \in left \cup aside : bh[p] = h[q]
  /\ \A p, q \in left \cup aside : bh[p] = bh[q] /\ bh[p].id # -1 => p = q
  /\ \A p \in aside : bh[p].id # -1 /\ (p # m => bh[p].val <= bh[p + 1].val)
  /\ \A p \in left, q \in aside : bh[p].val <= bh[q].val

\* After x turns with the heap h.
Turned(r, x, h, m) ==
  /\ r.bh \in [1 .. m -> Element] /\ r.ii \in 0 .. x /\ IsHeap(r.bh, m - x)
  /\ (\A p \in 1 .. m : h[p].id # -1) => r.ii = x
  /\ Holds(r.bh, Left(m, x), Aside(m, r), h, m)

\* A turn of heap_reorder takes the top of what is left and puts it aside,
\* before what it found there, unless it is an unused place.
LEMMA TurnTurned ==
  ASSUME NEW m \in Nat \ {0}, NEW h \in [1 .. m -> Element], NEW x \in 0 .. m - 1,
         NEW r, Turned(r, x, h, m)
  PROVE  Turned(Turn(r, x), x + 1, h, m)
<1>1. PICK n \in Nat \ {0} : n = m - x /\ n <= m
  OBVIOUS
<1>2. PICK bh \in [1 .. m -> Element] : bh = r.bh
  BY DEF Turned
<1>3. PICK ii \in 0 .. x : ii = r.ii
  BY DEF Turned
<1>4. PICK a \in [1 .. m -> Element] : a = heap_pop(bh, n) /\ IsPopped(a, bh, n, m)
  <2>1. IsPopped(heap_pop(bh, n), bh, n, m)
    BY <1>1, Popped
  <2> QED BY <2>1 DEF IsPopped
<1>5. PICK t \in 1 .. m : t = m - ii /\ t >= n
  BY <1>1, <1>3
<1>6. PICK b \in [1 .. m -> Element] : b = [a EXCEPT ![t] = bh[1]]
  <2>1. bh[1] \in Element
    OBVIOUS
  <2> QED BY <2>1
<1>7. /\ Turn(r, x).bh = b
      /\ Turn(r, x).ii = IF bh[1].id # -1 THEN ii + 1 ELSE ii
  <2>1. Len(bh) = m
    OBVIOUS
  <2>2. Turn(r, x) = [bh |-> [heap_pop(bh, m - x) EXCEPT ![m - ii] = bh[1]],
                      ii |-> IF bh[1].id # -1 THEN ii + 1 ELSE ii]
    BY <1>2, <1>3, <2>1 DEF Turn
  <2> QED BY <1>1, <1>4, <1>5, <1>6, <2>2
\* The turned heap, without records.
<1>8. /\ IsHeap(bh, n)
      /\ (\A p \in 1 .. m : h[p].id # -1) => ii = x
      /\ \A p \in (1 .. n) \cup (t + 1 .. m) : \E q \in 1 .. m : bh[p] = h[q]
      /\ \A q \in 1 .. m : h[q].id # -1 =>
           \E p \in (1 .. n) \cup (t + 1 .. m) : bh[p] = h[q]
      /\ \A p, q \in (1 .. n) \cup (t + 1 .. m) : bh[p] = bh[q] /\ bh[p].id # -1 => p = q
      /\ \A p \in t + 1 .. m : bh[p].id # -1 /\ (p # m => bh[p].val <= bh[p + 1].val)
      /\ \A p \in 1 .. n, q \in t + 1 .. m : bh[p].val <= bh[q].val
  <2>1. Left(m, x) = 1 .. n /\ Aside(m, r) = t + 1 .. m
    BY <1>1, <1>3, <1>5 DEF Left, Aside
  <2>2. Holds(bh, 1 .. n, t + 1 .. m, h, m)
    BY <1>2, <2>1 DEF Turned
  <2>3. IsHeap(bh, n) /\ ((\A p \in 1 .. m : h[p].id # -1) => ii = x)
    BY <1>1, <1>2, <1>3 DEF Turned
  <2> QED BY <2>2, <2>3, Zenon DEF Holds
<1>9. PICK f : /\ \A p \in 1 .. n - 1 : f[p] \in 2 .. n /\ a[p] = bh[f[p]]
               /\ \A p, q \in 1 .. n - 1 : f[p] = f[q] => p = q
               /\ \A y \in 2 .. n : \E p \in 1 .. n - 1 : f[p] = y
  <2>1. \E f : IsRest(f, a, bh, n)
    BY <1>1, <1>4, PoppedRest
  <2> QED BY <2>1 DEF IsRest
\* Where the elements of b come from.
<1>10. PICK src : src = [p \in 1 .. m |-> IF p < n THEN f[p] ELSE IF p = t THEN 1 ELSE p]
  OBVIOUS
<1>11. /\ \A p \in 1 .. n - 1 : b[p] = bh[src[p]] /\ src[p] = f[p] /\ src[p] \in 2 .. n
       /\ b[t] = bh[1] /\ src[t] = 1
       /\ \A p \in t + 1 .. m : b[p] = bh[p] /\ src[p] = p
  <2>1. ASSUME NEW p \in 1 .. n - 1
        PROVE  b[p] = bh[src[p]] /\ src[p] = f[p] /\ src[p] \in 2 .. n
    <3>1. p \in 1 .. m /\ p < n /\ p # t
      BY <1>1, <1>5
    <3>2. src[p] = f[p] /\ b[p] = a[p]
      BY <1>6, <1>10, <3>1
    <3> QED BY <1>9, <3>2
  <2>2. b[t] = bh[1] /\ src[t] = 1
    BY <1>5, <1>6, <1>10
  <2>3. ASSUME NEW p \in t + 1 .. m PROVE b[p] = bh[p] /\ src[p] = p
    <3>1. p \in 1 .. m /\ p \in n .. m /\ p # t /\ ~(p < n)
      BY <1>1, <1>5
    <3>2. src[p] = p /\ b[p] = a[p]
      BY <1>6, <1>10, <3>1
    <3> QED BY <1>4, <3>1, <3>2 DEF IsPopped
  <2> QED BY <2>1, <2>2, <2>3
<1>12. IsHeap(b, n - 1)
  <2>1. IsHeap(a, n)
    BY <1>4, <1>8 DEF IsPopped
  <2>2. ASSUME NEW q \in 2 .. n - 1 PROVE b[q].val <= b[q \div 2].val
    <3>1. PICK s \in 1 .. n - 1 : s = q \div 2
      <4>1. n - 1 \in Nat \ {0}
        BY <1>1
      <4> QED BY <4>1, HalfBelow, Zenon
    <3>2. q \in 2 .. n /\ q # t /\ s # t /\ q \in 1 .. m /\ s \in 1 .. m
      BY <1>1, <1>5, <3>1
    <3>3. b[q] = a[q] /\ b[s] = a[s]
      BY <1>6, <3>2
    <3>4. a[q].val <= a[s].val
      BY <2>1, <3>1, <3>2 DEF IsHeap
    <3> QED BY <3>1, <3>3, <3>4, Zenon
  <2> QED BY <2>2 DEF IsHeap
<1>13. \A p \in 1 .. n : bh[p].val <= bh[1].val
  <2>1. HasValues(bh, n)
    <3>1. ASSUME NEW q \in 1 .. n PROVE bh[q].val \in Nat
      <4>1. q \in 1 .. m
        BY <1>1
      <4>2. bh[q] \in Element
        BY <4>1
      <4> QED BY <4>2 DEF Element
    <3> QED BY <3>1 DEF HasValues
  <2> QED BY <1>8, <2>1, TopIsLargest
<1>14. 1 \in 1 .. n /\ n - 1 = m - (x + 1) /\ n - 1 \in Nat
  BY <1>1
<1> DEFINE All == (1 .. n - 1) \cup (t + 1 .. m)
<1>15. \A p \in All : src[p] \in (1 .. n) \cup (t + 1 .. m) /\ src[p] # 1 /\ b[p] = bh[src[p]]
  BY <1>1, <1>5, <1>11
<1>16. \A p, q \in All : src[p] = src[q] => p = q
  <2>1. ASSUME NEW p \in All, NEW q \in All, src[p] = src[q] PROVE p = q
    <3>1. CASE p \in 1 .. n - 1 /\ q \in 1 .. n - 1
      BY <1>9, <1>11, <2>1, <3>1
    <3>2. CASE p \in 1 .. n - 1 /\ q \notin 1 .. n - 1
      <4>1. q \in t + 1 .. m /\ src[q] = q /\ src[p] \in 2 .. n
        BY <1>11, <3>2
      <4> QED BY <1>5, <2>1, <4>1
    <3>3. CASE p \notin 1 .. n - 1 /\ q \in 1 .. n - 1
      <4>1. p \in t + 1 .. m /\ src[p] = p /\ src[q] \in 2 .. n
        BY <1>11, <3>3
      <4> QED BY <1>5, <2>1, <4>1
    <3>4. CASE p \notin 1 .. n - 1 /\ q \notin 1 .. n - 1
      BY <1>11, <2>1, <3>4
    <3> QED BY <3>1, <3>2, <3>3, <3>4
  <2> QED BY <2>1
<1>17. \A y \in (1 .. n) \cup (t + 1 .. m) : y # 1 => \E p \in All : src[p] = y
  <2>1. ASSUME NEW y \in (1 .. n) \cup (t + 1 .. m), y # 1 PROVE \E p \in All : src[p] = y
    <3>1. CASE y \in 1 .. n
      <4>1. y \in 2 .. n
        BY <2>1, <3>1
      <4>2. PICK p \in 1 .. n - 1 : f[p] = y
        BY <1>9, <4>1
      <4> QED BY <1>11, <4>2
    <3>2. CASE y \in t + 1 .. m
      BY <1>11, <3>2
    <3> QED BY <3>1, <3>2
  <2> QED BY <2>1
<1>18. t \notin All /\ b[t] = bh[1] /\ t \in 1 .. m
  BY <1>5, <1>11
<1>19. \A p \in 1 .. n - 1, q \in t + 1 .. m : b[p].val <= b[q].val
  <2>1. ASSUME NEW p \in 1 .. n - 1, NEW q \in t + 1 .. m PROVE b[p].val <= b[q].val
    <3>1. PICK y \in 1 .. n : y = src[p] /\ b[p] = bh[y]
      BY <1>11
    <3>2. b[q] = bh[q]
      BY <1>11
    <3> QED BY <1>8, <3>1, <3>2
  <2> QED BY <2>1
<1>20. \A p \in t + 1 .. m : b[p].id # -1 /\ (p # m => b[p].val <= b[p + 1].val)
  <2>1. ASSUME NEW p \in t + 1 .. m PROVE b[p].id # -1 /\ (p # m => b[p].val <= b[p + 1].val)
    <3>1. p # m => p + 1 \in t + 1 .. m
      BY <1>5
    <3> QED BY <1>8, <1>11, <3>1
  <2> QED BY <2>1
<1>21. CASE bh[1].id # -1
  <2>1. Turn(r, x).bh = b /\ Turn(r, x).ii = ii + 1
    BY <1>7, <1>21
  <2> DEFINE Places == (1 .. n - 1) \cup (t .. m)
  <2>2. Left(m, x + 1) = 1 .. n - 1 /\ Aside(m, Turn(r, x)) = t .. m
    <3>1. m - (ii + 1) + 1 = t /\ m - (x + 1) = n - 1
      BY <1>1, <1>3, <1>5
    <3> QED BY <2>1, <3>1 DEF Left, Aside
  <2>3. \A p \in Places : p \in All \/ p = t
    BY <1>5
  <2>4. \A p \in All : p \in Places /\ p # t
    BY <1>18
  <2>5. t \in Places
    BY <1>5
  <2>6. \A p \in Places : src[p] \in (1 .. n) \cup (t + 1 .. m) /\ b[p] = bh[src[p]]
    BY <1>11, <1>14, <1>15, <2>3
  <2>7. \A p, q \in Places : src[p] = src[q] => p = q
    BY <1>11, <1>15, <1>16, <2>3
  <2>8. \A y \in (1 .. n) \cup (t + 1 .. m) : \E p \in Places : src[p] = y
    BY <1>11, <1>17, <2>4, <2>5
  <2>9. \A p \in t .. m : p = t \/ p \in t + 1 .. m
    BY <1>5
  <2> HIDE DEF Places, All
  <2>10. ii + 1 \in 0 .. x + 1 /\ ((\A p \in 1 .. m : h[p].id # -1) => ii + 1 = x + 1)
    BY <1>3, <1>8
  <2>11. /\ \A p \in Places : \E q \in 1 .. m : b[p] = h[q]
         /\ \A q \in 1 .. m : h[q].id # -1 => \E p \in Places : b[p] = h[q]
         /\ \A p, q \in Places : b[p] = b[q] /\ b[p].id # -1 => p = q
    <3>1. ASSUME NEW p \in Places PROVE \E q \in 1 .. m : b[p] = h[q]
      <4>1. PICK y \in (1 .. n) \cup (t + 1 .. m) : y = src[p] /\ b[p] = bh[y]
        BY <2>6
      <4>2. PICK q \in 1 .. m : bh[y] = h[q]
        BY <1>8
      <4> QED BY <4>1, <4>2
    <3>2. ASSUME NEW q \in 1 .. m, h[q].id # -1 PROVE \E p \in Places : b[p] = h[q]
      <4>1. PICK y \in (1 .. n) \cup (t + 1 .. m) : bh[y] = h[q]
        BY <1>8, <3>2
      <4>2. PICK p \in Places : src[p] = y
        BY <2>8, <4>1
      <4> QED BY <2>6, <4>1, <4>2
    <3>3. ASSUME NEW p \in Places, NEW q \in Places, b[p] = b[q], b[p].id # -1 PROVE p = q
      <4>1. src[p] = src[q]
        <5>1. PICK y \in (1 .. n) \cup (t + 1 .. m) : y = src[p] /\ b[p] = bh[y]
          BY <2>6
        <5>2. PICK z \in (1 .. n) \cup (t + 1 .. m) : z = src[q] /\ b[q] = bh[z]
          BY <2>6
        <5>3. bh[y] = bh[z] /\ bh[y].id # -1
          BY <3>3, <5>1, <5>2
        <5>4. y = z
          BY <1>8, <5>3
        <5> QED BY <5>1, <5>2, <5>4
      <4> QED BY <2>7, <4>1
    <3> QED BY <3>1, <3>2, <3>3
  <2>12. \A p \in t .. m : b[p].id # -1
    BY <1>11, <1>20, <1>21, <2>9
  <2>13. ASSUME NEW p \in t .. m, p # m PROVE b[p].val <= b[p + 1].val
    <3>1. CASE p = t
      <4>1. t + 1 \in t + 1 .. m
        BY <2>13, <3>1
      <4>2. bh[1].val <= bh[t + 1].val
        BY <1>8, <1>14, <4>1
      <4> QED BY <1>11, <3>1, <4>1, <4>2
    <3>2. CASE p \in t + 1 .. m
      BY <1>20, <2>13, <3>2
    <3> QED BY <2>9, <3>1, <3>2
  <2>14. ASSUME NEW p \in 1 .. n - 1, NEW q \in t .. m PROVE b[p].val <= b[q].val
    <3>1. CASE q = t
      <4>1. src[p] \in 1 .. n
        BY <1>11
      <4> QED BY <1>11, <1>13, <3>1, <4>1
    <3> QED BY <1>19, <2>9, <3>1
  <2>15. b \in [1 .. m -> Element] /\ IsHeap(b, m - (x + 1))
    BY <1>12, <1>14
  <2>16. Holds(b, 1 .. n - 1, t .. m, h, m)
    BY <2>11, <2>12, <2>13, <2>14, Zenon DEF Holds, Places
  <2> QED BY <2>1, <2>2, <2>10, <2>15, <2>16 DEF Turned
<1>22. CASE bh[1].id = -1
  <2>1. Turn(r, x).bh = b /\ Turn(r, x).ii = ii
    BY <1>7, <1>22
  <2>2. Left(m, x + 1) = 1 .. n - 1 /\ Aside(m, Turn(r, x)) = t + 1 .. m
    <3>1. m - ii + 1 = t + 1 /\ m - (x + 1) = n - 1
      BY <1>1, <1>3, <1>5
    <3> QED BY <2>1, <3>1 DEF Left, Aside
  <2> HIDE DEF All
  <2>3. ii \in 0 .. x + 1 /\ ((\A p \in 1 .. m : h[p].id # -1) => ii = x + 1)
    <3>1. ~(\A p \in 1 .. m : h[p].id # -1)
      BY <1>8, <1>14, <1>22
    <3> QED BY <1>3, <3>1
  <2>4. /\ \A p \in All : \E q \in 1 .. m : b[p] = h[q]
        /\ \A q \in 1 .. m : h[q].id # -1 => \E p \in All : b[p] = h[q]
        /\ \A p, q \in All : b[p] = b[q] /\ b[p].id # -1 => p = q
    <3>1. ASSUME NEW p \in All PROVE \E q \in 1 .. m : b[p] = h[q]
      <4>1. PICK y \in (1 .. n) \cup (t + 1 .. m) : y = src[p] /\ b[p] = bh[y]
        BY <1>15
      <4>2. PICK q \in 1 .. m : bh[y] = h[q]
        BY <1>8
      <4> QED BY <4>1, <4>2
    <3>2. ASSUME NEW q \in 1 .. m, h[q].id # -1 PROVE \E p \in All : b[p] = h[q]
      <4>1. PICK y \in (1 .. n) \cup (t + 1 .. m) : bh[y] = h[q]
        BY <1>8, <3>2
      <4>2. y # 1
        BY <1>22, <3>2, <4>1
      <4>3. PICK p \in All : src[p] = y
        BY <1>17, <4>1, <4>2
      <4> QED BY <1>15, <4>1, <4>3
    <3>3. ASSUME NEW p \in All, NEW q \in All, b[p] = b[q], b[p].id # -1 PROVE p = q
      <4>1. src[p] = src[q]
        <5>1. PICK y \in (1 .. n) \cup (t + 1 .. m) : y = src[p] /\ b[p] = bh[y]
          BY <1>15
        <5>2. PICK z \in (1 .. n) \cup (t + 1 .. m) : z = src[q] /\ b[q] = bh[z]
          BY <1>15
        <5>3. bh[y] = bh[z] /\ bh[y].id # -1
          BY <3>3, <5>1, <5>2
        <5>4. y = z
          BY <1>8, <5>3
        <5> QED BY <5>1, <5>2, <5>4
      <4> QED BY <1>16, <4>1
    <3> QED BY <3>1, <3>2, <3>3
  <2>5. b \in [1 .. m -> Element] /\ IsHeap(b, m - (x + 1))
    BY <1>12, <1>14
  <2>6. Holds(b, 1 .. n - 1, t + 1 .. m, h, m)
    BY <1>19, <1>20, <2>4, Zenon DEF Holds, All
  <2> QED BY <2>1, <2>2, <2>3, <2>5, <2>6 DEF Turned
<1> QED BY <1>21, <1>22

\* What heap_reorder makes of a heap.
IsOrdered(a, m, elements) ==
  a \in [1 .. m -> Element] /\ HoldsNearest(a, m, elements) /\ Sorted(a)

\* The end of heap_reorder: what was put aside comes first.
AtFront(a, r, m) ==
  a = [i \in 1 .. m |-> IF i <= r.ii THEN r.bh[m - r.ii + i] ELSE Unused]

\* After the last turn nothing is left, and what was put aside is in order.
LEMMA LastTurn ==
  ASSUME NEW m \in Nat \ {0}, NEW h \in [1 .. m -> Element],
         NEW elements \in SUBSET Found, HoldsNearest(h, m, elements),
         NEW r, Turned(r, m, h, m), NEW a, AtFront(a, r, m)
  PROVE  IsOrdered(a, m, elements)
<1>0. a = [i \in 1 .. m |-> IF i <= r.ii THEN r.bh[m - r.ii + i] ELSE Unused]
  BY DEF AtFront
<1>1. PICK bh \in [1 .. m -> Element] : bh = r.bh
  BY DEF Turned
<1>2. PICK ii \in 0 .. m : ii = r.ii
  BY DEF Turned
<1>3. PICK t \in 0 .. m : t = m - ii
  BY <1>2
<1>4. /\ (\A p \in 1 .. m : h[p].id # -1) => ii = m
      /\ \A p \in t + 1 .. m : \E q \in 1 .. m : bh[p] = h[q]
      /\ \A q \in 1 .. m : h[q].id # -1 => \E p \in t + 1 .. m : bh[p] = h[q]
      /\ \A p, q \in t + 1 .. m : bh[p] = bh[q] /\ bh[p].id # -1 => p = q
      /\ \A p \in t + 1 .. m : bh[p].id # -1 /\ (p # m => bh[p].val <= bh[p + 1].val)
  <2>1. Left(m, m) = {} /\ Aside(m, r) = t + 1 .. m
    BY <1>2, <1>3 DEF Left, Aside
  <2>2. Holds(bh, {}, t + 1 .. m, h, m)
    BY <1>1, <2>1 DEF Turned
  <2>3. (\A p \in 1 .. m : h[p].id # -1) => ii = m
    BY <1>2 DEF Turned
  <2>4. {} \cup (t + 1 .. m) = t + 1 .. m
    OBVIOUS
  <2>5. Holds(bh, {}, t + 1 .. m, h, m) =>
          /\ \A p \in {} \cup (t + 1 .. m) : \E q \in 1 .. m : bh[p] = h[q]
          /\ \A q \in 1 .. m : h[q].id # -1 => \E p \in {} \cup (t + 1 .. m) : bh[p] = h[q]
          /\ \A p, q \in {} \cup (t + 1 .. m) : bh[p] = bh[q] /\ bh[p].id # -1 => p = q
          /\ \A p \in t + 1 .. m : bh[p].id # -1 /\ (p # m => bh[p].val <= bh[p + 1].val)
    BY Zenon DEF Holds
  <2> QED BY <2>2, <2>3, <2>4, <2>5
<1>5. /\ \A p \in 1 .. m : h[p] = Unused \/ (h[p] \in elements /\ h[p].val < Neutral)
      /\ \A e \in elements : e.val < Neutral =>
           \/ \E p \in 1 .. m : h[p] = e
           \/ \A p \in 1 .. m : h[p].id # -1 /\ h[p].val <= e.val
  BY Zenon DEF HoldsNearest
<1>6. /\ \A p \in 1 .. ii : t + p \in t + 1 .. m
      /\ \A p \in t + 1 .. m : p - t \in 1 .. ii /\ t + (p - t) = p
      /\ \A p \in 1 .. m : p \in 1 .. ii \/ p > ii
      /\ \A p \in 1 .. ii : p \in 1 .. m
  BY <1>3
<1>7. \A p \in 1 .. ii : a[p] = bh[t + p]
  <2>1. ASSUME NEW p \in 1 .. ii PROVE a[p] = bh[t + p]
    <3>1. p \in 1 .. m /\ p <= ii
      BY <1>6
    <3>2. a[p] = bh[m - ii + p]
      BY <1>0, <1>1, <1>2, <3>1
    <3>3. m - ii + p = t + p
      BY <1>3
    <3> QED BY <3>2, <3>3
  <2> QED BY <2>1
<1>8. \A p \in 1 .. m : p > ii => a[p] = Unused
  BY <1>0, <1>2
<1>9. \A p \in 1 .. ii : /\ a[p] \in Element /\ a[p].id # -1
                        /\ \E q \in 1 .. m : a[p] = h[q]
                        /\ a[p] \in elements /\ a[p].val < Neutral
  <2>1. ASSUME NEW p \in 1 .. ii
        PROVE  /\ a[p] \in Element /\ a[p].id # -1
               /\ \E q \in 1 .. m : a[p] = h[q]
               /\ a[p] \in elements /\ a[p].val < Neutral
    <3>1. PICK y \in t + 1 .. m : a[p] = bh[y]
      BY <1>6, <1>7
    <3>2. PICK q \in 1 .. m : bh[y] = h[q]
      BY <1>4
    <3>3. a[p] = h[q] /\ a[p].id # -1
      BY <1>4, <3>1, <3>2
    <3>4. a[p] # Unused
      BY <3>3, UnusedIs
    <3> QED BY <1>5, <3>3, <3>4
  <2> QED BY <2>1
<1>10. a \in [1 .. m -> Element]
  <2>1. \A p \in 1 .. m : a[p] \in Element
    BY <1>6, <1>8, <1>9, UnusedIs
  <2>2. a = [p \in 1 .. m |-> a[p]]
    BY <1>0
  <2> QED BY <2>1, <2>2
<1>11. \A p \in 1 .. m : a[p] = Unused \/ (a[p] \in elements /\ a[p].val < Neutral)
  BY <1>6, <1>8, <1>9
<1>12. ASSUME NEW p \in 1 .. m, NEW q \in 1 .. m, a[p] = a[q], a[p].id # -1 PROVE p = q
  <2>1. p \in 1 .. ii /\ q \in 1 .. ii
    BY <1>6, <1>8, <1>12, UnusedIs
  <2>2. PICK y \in t + 1 .. m : y = t + p /\ a[p] = bh[y]
    BY <1>6, <1>7, <2>1
  <2>3. PICK z \in t + 1 .. m : z = t + q /\ a[q] = bh[z]
    BY <1>6, <1>7, <2>1
  <2>4. bh[y] = bh[z] /\ bh[y].id # -1
    BY <1>12, <2>2, <2>3
  <2>5. y = z
    BY <1>4, <2>4
  <2> QED BY <1>3, <2>2, <2>3, <2>5
<1>13. ASSUME NEW e \in elements, e.val < Neutral
       PROVE  \/ \E p \in 1 .. m : a[p] = e
              \/ \A p \in 1 .. m : a[p].id # -1 /\ a[p].val <= e.val
  <2>1. CASE \E q \in 1 .. m : h[q] = e
    <3>1. PICK q \in 1 .. m : h[q] = e
      BY <2>1
    <3>2. e.id # -1
      BY DEF Found
    <3>3. PICK y \in t + 1 .. m : bh[y] = e
      BY <1>4, <3>1, <3>2
    <3>4. PICK p \in 1 .. ii : t + p = y
      BY <1>6
    <3> QED BY <1>6, <1>7, <3>3, <3>4
  <2>2. CASE \A p \in 1 .. m : h[p].id # -1 /\ h[p].val <= e.val
    <3>1. ii = m
      BY <1>4, <2>2
    <3>2. ASSUME NEW p \in 1 .. m PROVE a[p].id # -1 /\ a[p].val <= e.val
      <4>1. PICK q \in 1 .. m : a[p] = h[q]
        BY <1>9, <3>1
      <4> QED BY <2>2, <4>1
    <3> QED BY <3>2
  <2> QED BY <1>5, <1>13, <2>1, <2>2
<1>14. HoldsNearest(a, m, elements)
  BY <1>11, <1>12, <1>13 DEF HoldsNearest
<1>15. Sorted(a)
  <2>1. Len(a) = m
    BY <1>10
  <2>2. ASSUME NEW i \in 1 .. m - 1 PROVE a[i].val <= a[i + 1].val
    <3>1. i \in 1 .. m /\ i + 1 \in 1 .. m
      OBVIOUS
    <3>2. CASE i + 1 <= ii
      <4>1. i \in 1 .. ii /\ i + 1 \in 1 .. ii
        BY <1>2, <3>2
      <4>2. PICK y \in t + 1 .. m : y = t + i /\ y # m
        BY <1>2, <1>3, <3>2, <4>1
      <4>3. y + 1 = t + (i + 1)
        BY <1>3, <4>2
      <4>4. a[i] = bh[y] /\ a[i + 1] = bh[y + 1]
        BY <1>7, <4>1, <4>2, <4>3
      <4> QED BY <1>4, <4>2, <4>4
    <3>3. CASE i <= ii /\ ~(i + 1 <= ii)
      <4>1. i \in 1 .. ii /\ i + 1 > ii
        BY <3>3
      <4>2. a[i + 1] = Unused /\ a[i].val < Neutral /\ a[i] \in Element
        BY <1>8, <1>9, <3>1, <4>1
      <4>3. a[i + 1].val = Neutral /\ a[i].val \in Nat
        BY <4>2, UnusedIs DEF Element
      <4> QED BY <4>2, <4>3, UnusedIs
    <3>4. CASE ~(i <= ii)
      <4>1. a[i] = Unused /\ a[i + 1] = Unused
        BY <1>8, <3>1, <3>4
      <4> QED BY <4>1, UnusedIs
    <3> QED BY <3>2, <3>3, <3>4
  <2> QED BY <2>1, <2>2 DEF Sorted
<1> QED BY <1>10, <1>14, <1>15 DEF IsOrdered

\* What was a heap is put in order, the elements that no element has come to last.
LEMMA Reordered ==
  ASSUME NEW m \in Nat \ {0}, NEW h, NEW elements \in SUBSET Found, HeapOf(h, m, elements)
  PROVE  IsOrdered(heap_reorder(h), m, elements)
<1>1. h \in [1 .. m -> Element] /\ IsHeap(h, m) /\ HoldsNearest(h, m, elements) /\ Len(h) = m
  BY DEF HeapOf
<1>2. PICK S : S = [bh : [1 .. m -> Element], ii : Nat]
  OBVIOUS
<1>3. PICK start \in S : start = [bh |-> h, ii |-> 0]
  BY <1>1, <1>2
<1>4. PICK rank \in [0 .. m -> Nat] : rank = [x \in 0 .. m |-> x]
  <2>1. \A x \in 0 .. m : x \in Nat
    OBVIOUS
  <2> QED BY <2>1
<1> DEFINE Nth(f, x) == IF x = 0 THEN start ELSE Turn(f[x - 1], x - 1)
<1>5. PICK F : F = [f \in [0 .. m -> S] |-> [x \in 0 .. m |-> Nth(f, x)]]
  OBVIOUS
<1>6. ASSUME NEW f \in [0 .. m -> S], NEW x \in 0 .. m PROVE Nth(f, x) \in S
  <2>1. CASE x = 0
    BY <1>3, <2>1
  <2>2. CASE x # 0
    <3>1. PICK r \in S : r = f[x - 1]
      BY <2>2
    <3>2. PICK bh \in [1 .. m -> Element] : bh = r.bh /\ Len(bh) = m
      BY <1>2
    <3>3. PICK ii \in Nat : ii = r.ii
      BY <1>2
    <3>4. PICK n \in Nat \ {0} : n = m - (x - 1) /\ n <= m
      BY <2>2
    <3>5. PICK a \in [1 .. m -> Element] : a = heap_pop(bh, n)
      <4>1. IsPopped(heap_pop(bh, n), bh, n, m)
        BY <3>4, Popped
      <4> QED BY <4>1 DEF IsPopped
    <3>6. bh[1] \in Element
      OBVIOUS
    <3>7. PICK b \in [1 .. m -> Element] : b = [a EXCEPT ![m - ii] = bh[1]]
      BY <3>6
    <3>8. PICK y \in Nat : y = IF bh[1].id # -1 THEN ii + 1 ELSE ii
      OBVIOUS
    <3>9. Turn(r, x - 1) = [bh |-> b, ii |-> y]
      <4>1. Turn(r, x - 1) = [bh |-> [heap_pop(bh, m - (x - 1)) EXCEPT ![m - ii] = bh[1]],
                              ii |-> IF bh[1].id # -1 THEN ii + 1 ELSE ii]
        BY <3>2, <3>3 DEF Turn
      <4> QED BY <3>4, <3>5, <3>7, <3>8, <4>1
    <3>10. Turn(r, x - 1) \in S
      BY <1>2, <3>9
    <3> QED BY <2>2, <3>1, <3>10
  <2> QED BY <2>1, <2>2
<1>7. F \in [[0 .. m -> S] -> [0 .. m -> S]]
  <2> HIDE DEF Nth
  <2> QED BY <1>5, <1>6
<1>8. LooksBelow(F, 0 .. m, S, rank)
  <2>1. ASSUME NEW f \in [0 .. m -> S], NEW g \in [0 .. m -> S], NEW x \in 0 .. m,
               \A b \in 0 .. m : rank[b] < rank[x] => f[b] = g[b]
        PROVE  F[f][x] = F[g][x]
    <3>1. x # 0 => f[x - 1] = g[x - 1]
      <4>1. x # 0 => x - 1 \in 0 .. m /\ rank[x - 1] < rank[x]
        BY <1>4
      <4> QED BY <2>1, <4>1
    <3>2. Nth(f, x) = Nth(g, x)
      BY <3>1
    <3> HIDE DEF Nth
    <3> QED BY <1>5, <3>2
  <2> QED BY <2>1 DEF LooksBelow
<1>9. PICK turn \in [0 .. m -> S] : turn = [x \in 0 .. m |-> Nth(turn, x)]
  <2>1. S # {} /\ m + 1 \in Nat
    BY <1>3
  <2>2. Bounded(rank, 0 .. m, m + 1)
    BY <1>4 DEF Bounded
  <2>3. \E f \in [0 .. m -> S] : IsFixed(f, F)
    BY <1>7, <1>8, <2>1, <2>2, Recursion
  <2> HIDE DEF Nth
  <2> QED BY <1>5, <2>3 DEF IsFixed
<1>10. PICK f : /\ f = [x \in 0 .. m |-> Nth(f, x)]
                /\ heap_reorder(h) = [i \in 1 .. m |->
                     IF i <= f[m].ii THEN f[m].bh[m - f[m].ii + i] ELSE Unused]
  <2>1. PICK g : g = (CHOOSE f : f = [x \in 0 .. m |-> Nth(f, x)])
    OBVIOUS
  <2>2. g = [x \in 0 .. m |-> Nth(g, x)]
    <3> HIDE DEF Nth
    <3> QED BY <1>9, <2>1
  <2>3. heap_reorder(h) = [i \in 1 .. m |->
          IF i <= g[m].ii THEN g[m].bh[m - g[m].ii + i] ELSE Unused]
    BY <1>1, <1>3, <2>1 DEF heap_reorder
  <2> QED BY <2>2, <2>3
<1> DEFINE Good == {x \in 0 .. m : Turned(f[x], x, h, m)}
<1>11. ASSUME NEW x \in 0 .. m, \A b \in 0 .. m : rank[b] < rank[x] => b \in Good
       PROVE  x \in Good
  <2>1. f[x] = Nth(f, x)
    BY <1>10
  <2>2. CASE x = 0
    <3>1. f[x] = start
      BY <2>1, <2>2
    <3>2. start.bh = h /\ start.ii = 0
      BY <1>3
    <3>3. Left(m, 0) = 1 .. m /\ Aside(m, start) = {}
      BY <3>2 DEF Left, Aside
    <3>4. Holds(h, 1 .. m, {}, h, m)
      <4>1. (1 .. m) \cup {} = 1 .. m
        OBVIOUS
      <4>2. \A p, q \in 1 .. m : h[p] = h[q] /\ h[p].id # -1 => p = q
        BY <1>1, Zenon DEF HoldsNearest
      <4> QED BY <4>1, <4>2 DEF Holds
    <3>5. 0 \in 0 .. 0 /\ m - 0 = m
      OBVIOUS
    <3>6. (\A p \in 1 .. m : h[p].id # -1) => 0 = x
      BY <2>2
    <3> QED BY <1>1, <2>2, <3>1, <3>2, <3>3, <3>4, <3>5, <3>6 DEF Turned
  <2>3. CASE x # 0
    <3>1. PICK y \in 0 .. m - 1 : y = x - 1 /\ x = y + 1
      BY <2>3
    <3>2. y \in 0 .. m /\ rank[y] < rank[x]
      BY <1>4, <3>1
    <3>3. PICK r : r = f[y] /\ Turned(r, y, h, m)
      BY <1>11, <3>2
    <3>4. Turned(Turn(r, y), y + 1, h, m)
      BY <1>1, <3>3, TurnTurned
    <3>5. f[x] = Turn(r, y)
      BY <2>1, <2>3, <3>1, <3>3
    <3> QED BY <3>1, <3>4, <3>5
  <2> QED BY <2>2, <2>3
<1> HIDE DEF Good, Nth
<1>12. Progressive(Good, 0 .. m, rank)
  BY <1>11 DEF Progressive
<1>13. \A x \in 0 .. m : x \in Good
  BY <1>12, RankInduction
<1>14. Turned(f[m], m, h, m)
  <2>1. m \in 0 .. m
    OBVIOUS
  <2> QED BY <1>13, <2>1 DEF Good
<1>15. AtFront(heap_reorder(h), f[m], m)
  BY <1>10 DEF AtFront
<1> QED BY <1>1, <1>14, <1>15, LastTurn
-----------------------------------------------------------------------------
(* What a heap holds is what KnnSearch says it keeps.                      *)

\* What holds the nearest in the sense of HoldsNearest does so in the sense of
\* KeepsNearest: as many places as elements, since no two places have the same.
LEMMA NearestKept ==
  ASSUME NEW m \in Nat \ {0}, NEW h \in [1 .. m -> Element],
         NEW elements \in SUBSET Found, HoldsNearest(h, m, elements)
  PROVE  KeepsNearest(h, elements)
<1>1. DOMAIN h = 1 .. m /\ Len(h) = m
  OBVIOUS
<1>2. /\ \A p \in 1 .. m : h[p] = Unused \/ (h[p] \in elements /\ h[p].val < Neutral)
      /\ \A p, q \in 1 .. m : h[p] = h[q] /\ h[p].id # -1 => p = q
      /\ \A e \in elements : e.val < Neutral =>
           \/ \E p \in 1 .. m : h[p] = e
           \/ \A p \in 1 .. m : h[p].id # -1 /\ h[p].val <= e.val
  BY Zenon DEF HoldsNearest
<1>3. PICK below : below = {e \in elements : e.val < Neutral}
  OBVIOUS
<1>4. PICK kept : kept = True(h)
  OBVIOUS
<1>5. PICK places : places = {i \in DOMAIN h : h[i].id # -1}
  OBVIOUS
<1>6. /\ \A p \in places : p \in 1 .. m /\ h[p].id # -1 /\ h[p] \in kept
      /\ \A e \in kept : e.id # -1 /\ \E p \in places : h[p] = e
      /\ \A p \in 1 .. m : h[p].id # -1 => p \in places
  BY <1>1, <1>4, <1>5 DEF True
<1>7. kept \subseteq below
  <2>1. ASSUME NEW e \in kept PROVE e \in below
    <3>1. PICK p \in 1 .. m : h[p] = e /\ e.id # -1
      BY <1>6
    <3>2. h[p] # Unused
      BY <3>1, UnusedIs
    <3> QED BY <1>2, <1>3, <3>1, <3>2
  <2> QED BY <2>1
<1>8. IsFiniteSet(places) /\ Cardinality(places) = Cardinality(kept)
  <2>1. IsFiniteSet(1 .. m)
    BY FS_Interval
  <2>2. IsFiniteSet(places)
    BY <1>6, <2>1, FS_Subset
  <2>3. PICK g \in [places -> kept] : g = [p \in places |-> h[p]]
    BY <1>6
  <2>4. g \in Bijection(places, kept)
    <3>1. g \in Injection(places, kept)
      <4>1. ASSUME NEW p \in places, NEW q \in places, g[p] = g[q] PROVE p = q
        <5>1. h[p] = h[q] /\ h[p].id # -1 /\ p \in 1 .. m /\ q \in 1 .. m
          BY <1>6, <2>3, <4>1
        <5> QED BY <1>2, <5>1
      <4> QED BY <4>1, Zenon DEF Injection, IsInjective
    <3>2. g \in Surjection(places, kept)
      <4>1. ASSUME NEW e \in kept PROVE \E p \in places : g[p] = e
        BY <1>6, <2>3
      <4> QED BY <4>1 DEF Surjection
    <3> QED BY <3>1, <3>2 DEF Bijection
  <2>5. ExistsBijection(places, kept)
    BY <2>4 DEF ExistsBijection
  <2> QED BY <2>2, <2>5, FS_Bijection
<1>9. ASSUME NEW e \in below, e \notin kept
      PROVE  \A p \in 1 .. m : h[p].id # -1 /\ h[p].val <= e.val
  <2>1. e \in elements /\ e.val < Neutral /\ e.id # -1
    BY <1>3 DEF Found
  <2>2. ~ \E p \in 1 .. m : h[p] = e
    BY <1>6, <1>9, <2>1
  <2> QED BY <1>2, <2>1, <2>2
<1>10. \/ kept = below
       \/ /\ Cardinality(kept) = Len(h)
          /\ \A e \in kept, other \in below \ kept : e.val <= other.val
  <2>1. CASE kept # below
    <3>1. PICK x \in below : x \notin kept
      BY <1>7, <2>1
    <3>2. \A p \in 1 .. m : h[p].id # -1
      BY <1>9, <3>1
    <3>3. places = 1 .. m
      BY <1>6, <3>2
    <3>4. Cardinality(1 .. m) = m
      BY FS_Interval
    <3>5. ASSUME NEW e \in kept, NEW other \in below \ kept PROVE e.val <= other.val
      <4>1. PICK p \in 1 .. m : h[p] = e
        BY <1>6
      <4> QED BY <1>9, <4>1
    <3> QED BY <1>1, <1>8, <3>3, <3>4, <3>5
  <2> QED BY <2>1
<1> QED BY <1>3, <1>4, <1>5, <1>7, <1>8, <1>10, Zenon DEF KeepsNearest
-----------------------------------------------------------------------------
(* The coarse quantizer.                                                   *)

CentroidSeq(c) == [i \in 1 .. nlist |-> [val |-> c[i - 1], id |-> i - 1]]

CentroidsOf(c) == {[val |-> c[l], id |-> l] : l \in Lists}

\* The centroids that keys ks stand for.
Near(ks, c) ==
  [i \in 1 .. nprobe |-> IF ks[i] < 0 THEN Unused ELSE [val |-> c[ks[i]], id |-> ks[i]]]

\* The coarse quantizer finds the nearest centroids.
LEMMA CentroidsFound ==
  ASSUME NEW c \in [Lists -> Nat]
  PROVE  /\ CentroidsOf(c) \in SUBSET Found
         /\ IsOrdered(heap_reorder(addn(heapify(nprobe), CentroidSeq(c))), nprobe,
                      CentroidsOf(c))
<1>1. PICK s : s = CentroidSeq(c)
  OBVIOUS
<1>2. nlist \in Nat /\ nprobe \in Nat \ {0}
  BY SearchParameters
<1>3. \A i \in 1 .. nlist : i - 1 \in Lists /\ i - 1 \in Int /\ i - 1 # -1 /\ c[i - 1] \in Nat
  BY <1>2 DEF Lists
<1>4. \A i \in 1 .. nlist : s[i] = [val |-> c[i - 1], id |-> i - 1]
  BY <1>1 DEF CentroidSeq
<1>5. \A i \in 1 .. nlist : s[i] \in Found /\ s[i].id = i - 1 /\ s[i].val = c[i - 1]
  <2>1. ASSUME NEW i \in 1 .. nlist
        PROVE  s[i] \in Found /\ s[i].id = i - 1 /\ s[i].val = c[i - 1]
    <3>1. PICK l \in Int : l = i - 1 /\ l # -1
      BY <1>3
    <3>2. PICK v \in Nat : v = c[i - 1]
      BY <1>3
    <3>3. s[i] = [val |-> v, id |-> l]
      BY <1>4, <3>1, <3>2
    <3> QED BY <3>1, <3>2, <3>3 DEF Found, Element
  <2> QED BY <2>1
<1>6. s \in Seq(Found) /\ Len(s) = nlist
  <2>1. s = [i \in 1 .. nlist |-> s[i]]
    BY <1>1 DEF CentroidSeq
  <2>2. s \in [1 .. nlist -> Found]
    BY <1>5, <2>1
  <2> QED BY <1>2, <2>2
<1>7. \A x, y \in 1 .. nlist : s[x] = s[y] => x = y
  <2>1. ASSUME NEW x \in 1 .. nlist, NEW y \in 1 .. nlist, s[x] = s[y] PROVE x = y
    <3>1. s[x].id = x - 1 /\ s[y].id = y - 1
      BY <1>5
    <3>2. x - 1 = y - 1
      BY <2>1, <3>1
    <3> QED BY <3>2
  <2> QED BY <2>1
<1>8. Elements(s, nlist) = CentroidsOf(c)
  <2>1. ASSUME NEW e \in Elements(s, nlist) PROVE e \in CentroidsOf(c)
    BY <1>3, <1>4 DEF Elements, CentroidsOf
  <2>2. ASSUME NEW l \in Lists PROVE [val |-> c[l], id |-> l] \in Elements(s, nlist)
    <3>1. l + 1 \in 1 .. nlist /\ l + 1 - 1 = l
      BY <1>2 DEF Lists
    <3>2. PICK i \in 1 .. nlist : i = l + 1 /\ i - 1 = l
      BY <3>1 DEF Lists
    <3>3. s[i] = [val |-> c[l], id |-> l]
      <4>1. s[i] \in Element /\ s[i].id = l /\ s[i].val = c[l]
        <5>1. s[i] \in Found /\ s[i].id = i - 1 /\ s[i].val = c[i - 1]
          BY <1>5
        <5>2. c[i - 1] = c[l]
          BY <3>2
        <5>3. s[i] \in Element
          BY <5>1, Zenon DEF Found
        <5> QED BY <3>2, <5>1, <5>2, <5>3
      <4>2. s[i] = [val |-> s[i].val, id |-> s[i].id]
        BY <4>1 DEF Element
      <4> QED BY <4>1, <4>2
    <3> QED BY <3>2, <3>3 DEF Elements
  <2> QED BY <2>1, <2>2 DEF CentroidsOf
<1>9. CentroidsOf(c) \in SUBSET Found
  BY <1>5, <1>8 DEF Elements
<1>10. HeapOf(addn(heapify(nprobe), s), nprobe, CentroidsOf(c))
  BY <1>2, <1>6, <1>7, <1>8, AddedN
<1> QED BY <1>1, <1>2, <1>9, <1>10, Reordered

\* The keys it returns stand for exactly these.
LEMMA KeysOfCentroids ==
  ASSUME NEW c \in [Lists -> Nat], NEW a, IsOrdered(a, nprobe, CentroidsOf(c)),
         NEW ks, ks = [i \in 1 .. nprobe |-> a[i].id]
  PROVE  ks \in [1 .. nprobe -> Lists \cup {-1}] /\ Near(ks, c) = a
<1>1. a \in [1 .. nprobe -> Element]
  BY DEF IsOrdered
<1>2. \A p \in 1 .. nprobe : a[p] = Unused \/ a[p] \in CentroidsOf(c)
  BY DEF IsOrdered, HoldsNearest
<1>3. \A l \in Lists : l \in Nat
  BY DEF Lists
<1>4. ASSUME NEW p \in 1 .. nprobe
      PROVE  /\ ks[p] \in Lists \cup {-1}
             /\ a[p] = IF ks[p] < 0 THEN Unused ELSE [val |-> c[ks[p]], id |-> ks[p]]
  <2>1. CASE a[p] = Unused
    BY <2>1, UnusedIs
  <2>2. CASE a[p] \in CentroidsOf(c)
    <3>1. PICK l \in Lists : a[p] = [val |-> c[l], id |-> l]
      BY <2>2 DEF CentroidsOf
    <3>2. ks[p] = l
      BY <3>1
    <3> QED BY <1>3, <3>1, <3>2
  <2> QED BY <1>2, <2>1, <2>2
<1>5. ks \in [1 .. nprobe -> Lists \cup {-1}]
  BY <1>4
<1>6. a = [i \in 1 .. nprobe |-> a[i]]
  BY <1>1
<1>7. Near(ks, c) = a
  BY <1>4, <1>6 DEF Near
<1> QED BY <1>5, <1>7

ApartKeys(ks) == \A p, q \in 1 .. nprobe : ks[p] = ks[q] /\ ks[p] \in Lists => p = q

\* No list is probed twice.
LEMMA KeysApart ==
  ASSUME NEW c, NEW ks, IsOrdered(Near(ks, c), nprobe, CentroidsOf(c))
  PROVE  ApartKeys(ks)
<1>1. ASSUME NEW p \in 1 .. nprobe, NEW q \in 1 .. nprobe, ks[p] = ks[q], ks[p] \in Lists
      PROVE  p = q
  <2>1. PICK l \in Nat : l = ks[p]
    BY <1>1 DEF Lists
  <2>2. PICK e : e = [val |-> c[l], id |-> l]
    OBVIOUS
  <2>3. Near(ks, c)[p] = e /\ Near(ks, c)[q] = e
    BY <1>1, <2>1, <2>2 DEF Near
  <2>4. Near(ks, c)[p] = Near(ks, c)[q] /\ Near(ks, c)[p].id # -1
    BY <2>1, <2>2, <2>3
  <2> QED BY <2>4, Zenon DEF IsOrdered, HoldsNearest
<1> QED BY <1>1 DEF ApartKeys
-----------------------------------------------------------------------------
(* The entries the loops have come past, as a set of the loops' counters.  *)

EntryOf(cs, key, p) == [val |-> cs[key][p], id |-> key * MaxCodes + p]

WholeLists(ks, cs, x) ==
  UNION {{EntryOf(cs, ks[i], p) : p \in 1 .. Len(cs[ks[i]])} :
           i \in {i \in 1 .. x - 1 : ks[i] >= 0}}

BegunList(ks, cs, x, y) == {EntryOf(cs, ks[x], p) : p \in 1 .. y - 1}

PastSet(ks, cs, x, y) == WholeLists(ks, cs, x) \cup BegunList(ks, cs, x, y)

IsPast(e, ks, cs, x, y) ==
  \/ \E i \in 1 .. x - 1 : /\ ks[i] >= 0
                          /\ \E p \in 1 .. Len(cs[ks[i]]) : e = EntryOf(cs, ks[i], p)
  \/ \E p \in 1 .. y - 1 : e = EntryOf(cs, ks[x], p)

\* An entry is past when its list is, or its place in the open list.
LEMMA InPast ==
  ASSUME NEW ks, NEW cs, NEW x, NEW y, NEW e
  PROVE  e \in PastSet(ks, cs, x, y) <=> IsPast(e, ks, cs, x, y)
<1>1. e \in PastSet(ks, cs, x, y) <=> e \in WholeLists(ks, cs, x) \/ e \in BegunList(ks, cs, x, y)
  BY DEF PastSet
<1>2. e \in BegunList(ks, cs, x, y) <=> \E p \in 1 .. y - 1 : e = EntryOf(cs, ks[x], p)
  BY DEF BegunList
<1>3. e \in WholeLists(ks, cs, x) <=>
        \E i \in 1 .. x - 1 : /\ ks[i] >= 0
                             /\ \E p \in 1 .. Len(cs[ks[i]]) : e = EntryOf(cs, ks[i], p)
  BY DEF WholeLists
<1> QED BY <1>1, <1>2, <1>3, Zenon DEF IsPast

\* Nothing is past at the start,
LEMMA PastNone ==
  ASSUME NEW ks, NEW cs
  PROVE  PastSet(ks, cs, 1, 1) = {}
<1>1. \A e : ~ IsPast(e, ks, cs, 1, 1)
  BY DEF IsPast
<1> QED BY <1>1, InPast

\* nothing more after a list that is skipped,
LEMMA PastSkips ==
  ASSUME NEW ks, NEW cs, NEW x \in Nat \ {0}, ks[x] \in Int, ks[x] < 0 \/ Len(cs[ks[x]]) = 0
  PROVE  PastSet(ks, cs, x + 1, 1) = PastSet(ks, cs, x, 1)
<1>1. 1 .. x + 1 - 1 = (1 .. x - 1) \cup {x}
  OBVIOUS
<1>2. ASSUME NEW e PROVE IsPast(e, ks, cs, x + 1, 1) <=> IsPast(e, ks, cs, x, 1)
  <2>1. ASSUME NEW i \in 1 .. x + 1 - 1, ks[i] >= 0, NEW p \in 1 .. Len(cs[ks[i]])
        PROVE  i \in 1 .. x - 1
    <3>1. CASE i = x
      BY <2>1, <3>1
    <3>2. CASE i # x
      BY <1>1, <3>2
    <3> QED BY <3>1, <3>2
  <2>2. 1 .. 1 - 1 = {} /\ \A i \in 1 .. x - 1 : i \in 1 .. x + 1 - 1
    BY <1>1
  <2> QED BY <2>1, <2>2 DEF IsPast
<1> QED BY <1>2, InPast

\* one entry more after an entry is scanned,
LEMMA PastScans ==
  ASSUME NEW ks, NEW cs, NEW x, NEW y \in Nat \ {0}
  PROVE  PastSet(ks, cs, x, y + 1) = PastSet(ks, cs, x, y) \cup {EntryOf(cs, ks[x], y)}
<1>1. 1 .. y + 1 - 1 = (1 .. y - 1) \cup {y}
  OBVIOUS
<1>2. ASSUME NEW e
      PROVE  IsPast(e, ks, cs, x, y + 1) <=> IsPast(e, ks, cs, x, y) \/ e = EntryOf(cs, ks[x], y)
  BY <1>1 DEF IsPast
<1> QED BY <1>2, InPast

\* and nothing more when a list is left whose entries are all past.
LEMMA PastCloses ==
  ASSUME NEW ks, NEW cs, NEW x \in Nat \ {0}, ks[x] >= 0,
         NEW y \in Nat, y = Len(cs[ks[x]]) + 1, Len(cs[ks[x]]) \in Nat
  PROVE  PastSet(ks, cs, x + 1, 1) = PastSet(ks, cs, x, y)
<1>1. 1 .. x + 1 - 1 = (1 .. x - 1) \cup {x}
  OBVIOUS
<1>2. 1 .. y - 1 = 1 .. Len(cs[ks[x]]) /\ 1 .. 1 - 1 = {}
  OBVIOUS
<1>3. ASSUME NEW e PROVE IsPast(e, ks, cs, x + 1, 1) <=> IsPast(e, ks, cs, x, y)
  BY <1>1, <1>2 DEF IsPast
<1> QED BY <1>3, InPast

\* No two entries of the index have the same label.
LEMMA LabelsApart ==
  ASSUME NEW a \in Nat, NEW b \in Nat, NEW p \in 1 .. MaxCodes, NEW q \in 1 .. MaxCodes,
         a * MaxCodes + p = b * MaxCodes + q
  PROVE  a = b /\ p = q
<1>1. MaxCodes \in Nat
  BY SearchParameters
<1>2. ASSUME NEW c \in Nat, NEW d \in Nat, c < d
      PROVE  \A x, y \in 1 .. MaxCodes : c * MaxCodes + x # d * MaxCodes + y
  <2>1. PICK g \in Nat : d = c + 1 + g
    <3>1. d - c - 1 \in Nat /\ d = c + 1 + (d - c - 1)
      BY <1>2
    <3> QED BY <3>1
  <2>2. d * MaxCodes = c * MaxCodes + MaxCodes + g * MaxCodes
    BY <1>1, <2>1
  <2>3. c * MaxCodes \in Nat /\ g * MaxCodes \in Nat
    BY <1>1
  <2> QED BY <1>1, <2>2, <2>3
<1>3. ~(a < b) /\ ~(b < a)
  BY <1>2
<1>4. a = b
  BY <1>3
<1>5. a * MaxCodes = b * MaxCodes /\ a * MaxCodes \in Nat
  BY <1>1, <1>4
<1> QED BY <1>4, <1>5

\* The lists and how many codes they have.
IsIndex(cs) ==
  \A l \in Lists : /\ Len(cs[l]) \in 0 .. MaxCodes
                  /\ \A p \in 1 .. Len(cs[l]) : cs[l][p] \in Nat

\* The entry scanned next has not come yet.
LEMMA EntryNew ==
  ASSUME NEW cs, IsIndex(cs), NEW ks \in [1 .. nprobe -> Lists \cup {-1}], ApartKeys(ks),
         NEW x \in 1 .. nprobe, ks[x] \in Lists, NEW y \in 1 .. Len(cs[ks[x]])
  PROVE  /\ EntryOf(cs, ks[x], y) \in Found
         /\ EntryOf(cs, ks[x], y) \notin PastSet(ks, cs, x, y)
<1>1. MaxCodes \in Nat
  BY SearchParameters
<1>2. \A l \in Lists : l \in Nat /\ \A p \in 1 .. Len(cs[l]) : p \in 1 .. MaxCodes
  BY <1>1 DEF Lists, IsIndex
<1>3. PICK l \in Nat : l = ks[x]
  BY <1>2
<1>4. PICK v \in Nat : v = cs[ks[x]][y]
  BY DEF IsIndex
<1>5. PICK label \in Nat : label = l * MaxCodes + y
  BY <1>1, <1>2
<1>6. PICK e : e = EntryOf(cs, ks[x], y) /\ e = [val |-> v, id |-> label]
  BY <1>3, <1>4, <1>5 DEF EntryOf
<1>7. e \in Found
  BY <1>6 DEF Found, Element
<1>8. ASSUME NEW i \in 1 .. x - 1, ks[i] >= 0, NEW p \in 1 .. Len(cs[ks[i]]),
             e = EntryOf(cs, ks[i], p)
      PROVE  FALSE
  <2>1. i \in 1 .. nprobe /\ i # x
    BY <1>8, SearchParameters
  <2>2. ks[i] \in Lists
    BY <1>8, <2>1
  <2>3. PICK b \in Nat : b = ks[i]
    BY <1>2, <2>2
  <2>4. p \in 1 .. MaxCodes /\ y \in 1 .. MaxCodes
    BY <1>2, <2>2
  <2>5. e.id = b * MaxCodes + p
    BY <1>8, <2>3 DEF EntryOf
  <2>6. l * MaxCodes + y = b * MaxCodes + p
    BY <1>5, <1>6, <2>5
  <2>7. l = b
    BY <2>4, <2>6, LabelsApart
  <2> QED BY <1>3, <2>1, <2>2, <2>3, <2>7, Zenon DEF ApartKeys
<1>9. ASSUME NEW p \in 1 .. y - 1, e = EntryOf(cs, ks[x], p) PROVE FALSE
  <2>1. p \in 1 .. Len(cs[ks[x]]) /\ p # y
    <3>1. Len(cs[ks[x]]) \in Nat
      BY DEF IsIndex
    <3> QED BY <1>9, <3>1
  <2>2. p \in 1 .. MaxCodes /\ y \in 1 .. MaxCodes
    BY <1>2, <2>1
  <2>3. e.id = l * MaxCodes + p
    BY <1>3, <1>9 DEF EntryOf
  <2>4. l * MaxCodes + y = l * MaxCodes + p
    BY <1>5, <1>6, <2>3
  <2> QED BY <2>1, <2>2, <2>4, LabelsApart
<1>10. ~ IsPast(e, ks, cs, x, y)
  BY <1>8, <1>9 DEF IsPast
<1> QED BY <1>6, <1>7, <1>10, InPast
-----------------------------------------------------------------------------
(* The inductive invariant of a search.                                    *)

\* The search is in a list, or ended there.
InList == stage = "scan" \/ (stage \in {"reorder", "done"} /\ ik <= nprobe)

InputsTyped == max_codes \in Nat /\ coarse \in [Lists -> Nat] /\ IsIndex(codes)

LoopsTyped ==
  /\ stage \in {"coarse", "probe", "scan", "reorder", "done"}
  /\ ik \in 1 .. nprobe + 1 /\ j \in Nat \ {0} /\ nscan \in Nat
  /\ stage = "coarse" => ik = 1 /\ nscan = 0 /\ heap = heapify(k)
  /\ InList => /\ ik \in 1 .. nprobe /\ keys[ik] \in Lists
               /\ j \in 1 .. Len(codes[keys[ik]]) + 1
               /\ stage # "scan" => j = Len(codes[keys[ik]]) + 1

KeysTyped ==
  stage # "coarse" =>
    /\ keys \in [1 .. nprobe -> Lists \cup {-1}]
    /\ IsOrdered(Near(keys, coarse), nprobe, CentroidsOf(coarse))

HeapInv ==
  /\ Scanned \in SUBSET Found
  /\ stage # "done" => HeapOf(heap, k, Scanned)
  /\ stage = "done" => IsOrdered(heap, k, Scanned)

\* nscan counts the codes of the open list before they are scanned.
Counted ==
  /\ IsFiniteSet(Scanned)
  /\ stage # "scan" => nscan = Cardinality(Scanned)
  /\ stage = "scan" => nscan + (j - 1) = Cardinality(Scanned) + Len(codes[keys[ik]])

Limited ==
  /\ max_codes # 0 /\ ~InList => nscan < max_codes
  /\ max_codes # 0 /\ InList => nscan - Len(codes[keys[ik]]) < max_codes
  /\ stage \in {"reorder", "done"} /\ ik <= nprobe => max_codes # 0 /\ nscan >= max_codes

SInv == InputsTyped /\ LoopsTyped /\ KeysTyped /\ HeapInv /\ Counted /\ Limited

ScannedIsPast == Scanned = PastSet(keys, codes, ik, IF InList THEN j ELSE 1)

\* What KnnSearch calls scanned, by the counters.
LEMMA ScannedIs == ScannedIsPast
<1>1. PICK y : y = IF InList THEN j ELSE 1
  OBVIOUS
<1>2. ASSUME NEW e PROVE e \in Scanned <=> IsPast(e, keys, codes, ik, y)
  <2>1. PICK begun : begun = IF InList THEN {Entry(keys[ik], p) : p \in 1 .. j - 1} ELSE {}
    OBVIOUS
  <2>2. PICK whole : whole = UNION {{Entry(keys[i], p) : p \in 1 .. Len(codes[keys[i]])} :
                                      i \in {i \in 1 .. ik - 1 : keys[i] >= 0}}
    OBVIOUS
  <2>3. Scanned = whole \cup begun
    BY <2>1, <2>2 DEF Scanned, InList
  <2>4. e \in whole <=> \E i \in 1 .. ik - 1 : /\ keys[i] >= 0
                                             /\ \E p \in 1 .. Len(codes[keys[i]]) :
                                                  e = EntryOf(codes, keys[i], p)
    BY <2>2 DEF Entry, EntryOf
  <2>5. e \in begun <=> \E p \in 1 .. y - 1 : e = EntryOf(codes, keys[ik], p)
    <3>1. CASE InList
      BY <1>1, <2>1, <3>1 DEF Entry, EntryOf
    <3>2. CASE ~InList
      BY <1>1, <2>1, <3>2
    <3> QED BY <3>1, <3>2
  <2> QED BY <2>3, <2>4, <2>5 DEF IsPast
<1>3. \A e : e \in Scanned <=> e \in PastSet(keys, codes, ik, y)
  BY <1>2, InPast
<1>4. Scanned = PastSet(keys, codes, ik, y)
  BY <1>3
<1> QED BY <1>1, <1>4 DEF ScannedIsPast

\* The same after a step.
LEMMA ScannedNext == ScannedIsPast'
BY ScannedIs, PTL

\* A search starts with an empty heap.
LEMMA SearchInitInv ==
  ASSUME SearchInit
  PROVE  SInv
<1>1. stage = "coarse" /\ ik = 1 /\ j = 1 /\ nscan = 0 /\ heap = heapify(k) /\ ~InList
  BY DEF SearchInit, InList
<1>2. Scanned = {}
  BY <1>1, ScannedIs, PastNone DEF ScannedIsPast
<1>3. InputsTyped
  <2>1. max_codes \in Nat /\ coarse \in [Lists -> Nat]
    BY SearchParameters DEF SearchInit, Lists
  <2>2. codes \in Contents
    BY DEF SearchInit
  <2>3. codes \in [Lists -> Seq(Nat)] /\ \A l \in Lists : Len(codes[l]) <= MaxCodes
    BY <2>2, SearchParameters DEF Lists
  <2>4. ASSUME NEW l \in Lists
        PROVE  /\ Len(codes[l]) \in 0 .. MaxCodes
               /\ \A p \in 1 .. Len(codes[l]) : codes[l][p] \in Nat
    <3>1. PICK s \in Seq(Nat) : s = codes[l]
      BY <2>3
    <3>2. Len(s) \in Nat /\ \A p \in 1 .. Len(s) : s[p] \in Nat
      OBVIOUS
    <3> QED BY <2>3, <3>1, <3>2, SearchParameters
  <2> QED BY <2>1, <2>4 DEF InputsTyped, IsIndex
<1>4. LoopsTyped
  BY <1>1, SearchParameters DEF LoopsTyped
<1>5. KeysTyped
  BY <1>1 DEF KeysTyped
<1>6. HeapInv
  BY <1>1, <1>2, EmptyHeap, SearchParameters DEF HeapInv, HeapOf
<1>7. Counted
  BY <1>1, <1>2, FS_EmptySet DEF Counted
<1>8. Limited
  BY <1>1, <1>3 DEF Limited, InputsTyped
<1> QED BY <1>3, <1>4, <1>5, <1>6, <1>7, <1>8 DEF SInv

\* The keys are those of the nearest centroids.
LEMMA CoarseInv ==
  ASSUME SInv, CoarseSearch
  PROVE  SInv'
<1>1. /\ stage = "coarse" /\ stage' = "probe"
      /\ UNCHANGED <<max_codes, coarse, codes, ik, j, nscan, heap>>
  BY DEF CoarseSearch, inputs
<1>2. ik = 1 /\ nscan = 0 /\ heap = heapify(k) /\ j \in Nat \ {0} /\ nprobe \in Nat \ {0}
  BY <1>1, SearchParameters DEF SInv, LoopsTyped
<1>3. InputsTyped'
  BY <1>1 DEF SInv, InputsTyped
<1>4. ~InList'
  BY <1>1 DEF InList
<1>5. Scanned' = {}
  <2>1. Scanned' = PastSet(keys', codes', ik', IF InList' THEN j' ELSE 1)
    BY ScannedNext DEF ScannedIsPast
  <2> QED BY <1>1, <1>2, <1>4, <2>1, PastNone
<1>6. LoopsTyped'
  BY <1>1, <1>2, <1>4 DEF LoopsTyped
<1>7. KeysTyped'
  <2>1. PICK c \in [Lists -> Nat] : c = coarse
    BY DEF SInv, InputsTyped
  <2>2. PICK a : a = heap_reorder(addn(heapify(nprobe), CentroidSeq(c)))
    OBVIOUS
  <2>3. IsOrdered(a, nprobe, CentroidsOf(c))
    BY <2>2, CentroidsFound
  <2>4. keys' = [i \in 1 .. nprobe |-> a[i].id]
    BY <2>1, <2>2, Zenon DEF CoarseSearch, CentroidSeq
  <2>5. keys' \in [1 .. nprobe -> Lists \cup {-1}] /\ Near(keys', c) = a
    BY <2>3, <2>4, KeysOfCentroids
  <2> QED BY <1>1, <2>1, <2>3, <2>5 DEF KeysTyped
<1>8. HeapInv'
  <2>1. HeapOf(heapify(k), k, {})
    BY EmptyHeap, SearchParameters DEF HeapOf
  <2> QED BY <1>1, <1>2, <1>5, <2>1 DEF HeapInv
<1>9. Counted'
  BY <1>1, <1>2, <1>5, FS_EmptySet DEF Counted
<1>10. Limited'
  BY <1>1, <1>2, <1>3, <1>4 DEF Limited, InputsTyped
<1> QED BY <1>3, <1>6, <1>7, <1>8, <1>9, <1>10 DEF SInv
\* While neither a key nor a list nor the heap changes.
LEMMA SameScanned ==
  ASSUME SInv, stage # "coarse", stage' \in {"probe", "scan", "reorder"}, stage # "done",
         Scanned' = Scanned, UNCHANGED <<max_codes, coarse, codes, keys, heap>>
  PROVE  InputsTyped' /\ KeysTyped' /\ HeapInv'
<1>1. InputsTyped'
  BY DEF SInv, InputsTyped
<1>2. KeysTyped'
  BY DEF SInv, KeysTyped
<1>3. HeapInv'
  BY DEF SInv, HeapInv
<1> QED BY <1>1, <1>2, <1>3

\* A list that is skipped has nothing to scan.
LEMMA SkipInv ==
  ASSUME SInv, SkipList
  PROVE  SInv'
<1>1. /\ stage = "probe" /\ stage' = "probe" /\ ik <= nprobe /\ Nothing(keys[ik])
      /\ ik' = ik + 1 /\ UNCHANGED <<max_codes, coarse, codes, keys, j, nscan, heap>>
  BY DEF SkipList, More, inputs
<1>2. ~InList /\ ~InList'
  BY <1>1 DEF InList
<1>3. ik \in 1 .. nprobe /\ nprobe \in Nat /\ j \in Nat \ {0} /\ nscan \in Nat
  BY <1>1, SearchParameters DEF SInv, LoopsTyped
<1>4. keys[ik] \in Lists \cup {-1}
  BY <1>1, <1>3 DEF SInv, KeysTyped
<1>5. keys[ik] \in Int /\ (keys[ik] < 0 \/ Len(codes[keys[ik]]) = 0)
  BY <1>1, <1>4 DEF Nothing, Lists
<1>6. Scanned' = Scanned
  <2>1. PastSet(keys, codes, ik + 1, 1) = PastSet(keys, codes, ik, 1)
    BY <1>3, <1>5, PastSkips
  <2> QED BY <1>1, <1>2, <2>1, ScannedIs, ScannedNext DEF ScannedIsPast
<1>7. InputsTyped' /\ KeysTyped' /\ HeapInv'
  BY <1>1, <1>6, SameScanned
<1>8. LoopsTyped'
  BY <1>1, <1>2, <1>3 DEF LoopsTyped
<1>9. Counted'
  BY <1>1, <1>6 DEF SInv, Counted
<1>10. Limited'
  BY <1>1, <1>2 DEF SInv, Limited
<1> QED BY <1>7, <1>8, <1>9, <1>10 DEF SInv

\* nscan counts the whole list when it is opened.
LEMMA OpenListInv ==
  ASSUME SInv, OpenList
  PROVE  SInv'
<1>1. /\ stage = "probe" /\ stage' = "scan" /\ ik <= nprobe /\ ~Nothing(keys[ik])
      /\ j' = 1 /\ nscan' = nscan + Len(codes[keys[ik]])
      /\ UNCHANGED <<max_codes, coarse, codes, keys, ik, heap>>
  BY DEF OpenList, More, inputs
<1>2. ~InList /\ InList'
  BY <1>1 DEF InList
<1>3. ik \in 1 .. nprobe /\ nprobe \in Nat /\ nscan \in Nat
  BY <1>1, SearchParameters DEF SInv, LoopsTyped
<1>4. keys[ik] \in Lists
  <2>1. keys[ik] \in Lists \cup {-1}
    BY <1>1, <1>3 DEF SInv, KeysTyped
  <2> QED BY <1>1, <2>1 DEF Nothing
<1>5. PICK n \in Nat : n = Len(codes[keys[ik]])
  BY <1>4, SearchParameters DEF SInv, InputsTyped, IsIndex
<1>6. Scanned' = Scanned
  BY <1>1, <1>2, ScannedIs, ScannedNext DEF ScannedIsPast
<1>7. InputsTyped' /\ KeysTyped' /\ HeapInv'
  BY <1>1, <1>6, SameScanned
<1>8. LoopsTyped'
  BY <1>1, <1>2, <1>3, <1>4, <1>5 DEF LoopsTyped
<1>9. Counted'
  BY <1>1, <1>3, <1>5, <1>6 DEF SInv, Counted
<1>10. Limited'
  <2>1. max_codes # 0 => nscan < max_codes
    BY <1>2 DEF SInv, Limited
  <2>2. nscan + n - n = nscan
    BY <1>3
  <2> QED BY <1>1, <1>2, <1>3, <1>5, <2>1, <2>2 DEF Limited
<1> QED BY <1>7, <1>8, <1>9, <1>10 DEF SInv

\* An entry is new, and the heap stays one of the nearest.
LEMMA ScanInv ==
  ASSUME SInv, ScanCode
  PROVE  SInv'
<1>1. /\ stage = "scan" /\ stage' = "scan" /\ j <= Len(codes[keys[ik]])
      /\ heap' = Offer(heap, Entry(keys[ik], j)) /\ j' = j + 1
      /\ UNCHANGED <<max_codes, coarse, codes, keys, ik, nscan>>
  BY DEF ScanCode, inputs
<1>2. InList /\ InList'
  BY <1>1 DEF InList
<1>3. ik \in 1 .. nprobe /\ nprobe \in Nat /\ nscan \in Nat /\ j \in Nat \ {0} /\ keys[ik] \in Lists
  BY <1>2, SearchParameters DEF SInv, LoopsTyped
<1>4. PICK n \in Nat : n = Len(codes[keys[ik]]) /\ j \in 1 .. n
  BY <1>1, <1>3, SearchParameters DEF SInv, InputsTyped, IsIndex
<1>5. PICK e : e = EntryOf(codes, keys[ik], j) /\ e = Entry(keys[ik], j)
  BY DEF Entry, EntryOf
<1>6. e \in Found /\ e \notin Scanned
  <2>1. /\ keys \in [1 .. nprobe -> Lists \cup {-1}] /\ IsIndex(codes)
        /\ IsOrdered(Near(keys, coarse), nprobe, CentroidsOf(coarse))
    BY <1>1 DEF SInv, KeysTyped, InputsTyped
  <2>2. ApartKeys(keys)
    BY <2>1, KeysApart
  <2>3. /\ EntryOf(codes, keys[ik], j) \in Found
        /\ EntryOf(codes, keys[ik], j) \notin PastSet(keys, codes, ik, j)
    <3>1. j \in 1 .. Len(codes[keys[ik]])
      BY <1>4
    <3> QED BY <1>3, <2>1, <2>2, <3>1, EntryNew
  <2>4. Scanned = PastSet(keys, codes, ik, j)
    BY <1>2, ScannedIs DEF ScannedIsPast
  <2> QED BY <1>5, <2>3, <2>4
<1>7. Scanned' = Scanned \cup {e}
  <2>1. PastSet(keys, codes, ik, j + 1)
          = PastSet(keys, codes, ik, j) \cup {EntryOf(codes, keys[ik], j)}
    BY <1>3, PastScans
  <2>2. Scanned = PastSet(keys, codes, ik, j) /\ Scanned' = PastSet(keys, codes, ik, j + 1)
    BY <1>1, <1>2, ScannedIs, ScannedNext DEF ScannedIsPast
  <2> QED BY <1>5, <2>1, <2>2
<1>8. InputsTyped' /\ KeysTyped'
  BY <1>1 DEF SInv, InputsTyped, KeysTyped
<1>9. LoopsTyped'
  <2>1. j + 1 \in 1 .. n + 1
    BY <1>4
  <2> QED BY <1>1, <1>2, <1>3, <1>4, <2>1 DEF SInv, LoopsTyped
<1>10. HeapInv'
  <2>1. Scanned \in SUBSET Found /\ HeapOf(heap, k, Scanned)
    BY <1>1 DEF SInv, HeapInv
  <2>2. PICK m \in Nat \ {0} : m = k
    BY SearchParameters
  <2>3. PICK h \in [1 .. m -> Element] : h = heap /\ IsHeap(h, m) /\ HoldsNearest(h, m, Scanned)
    BY <2>1, <2>2 DEF HeapOf
  <2>4. HoldsNearest(Offer(h, e), m, Scanned \cup {e})
    BY <1>6, <2>1, <2>3, OfferKeeps
  <2>5. e \in Element
    BY <1>6 DEF Found
  <2>6. Offer(h, e) \in [1 .. m -> Element] /\ IsHeap(Offer(h, e), m)
    BY <2>3, <2>5, Offered
  <2>7. HeapOf(heap', k, Scanned \cup {e})
    BY <1>1, <1>5, <2>2, <2>3, <2>4, <2>6 DEF HeapOf
  <2> QED BY <1>1, <1>6, <1>7, <2>1, <2>7 DEF HeapInv
<1>11. Counted'
  <2>1. /\ IsFiniteSet(Scanned) /\ Cardinality(Scanned) \in Nat
        /\ nscan + (j - 1) = Cardinality(Scanned) + n
    BY <1>1, <1>4, FS_CardinalityType DEF SInv, Counted
  <2>2. IsFiniteSet(Scanned \cup {e}) /\ Cardinality(Scanned \cup {e}) = Cardinality(Scanned) + 1
    BY <1>6, <2>1, FS_AddElement
  <2>3. nscan + (j + 1 - 1) = Cardinality(Scanned) + 1 + n
    BY <1>3, <2>1
  <2> QED BY <1>1, <1>4, <1>7, <2>2, <2>3 DEF Counted
<1>12. Limited'
  BY <1>1, <1>2 DEF SInv, Limited
<1> QED BY <1>8, <1>9, <1>10, <1>11, <1>12 DEF SInv

\* A list is left when all its entries are scanned.
LEMMA CloseInv ==
  ASSUME SInv, CloseList
  PROVE  SInv'
<1>1. /\ stage = "scan" /\ j > Len(codes[keys[ik]])
      /\ UNCHANGED <<max_codes, coarse, codes, keys, j, nscan, heap>>
      /\ \/ max_codes # 0 /\ nscan >= max_codes /\ stage' = "reorder" /\ ik' = ik
         \/ ~(max_codes # 0 /\ nscan >= max_codes) /\ stage' = "probe" /\ ik' = ik + 1
  BY DEF CloseList, Close, inputs
<1>2. InList
  BY <1>1 DEF InList
<1>3. /\ ik \in 1 .. nprobe /\ nprobe \in Nat /\ nscan \in Nat /\ j \in Nat \ {0}
      /\ keys[ik] \in Lists /\ j \in 1 .. Len(codes[keys[ik]]) + 1
  BY <1>2, SearchParameters DEF SInv, LoopsTyped
<1>4. PICK n \in Nat : n = Len(codes[keys[ik]]) /\ j = n + 1
  BY <1>1, <1>3, SearchParameters DEF SInv, InputsTyped, IsIndex
<1>5. /\ IsFiniteSet(Scanned) /\ nscan = Cardinality(Scanned)
      /\ (max_codes # 0 => nscan - n < max_codes) /\ max_codes \in Nat
  <2>1. IsFiniteSet(Scanned) /\ nscan + (j - 1) = Cardinality(Scanned) + n
    BY <1>1, <1>4 DEF SInv, Counted
  <2>2. Cardinality(Scanned) \in Nat
    BY <2>1, FS_CardinalityType
  <2>3. nscan = Cardinality(Scanned)
    BY <1>3, <1>4, <2>1, <2>2
  <2> QED BY <1>2, <1>4, <2>1, <2>3 DEF SInv, Limited, InputsTyped
<1>6. CASE max_codes # 0 /\ nscan >= max_codes /\ stage' = "reorder" /\ ik' = ik
  <2>1. InList'
    BY <1>3, <1>6 DEF InList
  <2>2. Scanned' = Scanned
    BY <1>1, <1>2, <1>6, <2>1, ScannedIs, ScannedNext DEF ScannedIsPast
  <2>3. InputsTyped' /\ KeysTyped' /\ HeapInv'
    BY <1>1, <1>6, <2>2, SameScanned
  <2>4. LoopsTyped'
    BY <1>1, <1>3, <1>4, <1>6, <2>1 DEF LoopsTyped
  <2>5. Counted'
    BY <1>1, <1>5, <1>6, <2>2 DEF Counted
  <2>6. Limited'
    BY <1>1, <1>4, <1>5, <1>6, <2>1 DEF Limited
  <2> QED BY <2>3, <2>4, <2>5, <2>6 DEF SInv
<1>7. CASE ~(max_codes # 0 /\ nscan >= max_codes) /\ stage' = "probe" /\ ik' = ik + 1
  <2>1. ~InList'
    BY <1>7 DEF InList
  <2>2. Scanned' = Scanned
    <3>1. keys[ik] >= 0 /\ ik \in Nat \ {0} /\ j \in Nat
      BY <1>3 DEF Lists
    <3>2. PastSet(keys, codes, ik + 1, 1) = PastSet(keys, codes, ik, j)
      BY <1>4, <3>1, PastCloses
    <3> QED BY <1>1, <1>2, <1>7, <2>1, <3>2, ScannedIs, ScannedNext DEF ScannedIsPast
  <2>3. InputsTyped' /\ KeysTyped' /\ HeapInv'
    BY <1>1, <1>7, <2>2, SameScanned
  <2>4. LoopsTyped'
    BY <1>1, <1>3, <1>7, <2>1 DEF LoopsTyped
  <2>5. Counted'
    BY <1>1, <1>5, <1>7, <2>2 DEF Counted
  <2>6. Limited'
    BY <1>1, <1>3, <1>5, <1>7, <2>1 DEF Limited
  <2> QED BY <2>3, <2>4, <2>5, <2>6 DEF SInv
<1> QED BY <1>1, <1>6, <1>7

\* The last list was not the one that reached the limit.
LEMMA AllProbedInv ==
  ASSUME SInv, AllProbed
  PROVE  SInv'
<1>1. /\ stage = "probe" /\ stage' = "reorder" /\ ~(ik <= nprobe)
      /\ UNCHANGED <<max_codes, coarse, codes, keys, ik, j, nscan, heap>>
  BY DEF AllProbed, More, inputs
<1>2. ~InList /\ ~InList'
  BY <1>1 DEF InList
<1>3. Scanned' = Scanned
  BY <1>1, <1>2, ScannedIs, ScannedNext DEF ScannedIsPast
<1>4. InputsTyped' /\ KeysTyped' /\ HeapInv'
  BY <1>1, <1>3, SameScanned
<1>5. LoopsTyped'
  BY <1>1, <1>2 DEF SInv, LoopsTyped
<1>6. Counted'
  BY <1>1, <1>3 DEF SInv, Counted
<1>7. Limited'
  BY <1>1, <1>2 DEF SInv, Limited
<1> QED BY <1>4, <1>5, <1>6, <1>7 DEF SInv

\* The results are the heap in order.
LEMMA ReorderInv ==
  ASSUME SInv, Reorder
  PROVE  SInv'
<1>1. /\ stage = "reorder" /\ stage' = "done" /\ heap' = heap_reorder(heap)
      /\ UNCHANGED <<max_codes, coarse, codes, keys, ik, j, nscan>>
  BY DEF Reorder, inputs
<1>2. InList' <=> InList
  BY <1>1 DEF InList
<1>3. Scanned' = Scanned
  BY <1>1, <1>2, ScannedIs, ScannedNext DEF ScannedIsPast
<1>4. InputsTyped' /\ KeysTyped'
  BY <1>1 DEF SInv, InputsTyped, KeysTyped
<1>5. LoopsTyped'
  BY <1>1, <1>2 DEF SInv, LoopsTyped
<1>6. HeapInv'
  <2>1. Scanned \in SUBSET Found /\ HeapOf(heap, k, Scanned)
    BY <1>1 DEF SInv, HeapInv
  <2>2. IsOrdered(heap_reorder(heap), k, Scanned)
    BY <2>1, Reordered, SearchParameters
  <2> QED BY <1>1, <1>3, <2>1, <2>2 DEF HeapInv
<1>7. Counted'
  BY <1>1, <1>3 DEF SInv, Counted
<1>8. Limited'
  BY <1>1, <1>2 DEF SInv, Limited
<1> QED BY <1>4, <1>5, <1>6, <1>7, <1>8 DEF SInv

\* SInv is inductive.
LEMMA SearchInvariance == SearchSpec => []SInv
<1>1. ASSUME SInv, [SearchNext]_searchVars
      PROVE  SInv'
  <2>1. CASE SearchNext
    BY <1>1, <2>1, CoarseInv, SkipInv, OpenListInv, ScanInv, CloseInv, AllProbedInv, ReorderInv
       DEF SearchNext
  <2>2. CASE UNCHANGED searchVars
    <3>1. UNCHANGED <<stage, max_codes, coarse, codes, keys, ik, j, nscan, heap>>
      BY <2>2 DEF searchVars, inputs
    <3>2. InList' <=> InList
      BY <3>1 DEF InList
    <3>3. Scanned' = Scanned
      BY <3>1, <3>2, ScannedIs, ScannedNext DEF ScannedIsPast
    <3>4. InputsTyped' /\ LoopsTyped' /\ KeysTyped'
      BY <1>1, <3>1, <3>2 DEF SInv, InputsTyped, LoopsTyped, KeysTyped
    <3>5. HeapInv' /\ Counted' /\ Limited'
      BY <1>1, <3>1, <3>2, <3>3 DEF SInv, HeapInv, Counted, Limited
    <3> QED BY <3>4, <3>5 DEF SInv
  <2> QED BY <1>1, <2>1, <2>2
<1> QED BY <1>1, SearchInitInv, PTL DEF SearchSpec

\* What the invariant says of the keys is KeysAreNearest.
LEMMA KeysLemma ==
  ASSUME SInv
  PROVE  KeysAreNearest
<1>1. ASSUME stage # "coarse"
      PROVE  /\ Sorted(Near(keys, coarse))
             /\ KeepsNearest(Near(keys, coarse), CentroidsOf(coarse))
  <2>1. IsOrdered(Near(keys, coarse), nprobe, CentroidsOf(coarse))
    BY <1>1 DEF SInv, KeysTyped
  <2>2. CentroidsOf(coarse) \in SUBSET Found
    BY CentroidsFound DEF SInv, InputsTyped
  <2>3. KeepsNearest(Near(keys, coarse), CentroidsOf(coarse))
    BY <2>1, <2>2, NearestKept, SearchParameters DEF IsOrdered
  <2> QED BY <2>1, <2>3 DEF IsOrdered
<1> QED BY <1>1, Zenon DEF KeysAreNearest, Near, CentroidsOf

\* With as many probes as lists, every list whose centroid has a distance is
\* among the keys: each key is there, or all nprobe places have different keys,
\* and there are no more lists than that.
LEMMA ExhaustiveLemma ==
  ASSUME SInv
  PROVE  ProbeAllIsExhaustive
<1> SUFFICES ASSUME stage = "done", nprobe >= nlist, max_codes = 0
             PROVE  Scanned = UNION {{Entry(l, place) : place \in 1 .. Len(codes[l])} :
                                       l \in {l \in Lists : coarse[l] < Neutral}}
  BY DEF ProbeAllIsExhaustive
<1>1. nlist \in Nat \ {0} /\ nprobe \in Nat \ {0} /\ \A l \in Lists : l \in Nat
  BY SearchParameters DEF Lists
<1>2. ik = nprobe + 1 /\ ~InList
  <2>1. ~(ik <= nprobe)
    BY DEF SInv, Limited
  <2>2. ik \in 1 .. nprobe + 1
    BY DEF SInv, LoopsTyped
  <2> QED BY <1>1, <2>1, <2>2 DEF InList
<1>3. keys \in [1 .. nprobe -> Lists \cup {-1}] /\ coarse \in [Lists -> Nat]
  BY DEF SInv, KeysTyped, InputsTyped
<1>4. PICK near : near = Near(keys, coarse)
  OBVIOUS
<1>5. IsOrdered(near, nprobe, CentroidsOf(coarse)) /\ ApartKeys(keys)
  BY <1>4, KeysApart DEF SInv, KeysTyped
<1>6. /\ \A p \in 1 .. nprobe :
           near[p] = Unused \/ (near[p] \in CentroidsOf(coarse) /\ near[p].val < Neutral)
      /\ \A e \in CentroidsOf(coarse) : e.val < Neutral =>
           \/ \E p \in 1 .. nprobe : near[p] = e
           \/ \A p \in 1 .. nprobe : near[p].id # -1 /\ near[p].val <= e.val
  BY <1>5, Zenon DEF IsOrdered, HoldsNearest
<1>7. ASSUME NEW p \in 1 .. nprobe
      PROVE  /\ keys[p] = -1 => near[p] = Unused
             /\ keys[p] # -1 => /\ keys[p] \in Lists /\ keys[p] >= 0
                                /\ near[p] = [val |-> coarse[keys[p]], id |-> keys[p]]
  <2>1. keys[p] \in Lists \cup {-1}
    BY <1>3
  <2>2. near[p] = IF keys[p] < 0 THEN Unused ELSE [val |-> coarse[keys[p]], id |-> keys[p]]
    BY <1>4 DEF Near
  <2> QED BY <1>1, <2>1, <2>2
\* A key names a list whose centroid has a distance, and each such list is named.
<1>8. ASSUME NEW p \in 1 .. nprobe, keys[p] >= 0
      PROVE  keys[p] \in Lists /\ coarse[keys[p]] < Neutral
  <2>1. keys[p] \in Lists /\ near[p] = [val |-> coarse[keys[p]], id |-> keys[p]]
    BY <1>7, <1>8
  <2>2. near[p].val = coarse[keys[p]] /\ near[p].id # -1
    BY <1>1, <2>1
  <2>3. near[p] # Unused
    BY <2>2, UnusedIs
  <2> QED BY <1>6, <2>1, <2>2, <2>3
<1>9. ASSUME NEW l \in Lists, coarse[l] < Neutral
      PROVE  \E p \in 1 .. nprobe : keys[p] = l
  <2>1. PICK e : e = [val |-> coarse[l], id |-> l]
    OBVIOUS
  <2>2. e \in CentroidsOf(coarse) /\ e.val < Neutral /\ e.id = l /\ l # -1
    BY <1>1, <1>9, <2>1 DEF CentroidsOf
  <2>3. CASE \E p \in 1 .. nprobe : near[p] = e
    <3>1. PICK p \in 1 .. nprobe : near[p] = e
      BY <2>3
    <3>2. near[p].id = l /\ near[p] # Unused
      BY <2>2, <3>1, UnusedIs
    <3>3. near[p] = [val |-> coarse[keys[p]], id |-> keys[p]]
      BY <1>7, <3>2
    <3>4. near[p].id = keys[p]
      BY <3>3
    <3> QED BY <3>2, <3>4
  <2>4. CASE \A p \in 1 .. nprobe : near[p].id # -1
    <3>1. \A p \in 1 .. nprobe : keys[p] \in Lists
      BY <1>7, <2>4, UnusedIs
    <3>2. PICK g \in [1 .. nprobe -> Lists] : g = [p \in 1 .. nprobe |-> keys[p]]
      BY <3>1
    <3>3. g \in Injection(1 .. nprobe, Lists)
      <4>1. ASSUME NEW p \in 1 .. nprobe, NEW q \in 1 .. nprobe, g[p] = g[q] PROVE p = q
        <5>1. keys[p] = keys[q] /\ keys[p] \in Lists
          BY <3>1, <3>2, <4>1
        <5> QED BY <1>5, <5>1 DEF ApartKeys
      <4> QED BY <4>1, Zenon DEF Injection, IsInjective
    <3>4. IsFiniteSet(Lists) /\ Cardinality(Lists) = nlist
      <4>1. 0 \in Int /\ nlist - 1 \in Int /\ ~(0 > nlist - 1) /\ nlist - 1 - 0 + 1 = nlist
        BY <1>1
      <4> QED BY <4>1, FS_Interval DEF Lists
    <3>5. Cardinality(1 .. nprobe) = nprobe
      BY <1>1, FS_Interval
    <3>6. Cardinality(1 .. nprobe) = Cardinality(Lists)
      <4>1. Cardinality(1 .. nprobe) <= Cardinality(Lists)
        BY <3>3, <3>4, FS_Injection
      <4> QED BY <1>1, <3>4, <3>5, <4>1
    <3>7. g \in Surjection(1 .. nprobe, Lists)
      BY <3>3, <3>4, <3>6, FS_Injection
    <3> QED BY <3>2, <3>7 DEF Surjection
  <2> QED BY <1>6, <2>2, <2>3, <2>4
<1>10. PICK all : all = UNION {{Entry(l, place) : place \in 1 .. Len(codes[l])} :
                                 l \in {l \in Lists : coarse[l] < Neutral}}
  OBVIOUS
<1>11. ASSUME NEW e
       PROVE  e \in Scanned <=> \E i \in 1 .. nprobe :
                /\ keys[i] >= 0
                /\ \E p \in 1 .. Len(codes[keys[i]]) : e = EntryOf(codes, keys[i], p)
  <2>1. Scanned = PastSet(keys, codes, nprobe + 1, 1)
    BY <1>2, ScannedIs DEF ScannedIsPast
  <2>2. 1 .. (nprobe + 1) - 1 = 1 .. nprobe /\ 1 .. 1 - 1 = {}
    BY <1>1
  <2>3. e \in Scanned <=> IsPast(e, keys, codes, nprobe + 1, 1)
    BY <2>1, InPast
  <2> QED BY <2>2, <2>3 DEF IsPast
<1>12. ASSUME NEW e
       PROVE  e \in all <=> \E l \in Lists :
                /\ coarse[l] < Neutral
                /\ \E p \in 1 .. Len(codes[l]) : e = EntryOf(codes, l, p)
  BY <1>10 DEF Entry, EntryOf
<1>13. ASSUME NEW e PROVE e \in Scanned <=> e \in all
  <2>1. ASSUME e \in Scanned PROVE e \in all
    BY <1>8, <1>11, <1>12, <2>1
  <2>2. ASSUME e \in all PROVE e \in Scanned
    <3>1. PICK l \in Lists : /\ coarse[l] < Neutral
                             /\ \E p \in 1 .. Len(codes[l]) : e = EntryOf(codes, l, p)
      BY <1>12, <2>2
    <3>2. PICK i \in 1 .. nprobe : keys[i] = l
      BY <1>9, <3>1
    <3>3. keys[i] >= 0
      BY <1>1, <3>2
    <3> QED BY <1>11, <3>1, <3>2, <3>3
  <2> QED BY <2>1, <2>2
<1> QED BY <1>10, <1>13

\* What it says of nscan gives LimitIsKept.
LEMMA LimitLemma ==
  ASSUME SInv
  PROVE  LimitIsKept
<1>1. ASSUME stage = "scan", max_codes # 0
      PROVE  Cardinality(Scanned) - (j - 1) < max_codes
  <2>1. /\ InList /\ nscan \in Nat /\ j \in Nat \ {0} /\ keys[ik] \in Lists
    BY <1>1, SearchParameters DEF SInv, LoopsTyped, InList
  <2>2. PICK n \in Nat : n = Len(codes[keys[ik]])
    BY <2>1, SearchParameters DEF SInv, InputsTyped, IsIndex
  <2>3. /\ Cardinality(Scanned) \in Nat /\ nscan + (j - 1) = Cardinality(Scanned) + n
    BY <1>1, <2>2, FS_CardinalityType DEF SInv, Counted
  <2>4. nscan - n < max_codes /\ max_codes \in Nat
    BY <1>1, <2>1, <2>2, SearchParameters DEF SInv, Limited, InputsTyped
  <2>5. Cardinality(Scanned) - (j - 1) = nscan - n
    BY <2>1, <2>3
  <2> QED BY <2>4, <2>5
<1>2. ASSUME stage = "done", max_codes # 0, ik <= nprobe
      PROVE  Cardinality(Scanned) >= max_codes
  BY <1>2 DEF SInv, Counted, Limited
<1> QED BY <1>1, <1>2 DEF LimitIsKept

\* What it says of the heap is ResultsAreNearest.
LEMMA ResultsLemma ==
  ASSUME SInv
  PROVE  ResultsAreNearest
<1>1. k \in Nat \ {0} /\ Scanned \in SUBSET Found
  BY SearchParameters DEF SInv, HeapInv
<1>2. CASE stage # "done"
  <2>1. heap \in [1 .. k -> Element] /\ IsHeap(heap, k) /\ HoldsNearest(heap, k, Scanned)
    BY <1>2 DEF SInv, HeapInv, HeapOf
  <2>2. KeepsNearest(heap, Scanned)
    BY <1>1, <2>1, NearestKept
  <2> QED BY <1>2, <2>1, <2>2 DEF ResultsAreNearest, HeapKeepsNearest, IsHeap
<1>3. CASE stage = "done"
  <2>1. heap \in [1 .. k -> Element] /\ Sorted(heap) /\ HoldsNearest(heap, k, Scanned)
    BY <1>3 DEF SInv, HeapInv, IsOrdered
  <2>2. KeepsNearest(heap, Scanned)
    BY <1>1, <2>1, NearestKept
  <2> QED BY <1>3, <2>1, <2>2 DEF ResultsAreNearest, HeapKeepsNearest
<1> QED BY <1>2, <1>3

(* The search scans the lists of the nearest centroids, each whole, all of them *)
(* if it has no limit on codes and probes enough; with a limit it begins no list *)
(* after it and stops not before it: IndexIVFPQ::search, for every index, query, *)
(* nprobe and max_codes.                                                   *)
THEOREM ListsScannedSafe == SearchSpec => []ListsScanned
<1>1. SInv => ListsScanned
  BY KeysLemma, ExhaustiveLemma, LimitLemma DEF ListsScanned
<1> QED BY <1>1, SearchInvariance, PTL

(* The heap has at each moment the k nearest of the entries scanned, each once, *)
(* and what the search returns are these by distance, unused places last.  *)
THEOREM ResultsSafe == SearchSpec => []ResultsAreNearest
<1>1. SInv => ResultsAreNearest
  BY ResultsLemma
<1> QED BY <1>1, SearchInvariance, PTL
=============================================================================
