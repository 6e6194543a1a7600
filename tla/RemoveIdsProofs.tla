-------------------------- MODULE RemoveIdsProofs ---------------------------
(***************************************************************************)
(* Proofs about RemoveIds, for any number of inverted lists and threads,   *)
(* any list length and any range: the label and the code of an entry never *)
(* come apart, no entry is lost, and the count that remove_ids takes from  *)
(* ntotal is exact.                                                        *)
(***************************************************************************)
EXTENDS RemoveIds, FiniteSetTheorems, SequenceTheorems, TLAPS

LEMMA EntriesFinite == ASSUME NEW ls PROVE IsFiniteSet(EntriesOf(ls))
<1>1. IsFiniteSet(1 .. MaxLen)
  BY FS_Interval, NatBounds
<1>2. IsFiniteSet(Lists \X (1 .. MaxLen))
  BY <1>1, FS_Product, FiniteTeam
<1> QED
  BY <1>2, FS_Subset DEF EntriesOf

\* A list of ListsOf(S) is a sequence of at most MaxLen elements.
LEMMA ListType ==
  ASSUME NEW S, NEW ls \in ListsOf(S), NEW i \in Lists
  PROVE  /\ ls[i] \in Seq(S)
         /\ Len(ls[i]) \in 0 .. MaxLen
         /\ DOMAIN ls[i] = 1 .. Len(ls[i])
<1>1. ls[i] \in UNION {[1 .. n -> S] : n \in 0 .. MaxLen}
  BY DEF ListsOf
<1>2. PICK n \in 0 .. MaxLen : ls[i] \in [1 .. n -> S]
  BY <1>1
<1>3. n \in Nat
  BY <1>2, NatBounds
<1>4. ls[i] \in Seq(S)
  BY <1>2, <1>3, SeqDef
<1>5. Len(ls[i]) = n
  BY <1>2, <1>3, <1>4, LenProperties
<1> QED
  BY <1>2, <1>4, <1>5, LenProperties

-----------------------------------------------------------------------------
LEMMA InitInv == Init => IInv
<1> SUFFICES ASSUME Init PROVE IInv
  OBVIOUS
<1> USE DEF Init
<1>1. PICK g \in Ignored : start = [ids |-> ids, codes |-> codes,
                                    ntotal |-> Cardinality(EntriesOf(ids)) + g]
  OBVIOUS
<1>2. start.ids = ids /\ start.codes = codes
  BY <1>1
<1>3. \A i \in Lists : /\ ids[i] \in Seq(Ids) /\ codes[i] \in Seq(Codes)
                       /\ Len(ids[i]) \in 0 .. MaxLen
  BY ListType
<1>4. ids \in [Lists -> Seq(Ids)] /\ codes \in [Lists -> Seq(Codes)]
  BY <1>3 DEF ListsOf
<1>5. Cardinality(EntriesOf(ids)) + g \in Nat
  BY EntriesFinite, FS_CardinalityType, NatBounds
<1>6. ASSUME NEW i \in Lists, NEW p \in 1 .. Len(ids[i])
      PROVE  <<i, p>> \in Entries
  <2>1. p \in 1 .. MaxLen /\ p <= Len(ids[i])
    BY <1>3, NatBounds
  <2> HIDE DEF Init
  <2> QED
    BY <1>2, <2>1 DEF Entries, EntriesOf
<1>7. \A i \in Lists : /\ orig[i] \in Seq(Entries) /\ Len(orig[i]) = Len(ids[i])
                       /\ \A p \in 1 .. Len(ids[i]) : orig[i][p] = <<i, p>>
  <2> SUFFICES ASSUME NEW i \in Lists
               PROVE  /\ orig[i] \in Seq(Entries) /\ Len(orig[i]) = Len(ids[i])
                      /\ \A p \in 1 .. Len(ids[i]) : orig[i][p] = <<i, p>>
    OBVIOUS
  <2>1. Len(ids[i]) \in Nat
    BY <1>3
  <2>2. orig[i] = [p \in 1 .. Len(ids[i]) |-> <<i, p>>]
    OBVIOUS
  <2>3. orig[i] \in [1 .. Len(ids[i]) -> Entries]
    BY <2>2, <1>6
  <2>4. orig[i] \in Seq(Entries)
    BY <2>1, <2>3, SeqDef
  <2>5. Len(orig[i]) = Len(ids[i])
    BY <2>1, <2>3, <2>4, LenProperties
  <2> QED
    BY <2>2, <2>4, <2>5
<1>8. TypeOK
  <2>1. start \in [ids : ListsOf(Ids), codes : ListsOf(Codes), ntotal : Nat]
    BY <1>1, <1>5
  <2>2. \A i \in Lists : Len(start.ids[i]) = Len(start.codes[i])
    BY <1>2
  <2>3. orig \in [Lists -> Seq(Entries)]
    BY <1>7
  <2>4. ntotal \in Int
    BY <2>1
  <2>5. (CHOOSE t \in Threads : TRUE) \in Threads
    BY FiniteTeam
  <2> QED
    BY <1>4, <2>1, <2>2, <2>3, <2>4, <2>5 DEF TypeOK
<1>9. ASSUME NEW i \in Lists PROVE Paired(i) /\ Accounted(i) /\ Scanned(i)
  <2>1. Last(i) = Len(ids[i]) /\ Len(ids[i]) \in Nat
    BY <1>3 DEF Last
  <2>2. Paired(i)
    BY <1>2, <1>7 DEF Paired
  <2>3. EntriesIn(i) = {<<i, p>> : p \in 1 .. Len(ids[i])}
    BY <1>2, <1>3, NatBounds DEF EntriesIn, Entries, EntriesOf
  <2>4. {orig[i][p] : p \in 1 .. Last(i)} = EntriesIn(i)
    BY <1>7, <2>1, <2>3
  <2>5. gone[i] = {}
    OBVIOUS
  <2>6. Accounted(i)
    BY <1>7, <2>1, <2>4, <2>5 DEF Accounted
  <2>7. Cardinality(gone[i]) = Len(start.ids[i]) - Last(i)
    BY <1>2, <2>1, <2>5, FS_EmptySet
  <2> QED
    BY <2>2, <2>5, <2>6, <2>7 DEF Scanned
<1>10. Reduced
  <2>1. \A T : DroppedBy(T) = {}
    BY DEF DroppedBy
  <2>2. ntotal = start.ntotal - 0
    BY <1>8 DEF TypeOK
  <2>3. \A T : Cardinality(DroppedBy(T)) = 0
    BY <2>1, FS_EmptySet
  <2>4. \A t \in Threads : part[t] = Cardinality(DroppedBy({t}))
    BY <2>3
  <2>5. joined = {} /\ ~returned /\ nremove = Cardinality(DroppedBy(joined))
    BY <2>3
  <2> HIDE DEF Init
  <2> QED
    BY <2>2, <2>4, <2>5 DEF Reduced
<1> QED
  BY <1>8, <1>9, <1>10 DEF IInv
-----------------------------------------------------------------------------
\* The iteration of one list leaves every other list's part alone.
LEMMA OtherList ==
  ASSUME NEW k \in Lists, Paired(k), Accounted(k), Scanned(k), start' = start,
         ids'[k] = ids[k], codes'[k] = codes[k], orig'[k] = orig[k],
         gone'[k] = gone[k], phase'[k] = phase[k], l'[k] = l[k], j'[k] = j[k]
  PROVE  Paired(k)' /\ Accounted(k)' /\ Scanned(k)'
<1>1. /\ Last(k)' = Last(k) /\ Entries' = Entries /\ Selected' = Selected
      /\ EntriesIn(k)' = EntriesIn(k)
  BY DEF Last, Entries, EntriesOf, Selected, EntriesIn
<1>2. Paired(k)'
  BY DEF Paired
<1>3. Accounted(k)'
  BY <1>1 DEF Accounted
<1>4. Scanned(k)'
  BY <1>1 DEF Scanned
<1> QED
  BY <1>2, <1>3, <1>4

\* The counters speak of completed iterations only.
LEMMA NoIterationCompleted ==
  ASSUME Reduced, NEW i \in Lists, phase[i] # "done", phase'[i] # "done",
         \A k \in Lists \ {i} : /\ gone'[k] = gone[k] /\ phase'[k] = phase[k]
                                 /\ worker'[k] = worker[k],
         phase[i] = "todo" \/ phase'[i] # "todo",
         worker'[i] \notin joined,
         UNCHANGED <<start, part, joined, nremove, ntotal, returned>>
  PROVE  Reduced'
<1>1. ASSUME NEW T PROVE DroppedBy(T)' = DroppedBy(T)
  BY DEF DroppedBy
<1>2. /\ \A t \in Threads : part'[t] = Cardinality(DroppedBy({t})')
      /\ nremove' = Cardinality(DroppedBy(joined)')
  BY <1>1 DEF Reduced
<1>3. joined' # {} => \A k \in Lists : phase'[k] # "todo"
  BY DEF Reduced
<1>4. \A k \in Lists : worker'[k] \in joined' => phase'[k] = "done"
  BY DEF Reduced
<1>5. /\ returned' => joined' = Threads
      /\ ntotal' = start'.ntotal - (IF returned' THEN nremove' ELSE 0)
  BY DEF Reduced
<1> QED
  BY <1>2, <1>3, <1>4, <1>5 DEF Reduced, DroppedBy

LEMMA BeginInv ==
  ASSUME IInv, NEW t \in Threads, NEW i \in Lists, Begin(t, i)
  PROVE  IInv'
<1>1. /\ phase' = [phase EXCEPT ![i] = "scan"] /\ phase[i] = "todo"
      /\ worker' = [worker EXCEPT ![i] = t] /\ t \notin joined
      /\ l' = [l EXCEPT ![i] = Len(ids[i])] /\ j' = [j EXCEPT ![i] = 0]
      /\ UNCHANGED <<ids, codes, orig, gone, start, part, joined, nremove,
                     ntotal, returned>>
  BY DEF Begin, Idle, result
<1>2. TypeOK /\ Reduced /\ \A k \in Lists : Paired(k) /\ Accounted(k) /\ Scanned(k)
  BY DEF IInv
<1>3. Entries' = Entries /\ Selected' = Selected /\ EntriesIn(i)' = EntriesIn(i)
  BY <1>1 DEF Entries, EntriesOf, Selected, EntriesIn
<1>4. Len(ids[i]) \in Nat
  BY <1>2, LenProperties DEF TypeOK
<1>5. TypeOK'
  BY <1>1, <1>2, <1>3, <1>4 DEF TypeOK
<1>6. Last(i)' = Last(i) /\ Last(i) = Len(ids[i])
  BY <1>1, <1>2 DEF Last, TypeOK
<1>7. Paired(i)'
  BY <1>1, <1>2 DEF Paired
<1>8. Accounted(i)'
  BY <1>1, <1>2, <1>3, <1>6 DEF Accounted
<1>9. Scanned(i)'
  <2>1. gone[i] = {} /\ Cardinality(gone[i]) = Len(start.ids[i]) - Last(i)
    BY <1>1, <1>2 DEF Scanned
  <2>2. Len(start.ids[i]) \in Nat
    BY <1>2, ListType, NatBounds DEF TypeOK
  <2>5. Cardinality(gone[i]) = 0
    BY <2>1, FS_EmptySet
  <2>6. 0 = Len(start.ids[i]) - Len(ids[i])
    BY <2>1, <2>5, <1>6, Zenon
  <2>3. Len(ids[i]) = Len(start.ids[i])
    BY <2>2, <2>6, <1>4
  <2>4. /\ phase'[i] = "scan" /\ j'[i] = 0 /\ l'[i] = Len(ids[i])
    BY <1>1, <1>2 DEF TypeOK
  <2> QED
    BY <1>1, <1>4, <1>6, <2>1, <2>3, <2>4 DEF Scanned
<1>10. ASSUME NEW k \in Lists, k # i
       PROVE  Paired(k)' /\ Accounted(k)' /\ Scanned(k)'
  <2>1. phase'[k] = phase[k] /\ l'[k] = l[k] /\ j'[k] = j[k]
    BY <1>1, <1>2, <1>10 DEF TypeOK
  <2> QED
    BY <1>1, <1>2, <2>1, OtherList
<1>11. Reduced'
  <2>1. /\ phase'[i] = "scan" /\ worker'[i] = t
        /\ \A k \in Lists \ {i} : phase'[k] = phase[k] /\ worker'[k] = worker[k]
    BY <1>1, <1>2 DEF TypeOK
  <2> QED
    BY <1>1, <1>2, <2>1, NoIterationCompleted
<1> QED
  BY <1>5, <1>7, <1>8, <1>9, <1>10, <1>11 DEF IInv

LEMMA OverwriteInv ==
  ASSUME IInv, NEW t \in Threads, NEW i \in Lists, Overwrite(t, i)
  PROVE  IInv'
<1> DEFINE q == j[i] + 1
           n == l[i]
<1>1. /\ phase[i] = "scan" /\ worker[i] = t /\ j[i] < n /\ is_member(ids[i][q])
      /\ l' = [l EXCEPT ![i] = n - 1]
      /\ ids' = [ids EXCEPT ![i][q] = ids[i][n]]
      /\ codes' = [codes EXCEPT ![i][q] = codes[i][n]]
      /\ orig' = [orig EXCEPT ![i][q] = orig[i][n]]
      /\ gone' = [gone EXCEPT ![i] = gone[i] \cup {orig[i][q]}]
      /\ UNCHANGED <<phase, worker, j, start, part, joined, nremove, ntotal,
                     returned>>
  BY DEF Overwrite, MoveLast, MoveLastCode, Scanning, result
<1>2. TypeOK /\ Reduced /\ \A k \in Lists : Paired(k) /\ Accounted(k) /\ Scanned(k)
  BY DEF IInv
<1>3. /\ Entries' = Entries /\ Selected' = Selected
      /\ \A k \in Lists : EntriesIn(k)' = EntriesIn(k)
  BY <1>1 DEF Entries, EntriesOf, Selected, EntriesIn
<1>4. /\ ids[i] \in Seq(Ids) /\ codes[i] \in Seq(Codes) /\ orig[i] \in Seq(Entries)
      /\ Len(ids[i]) \in Nat
      /\ Len(codes[i]) = Len(ids[i]) /\ Len(orig[i]) = Len(ids[i])
  BY <1>2, LenProperties DEF TypeOK, Paired
<1>5. /\ n \in Nat /\ q \in 1 .. n /\ n \in 1 .. Len(ids[i]) /\ q \in 1 .. Len(ids[i])
      /\ j[i] \in Nat
  BY <1>1, <1>2, <1>4 DEF TypeOK, Scanned
<1>6. /\ ids'[i] = [ids[i] EXCEPT ![q] = ids[i][n]]
      /\ codes'[i] = [codes[i] EXCEPT ![q] = codes[i][n]]
      /\ orig'[i] = [orig[i] EXCEPT ![q] = orig[i][n]]
      /\ gone'[i] = gone[i] \cup {orig[i][q]} /\ l'[i] = n - 1
  BY <1>1, <1>2 DEF TypeOK
<1>7. /\ ids[i][n] \in Ids /\ codes[i][n] \in Codes /\ orig[i][n] \in Entries
      /\ orig[i][q] \in Entries
  BY <1>4, <1>5, ElementOfSeq
<1>8. /\ ids'[i] \in Seq(Ids) /\ Len(ids'[i]) = Len(ids[i])
      /\ \A p \in 1 .. Len(ids[i]) :
           ids'[i][p] = IF p = q THEN ids[i][n] ELSE ids[i][p]
  BY <1>4, <1>5, <1>6, <1>7, ExceptSeq
<1>9. /\ codes'[i] \in Seq(Codes) /\ Len(codes'[i]) = Len(ids[i])
      /\ \A p \in 1 .. Len(ids[i]) :
           codes'[i][p] = IF p = q THEN codes[i][n] ELSE codes[i][p]
  BY <1>4, <1>5, <1>6, <1>7, ExceptSeq
<1>10. /\ orig'[i] \in Seq(Entries) /\ Len(orig'[i]) = Len(ids[i])
       /\ \A p \in 1 .. Len(ids[i]) :
            orig'[i][p] = IF p = q THEN orig[i][n] ELSE orig[i][p]
  BY <1>4, <1>5, <1>6, <1>7, ExceptSeq
<1>11. \A k \in Lists \ {i} :
         /\ ids'[k] = ids[k] /\ codes'[k] = codes[k] /\ orig'[k] = orig[k]
         /\ gone'[k] = gone[k] /\ l'[k] = l[k] /\ j'[k] = j[k]
         /\ phase'[k] = phase[k] /\ worker'[k] = worker[k]
  BY <1>1, <1>2 DEF TypeOK
<1>12. TypeOK'
  <2>1. ids' \in [Lists -> Seq(Ids)]
    BY <1>1, <1>2, <1>8, <1>11 DEF TypeOK
  <2>2. codes' \in [Lists -> Seq(Codes)]
    BY <1>1, <1>2, <1>9, <1>11 DEF TypeOK
  <2>3. orig' \in [Lists -> Seq(Entries)]
    BY <1>1, <1>2, <1>10, <1>11 DEF TypeOK
  <2>4. gone' \in [Lists -> SUBSET Entries]
    BY <1>1, <1>2, <1>7 DEF TypeOK
  <2>5. l' \in [Lists -> Nat]
    BY <1>1, <1>2, <1>5 DEF TypeOK
  <2> QED
    BY <1>1, <1>2, <1>3, <2>1, <2>2, <2>3, <2>4, <2>5 DEF TypeOK
<1> HIDE DEF n, q
<1>13. Paired(i)'
  <2>1. \A p \in 1 .. Len(ids[i]) : /\ ids[i][p] = start.ids[i][orig[i][p][2]]
                                    /\ codes[i][p] = start.codes[i][orig[i][p][2]]
    BY <1>2 DEF Paired
  <2>2. ASSUME NEW p \in 1 .. Len(ids[i])
        PROVE  /\ ids'[i][p] = start.ids[i][orig'[i][p][2]]
               /\ codes'[i][p] = start.codes[i][orig'[i][p][2]]
    <3>1. CASE p = q
      BY <3>1, <2>1, <1>5, <1>8, <1>9, <1>10
    <3>2. CASE p # q
      BY <3>2, <2>1, <1>8, <1>9, <1>10
    <3> QED
      BY <3>1, <3>2
  <2>3. start' = start
    BY <1>1
  <2> QED
    BY <2>2, <2>3, <1>8, <1>9, <1>10 DEF Paired
<1>14. Last(i) = n /\ Last(i)' = n - 1
  BY <1>1, <1>6 DEF Last, n
<1>15. /\ \A p, r \in 1 .. n : orig[i][p] = orig[i][r] => p = r
       /\ {orig[i][p] : p \in 1 .. n} = EntriesIn(i) \ gone[i]
       /\ gone[i] \subseteq Selected \cap EntriesIn(i)
  BY <1>2, <1>14 DEF Accounted
<1>16. /\ orig[i][q] \in EntriesIn(i) /\ orig[i][q] \notin gone[i]
       /\ orig[i][q] \in Selected
  <2>1. orig[i][q] \in EntriesIn(i) /\ orig[i][q] \notin gone[i]
    BY <1>5, <1>15
  <2>2. ids[i][q] = start.ids[i][orig[i][q][2]]
    BY <1>2, <1>5 DEF Paired
  <2>3. orig[i][q][1] = i /\ orig[i][q] \in Entries
    BY <2>1 DEF EntriesIn
  <2> QED
    BY <1>1, <2>1, <2>2, <2>3 DEF Selected
<1>17. Accounted(i)'
  <2>1. ASSUME NEW p \in 1 .. n - 1, NEW r \in 1 .. n - 1, orig'[i][p] = orig'[i][r]
        PROVE  p = r
    <3>1. p \in 1 .. n /\ r \in 1 .. n /\ p # n /\ r # n
          /\ p \in 1 .. Len(ids[i]) /\ r \in 1 .. Len(ids[i])
      BY <1>4, <1>5
    <3>2. CASE p = q /\ r = q
      BY <3>2
    <3>3. CASE p = q /\ r # q
      BY <3>1, <3>3, <1>5, <1>10, <1>15, <2>1
    <3>4. CASE p # q /\ r = q
      BY <3>1, <3>4, <1>5, <1>10, <1>15, <2>1
    <3>5. CASE p # q /\ r # q
      BY <3>1, <3>5, <1>10, <1>15, <2>1
    <3> QED
      BY <3>2, <3>3, <3>4, <3>5
  <2>2. {orig'[i][p] : p \in 1 .. n - 1} = {orig[i][p] : p \in 1 .. n} \ {orig[i][q]}
    <3>1. ASSUME NEW p \in 1 .. n - 1
          PROVE  orig'[i][p] \in {orig[i][r] : r \in 1 .. n} \ {orig[i][q]}
      <4>1. p \in 1 .. n /\ p # n /\ p \in 1 .. Len(ids[i]) /\ n \in 1 .. n
        BY <1>4, <1>5
      <4>2. CASE p = q
        BY <4>1, <4>2, <1>5, <1>10, <1>15
      <4>3. CASE p # q
        <5>1. orig'[i][p] = orig[i][p] /\ orig[i][p] # orig[i][q]
          BY <4>1, <4>3, <1>5, <1>10, <1>15
        <5> QED
          BY <4>1, <5>1
      <4> QED
        BY <4>2, <4>3
    <3>2. ASSUME NEW p \in 1 .. n, orig[i][p] # orig[i][q]
          PROVE  orig[i][p] \in {orig'[i][r] : r \in 1 .. n - 1}
      <4>1. CASE p = n
        <5>1. q \in 1 .. n - 1 /\ orig'[i][q] = orig[i][p]
          BY <4>1, <3>2, <1>5, <1>10
        <5> QED
          BY <5>1
      <4>2. CASE p # n
        <5>1. p \in 1 .. n - 1 /\ orig'[i][p] = orig[i][p]
          BY <4>2, <3>2, <1>5, <1>10
        <5> QED
          BY <5>1
      <4> QED
        BY <4>1, <4>2
    <3> QED
      BY <3>1, <3>2
  <2>3. {orig'[i][p] : p \in 1 .. n - 1} = EntriesIn(i) \ gone'[i]
    BY <2>2, <1>6, <1>15
  <2>4. gone'[i] \subseteq Selected \cap EntriesIn(i)
    BY <1>6, <1>15, <1>16
  <2> QED
    BY <2>1, <2>3, <2>4, <1>3, <1>14 DEF Accounted
<1>18. Scanned(i)'
  <2>1. IsFiniteSet(gone[i])
    BY <1>2, EntriesFinite, FS_Subset DEF TypeOK, Entries
  <2>2. Cardinality(gone'[i]) = Cardinality(gone[i]) + 1
    BY <2>1, <1>6, <1>16, FS_AddElement
  <2>3. /\ Cardinality(gone[i]) = Len(start.ids[i]) - n /\ Len(ids[i]) = Len(start.ids[i])
        /\ \A p \in 1 .. j[i] : ~is_member(ids[i][p])
    BY <1>1, <1>2, <1>14 DEF Scanned
  <2>4. Cardinality(gone'[i]) = Len(start.ids[i]) - (n - 1)
    BY <2>2, <2>3, <1>4, <1>5
  <2>5. \A p \in 1 .. j[i] : ~is_member(ids'[i][p])
    <3> SUFFICES ASSUME NEW p \in 1 .. j[i] PROVE ~is_member(ids'[i][p])
      OBVIOUS
    <3>1. p \in 1 .. Len(ids[i]) /\ p # q
      BY <1>4, <1>5 DEF n, q
    <3> QED
      BY <3>1, <2>3, <1>8
  <2>6. j[i] <= n - 1 /\ n - 1 <= Len(ids[i])
    BY <1>1, <1>5, <1>4 DEF q
  <2>7. phase'[i] = "scan" /\ j'[i] = j[i] /\ start' = start
    BY <1>1
  <2> QED
    BY <2>3, <2>4, <2>5, <2>6, <2>7, <1>6, <1>8, <1>14 DEF Scanned
<1>19. ASSUME NEW k \in Lists, k # i
       PROVE  Paired(k)' /\ Accounted(k)' /\ Scanned(k)'
  BY <1>1, <1>2, <1>11, <1>19, OtherList
<1>20. Reduced'
  BY <1>1, <1>2, <1>11, NoIterationCompleted DEF Reduced
<1> QED
  BY <1>12, <1>13, <1>17, <1>18, <1>19, <1>20 DEF IInv

LEMMA KeepInv ==
  ASSUME IInv, NEW t \in Threads, NEW i \in Lists, Keep(t, i)
  PROVE  IInv'
<1>1. /\ phase[i] = "scan" /\ worker[i] = t /\ j[i] < l[i]
      /\ ~is_member(ids[i][j[i] + 1]) /\ j' = [j EXCEPT ![i] = j[i] + 1]
      /\ UNCHANGED <<ids, codes, orig, gone, phase, worker, l, start, part,
                     joined, nremove, ntotal, returned>>
  BY DEF Keep, Scanning, result
<1>2. TypeOK /\ Reduced /\ \A k \in Lists : Paired(k) /\ Accounted(k) /\ Scanned(k)
  BY DEF IInv
<1>3. /\ Entries' = Entries /\ Selected' = Selected /\ EntriesIn(i)' = EntriesIn(i)
      /\ Last(i)' = Last(i)
  BY <1>1 DEF Entries, EntriesOf, Selected, EntriesIn, Last
<1>4. j[i] \in Nat /\ l[i] \in Nat /\ j'[i] = j[i] + 1
  BY <1>1, <1>2 DEF TypeOK
<1>5. TypeOK'
  BY <1>1, <1>2, <1>3, <1>4 DEF TypeOK
<1>6. Paired(i)' /\ Accounted(i)'
  BY <1>1, <1>2, <1>3 DEF Paired, Accounted
<1>7. Scanned(i)'
  <2>1. \A p \in 1 .. j[i] + 1 : ~is_member(ids[i][p])
    BY <1>1, <1>2, <1>4 DEF Scanned
  <2>2. j[i] + 1 <= l[i]
    BY <1>1, <1>4
  <2> QED
    BY <1>1, <1>2, <1>3, <1>4, <2>1, <2>2 DEF Scanned
<1>8. ASSUME NEW k \in Lists, k # i
      PROVE  Paired(k)' /\ Accounted(k)' /\ Scanned(k)'
  <2>1. j'[k] = j[k]
    BY <1>1, <1>2, <1>8 DEF TypeOK
  <2> QED
    BY <1>1, <1>2, <2>1, OtherList
<1>9. Reduced'
  BY <1>1, <1>2, NoIterationCompleted DEF Reduced
<1> QED
  BY <1>5, <1>6, <1>7, <1>8, <1>9 DEF IInv

LEMMA ResizeInv ==
  ASSUME IInv, NEW t \in Threads, NEW i \in Lists, Resize(t, i)
  PROVE  IInv'
<1> DEFINE n == l[i]
<1>1. /\ phase[i] = "scan" /\ worker[i] = t /\ j[i] >= n
      /\ part' = [part EXCEPT ![t] = part[t] + (Len(ids[i]) - n)]
      /\ ids' = [ids EXCEPT ![i] = SubSeq(ids[i], 1, n)]
      /\ codes' = [codes EXCEPT ![i] = SubSeq(codes[i], 1, n)]
      /\ orig' = [orig EXCEPT ![i] = SubSeq(orig[i], 1, n)]
      /\ phase' = [phase EXCEPT ![i] = "done"]
      /\ UNCHANGED <<gone, worker, l, j, start, joined, nremove, ntotal, returned>>
  BY DEF Resize, ResizeTo, Scanning, result
<1>2. TypeOK /\ Reduced /\ \A k \in Lists : Paired(k) /\ Accounted(k) /\ Scanned(k)
  BY DEF IInv
<1>3. /\ Entries' = Entries /\ Selected' = Selected
      /\ \A k \in Lists : EntriesIn(k)' = EntriesIn(k)
  BY <1>1 DEF Entries, EntriesOf, Selected, EntriesIn
<1>4. /\ ids[i] \in Seq(Ids) /\ codes[i] \in Seq(Codes) /\ orig[i] \in Seq(Entries)
      /\ Len(ids[i]) \in Nat
      /\ Len(codes[i]) = Len(ids[i]) /\ Len(orig[i]) = Len(ids[i])
  BY <1>2, LenProperties DEF TypeOK, Paired
<1>5. n \in Nat /\ n = j[i] /\ n <= Len(ids[i]) /\ Len(ids[i]) = Len(start.ids[i])
  BY <1>1, <1>2, <1>4 DEF TypeOK, Scanned
<1>6. /\ ids'[i] = SubSeq(ids[i], 1, n) /\ codes'[i] = SubSeq(codes[i], 1, n)
      /\ orig'[i] = SubSeq(orig[i], 1, n) /\ phase'[i] = "done"
  BY <1>1, <1>2 DEF TypeOK
<1> HIDE DEF n
<1>7. \A S : \A s \in Seq(S) : Len(s) = Len(ids[i]) =>
         /\ SubSeq(s, 1, n) \in Seq(S) /\ Len(SubSeq(s, 1, n)) = n
         /\ \A p \in 1 .. n : SubSeq(s, 1, n)[p] = s[p]
  <2> SUFFICES ASSUME NEW S, NEW s \in Seq(S), Len(s) = Len(ids[i])
               PROVE  /\ SubSeq(s, 1, n) \in Seq(S) /\ Len(SubSeq(s, 1, n)) = n
                      /\ \A p \in 1 .. n : SubSeq(s, 1, n)[p] = s[p]
    OBVIOUS
  <2>1. \A p \in 1 .. n : s[p] \in S
    BY <1>4, <1>5, ElementOfSeq
  <2>2. /\ SubSeq(s, 1, n) \in Seq(S)
        /\ Len(SubSeq(s, 1, n)) = IF 1 <= n THEN n - 1 + 1 ELSE 0
        /\ \A p \in 1 .. n - 1 + 1 : SubSeq(s, 1, n)[p] = s[1 + p - 1]
    BY <1>5, <2>1, SubSeqProperties
  <2> QED
    BY <1>5, <2>2
<1>8. /\ ids'[i] \in Seq(Ids) /\ codes'[i] \in Seq(Codes) /\ orig'[i] \in Seq(Entries)
      /\ Len(ids'[i]) = n /\ Len(codes'[i]) = n /\ Len(orig'[i]) = n
      /\ \A p \in 1 .. n : /\ ids'[i][p] = ids[i][p] /\ codes'[i][p] = codes[i][p]
                            /\ orig'[i][p] = orig[i][p]
  BY <1>4, <1>6, <1>7
<1>9. \A k \in Lists \ {i} :
         /\ ids'[k] = ids[k] /\ codes'[k] = codes[k] /\ orig'[k] = orig[k]
         /\ phase'[k] = phase[k]
  BY <1>1, <1>2 DEF TypeOK
<1>10. TypeOK'
  <2>1. ids' \in [Lists -> Seq(Ids)]
    BY <1>1, <1>2, <1>8, <1>9 DEF TypeOK
  <2>2. codes' \in [Lists -> Seq(Codes)]
    BY <1>1, <1>2, <1>8, <1>9 DEF TypeOK
  <2>3. orig' \in [Lists -> Seq(Entries)]
    BY <1>1, <1>2, <1>8, <1>9 DEF TypeOK
  <2>4. part' \in [Threads -> Nat]
    BY <1>1, <1>2, <1>4, <1>5 DEF TypeOK
  <2> QED
    BY <1>1, <1>2, <1>3, <2>1, <2>2, <2>3, <2>4 DEF TypeOK
<1>11. Paired(i)'
  <2>1. \A p \in 1 .. n : /\ ids[i][p] = start.ids[i][orig[i][p][2]]
                          /\ codes[i][p] = start.codes[i][orig[i][p][2]]
    BY <1>2, <1>4, <1>5 DEF Paired
  <2> QED
    BY <1>1, <1>8, <2>1 DEF Paired
<1>12. Last(i) = n /\ Last(i)' = n
  BY <1>1, <1>6, <1>8 DEF Last, n
<1>13. Accounted(i)'
  <2>1. {orig'[i][p] : p \in 1 .. n} = {orig[i][p] : p \in 1 .. n}
    BY <1>8
  <2>2. gone'[i] = gone[i]
    BY <1>1
  <2> QED
    BY <1>2, <1>3, <1>8, <1>12, <2>1, <2>2 DEF Accounted
<1>14. Scanned(i)'
  <2>1. \A p \in 1 .. Len(ids'[i]) : ~is_member(ids'[i][p])
    BY <1>1, <1>2, <1>5, <1>8 DEF Scanned
  <2>2. Cardinality(gone'[i]) = Len(start'.ids[i]) - Last(i)'
    BY <1>1, <1>2, <1>12 DEF Scanned
  <2> QED
    BY <1>6, <2>1, <2>2 DEF Scanned
<1>15. ASSUME NEW k \in Lists, k # i
       PROVE  Paired(k)' /\ Accounted(k)' /\ Scanned(k)'
  BY <1>1, <1>2, <1>9, <1>15, OtherList
<1>16. Reduced'
  <2>1. ASSUME NEW T, t \notin T PROVE DroppedBy(T)' = DroppedBy(T)
    BY <1>1, <1>9, <2>1 DEF DroppedBy
  <2>2. DroppedBy({t})' = DroppedBy({t}) \cup gone[i]
    BY <1>1, <1>6, <1>9 DEF DroppedBy
  <2>3. DroppedBy({t}) \cap gone[i] = {}
    <3>1. \A k \in Lists : gone[k] \subseteq EntriesIn(k)
      BY <1>2 DEF Accounted
    <3>2. \A k \in Lists \ {i} : gone[k] \cap gone[i] = {}
      BY <3>1 DEF EntriesIn
    <3> QED
      BY <1>1, <3>2 DEF DroppedBy
  <2>4. IsFiniteSet(DroppedBy({t})) /\ IsFiniteSet(gone[i])
    <3>1. DroppedBy({t}) \subseteq Entries /\ gone[i] \subseteq Entries
      BY <1>2 DEF TypeOK, DroppedBy
    <3> QED
      BY <3>1, EntriesFinite, FS_Subset DEF Entries
  <2>5. /\ Cardinality(gone[i]) = Len(ids[i]) - n
        /\ Cardinality(gone[i]) \in Nat /\ Cardinality(DroppedBy({t})) \in Nat
    BY <1>2, <1>5, <1>12, <2>4, FS_CardinalityType DEF Scanned
  <2>6. Cardinality(DroppedBy({t})') = Cardinality(DroppedBy({t})) + Cardinality(gone[i])
    <3>1. Cardinality(DroppedBy({t}) \cap gone[i]) = 0
      BY <2>3, FS_EmptySet
    <3>2. Cardinality(DroppedBy({t}) \cup gone[i]) =
            Cardinality(DroppedBy({t})) + Cardinality(gone[i]) - 0
      BY <2>4, <3>1, FS_Union
    <3>3. Cardinality(DroppedBy({t}) \cup gone[i]) =
            Cardinality(DroppedBy({t})) + Cardinality(gone[i])
      BY <2>5, <3>2
    <3> QED
      BY <2>2, <3>3, Zenon
  <2>7. part'[t] = Cardinality(DroppedBy({t})')
    <3>1. part'[t] = part[t] + (Len(ids[i]) - n) /\ part[t] = Cardinality(DroppedBy({t}))
      BY <1>1, <1>2 DEF TypeOK, Reduced, n
    <3> QED
      BY <2>5, <2>6, <3>1
  <2>8. ASSUME NEW u \in Threads, u # t PROVE part'[u] = Cardinality(DroppedBy({u})')
    <3>1. part'[u] = part[u] /\ part[u] = Cardinality(DroppedBy({u}))
      BY <1>1, <1>2, <2>8 DEF TypeOK, Reduced
    <3> QED
      BY <2>1, <2>8, <3>1
  <2>9. t \notin joined
    BY <1>1, <1>2 DEF Reduced
  <2>10. nremove' = Cardinality(DroppedBy(joined)')
    BY <1>1, <1>2, <2>1, <2>9 DEF Reduced
  <2>11. \A u \in Threads : part'[u] = Cardinality(DroppedBy({u})')
    BY <2>7, <2>8
  <2>12. joined' # {} => \A k \in Lists : phase'[k] # "todo"
    BY <1>1, <1>2, <1>6, <1>9 DEF Reduced
  <2>13. \A k \in Lists : worker'[k] \in joined' => phase'[k] = "done"
    BY <1>1, <1>2, <1>6, <1>9 DEF Reduced
  <2>14. /\ returned' => joined' = Threads
         /\ ntotal' = start'.ntotal - (IF returned' THEN nremove' ELSE 0)
    BY <1>1, <1>2 DEF Reduced
  <2>15. joined' = joined
    BY <1>1
  <2> QED
    BY <2>10, <2>11, <2>12, <2>13, <2>14, <2>15 DEF Reduced, DroppedBy
<1> QED
  BY <1>10, <1>11, <1>13, <1>14, <1>15, <1>16 DEF IInv

LEMMA JoinInv ==
  ASSUME IInv, NEW t \in Threads, Join(t)
  PROVE  IInv'
<1>1. /\ t \notin joined /\ \A i \in Lists : ~(phase[i] = "scan" /\ worker[i] = t)
      /\ \A i \in Lists : phase[i] # "todo"
      /\ joined' = joined \cup {t} /\ nremove' = nremove + part[t]
      /\ UNCHANGED <<ids, codes, orig, gone, phase, worker, l, j, start, part,
                     ntotal, returned>>
  BY DEF Join, JoinWith, Idle, loop
<1>2. TypeOK /\ Reduced /\ \A k \in Lists : Paired(k) /\ Accounted(k) /\ Scanned(k)
  BY DEF IInv
<1>3. Entries' = Entries /\ \A T : DroppedBy(T)' = DroppedBy(T)
  BY <1>1 DEF Entries, EntriesOf, DroppedBy
<1>4. TypeOK'
  BY <1>1, <1>2, <1>3 DEF TypeOK
<1>5. ASSUME NEW k \in Lists
      PROVE  Paired(k)' /\ Accounted(k)' /\ Scanned(k)'
  BY <1>1, <1>2, OtherList
<1>6. Reduced'
  <2>1. DroppedBy(joined \cup {t}) = DroppedBy(joined) \cup DroppedBy({t})
    BY DEF DroppedBy
  <2>2. DroppedBy(joined) \cap DroppedBy({t}) = {}
    <3>1. \A k, m \in Lists : k # m => gone[k] \cap gone[m] = {}
      <4>1. \A k \in Lists : gone[k] \subseteq EntriesIn(k)
        BY <1>2 DEF Accounted
      <4> QED
        BY <4>1 DEF EntriesIn
    <3> QED
      BY <1>1, <3>1 DEF DroppedBy
  <2>3. IsFiniteSet(DroppedBy(joined)) /\ IsFiniteSet(DroppedBy({t}))
    <3>1. DroppedBy(joined) \subseteq Entries /\ DroppedBy({t}) \subseteq Entries
      BY <1>2 DEF TypeOK, DroppedBy
    <3> QED
      BY <3>1, EntriesFinite, FS_Subset DEF Entries
  <2>4. Cardinality(DroppedBy(joined)) \in Nat /\ Cardinality(DroppedBy({t})) \in Nat
    BY <2>3, FS_CardinalityType
  <2>5. Cardinality(DroppedBy(joined) \cap DroppedBy({t})) = 0
    BY <2>2, FS_EmptySet
  <2>6. Cardinality(DroppedBy(joined) \cup DroppedBy({t})) =
          Cardinality(DroppedBy(joined)) + Cardinality(DroppedBy({t})) - 0
    BY <2>3, <2>5, FS_Union
  <2>7. nremove' = Cardinality(DroppedBy(joined)) + Cardinality(DroppedBy({t}))
    BY <1>1, <1>2 DEF Reduced
  <2>8. nremove' = Cardinality(DroppedBy(joined \cup {t}))
    <3>1. nremove' = Cardinality(DroppedBy(joined) \cup DroppedBy({t}))
      BY <2>4, <2>6, <2>7
    <3> QED
      BY <2>1, <3>1, Zenon
  <2>10. \A u \in Threads : part'[u] = Cardinality(DroppedBy({u})')
    BY <1>1, <1>2, <1>3 DEF Reduced
  <2>11. \A k \in Lists : worker'[k] \in joined' => phase'[k] = "done"
    BY <1>1, <1>2 DEF Reduced, TypeOK
  <2>12. ~returned
    BY <1>1, <1>2 DEF Reduced
  <2>13. ntotal' = start'.ntotal - (IF returned' THEN nremove' ELSE 0)
    BY <1>1, <1>2, <2>12 DEF Reduced
  <2>14. /\ \A k \in Lists : phase'[k] # "todo" 
         /\ returned' => joined' = Threads
    BY <1>1, <2>12
  <2>15. nremove' = Cardinality(DroppedBy(joined)')
    BY <1>1, <1>3, <2>8 DEF DroppedBy
  <2> QED
    BY <2>10, <2>11, <2>13, <2>14, <2>15 DEF Reduced, DroppedBy
<1> QED
  BY <1>4, <1>5, <1>6 DEF IInv

LEMMA ReturnInv == ASSUME IInv, Return PROVE IInv'
<1>1. /\ joined = Threads /\ ~returned /\ returned' = TRUE /\ ntotal' = ntotal - nremove
      /\ UNCHANGED <<ids, codes, orig, gone, phase, worker, l, j, start, part,
                     joined, nremove>>
  BY DEF Return, loop
<1>2. TypeOK /\ Reduced /\ \A k \in Lists : Paired(k) /\ Accounted(k) /\ Scanned(k)
  BY DEF IInv
<1>3. Entries' = Entries /\ \A T : DroppedBy(T)' = DroppedBy(T)
  BY <1>1 DEF Entries, EntriesOf, DroppedBy
<1>4. TypeOK'
  BY <1>1, <1>2, <1>3 DEF TypeOK
<1>5. ASSUME NEW k \in Lists
      PROVE  Paired(k)' /\ Accounted(k)' /\ Scanned(k)'
  BY <1>1, <1>2, OtherList
<1>6. ntotal' = start'.ntotal - (IF returned' THEN nremove' ELSE 0)
  BY <1>1, <1>2 DEF Reduced, TypeOK
<1>7. Reduced'
  <2>1. /\ \A u \in Threads : part'[u] = Cardinality(DroppedBy({u})')
        /\ nremove' = Cardinality(DroppedBy(joined)')
    BY <1>1, <1>2, <1>3 DEF Reduced
  <2>2. /\ joined' # {} => \A k \in Lists : phase'[k] # "todo"
        /\ \A k \in Lists : worker'[k] \in joined' => phase'[k] = "done"
        /\ returned' => joined' = Threads
    BY <1>1, <1>2 DEF Reduced
  <2> QED
    BY <1>1, <1>6, <2>1, <2>2 DEF Reduced, DroppedBy
<1> QED
  BY <1>4, <1>5, <1>7 DEF IInv

-----------------------------------------------------------------------------
(* The inductive invariant holds in every reachable state, whatever the    *)
(* schedule: the step of each action is the lemma of its name above.       *)
THEOREM Invariance == Spec => []IInv
<1>1. IInv /\ [Next]_vars => IInv'
  <2> SUFFICES ASSUME IInv, [Next]_vars PROVE IInv'
    OBVIOUS
  <2>1. ASSUME NEW t \in Threads, NEW i \in Lists, ListStep(t, i) PROVE IInv'
    BY <2>1, BeginInv, OverwriteInv, KeepInv, ResizeInv DEF ListStep
  <2>2. ASSUME NEW t \in Threads, Join(t) PROVE IInv'
    BY <2>2, JoinInv
  <2>3. CASE Return
    BY <2>3, ReturnInv
  <2>4. CASE UNCHANGED vars
    <3>1. UNCHANGED <<ids, codes, orig, gone, phase, worker, l, j, start, part,
                      joined, nremove, ntotal, returned>>
      BY <2>4 DEF vars, loop, result
    <3>2. Entries' = Entries /\ \A T : DroppedBy(T)' = DroppedBy(T)
      BY <3>1 DEF Entries, EntriesOf, DroppedBy
    <3>3. TypeOK'
      BY <3>1, <3>2 DEF IInv, TypeOK
    <3>4. ASSUME NEW k \in Lists
          PROVE  Paired(k)' /\ Accounted(k)' /\ Scanned(k)'
      BY <3>1, OtherList DEF IInv
    <3>5. Reduced'
      BY <3>1 DEF IInv, Reduced, DroppedBy
    <3> QED
      BY <3>3, <3>4, <3>5 DEF IInv
  <2> QED
    BY <2>1, <2>2, <2>3, <2>4 DEF Next
<1> QED
  BY InitInv, <1>1, PTL DEF Spec

\* Every variable stays in its set, whatever the constants.
THEOREM TypeSafe == Spec => []TypeOK
<1>1. IInv => TypeOK
  BY DEF IInv
<1> QED
  BY Invariance, <1>1, PTL

(* Labels and codes stay paired at every step of every list's loop.        *)
THEOREM PairsSafe == Spec => []PairsIntact
<1>1. IInv => PairsIntact
  BY DEF IInv, PairsIntact
<1> QED
  BY Invariance, <1>1, PTL

(* No schedule of the team loses or duplicates an entry.                   *)
THEOREM NoEntryLostSafe == Spec => []NoEntryLost
<1>1. IInv => NoEntryLost
  BY DEF IInv, NoEntryLost
<1> QED
  BY Invariance, <1>1, PTL

\* When every thread was reduced, what the iterations dropped is Selected.
LEMMA AllDone ==
  ASSUME IInv, joined = Threads
  PROVE  /\ \A i \in Lists : phase[i] = "done"
         /\ DroppedBy(joined) = Selected
<1>1. TypeOK /\ Reduced /\ \A k \in Lists : Paired(k) /\ Accounted(k) /\ Scanned(k)
  BY DEF IInv
<1>2. \A i \in Lists : phase[i] = "done" /\ worker[i] \in joined
  BY <1>1 DEF Reduced, TypeOK
<1>3. DroppedBy(joined) \subseteq Selected
  BY <1>1 DEF DroppedBy, Accounted
<1>4. ASSUME NEW e \in Selected PROVE e \in DroppedBy(joined)
  <2>1. e \in Entries /\ e[1] \in Lists /\ is_member(start.ids[e[1]][e[2]])
    BY DEF Selected, Entries, EntriesOf
  <2> DEFINE i == e[1]
  <2>2. i \in Lists /\ e \in EntriesIn(i)
    BY <2>1 DEF EntriesIn
  <2>3. Last(i) = Len(ids[i])
    BY <1>2, <2>2 DEF Last
  <2>4. ASSUME NEW p \in 1 .. Len(ids[i]) PROVE orig[i][p] # e
    <3>1. ~is_member(ids[i][p])
      BY <1>1, <1>2, <2>2 DEF Scanned
    <3>2. ids[i][p] = start.ids[i][orig[i][p][2]]
      BY <1>1, <2>2 DEF Paired
    <3> QED
      BY <2>1, <3>1, <3>2
  <2> HIDE DEF i
  <2>5. e \in gone[i]
    BY <1>1, <2>2, <2>3, <2>4 DEF Accounted
  <2> QED
    BY <1>2, <2>2, <2>5 DEF DroppedBy
<1> QED
  BY <1>2, <1>3, <1>4

(* ntotal drops by exactly the number of selected entries, and none of     *)
(* them survives, for every schedule and any sharing of the lists.         *)
THEOREM CountsSafe == Spec => []CountsExact
<1>1. ASSUME IInv, returned
      PROVE  /\ \A i \in Lists : \A p \in DOMAIN ids[i] : ~is_member(ids[i][p])
             /\ nremove = Cardinality(Selected)
             /\ ntotal = start.ntotal - Cardinality(Selected)
  <2>1. /\ \A i \in Lists : phase[i] = "done"
        /\ nremove = Cardinality(Selected)
    BY <1>1, AllDone DEF IInv, Reduced, TypeOK
  <2>2. \A i \in Lists : DOMAIN ids[i] = 1 .. Len(ids[i])
    BY <1>1, LenProperties DEF IInv, TypeOK
  <2>3. \A i \in Lists : \A p \in DOMAIN ids[i] : ~is_member(ids[i][p])
    BY <1>1, <2>1, <2>2 DEF IInv, Scanned
  <2> QED
    BY <1>1, <2>1, <2>3 DEF IInv, Reduced
<1>2. IInv => CountsExact
  BY <1>1 DEF CountsExact
<1> QED
  BY Invariance, <1>2, PTL

-----------------------------------------------------------------------------
(* The call implements AtomicRemove: the loop's steps stutter, and Return  *)
(* is the one removal its caller can tell.                                 *)
THEOREM ImplementsAtomicRemove == Spec => Atomic
<1>1. Init => Abs!Init
  BY DEF Init, Abs!Init, Live, Selected, Entries
<1>2. ASSUME IInv, [Next]_vars PROVE [Abs!Remove]_(Abs!vars)
  <2>1. ASSUME Return PROVE Abs!Remove
    <3>1. /\ joined = Threads /\ returned = FALSE /\ returned' = TRUE
          /\ ntotal' = ntotal - nremove
          /\ UNCHANGED <<ids, orig, gone, phase, start, nremove>>
      BY <2>1, <1>2 DEF Return, loop, IInv, TypeOK
    <3>2. TypeOK
      BY <1>2 DEF IInv
    <3>3. /\ \A i \in Lists : phase[i] = "done"
          /\ DroppedBy(joined) = Selected
      BY <1>2, <3>1, AllDone
    <3>4. Selected' = Selected /\ Entries' = Entries
      BY <3>1 DEF Selected, Entries, EntriesOf
    <3>5. \A i \in Lists : {orig[i][p] : p \in DOMAIN ids[i]} = EntriesIn(i) \ gone[i]
      <4>1. ASSUME NEW i \in Lists
            PROVE  {orig[i][p] : p \in DOMAIN ids[i]} = EntriesIn(i) \ gone[i]
        <5>1. phase[i] = "done" /\ DOMAIN ids[i] = 1 .. Len(ids[i])
          BY <3>2, <3>3, LenProperties DEF TypeOK
        <5>2. Accounted(i)
          BY <1>2 DEF IInv
        <5> QED
          BY <5>1, <5>2 DEF Accounted, Last
      <4> QED
        BY <4>1
    <3>6. Selected = UNION {gone[i] : i \in Lists}
      <4>1. \A i \in Lists : worker[i] \in joined
        BY <3>1, <3>2 DEF TypeOK
      <4> QED
        BY <4>1, <3>3 DEF DroppedBy
    <3>7. \A i \in Lists : gone[i] \subseteq EntriesIn(i)
      BY <1>2 DEF IInv, Accounted
    <3>8. Live = Entries /\ Live' = Entries \ Selected
      <4>1. Entries = UNION {EntriesIn(i) : i \in Lists}
        BY DEF Entries, EntriesOf, EntriesIn
      <4>2. UNION {EntriesIn(i) \ gone[i] : i \in Lists} = Entries \ Selected
        <5>1. \A i, k \in Lists : i # k => EntriesIn(i) \cap gone[k] = {}
          BY <3>7 DEF EntriesIn
        <5> QED
          BY <4>1, <3>6, <5>1
      <4>3. UNION {{orig[i][p] : p \in DOMAIN ids[i]} : i \in Lists}
              = UNION {EntriesIn(i) \ gone[i] : i \in Lists}
        BY <3>5
      <4>4. Live' = UNION {{orig[i][p] : p \in DOMAIN ids[i]} : i \in Lists}
        BY <3>1 DEF Live
      <4> QED
        BY <3>1, <4>2, <4>3, <4>4 DEF Live
    <3>9. nremove = Cardinality(Selected)
      BY <1>2, <3>3 DEF IInv, Reduced
    <3>10. /\ (IF returned THEN nremove ELSE -1) = -1
           /\ (IF returned THEN nremove ELSE -1)' = Cardinality(Selected)
      BY <3>1, <3>9
    <3>11. Live' = Live \ Selected /\ ntotal' = ntotal - Cardinality(Selected)
      BY <3>1, <3>8, <3>9
    <3>12. Abs!Cardinality(Selected) = Cardinality(Selected)
      BY DEF Abs!Cardinality, Cardinality
    <3> QED
      BY <3>4, <3>10, <3>11, <3>12 DEF Abs!Remove
  <2>2. ASSUME NEW t \in Threads,
               Join(t) \/ \E i \in Lists : ListStep(t, i)
        PROVE  UNCHANGED <<Live, Selected, ntotal, IF returned THEN nremove ELSE -1>>
    <3>1. t \notin joined
      BY <1>2, <2>2 DEF IInv, Reduced, ListStep, Join, JoinWith, Idle, Begin,
         Overwrite, MoveLast, Keep, Resize, ResizeTo, Scanning
    <3>2. ~returned
      BY <1>2, <3>1 DEF IInv, Reduced
    <3>3. start' = start /\ ntotal' = ntotal /\ returned' = returned
      BY <2>2 DEF ListStep, Join, JoinWith, Begin, Overwrite, MoveLast, Keep,
         Resize, ResizeTo, result
    <3> QED
      BY <3>2, <3>3 DEF Live, Entries, EntriesOf, Selected
  <2>3. ASSUME UNCHANGED vars
        PROVE  UNCHANGED <<Live, Selected, ntotal, IF returned THEN nremove ELSE -1>>
    BY <2>3 DEF vars, loop, result, Live, Entries, EntriesOf, Selected
  <2> QED
    BY <1>2, <2>1, <2>2, <2>3 DEF Next, Abs!vars
<1> QED
  BY Invariance, <1>1, <1>2, PTL DEF Spec, Atomic, Abs!Spec
=============================================================================
