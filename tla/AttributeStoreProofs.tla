------------------------ MODULE AttributeStoreProofs -----------------------
(***************************************************************************)
(* The attribute store, for any names, ids, neighbours and bounds: what a  *)
(* person's lines leave in the map, which positions the intersection with  *)
(* the neighbours reports, and the parentheses of an assembled condition.  *)
(***************************************************************************)
EXTENDS AttributeStore, FiniteSetTheorems, SequenceTheorems, NaturalsInduction,
        WellFoundedInduction, TLAPS

-----------------------------------------------------------------------------
(* The tables.                                                             *)

\* A line of attributes without the two numbers that are not used.
Lines == Names \X (0 .. Values - 1) \X Names

Attributes == [0 .. Values - 1 -> Names \cup {""}]

\* The names of the lines are the keys of the map.
PersonTyped ==
  /\ lines \in Seq(Lines)
  /\ person \in [{lines[n][1] : n \in DOMAIN lines} -> Attributes]

PersonInv == PersonTyped /\ PersonComplete

LEMMA InitPerson == TablesInit => PersonInv
<1> SUFFICES ASSUME TablesInit PROVE PersonInv
  OBVIOUS
<1>1. lines = << >> /\ person = << >>
  BY DEF TablesInit
<1>2. {lines[n][1] : n \in DOMAIN lines} = {}
  BY <1>1
<1>3. << >> \in [{} -> Attributes]
  OBVIOUS
<1>4. PersonTyped
  BY <1>1, <1>2, <1>3 DEF PersonTyped
<1>5. PersonComplete
  BY <1>1 DEF PersonComplete
<1> QED BY <1>4, <1>5 DEF PersonInv

\* A line resumes an attribute or does not, whatever is read after it.
LEMMA ResumesKept ==
  ASSUME NEW line \in Lines, lines \in Seq(Lines), lines' = Append(lines, line),
         NEW n \in 1 .. Len(lines)
  PROVE  lines'[n] = lines[n] /\ (Resumes(n)' <=> Resumes(n))
<1>1. \A h \in 1 .. Len(lines) : lines'[h] = lines[h]
  OBVIOUS
<1>2. n > 1 => lines'[n - 1] = lines[n - 1]
  BY <1>1
<1>3. (\E h \in 1 .. n - 1 : lines'[h][1] = lines'[n][1])
        <=> (\E h \in 1 .. n - 1 : lines[h][1] = lines[n][1])
  BY <1>1
<1> QED BY <1>1, <1>2, <1>3 DEF Resumes

LEMMA StepPersonLine ==
  ASSUME PersonInv, NEW name \in Names, NEW a \in 0 .. Values - 1, NEW value \in Names,
         PersonLine(name, a, value)
  PROVE  PersonInv'
<1> DEFINE line == <<name, a, value>>
<1>0. PICK L \in Nat : L = Len(lines)
  BY DEF PersonInv, PersonTyped
<1>1. line \in Lines
  BY DEF Lines
<1>2. lines \in Seq(Lines) /\ lines' = Append(lines, line)
  <2>1. lines' = Append(lines, line)
    BY DEF PersonLine, PersonLineAs
  <2> QED BY <2>1 DEF PersonInv, PersonTyped
<1>3. lines' \in Seq(Lines) /\ Len(lines') = L + 1 /\ lines'[L + 1] = line
  BY <1>0, <1>1, <1>2
<1>4. \A n \in 1 .. L : lines'[n] = lines[n] /\ (Resumes(n)' <=> Resumes(n))
  BY <1>0, <1>1, <1>2, ResumesKept
<1>5. DOMAIN lines = 1 .. L /\ DOMAIN lines' = 1 .. L + 1
  BY <1>0, <1>2, <1>3
<1>6. DOMAIN person = {lines[n][1] : n \in 1 .. L}
  BY <1>5 DEF PersonInv, PersonTyped
<1>7. \A n \in 1 .. L : lines[n][1] \in Names
  BY <1>0, <1>2 DEF Lines
<1>8. {lines'[n][1] : n \in 1 .. L + 1} = {lines[n][1] : n \in 1 .. L} \cup {name}
  <2>1. ASSUME NEW x \in {lines'[n][1] : n \in 1 .. L + 1}
        PROVE  x \in {lines[n][1] : n \in 1 .. L} \cup {name}
    <3>1. PICK n \in 1 .. L + 1 : x = lines'[n][1]
      OBVIOUS
    <3>2. CASE n \in 1 .. L
      BY <3>1, <3>2, <1>4
    <3>3. CASE n = L + 1
      BY <3>1, <3>3, <1>3
    <3> QED BY <3>2, <3>3, <1>2
  <2>2. ASSUME NEW x \in {lines[n][1] : n \in 1 .. L} PROVE x \in {lines'[n][1] : n \in 1 .. L + 1}
    <3>1. PICK n \in 1 .. L : x = lines[n][1]
      OBVIOUS
    <3>2. n \in 1 .. L + 1 /\ x = lines'[n][1]
      BY <3>1, <1>4, <1>0
    <3> QED BY <3>2
  <2>3. name \in {lines'[n][1] : n \in 1 .. L + 1}
    <3>1. L + 1 \in 1 .. L + 1 /\ name = lines'[L + 1][1]
      BY <1>2, <1>3
    <3> QED BY <3>1
  <2> QED BY <2>1, <2>2, <2>3
<1>9. person \in [{lines[n][1] : n \in 1 .. L} -> Attributes]
  BY <1>5 DEF PersonInv, PersonTyped
\* What the line replaces is known to resume nothing, or to be replaced.
<1>10. ASSUME NEW n \in 1 .. L, ~Resumes(n)',
              \A h \in n + 1 .. Len(lines') :
                 Resumes(h)' \/ lines'[h][1] # lines'[n][1] \/ lines'[h][2] # lines'[n][2]
       PROVE  /\ lines[n][1] \in DOMAIN person
              /\ person[lines[n][1]][lines[n][2]] = lines[n][3]
              /\ Resumes(L + 1)' \/ name # lines[n][1] \/ a # lines[n][2]
  <2>1. ~Resumes(n)
    BY <1>4, <1>10
  <2>2. \A h \in n + 1 .. L : Resumes(h) \/ lines[h][1] # lines[n][1] \/ lines[h][2] # lines[n][2]
    <3> TAKE h \in n + 1 .. L
    <3>1. h \in 1 .. L /\ h \in n + 1 .. Len(lines')
      BY <1>2, <1>3
    <3>2. Resumes(h)' \/ lines'[h][1] # lines'[n][1] \/ lines'[h][2] # lines'[n][2]
      BY <3>1, <1>10
    <3>3. lines'[h] = lines[h] /\ (Resumes(h)' <=> Resumes(h)) /\ lines'[n] = lines[n]
      BY <3>1, <1>4
    <3> QED BY <3>2, <3>3
  <2>3. lines[n][1] \in DOMAIN person /\ person[lines[n][1]][lines[n][2]] = lines[n][3]
    BY <2>1, <2>2, <1>5 DEF PersonInv, PersonComplete
  <2>4. L + 1 \in n + 1 .. Len(lines')
    BY <1>2, <1>3
  <2>5. Resumes(L + 1)' \/ lines'[L + 1][1] # lines'[n][1] \/ lines'[L + 1][2] # lines'[n][2]
    BY <2>4, <1>10
  <2>6. lines'[n] = lines[n] /\ lines'[L + 1][1] = name /\ lines'[L + 1][2] = a
    BY <1>3, <1>4
  <2> QED BY <2>3, <2>5, <2>6
<1>11. CASE Before = name
  <2>1. L > 0 /\ lines[L][1] = name
    BY <1>0, <1>11, <1>2, BlankIsNone DEF Before
  <2>2. name \in DOMAIN person
    BY <2>1, <1>6, <1>2
  <2>3. person' = [person EXCEPT ![name][a] = value]
    BY <1>11 DEF PersonLine, PersonLineAs
  <2>4. ~Resumes(L + 1)'
    <3>1. lines'[L] = lines[L] /\ lines'[L + 1][1] = name /\ (L + 1) - 1 = L
      BY <2>1, <1>2, <1>3, <1>4
    <3> QED BY <3>1, <2>1 DEF Resumes
  <2>5. person' \in [DOMAIN person -> Attributes]
    BY <2>2, <2>3, <1>9, <1>6 DEF Attributes
  <2>6. {lines'[n][1] : n \in DOMAIN lines'} = DOMAIN person
    BY <1>5, <1>6, <1>8, <2>2
  <2>7. PersonTyped'
    BY <1>3, <2>5, <2>6 DEF PersonTyped
  <2>8. person'[name][a] = value
    BY <2>2, <2>3, <1>9, <1>6 DEF Attributes
  <2>9. PersonComplete'
    <3> SUFFICES ASSUME NEW n \in 1 .. L + 1, ~Resumes(n)',
                        \A h \in n + 1 .. Len(lines') :
                          Resumes(h)' \/ lines'[h][1] # lines'[n][1] \/ lines'[h][2] # lines'[n][2]
                 PROVE  /\ lines'[n][1] \in DOMAIN person'
                        /\ person'[lines'[n][1]][lines'[n][2]] = lines'[n][3]
      BY <1>5 DEF PersonComplete
    <3>1. CASE n \in 1 .. L
      <4>1. /\ lines[n][1] \in DOMAIN person
            /\ person[lines[n][1]][lines[n][2]] = lines[n][3]
            /\ name # lines[n][1] \/ a # lines[n][2]
        BY <3>1, <1>10, <2>4
      <4>2. lines[n][2] \in 0 .. Values - 1
        BY <3>1, <1>0, <1>2 DEF Lines
      <4>3. person'[lines[n][1]][lines[n][2]] = person[lines[n][1]][lines[n][2]]
        BY <4>1, <4>2, <2>2, <2>3, <1>9, <1>6 DEF Attributes
      <4>4. lines'[n] = lines[n] /\ DOMAIN person' = DOMAIN person
        BY <3>1, <1>4, <2>5
      <4> QED BY <4>1, <4>3, <4>4
    <3>2. CASE n = L + 1
      BY <3>2, <1>3, <2>2, <2>5, <2>8
    <3> QED BY <3>1, <3>2, <1>0
  <2> QED BY <2>7, <2>9 DEF PersonInv
<1>12. CASE Before # name /\ name \in DOMAIN person
  <2>1. person' = person
    BY <1>12 DEF PersonLine, PersonLineAs
  <2>2. PICK g \in 1 .. L : lines[g][1] = name
    BY <1>12, <1>6
  <2>3. L > 0 /\ lines[L][1] # name
    BY <1>0, <2>2, <1>2, <1>12 DEF Before
  <2>4. Resumes(L + 1)'
    <3>1. lines'[L] = lines[L] /\ lines'[g] = lines[g] /\ lines'[L + 1][1] = name /\ (L + 1) - 1 = L
      BY <2>2, <2>3, <1>2, <1>3, <1>4
    <3>2. g \in 1 .. (L + 1) - 1 /\ L + 1 > 1
      BY <2>2, <2>3, <1>2
    <3> QED BY <3>1, <3>2, <2>2, <2>3 DEF Resumes
  <2>5. {lines'[n][1] : n \in DOMAIN lines'} = DOMAIN person
    BY <1>5, <1>6, <1>8, <1>12
  <2>6. PersonTyped'
    BY <1>3, <2>1, <2>5, <1>9, <1>6 DEF PersonTyped
  <2>7. PersonComplete'
    <3> SUFFICES ASSUME NEW n \in 1 .. L + 1, ~Resumes(n)',
                        \A h \in n + 1 .. Len(lines') :
                          Resumes(h)' \/ lines'[h][1] # lines'[n][1] \/ lines'[h][2] # lines'[n][2]
                 PROVE  /\ lines'[n][1] \in DOMAIN person'
                        /\ person'[lines'[n][1]][lines'[n][2]] = lines'[n][3]
      BY <1>5 DEF PersonComplete
    <3>1. n \in 1 .. L
      BY <2>4, <1>0
    <3>2. lines[n][1] \in DOMAIN person /\ person[lines[n][1]][lines[n][2]] = lines[n][3]
      BY <3>1, <1>10
    <3> QED BY <3>1, <3>2, <1>4, <2>1
  <2> QED BY <2>6, <2>7 DEF PersonInv
<1>13. CASE Before # name /\ name \notin DOMAIN person
  <2> DEFINE te == [n \in 0 .. Values - 1 |-> IF n = a THEN value ELSE ""]
  <2>1. person' = [x \in DOMAIN person \cup {name} |-> IF x = name THEN te ELSE person[x]]
    BY <1>13 DEF PersonLine, PersonLineAs
  <2>2. te \in Attributes /\ te[a] = value
    BY DEF Attributes
  <2>3. person' \in [DOMAIN person \cup {name} -> Attributes] /\ person'[name] = te
    BY <2>1, <2>2, <1>9, <1>6
  <2>4. {lines'[n][1] : n \in DOMAIN lines'} = DOMAIN person \cup {name}
    BY <1>5, <1>6, <1>8
  <2>5. PersonTyped'
    BY <1>3, <2>3, <2>4 DEF PersonTyped
  <2>6. PersonComplete'
    <3> SUFFICES ASSUME NEW n \in 1 .. L + 1, ~Resumes(n)',
                        \A h \in n + 1 .. Len(lines') :
                          Resumes(h)' \/ lines'[h][1] # lines'[n][1] \/ lines'[h][2] # lines'[n][2]
                 PROVE  /\ lines'[n][1] \in DOMAIN person'
                        /\ person'[lines'[n][1]][lines'[n][2]] = lines'[n][3]
      BY <1>5 DEF PersonComplete
    <3>1. CASE n \in 1 .. L
      <4>1. lines[n][1] \in DOMAIN person /\ person[lines[n][1]][lines[n][2]] = lines[n][3]
        BY <3>1, <1>10
      <4>2. person'[lines[n][1]] = person[lines[n][1]] /\ lines[n][1] \in DOMAIN person'
        BY <4>1, <2>1, <1>13
      <4> QED BY <3>1, <4>1, <4>2, <1>4
    <3>2. CASE n = L + 1
      <4>1. lines'[n][1] = name /\ lines'[n][2] = a /\ lines'[n][3] = value
        BY <3>2, <1>3
      <4>2. name \in DOMAIN person'
        BY <2>3
      <4> QED BY <4>1, <4>2, <2>2, <2>3
    <3> QED BY <3>1, <3>2, <1>0
  <2> QED BY <2>5, <2>6 DEF PersonInv
<1> QED BY <1>11, <1>12, <1>13

LEMMA StepPersonKept == PersonInv /\ UNCHANGED <<person, lines>> => PersonInv'
  BY DEF PersonInv, PersonTyped, PersonComplete, Resumes

LEMMA StepPerson == PersonInv /\ [TablesNext]_tablesVars => PersonInv'
<1> SUFFICES ASSUME PersonInv, [TablesNext]_tablesVars PROVE PersonInv'
  OBVIOUS
<1>1. CASE UNCHANGED tablesVars
  BY <1>1, StepPersonKept DEF tablesVars
<1>2. ASSUME NEW file \in Files, NEW count \in 0 .. MaxCount, InitMapColor(file, count)
      PROVE  PersonInv'
  BY <1>2, StepPersonKept DEF InitMapColor
<1>3. ASSUME NEW file \in Files, NEW count \in 0 .. MaxCount, NEW numbers \in Numbers,
             InitMapType(numbers, file, count)
      PROVE  PersonInv'
  BY <1>3, StepPersonKept DEF InitMapType
<1>4. ASSUME NEW name \in Names, NEW value \in Names, NEW a \in -1 .. Values,
             PersonLine(name, a, value)
      PROVE  PersonInv'
  <2>1. CASE a \in 0 .. Values - 1
    BY <1>4, <2>1, StepPersonLine
  <2>2. CASE a \notin 0 .. Values - 1
    BY <1>4, <2>2, StepPersonKept DEF PersonLine, PersonLineAs
  <2> QED BY <2>1, <2>2
<1>5. CASE PersonEnd
  BY <1>5, StepPersonKept DEF PersonEnd
<1>6. CASE Destroy
  BY <1>6, StepPersonKept DEF Destroy
<1> QED BY <1>1, <1>2, <1>3, <1>4, <1>5, <1>6 DEF TablesNext

-----------------------------------------------------------------------------
(* The search and the intersection.                                        *)

QueryTyped ==
  /\ pc \in {"search", "query", "fetch", "intersect", "done", "crashed", "overflow"}
  /\ pc # "search" => nns \in [0 .. K - 1 -> Garbage]
  /\ answer \in Seq(Ids) /\ rows \in Seq(Ids)
  /\ row_count \in Nat
  /\ kk \in 0 .. K /\ i \in 0 .. row_count
  /\ total_res \in Seq(0 .. K - 1)
  /\ result = Null \/ result \in [0 .. row_count - 1 -> Garbage]

\* Nothing is compared before the rows are fetched.
NotCompared == kk = 0 /\ i = 0 /\ total_res = << >>

\* The rows to come are the end of the answer; the one before is stored.
Fetching ==
  LET n == Len(answer) - Len(rows) IN
  /\ row_count = Len(answer) /\ result \in [0 .. row_count - 1 -> Garbage]
  /\ n \in Nat
  /\ \A h \in 1 .. Len(rows) : rows[h] = answer[n + h]
  /\ n > 0 => result[0] = answer[n]

\* A query AssembleSQL refused: no array, although there seems to be a row.
NoArray == result = Null /\ row_count = 1 /\ answer = << >> /\ NotCompared

\* The neighbours compared with the first element of the array.
Passed(p) == p < kk \/ (p = kk /\ i > 0)

Matching ==
  /\ row_count = Len(answer) /\ result \in [0 .. row_count - 1 -> Garbage]
  /\ answer # << >> =>
       /\ result[0] = answer[Len(answer)]
       /\ \A p \in 0 .. K - 1 : Passed(p) /\ nns[p] = result[0] => p \in Found
  /\ \A p \in Found : \E h \in 0 .. row_count - 1 : nns[p] = result[h]
  /\ Len(answer) <= 1 =>
       /\ Len(total_res) <= kk + i
       /\ \A h \in DOMAIN total_res : total_res[h] < kk + i
       /\ Distinct(total_res)

QueryInv ==
  /\ QueryTyped
  /\ pc \in {"search", "query", "fetch"} => NotCompared
  /\ pc \in {"search", "query"} => answer = << >>
  /\ pc = "fetch" => Fetching
  /\ pc \in {"intersect", "done"} => NoArray \/ Matching
  /\ pc = "overflow" => Len(answer) > 1
  /\ pc = "done" => kk = K

LEMMA AnswerIsSeq ==
  ASSUME NEW s \in Answers PROVE s \in Seq(Ids)
<1>1. PICK n \in 0 .. MaxRows : s \in [1 .. n -> Ids]
  BY DEF Answers
<1> QED BY <1>1

\* The positions reported are numbers below K.
LEMMA Positions ==
  ASSUME NEW s \in Seq(0 .. K - 1)
  PROVE  \A h \in DOMAIN s : s[h] \in 0 .. K - 1 /\ s[h] \in Int
<1>1. \A h \in DOMAIN s : s[h] \in 0 .. K - 1
  BY ElementOfSeq, LenProperties
<1> QED BY <1>1, KNat

LEMMA InitQuery == QueryInit => QueryInv
  BY KNat DEF QueryInit, QueryInv, QueryTyped, NotCompared

LEMMA StepSearch == ASSUME QueryInv, Search PROVE QueryInv'
<1>0. PICK n \in 0 .. K :
        \E found \in {s \in [1 .. n -> Ids] : Distinct(s)} :
          nns' = [p \in 0 .. K - 1 |-> IF p < n THEN found[p + 1] ELSE -1]
  BY DEF Search
<1>1. PICK found \in [1 .. n -> Ids] :
        nns' = [p \in 0 .. K - 1 |-> IF p < n THEN found[p + 1] ELSE -1]
  BY <1>0
<1>2. nns' \in [0 .. K - 1 -> Garbage]
  <2>1. ASSUME NEW p \in 0 .. K - 1, p < n PROVE found[p + 1] \in Ids
    <3>1. p + 1 \in 1 .. n
      BY <2>1, KNat
    <3> QED BY <3>1
  <2> QED BY <1>1, <2>1 DEF Garbage
<1>3. pc' = "query" /\ UNCHANGED <<rows, result, row_count, kk, i, total_res, answer>> /\ pc = "search"
  BY DEF Search
<1> QED BY <1>2, <1>3 DEF QueryInv, QueryTyped, NotCompared

LEMMA StepRefused == ASSUME QueryInv, Refused PROVE QueryInv'
<1>1. /\ pc = "query" /\ pc' = "intersect" /\ result' = Null /\ row_count' = 1
      /\ UNCHANGED <<nns, rows, kk, i, total_res, answer>>
  BY DEF Refused
<1>2. QueryTyped'
  BY <1>1 DEF QueryInv, QueryTyped, NotCompared
<1>3. NoArray'
  BY <1>1 DEF QueryInv, NotCompared, NoArray
<1> QED BY <1>1, <1>2, <1>3 DEF QueryInv

LEMMA StepQueryFails == ASSUME QueryInv, QueryFails PROVE QueryInv'
  BY DEF QueryFails, QueryInv, QueryTyped

LEMMA StepQuery == ASSUME QueryInv, Query PROVE QueryInv'
<1>1. PICK s \in Answers :
        /\ rows' = s /\ answer' = s /\ row_count' = Len(s)
        /\ result' \in [0 .. Len(s) - 1 -> Garbage]
  BY DEF Query
<1>2. s \in Seq(Ids)
  BY AnswerIsSeq
<1>3. pc = "query" /\ pc' = "fetch" /\ UNCHANGED <<nns, kk, i, total_res>>
  BY DEF Query
<1>4. NotCompared'
  BY <1>3 DEF QueryInv, NotCompared
<1>5. QueryTyped'
  BY <1>1, <1>2, <1>3, <1>4 DEF QueryInv, QueryTyped, NotCompared
<1>6. Fetching'
  BY <1>1, <1>2 DEF Fetching
<1> QED BY <1>3, <1>4, <1>5, <1>6 DEF QueryInv

LEMMA StepFetchRow == ASSUME QueryInv, FetchRow PROVE QueryInv'
<1>1. /\ pc = "fetch" /\ rows # << >>
      /\ result' = [result EXCEPT ![0] = Head(rows)]
      /\ rows' = Tail(rows)
      /\ UNCHANGED <<pc, nns, row_count, kk, i, total_res, answer>>
  BY DEF FetchRow
<1>2. QueryTyped /\ NotCompared /\ Fetching
  BY <1>1 DEF QueryInv
<1>3. rows \in Seq(Ids) /\ answer \in Seq(Ids)
  BY <1>2 DEF QueryTyped
<1>4. PICK R \in Nat : R = Len(rows)
  BY <1>3
<1>5. PICK A \in Nat : A = Len(answer)
  BY <1>3
<1>6. /\ R > 0 /\ Head(rows) = rows[1] /\ rows[1] \in Ids
      /\ rows' \in Seq(Ids) /\ Len(rows') = R - 1
      /\ \A h \in 1 .. R - 1 : rows'[h] = rows[h + 1]
  BY <1>1, <1>3, <1>4
<1>7. /\ row_count = A /\ result \in [0 .. A - 1 -> Garbage] /\ A - R \in Nat
      /\ \A h \in 1 .. R : rows[h] = answer[(A - R) + h]
  BY <1>2, <1>4, <1>5 DEF Fetching
<1>8. 0 \in 0 .. A - 1
  BY <1>6, <1>7
<1>9. result' \in [0 .. A - 1 -> Garbage] /\ result'[0] = rows[1]
  BY <1>1, <1>6, <1>7, <1>8 DEF Garbage
<1>10. rows[1] = answer[A - R + 1]
  BY <1>6, <1>7
<1>11. \A h \in 1 .. R - 1 : rows'[h] = answer[(A - R + 1) + h]
  <2> TAKE h \in 1 .. R - 1
  <2>1. h + 1 \in 1 .. R /\ (A - R) + (h + 1) = (A - R + 1) + h
    BY <1>4, <1>5
  <2>2. rows[h + 1] = answer[(A - R) + (h + 1)]
    BY <2>1, <1>7
  <2> QED BY <2>1, <2>2, <1>6
<1>12. Len(answer') - Len(rows') = A - R + 1 /\ A - R + 1 \in Nat /\ A - R + 1 > 0
  <2>1. Len(answer') = A /\ Len(rows') = R - 1 /\ A - R \in Nat
    BY <1>1, <1>5, <1>6, <1>7
  <2> QED BY <2>1, <1>4, <1>5
<1>13. Fetching'
  BY <1>1, <1>5, <1>6, <1>7, <1>9, <1>10, <1>11, <1>12 DEF Fetching
<1>14. QueryTyped'
  BY <1>1, <1>2, <1>6, <1>7, <1>9 DEF QueryTyped
<1>15. NotCompared'
  BY <1>1, <1>2 DEF NotCompared
<1> QED BY <1>1, <1>13, <1>14, <1>15 DEF QueryInv

LEMMA StepFetchEnd == ASSUME QueryInv, FetchEnd PROVE QueryInv'
<1>1. /\ pc = "fetch" /\ rows = << >> /\ pc' = "intersect"
      /\ UNCHANGED <<nns, rows, result, row_count, kk, i, total_res, answer>>
  BY DEF FetchEnd
<1>2. QueryTyped /\ NotCompared /\ Fetching
  BY <1>1 DEF QueryInv
<1>3. QueryTyped'
  BY <1>1, <1>2 DEF QueryTyped
<1>4. answer \in Seq(Ids)
  BY <1>2 DEF QueryTyped
<1>5. /\ row_count = Len(answer) /\ result \in [0 .. row_count - 1 -> Garbage]
      /\ answer # << >> => result[0] = answer[Len(answer)]
  BY <1>1, <1>2, <1>4 DEF Fetching
<1>6. Found = {} /\ kk = 0 /\ i = 0 /\ total_res = << >>
  BY <1>2 DEF NotCompared, Found
<1>7. Matching
  BY <1>5, <1>6 DEF Matching, Passed, Distinct
<1>8. Matching'
  BY <1>7, <1>1 DEF Matching, Passed, Found
<1> QED BY <1>1, <1>3, <1>8 DEF QueryInv

LEMMA StepReport == ASSUME QueryInv, Report PROVE QueryInv'
<1>1. /\ pc = "intersect" /\ kk = K /\ pc' = "done"
      /\ UNCHANGED <<nns, rows, result, row_count, kk, i, total_res, answer>>
  BY DEF Report
<1>2. QueryTyped' /\ (NoArray' \/ Matching')
  BY <1>1 DEF QueryInv, QueryTyped, NoArray, NotCompared, Matching, Passed, Found
<1> QED BY <1>1, <1>2 DEF QueryInv

LEMMA StepNextNeighbour == ASSUME QueryInv, NextNeighbour PROVE QueryInv'
<1>1. /\ pc = "intersect" /\ kk < K /\ i = row_count /\ kk' = kk + 1 /\ i' = 0
      /\ UNCHANGED <<pc, nns, rows, result, row_count, total_res, answer>>
  BY DEF NextNeighbour
<1>2. QueryTyped /\ (NoArray \/ Matching)
  BY <1>1 DEF QueryInv
<1>3. QueryTyped'
  BY <1>1, <1>2, KNat DEF QueryTyped
<1>4. kk \in Nat /\ row_count \in Nat /\ answer \in Seq(Ids) /\ total_res \in Seq(0 .. K - 1)
  BY <1>2 DEF QueryTyped
<1>5. CASE Matching
  <2>1. /\ row_count = Len(answer) /\ result \in [0 .. row_count - 1 -> Garbage]
        /\ \A p \in Found : \E h \in 0 .. row_count - 1 : nns[p] = result[h]
    BY <1>5 DEF Matching
  <2>2. Found' = Found
    BY <1>1 DEF Found
  <2>3. ASSUME answer # << >>
        PROVE  /\ result[0] = answer[Len(answer)]
               /\ \A p \in 0 .. K - 1 : Passed(p)' /\ nns[p] = result[0] => p \in Found
    <3>1. row_count > 0
      BY <1>4, <2>1, <2>3
    <3>2. \A p \in 0 .. K - 1 : Passed(p)' => Passed(p)
      BY <3>1, <1>1, <1>4, KNat DEF Passed
    <3> QED BY <3>2, <2>3, <1>5 DEF Matching
  <2>4. ASSUME Len(answer) <= 1
        PROVE  /\ Len(total_res) <= kk' + i'
               /\ \A h \in DOMAIN total_res : total_res[h] < kk' + i'
               /\ Distinct(total_res)
    <3>1. /\ Len(total_res) <= kk + i
          /\ \A h \in DOMAIN total_res : total_res[h] < kk + i
          /\ Distinct(total_res)
      BY <2>4, <1>5 DEF Matching
    <3>2. kk + i <= kk' + i' /\ kk + i \in Int /\ kk' + i' \in Int
      BY <1>1, <1>4, <2>1, <2>4
    <3>3. \A h \in DOMAIN total_res : total_res[h] \in Int
      BY <1>4, Positions
    <3>4. Len(total_res) \in Nat
      BY <1>4
    <3> QED BY <3>1, <3>2, <3>3, <3>4
  <2>5. Matching'
    <3>1. Distinct(total_res)' <=> Distinct(total_res)
      BY <1>1 DEF Distinct
    <3> QED BY <1>1, <2>1, <2>2, <2>3, <2>4, <3>1 DEF Matching
  <2> QED BY <1>1, <1>3, <2>5 DEF QueryInv
<1>6. CASE NoArray
  BY <1>1, <1>6 DEF NoArray, NotCompared
<1> QED BY <1>2, <1>5, <1>6

\* A turn of the inner loop that the array has room for.
LEMMA StepMatches ==
  ASSUME QueryInv, Matching,
         pc = "intersect", kk < K, i < row_count, result[i] = nns[kk] => Len(total_res) < K,
         total_res' = IF result[i] = nns[kk] THEN Append(total_res, kk) ELSE total_res,
         i' = i + 1, UNCHANGED <<pc, nns, rows, result, row_count, kk, answer>>
  PROVE  QueryInv'
<1>1. QueryTyped
  BY DEF QueryInv
<1>2. /\ kk \in 0 .. K - 1 /\ i \in 0 .. row_count - 1 /\ row_count \in Nat /\ kk \in Nat /\ i \in Nat
      /\ total_res \in Seq(0 .. K - 1) /\ answer \in Seq(Ids)
  BY <1>1, KNat DEF QueryTyped
<1>3. PICK n \in Nat : n = Len(total_res)
  BY <1>2
<1>4. total_res' \in Seq(0 .. K - 1)
  <2>1. Append(total_res, kk) \in Seq(0 .. K - 1)
    BY <1>2, AppendProperties
  <2> QED BY <2>1, <1>2
<1>5. QueryTyped'
  BY <1>1, <1>2, <1>4 DEF QueryTyped
<1>6. /\ row_count = Len(answer) /\ result \in [0 .. row_count - 1 -> Garbage]
      /\ \A p \in Found : \E h \in 0 .. row_count - 1 : nns[p] = result[h]
  BY DEF Matching
<1>7. CASE result[i] = nns[kk]
  <2>1. /\ total_res' = Append(total_res, kk) /\ Len(total_res') = n + 1
        /\ DOMAIN total_res = 1 .. n /\ DOMAIN total_res' = 1 .. n + 1
        /\ total_res'[n + 1] = kk /\ \A h \in 1 .. n : total_res'[h] = total_res[h]
    BY <1>2, <1>3, <1>7
  <2>2. Found' = Found \cup {kk}
    <3>1. ASSUME NEW p \in Found' PROVE p \in Found \cup {kk}
      <4>1. PICK h \in 1 .. n + 1 : p = total_res'[h]
        BY <3>1, <2>1 DEF Found
      <4>2. CASE h \in 1 .. n
        BY <4>1, <4>2, <2>1 DEF Found
      <4>3. CASE h = n + 1
        BY <4>1, <4>3, <2>1
      <4> QED BY <4>2, <4>3, <1>3
    <3>2. ASSUME NEW p \in Found PROVE p \in Found'
      <4>1. PICK h \in 1 .. n : p = total_res[h]
        BY <3>2, <2>1 DEF Found
      <4>2. h \in DOMAIN total_res' /\ p = total_res'[h]
        BY <4>1, <2>1, <1>3
      <4> QED BY <4>2 DEF Found
    <3>3. kk \in Found'
      <4>1. n + 1 \in DOMAIN total_res' /\ kk = total_res'[n + 1]
        BY <2>1, <1>3
      <4> QED BY <4>1 DEF Found
    <3> QED BY <3>1, <3>2, <3>3
  <2>3. ASSUME answer # << >>
        PROVE  /\ result[0] = answer[Len(answer)]
               /\ \A p \in 0 .. K - 1 : Passed(p)' /\ nns[p] = result[0] => p \in Found'
    <3>1. /\ result[0] = answer[Len(answer)]
          /\ \A p \in 0 .. K - 1 : Passed(p) /\ nns[p] = result[0] => p \in Found
      BY <2>3 DEF Matching
    <3>2. \A p \in 0 .. K - 1 : Passed(p)' => Passed(p) \/ p = kk
      BY <1>2 DEF Passed
    <3> QED BY <3>1, <3>2, <2>2
  <2>4. \A p \in Found' : \E h \in 0 .. row_count - 1 : nns[p] = result[h]
    BY <1>2, <1>6, <1>7, <2>2
  <2>5. ASSUME Len(answer) <= 1
        PROVE  /\ n + 1 <= kk + i'
               /\ \A h \in 1 .. n + 1 : total_res'[h] < kk + i'
               /\ Distinct(total_res')
    <3>1. i = 0 /\ i' = 1
      BY <2>5, <1>2, <1>6
    <3>2. /\ n <= kk
          /\ \A h \in 1 .. n : total_res[h] < kk
          /\ Distinct(total_res)
      BY <2>5, <3>1, <2>1, <1>2, <1>3 DEF Matching
    <3>3. \A h \in 1 .. n : total_res[h] \in Int
      BY <1>2, <2>1, Positions
    <3>4. \A h \in 1 .. n + 1 : h \in 1 .. n \/ h = n + 1
      BY <1>3
    <3>5. \A h \in 1 .. n + 1 : total_res'[h] < kk + i'
      BY <3>1, <3>2, <3>3, <3>4, <2>1, <1>2
    <3>6. Distinct(total_res')
      <4> SUFFICES ASSUME NEW a \in 1 .. n + 1, NEW b \in 1 .. n + 1, total_res'[a] = total_res'[b]
                   PROVE  a = b
        BY <2>1 DEF Distinct
      <4>1. CASE a \in 1 .. n /\ b \in 1 .. n
        BY <4>1, <3>2, <2>1 DEF Distinct
      <4>2. CASE a = n + 1 /\ b \in 1 .. n
        <5>1. total_res[b] = kk /\ total_res[b] < kk
          BY <4>2, <3>2, <2>1
        <5> QED BY <5>1, <1>2
      <4>3. CASE b = n + 1 /\ a \in 1 .. n
        <5>1. total_res[a] = kk /\ total_res[a] < kk
          BY <4>3, <3>2, <2>1
        <5> QED BY <5>1, <1>2
      <4> QED BY <3>4, <4>1, <4>2, <4>3
    <3>7. n + 1 <= kk + i'
      BY <3>1, <3>2, <1>2, <1>3
    <3> QED BY <3>5, <3>6, <3>7
  <2>6. Matching'
    <3>1. Distinct(total_res)' <=> Distinct(total_res')
      BY DEF Distinct
    <3> QED BY <1>6, <2>1, <2>3, <2>4, <2>5, <3>1 DEF Matching
  <2> QED BY <1>5, <2>6 DEF QueryInv
<1>8. CASE result[i] # nns[kk]
  <2>1. total_res' = total_res /\ Found' = Found
    BY <1>8 DEF Found
  <2>2. ASSUME answer # << >>
        PROVE  /\ result[0] = answer[Len(answer)]
               /\ \A p \in 0 .. K - 1 : Passed(p)' /\ nns[p] = result[0] => p \in Found
    <3>1. /\ result[0] = answer[Len(answer)]
          /\ \A p \in 0 .. K - 1 : Passed(p) /\ nns[p] = result[0] => p \in Found
      BY <2>2 DEF Matching
    <3>2. \A p \in 0 .. K - 1 : Passed(p)' => Passed(p) \/ (p = kk /\ i = 0)
      BY <1>2 DEF Passed
    <3> QED BY <3>1, <3>2, <1>8
  <2>3. ASSUME Len(answer) <= 1
        PROVE  /\ n <= kk + i'
               /\ \A h \in DOMAIN total_res : total_res[h] < kk + i'
               /\ Distinct(total_res)
    <3>1. /\ n <= kk + i
          /\ \A h \in DOMAIN total_res : total_res[h] < kk + i
          /\ Distinct(total_res)
      BY <2>3, <1>3 DEF Matching
    <3>2. \A h \in DOMAIN total_res : total_res[h] \in Int
      BY <1>2, Positions
    <3> QED BY <3>1, <3>2, <1>2, <1>3
  <2>4. Matching'
    <3>1. Distinct(total_res)' <=> Distinct(total_res)
      BY <2>1 DEF Distinct
    <3> QED BY <1>3, <1>6, <2>1, <2>2, <2>3, <3>1 DEF Matching
  <2> QED BY <1>5, <2>4 DEF QueryInv
<1> QED BY <1>7, <1>8

LEMMA StepCompare == ASSUME QueryInv, Compare PROVE QueryInv'
<1>1. /\ pc = "intersect" /\ kk < K /\ i < row_count
      /\ UNCHANGED <<nns, rows, result, row_count, kk, answer>>
  BY DEF Compare
<1>2. QueryTyped /\ (NoArray \/ Matching)
  BY <1>1 DEF QueryInv
<1>3. CASE pc' = "crashed" /\ UNCHANGED <<i, total_res>>
  BY <1>1, <1>2, <1>3 DEF QueryInv, QueryTyped
<1>4. CASE result # Null /\ Len(total_res) = K /\ pc' = "overflow" /\ UNCHANGED <<i, total_res>>
  <2>1. QueryTyped'
    BY <1>1, <1>2, <1>4 DEF QueryTyped
  <2>2. Len(answer) > 1
    <3>1. row_count = Len(answer) /\ (Len(answer) <= 1 => Len(total_res) <= kk + i)
      BY <1>2, <1>4 DEF NoArray, Matching
    <3>2. row_count \in Nat /\ kk \in Nat /\ i \in Nat
      BY <1>2 DEF QueryTyped
    <3> QED BY <3>1, <3>2, <1>1, <1>4, KNat
  <2> QED BY <1>1, <1>4, <2>1, <2>2 DEF QueryInv
<1>5. CASE /\ result # Null /\ (result[i] = nns[kk] => Len(total_res) < K)
           /\ total_res' = IF result[i] = nns[kk] THEN Append(total_res, kk) ELSE total_res
           /\ i' = i + 1 /\ UNCHANGED pc
  <2>1. Matching
    BY <1>2, <1>5 DEF NoArray
  <2> QED BY <1>1, <1>5, <2>1, StepMatches
<1> QED BY <1>3, <1>4, <1>5 DEF Compare

LEMMA StepQueryInv == QueryInv /\ [QueryNext]_queryVars => QueryInv'
<1> SUFFICES ASSUME QueryInv, [QueryNext]_queryVars PROVE QueryInv'
  OBVIOUS
<1>1. CASE UNCHANGED queryVars
  <2>1. /\ UNCHANGED <<pc, nns, rows, result, row_count, kk, i>>
        /\ UNCHANGED <<total_res, answer>>
    BY <1>1 DEF queryVars
  <2>2. QueryTyped' <=> QueryTyped
    BY <2>1 DEF QueryTyped
  <2>3. (NotCompared' <=> NotCompared) /\ (NoArray' <=> NoArray)
    BY <2>1 DEF NotCompared, NoArray
  <2>4. Fetching' <=> Fetching
    BY <2>1 DEF Fetching
  <2>5. Matching' <=> Matching
    BY <2>1 DEF Matching, Passed, Found, Distinct
  <2> QED BY <2>1, <2>2, <2>3, <2>4, <2>5 DEF QueryInv
<1> QED BY <1>1, StepSearch, StepRefused, StepQueryFails, StepQuery, StepFetchRow, StepFetchEnd,
           StepCompare, StepNextNeighbour, StepReport
        DEF QueryNext

LEMMA QueryExact == QueryInv => SingleRowExact
<1> SUFFICES ASSUME QueryInv, Len(answer) <= 1
             PROVE  pc # "overflow" /\ (pc = "done" => Found = Wanted /\ Distinct(total_res))
  BY DEF SingleRowExact
<1>1. answer \in Seq(Ids) /\ total_res \in Seq(0 .. K - 1)
  BY DEF QueryInv, QueryTyped
<1>2. pc # "overflow"
  BY <1>1 DEF QueryInv
<1>3. ASSUME pc = "done" PROVE Found = Wanted /\ Distinct(total_res)
  <2>1. kk = K /\ (NoArray \/ Matching)
    BY <1>3 DEF QueryInv
  <2>2. CASE NoArray
    <3>1. answer = << >> /\ total_res = << >>
      BY <2>2 DEF NoArray, NotCompared
    <3> QED BY <3>1 DEF Found, Wanted, Distinct
  <2>3. CASE Matching
    <3>1. /\ row_count = Len(answer) /\ Distinct(total_res)
          /\ \A p \in Found : \E h \in 0 .. row_count - 1 : nns[p] = result[h]
          /\ answer # << >> =>
               /\ result[0] = answer[Len(answer)]
               /\ \A p \in 0 .. K - 1 : Passed(p) /\ nns[p] = result[0] => p \in Found
      BY <2>3 DEF Matching
    <3>2. CASE answer = << >>
      <4>1. Found = {}
        BY <3>1, <3>2
      <4>2. Wanted = {}
        BY <3>2 DEF Wanted
      <4> QED BY <4>1, <4>2, <3>1
    <3>3. CASE Len(answer) = 1
      <4>1. \A p \in 0 .. K - 1 : Passed(p)
        BY <2>1, KNat DEF Passed
      <4>2. answer # << >> /\ DOMAIN answer = {1} /\ result[0] = answer[1]
        <5>1. Len(answer) = 1 /\ DOMAIN answer = 1 .. 1 /\ Len(<< >>) = 0
          BY <3>3, <1>1
        <5>2. answer # << >> /\ 1 .. 1 = {1}
          BY <5>1
        <5> QED BY <5>1, <5>2, <3>1
      <4>3. \A p \in Found : p \in 0 .. K - 1
        BY <1>1, Positions DEF Found
      <4>4. \A p \in Found : nns[p] = answer[1]
        <5> TAKE p \in Found
        <5>1. PICK h \in 0 .. row_count - 1 : nns[p] = result[h]
          BY <3>1
        <5>2. h = 0
          BY <3>1, <3>3
        <5> QED BY <5>1, <5>2, <4>2
      <4>5. Wanted = {p \in 0 .. K - 1 : nns[p] = answer[1]}
        BY <4>2 DEF Wanted
      <4>6. \A p \in Wanted : p \in Found
        BY <4>1, <4>2, <4>5, <3>1
      <4> QED BY <4>3, <4>4, <4>5, <4>6, <3>1
    <3>4. answer = << >> \/ Len(answer) = 1
      <4>1. Len(answer) \in Nat /\ (Len(answer) = 0 => answer = << >>)
        BY <1>1, EmptySeq
      <4>2. Len(answer) = 0 \/ Len(answer) = 1
        BY <4>1
      <4> QED BY <4>1, <4>2
    <3> QED BY <3>2, <3>3, <3>4
  <2> QED BY <2>1, <2>2, <2>3
<1> QED BY <1>2, <1>3

-----------------------------------------------------------------------------
(* The assembly of a condition.                                            *)

Tokens == (Stop .. LParen) \cup (1 .. MaxSize)

\* The comparisons that begin a group of alternatives and those that end one.
Opens(k) == k = 1 \/ relation[k - 1] = "and"
Closes(k) == k = types \/ relation[k] = "and"

\* Where comparison k stands: two tokens for each comparison before it and for
\* each group before its own, and the parenthesis of its group.
Place(k) == 2 * k + 2 * Group(k)

ConditionTyped ==
  /\ types \in 0 .. MaxSize /\ relation \in Seq(Words)
  /\ at \in {"loop", "done", "refused"} /\ islabel \in BOOLEAN
  /\ sq \in Seq(Tokens)
  /\ at # "refused" => types > 0 /\ Len(relation) = types - 1
  /\ at = "loop" => j \in 1 .. types /\ (islabel <=> ~Opens(j))
  /\ at = "done" => j = types + 1
  /\ at = "refused" => j = 1 /\ sq = << >>

\* What stands around comparison k.
Laid(k) ==
  /\ Place(k) + 1 \in DOMAIN sq /\ sq[Place(k)] = k
  /\ Opens(k) => sq[Place(k) - 1] = LParen
  /\ ~Closes(k) => sq[Place(k) + 1] = Or
  /\ Closes(k) => /\ Place(k) + 2 \in DOMAIN sq
                  /\ sq[Place(k) + 1] = RParen
                  /\ sq[Place(k) + 2] = IF k = types THEN Stop ELSE And

ConditionLaid ==
  at # "refused" =>
    /\ \A k \in 1 .. j - 1 : Laid(k)
    /\ at = "loop" => Len(sq) = Place(j) - IF islabel THEN 1 ELSE 2
    /\ at = "done" => Len(sq) = Place(types) + 2

ConditionInv == ConditionTyped /\ LabelIsOpen /\ ConditionLaid

LEMMA GroupTyped ==
  ASSUME NEW k \in Nat
  PROVE  /\ Group(k) \in Nat
         /\ IsFiniteSet({m \in 1 .. k - 1 : relation[m] = "and"})
<1>1. IsFiniteSet(1 .. k - 1)
  BY FS_Interval
<1>2. IsFiniteSet({m \in 1 .. k - 1 : relation[m] = "and"})
  BY <1>1, FS_Subset
<1> QED BY <1>2, FS_CardinalityType DEF Group

\* The groups are numbered one after the other.
LEMMA NextGroup ==
  ASSUME NEW k \in Nat \ {0}
  PROVE  Group(k + 1) = IF relation[k] = "and" THEN Group(k) + 1 ELSE Group(k)
<1> DEFINE A(n) == {m \in 1 .. n - 1 : relation[m] = "and"}
<1>1. \A m \in 1 .. (k + 1) - 1 : m \in 1 .. k - 1 \/ m = k
  OBVIOUS
<1>2. k \in 1 .. (k + 1) - 1 /\ k \notin 1 .. k - 1
  OBVIOUS
<1>3. \A m \in 1 .. k - 1 : m \in 1 .. (k + 1) - 1
  OBVIOUS
<1>4. CASE relation[k] = "and"
  <2>1. A(k + 1) = A(k) \cup {k} /\ k \notin A(k)
    BY <1>1, <1>2, <1>3, <1>4
  <2>2. IsFiniteSet(A(k))
    BY GroupTyped
  <2>3. Cardinality(A(k + 1)) = Cardinality(A(k)) + 1
    BY <2>1, <2>2, FS_AddElement
  <2> QED BY <2>3, <1>4 DEF Group
<1>5. CASE relation[k] # "and"
  <2>1. A(k + 1) = A(k)
    BY <1>1, <1>3, <1>5
  <2> QED BY <2>1, <1>5 DEF Group
<1> QED BY <1>4, <1>5

LEMMA FirstGroup == Group(1) = 0
<1>1. {m \in 1 .. 1 - 1 : relation[m] = "and"} = {}
  OBVIOUS
<1> QED BY <1>1, FS_EmptySet DEF Group

\* The places of a token, and the groups a sequence of tokens leaves open.
PlacesIn(s, token) == {m \in DOMAIN s : s[m] = token}
OpenIn(s) == Cardinality(PlacesIn(s, LParen)) - Cardinality(PlacesIn(s, RParen))

LEMMA PlacesAppend ==
  ASSUME NEW s \in Seq(Tokens), NEW x \in Tokens, NEW token
  PROVE  /\ Cardinality(PlacesIn(s, token)) \in Nat
         /\ Cardinality(PlacesIn(Append(s, x), token)) =
              IF x = token THEN Cardinality(PlacesIn(s, token)) + 1
                           ELSE Cardinality(PlacesIn(s, token))
<1>1. PICK n \in Nat : n = Len(s)
  OBVIOUS
<1>2. /\ DOMAIN s = 1 .. n /\ DOMAIN Append(s, x) = 1 .. n + 1
      /\ \A m \in 1 .. n : Append(s, x)[m] = s[m]
      /\ Append(s, x)[n + 1] = x
  BY <1>1
<1>3. \A m \in 1 .. n + 1 : m \in 1 .. n \/ m = n + 1
  BY <1>1
<1>4. (\A m \in 1 .. n : m \in 1 .. n + 1) /\ n + 1 \in 1 .. n + 1 /\ n + 1 \notin 1 .. n
  BY <1>1
<1>5. IsFiniteSet(PlacesIn(s, token))
  <2>1. IsFiniteSet(1 .. n)
    BY FS_Interval
  <2> QED BY <2>1, <1>2, FS_Subset DEF PlacesIn
<1>6. CASE x = token
  <2>1. /\ PlacesIn(Append(s, x), token) = PlacesIn(s, token) \cup {n + 1}
        /\ n + 1 \notin PlacesIn(s, token)
    BY <1>2, <1>3, <1>4, <1>6 DEF PlacesIn
  <2> QED BY <2>1, <1>5, <1>6, FS_AddElement, FS_CardinalityType
<1>7. CASE x # token
  <2>1. PlacesIn(Append(s, x), token) = PlacesIn(s, token)
    BY <1>2, <1>3, <1>4, <1>7 DEF PlacesIn
  <2> QED BY <2>1, <1>5, <1>7, FS_CardinalityType
<1> QED BY <1>6, <1>7

LEMMA OpenAppend ==
  ASSUME NEW s \in Seq(Tokens), NEW x \in Tokens
  PROVE  /\ OpenIn(s) \in Int
         /\ x = LParen => OpenIn(Append(s, x)) = OpenIn(s) + 1
         /\ x = RParen => OpenIn(Append(s, x)) = OpenIn(s) - 1
         /\ x \notin {LParen, RParen} => OpenIn(Append(s, x)) = OpenIn(s)
<1>1. PICK a \in Nat : a = Cardinality(PlacesIn(s, LParen))
  BY PlacesAppend
<1>2. PICK b \in Nat : b = Cardinality(PlacesIn(s, RParen))
  BY PlacesAppend
<1>3. Cardinality(PlacesIn(Append(s, x), LParen)) = IF x = LParen THEN a + 1 ELSE a
  BY <1>1, PlacesAppend
<1>4. Cardinality(PlacesIn(Append(s, x), RParen)) = IF x = RParen THEN b + 1 ELSE b
  BY <1>2, PlacesAppend
<1>5. LParen # RParen
  BY DEF LParen, RParen
<1> QED BY <1>1, <1>2, <1>3, <1>4, <1>5 DEF OpenIn

LEMMA LabelIsOpenIn ==
  LabelIsOpen <=> CASE at = "loop" -> OpenIn(sq) = IF islabel THEN 1 ELSE 0
                    [] at = "done" -> OpenIn(sq) = 0
                    [] at = "refused" -> sq = << >>
  BY DEF LabelIsOpen, OpenIn, Places, PlacesIn

LEMMA InitCondition == ConditionInit => ConditionInv
<1> SUFFICES ASSUME ConditionInit PROVE ConditionInv
  OBVIOUS
<1>1. relation \in Seq(Words) /\ types \in 0 .. MaxSize
  <2>1. PICK m \in 0 .. MaxSize : relation \in [1 .. m -> Words]
    BY DEF ConditionInit
  <2> QED BY <2>1 DEF ConditionInit
<1>2. /\ j = 1 /\ islabel = FALSE /\ sq = << >>
      /\ at = IF types # Len(relation) + 1 \/ types # ids \/ Len(relation) + 1 # ids
                THEN "refused" ELSE "loop"
  BY DEF ConditionInit
<1>3. Len(relation) \in Nat
  BY <1>1
<1>4. ConditionTyped
  <2>1. at \in {"loop", "refused"} /\ << >> \in Seq(Tokens)
    BY <1>2
  <2>2. at = "loop" => types > 0 /\ Len(relation) = types - 1 /\ j \in 1 .. types
    BY <1>1, <1>2, <1>3, MaxSizeNat
  <2>3. Opens(j)
    BY <1>2 DEF Opens
  <2> QED BY <1>1, <1>2, <2>1, <2>2, <2>3 DEF ConditionTyped
<1>5. LabelIsOpen
  <2>1. Places(LParen) = {} /\ Places(RParen) = {}
    BY <1>2 DEF Places
  <2>2. Cardinality({}) = 0
    BY FS_EmptySet
  <2>3. Cardinality(Places(LParen)) - Cardinality(Places(RParen)) = 0
    BY <2>1, <2>2
  <2>4. at \in {"loop", "refused"}
    BY <1>2
  <2> QED BY <1>2, <2>3, <2>4 DEF LabelIsOpen
<1>6. ConditionLaid
  <2>1. 1 .. j - 1 = {} /\ Len(sq) = 0 /\ Place(j) = 2
    BY <1>2, FirstGroup DEF Place
  <2> QED BY <1>2, <2>1 DEF ConditionLaid
<1> QED BY <1>4, <1>5, <1>6 DEF ConditionInv

\* A turn of the loop writes the comparison in its place, after a parenthesis
\* when none is open.
LEMMA TurnOpens ==
  ASSUME ConditionInv, at = "loop"
  PROVE  /\ Opened \in Seq(Tokens)
         /\ Len(Opened) = Place(j) /\ Place(j) \in Nat
         /\ \A m \in 1 .. Len(sq) : Opened[m] = sq[m]
         /\ Opened[Place(j)] = j
         /\ Opens(j) => Opened[Place(j) - 1] = LParen
         /\ OpenIn(Opened) = 1
         /\ Len(sq) < Place(j)
<1>1. /\ sq \in Seq(Tokens) /\ j \in 1 .. types /\ types \in 0 .. MaxSize
      /\ islabel \in BOOLEAN /\ (islabel <=> ~Opens(j))
  BY DEF ConditionInv, ConditionTyped
<1>2. j \in Tokens /\ LParen \in Tokens /\ j # LParen /\ j # RParen /\ j \in Nat
  BY <1>1, MaxSizeNat DEF Tokens, LParen, RParen, Stop
<1>3. PICK n \in Nat : n = Len(sq)
  BY <1>1
<1>4. n = Place(j) - IF islabel THEN 1 ELSE 2
  BY <1>3 DEF ConditionInv, ConditionLaid
<1>5. Place(j) \in Nat
  <2>1. Group(j) \in Nat
    BY <1>2, GroupTyped
  <2> QED BY <2>1, <1>2 DEF Place
<1>6. OpenIn(sq) = IF islabel THEN 1 ELSE 0
  BY LabelIsOpenIn DEF ConditionInv
<1>7. CASE islabel
  <2>1. Opened = Append(sq, j)
    BY <1>1, <1>2, <1>7 DEF Opened
  <2>2. Place(j) = n + 1
    BY <1>3, <1>4, <1>5, <1>7
  <2>3. /\ Opened \in Seq(Tokens) /\ Len(Opened) = n + 1 /\ Opened[n + 1] = j
        /\ \A m \in 1 .. n : Opened[m] = sq[m]
    BY <1>1, <1>2, <1>3, <2>1
  <2>4. OpenIn(Opened) = 1
    BY <1>1, <1>2, <1>6, <1>7, <2>1, OpenAppend
  <2> QED BY <1>1, <1>3, <1>5, <1>7, <2>2, <2>3, <2>4
<1>8. CASE ~islabel
  <2>1. Opened = Append(Append(sq, LParen), j) /\ Append(sq, LParen) \in Seq(Tokens)
    BY <1>1, <1>2, <1>8 DEF Opened
  <2>2. Place(j) = n + 2
    BY <1>3, <1>4, <1>5, <1>8
  <2>3. /\ Opened \in Seq(Tokens) /\ Len(Opened) = n + 2
        /\ Opened[n + 2] = j /\ Opened[n + 1] = LParen
        /\ \A m \in 1 .. n : Opened[m] = sq[m]
    BY <1>1, <1>2, <1>3, <2>1
  <2>4. OpenIn(Append(sq, LParen)) = 1
    <3>1. OpenIn(Append(sq, LParen)) = OpenIn(sq) + 1
      BY <1>1, <1>2, OpenAppend
    <3> QED BY <3>1, <1>6, <1>8
  <2>5. OpenIn(Opened) = 1
    BY <1>2, <2>1, <2>4, OpenAppend
  <2> QED BY <1>3, <1>5, <2>2, <2>3, <2>5
<1> QED BY <1>1, <1>7, <1>8


\* What stands around a comparison stays when the condition grows.
LEMMA LaidKept ==
  ASSUME NEW k \in Nat \ {0}, Laid(k), sq \in Seq(Tokens), sq' \in Seq(Tokens),
         Len(sq) <= Len(sq'), \A m \in 1 .. Len(sq) : sq'[m] = sq[m],
         relation' = relation, types' = types
  PROVE  Laid(k)'
<1>1. PICK p \in Nat : p = Place(k) /\ p > 1
  <2>1. Group(k) \in Nat
    BY GroupTyped
  <2> QED BY <2>1 DEF Place
<1>2. Place(k)' = p /\ (Opens(k)' <=> Opens(k)) /\ (Closes(k)' <=> Closes(k))
  BY <1>1 DEF Place, Group, Opens, Closes
<1>3. /\ p + 1 \in DOMAIN sq /\ sq[p] = k
      /\ Opens(k) => sq[p - 1] = LParen
      /\ ~Closes(k) => sq[p + 1] = Or
      /\ Closes(k) => /\ p + 2 \in DOMAIN sq
                      /\ sq[p + 1] = RParen
                      /\ sq[p + 2] = IF k = types THEN Stop ELSE And
  BY <1>1 DEF Laid
<1>4. \A m \in DOMAIN sq : m \in DOMAIN sq' /\ sq'[m] = sq[m]
  OBVIOUS
<1>5. p - 1 \in DOMAIN sq /\ p \in DOMAIN sq
  BY <1>1, <1>3
<1> QED BY <1>2, <1>3, <1>4, <1>5 DEF Laid

LEMMA TurnLays ==
  ASSUME ConditionInv, at = "loop", NEW J, J = j,
         relation' = relation, types' = types, sq' \in Seq(Tokens),
         \A m \in 1 .. Place(J) : sq'[m] = Opened[m],
         sq'[Place(J) + 1] = IF Closes(J) THEN RParen ELSE Or,
         Len(sq') = Place(J) + IF Closes(J) THEN 2 ELSE 1,
         Closes(J) => sq'[Place(J) + 2] = IF J = types THEN Stop ELSE And
  PROVE  /\ \A k \in 1 .. J : Laid(k)'
         /\ Place(J)' = Place(J) /\ Place(J + 1)' = Place(J + 1)
         /\ Place(J) \in Nat
         /\ Place(J + 1) = Place(J) + IF relation[J] = "and" THEN 4 ELSE 2
<1>1. J \in Nat \ {0} /\ sq \in Seq(Tokens) /\ \A k \in 1 .. J - 1 : Laid(k)
  BY DEF ConditionInv, ConditionTyped, ConditionLaid
<1>2. PICK p \in Nat : p = Place(J) /\ p > 1
  <2>1. Group(J) \in Nat
    BY <1>1, GroupTyped
  <2> QED BY <2>1, <1>1 DEF Place
<1>3. /\ \A m \in 1 .. Len(sq) : Opened[m] = sq[m]
      /\ Opened[p] = J
      /\ Opens(J) => Opened[p - 1] = LParen
      /\ Len(sq) < p
  BY <1>2, TurnOpens
<1>4. Len(sq) \in Nat /\ Len(sq') \in Nat /\ Len(sq') > p
  BY <1>1, <1>2
<1>5. \A m \in 1 .. Len(sq) : sq'[m] = sq[m]
  <2>1. \A m \in 1 .. Len(sq) : m \in 1 .. p
    BY <1>2, <1>3, <1>4
  <2> QED BY <2>1, <1>2, <1>3
<1>6. \A k \in 1 .. J - 1 : Laid(k)'
  <2> TAKE k \in 1 .. J - 1
  <2>1. k \in Nat \ {0} /\ Laid(k) /\ Len(sq) <= Len(sq')
    BY <1>1, <1>3, <1>4
  <2> QED BY <2>1, <1>1, <1>5, LaidKept
<1>7. Place(J)' = p /\ (Opens(J)' <=> Opens(J)) /\ (Closes(J)' <=> Closes(J))
  BY <1>2 DEF Place, Group, Opens, Closes
<1>8. Laid(J)'
  <2>1. DOMAIN sq' = 1 .. Len(sq')
    OBVIOUS
  <2>2. p + 1 \in DOMAIN sq' /\ sq'[p] = J /\ (Opens(J) => sq'[p - 1] = LParen)
    <3>1. p \in 1 .. p /\ p - 1 \in 1 .. p /\ p + 1 \in 1 .. Len(sq')
      BY <1>2, <1>4
    <3> QED BY <3>1, <2>1, <1>2, <1>3
  <2>3. ~Closes(J) => sq'[p + 1] = Or
    BY <1>2
  <2>4. Closes(J) => /\ p + 2 \in DOMAIN sq'
                     /\ sq'[p + 1] = RParen
                     /\ sq'[p + 2] = IF J = types THEN Stop ELSE And
    BY <2>1, <1>2
  <2> QED BY <2>2, <2>3, <2>4, <1>7 DEF Laid
<1>9. Place(J + 1)' = Place(J + 1)
  BY DEF Place, Group
<1>10. Place(J + 1) = p + IF relation[J] = "and" THEN 4 ELSE 2
  <2>1. PICK g \in Nat : g = Group(J)
    BY <1>1, GroupTyped
  <2>2. Group(J + 1) = IF relation[J] = "and" THEN g + 1 ELSE g
    BY <2>1, <1>1, NextGroup
  <2> QED BY <2>1, <2>2, <1>1, <1>2 DEF Place
<1>11. \A k \in 1 .. J : k \in 1 .. J - 1 \/ k = J
  BY <1>1
<1> QED BY <1>2, <1>6, <1>7, <1>8, <1>9, <1>10, <1>11

LEMMA TokensTyped ==
  /\ RParen \in Tokens /\ And \in Tokens /\ Or \in Tokens /\ Stop \in Tokens /\ LParen \in Tokens
  /\ And \notin {LParen, RParen} /\ Or \notin {LParen, RParen} /\ Stop \notin {LParen, RParen}
  BY DEF Tokens, LParen, RParen, And, Or, Stop

\* Two tokens after the comparison that ends a group.
LEMMA TurnCloses ==
  ASSUME ConditionInv, at = "loop", NEW x \in {And, Stop},
         sq' = Opened \o <<RParen, x>>
  PROVE  /\ sq' \in Seq(Tokens) /\ Len(sq') = Place(j) + 2
         /\ \A m \in 1 .. Place(j) : sq'[m] = Opened[m]
         /\ sq'[Place(j) + 1] = RParen /\ sq'[Place(j) + 2] = x
         /\ OpenIn(sq') = 0
<1>1. PICK p \in Nat : p = Place(j)
  BY TurnOpens
<1>2. Opened \in Seq(Tokens) /\ Len(Opened) = p /\ OpenIn(Opened) = 1
  BY <1>1, TurnOpens
<1>3. x \in Tokens /\ RParen \in Tokens /\ x \notin {LParen, RParen}
  BY TokensTyped
<1>4. PICK s : s = Append(Opened, RParen)
  OBVIOUS
<1>5. s \in Seq(Tokens) /\ Len(s) = p + 1 /\ s[p + 1] = RParen /\ \A m \in 1 .. p : s[m] = Opened[m]
  BY <1>2, <1>3, <1>4
<1>6. sq' = Append(s, x)
  BY <1>2, <1>3, <1>4
<1>7. OpenIn(s) = 0
  <2>1. OpenIn(s) = OpenIn(Opened) - 1
    BY <1>2, <1>3, <1>4, OpenAppend
  <2> QED BY <2>1, <1>2
<1>8. OpenIn(sq') = 0
  <2>1. OpenIn(Append(s, x)) = OpenIn(s)
    BY <1>3, <1>5, OpenAppend
  <2> QED BY <2>1, <1>6, <1>7
<1>9. /\ sq' \in Seq(Tokens) /\ Len(sq') = p + 2 /\ sq'[p + 2] = x
      /\ \A m \in 1 .. p + 1 : sq'[m] = s[m]
  <2>1. Len(s) + 1 = p + 2
    BY <1>1, <1>5
  <2>2. s \in Seq(Tokens) /\ x \in Tokens
    BY <1>3, <1>5
  <2>3. /\ Append(s, x) \in Seq(Tokens) /\ Len(Append(s, x)) = Len(s) + 1
        /\ Append(s, x)[Len(s) + 1] = x /\ \A m \in 1 .. Len(s) : Append(s, x)[m] = s[m]
    BY <2>2, AppendProperties
  <2> QED BY <2>1, <2>3, <1>5, <1>6
<1>10. (\A m \in 1 .. p : m \in 1 .. p + 1) /\ p + 1 \in 1 .. p + 1
  BY <1>1
<1> QED BY <1>1, <1>5, <1>8, <1>9, <1>10

LEMMA StepAndTurn == ASSUME ConditionInv, AndTurn PROVE ConditionInv'
<1>1. /\ at = "loop" /\ j < types /\ relation[j] = "and"
      /\ sq' = Opened \o <<RParen, And>> /\ islabel' = FALSE /\ j' = j + 1
      /\ types' = types /\ relation' = relation /\ at' = at
  BY DEF AndTurn
<1>2. PICK J : J = j
  OBVIOUS
<1>3. J \in Nat \ {0} /\ J \in 1 .. types /\ types \in Nat /\ ConditionTyped
  BY <1>1, <1>2 DEF ConditionInv, ConditionTyped
<1>4. Closes(J) /\ J # types
  BY <1>1, <1>2, <1>3 DEF Closes
<1>5. /\ sq' \in Seq(Tokens) /\ Len(sq') = Place(J) + 2
      /\ \A m \in 1 .. Place(J) : sq'[m] = Opened[m]
      /\ sq'[Place(J) + 1] = RParen /\ sq'[Place(J) + 2] = And
      /\ OpenIn(sq') = 0
  BY <1>1, <1>2, TurnCloses
<1>6. /\ \A k \in 1 .. J : Laid(k)'
      /\ Place(J)' = Place(J) /\ Place(J + 1)' = Place(J + 1) /\ Place(J) \in Nat
      /\ Place(J + 1) = Place(J) + 4
  BY <1>1, <1>2, <1>4, <1>5, TurnLays
<1>7. ConditionTyped'
  <2>1. j' \in 1 .. types'
    BY <1>1, <1>2, <1>3
  <2>2. Opens(j)'
    <3>1. j' - 1 = J
      BY <1>1, <1>2, <1>3
    <3> QED BY <3>1, <1>1, <1>2 DEF Opens
  <2> QED BY <2>1, <2>2, <1>1, <1>3, <1>5 DEF ConditionTyped
<1>8. LabelIsOpen'
  BY <1>1, <1>5 DEF LabelIsOpen, Places, OpenIn, PlacesIn
<1>9. ConditionLaid'
  <2>1. j' = J + 1 /\ j' - 1 = J
    BY <1>1, <1>2, <1>3
  <2>2. Len(sq') = Place(J + 1)' - 2
    BY <1>5, <1>6
  <2> QED BY <2>1, <2>2, <1>1, <1>6 DEF ConditionLaid
<1> QED BY <1>7, <1>8, <1>9 DEF ConditionInv

LEMMA StepLastTurn == ASSUME ConditionInv, LastTurn PROVE ConditionInv'
<1>1. /\ at = "loop" /\ j = types
      /\ sq' = Opened \o <<RParen, Stop>> /\ islabel' = TRUE /\ j' = j + 1
      /\ types' = types /\ relation' = relation /\ at' = "done"
  BY DEF LastTurn
<1>2. PICK J : J = j
  OBVIOUS
<1>3. J \in Nat \ {0} /\ J = types /\ types \in Nat /\ ConditionTyped
  BY <1>1, <1>2 DEF ConditionInv, ConditionTyped
<1>4. Closes(J)
  BY <1>3 DEF Closes
<1>5. /\ sq' \in Seq(Tokens) /\ Len(sq') = Place(J) + 2
      /\ \A m \in 1 .. Place(J) : sq'[m] = Opened[m]
      /\ sq'[Place(J) + 1] = RParen /\ sq'[Place(J) + 2] = Stop
      /\ OpenIn(sq') = 0
  BY <1>1, <1>2, TurnCloses
<1>6. /\ \A k \in 1 .. J : Laid(k)'
      /\ Place(J)' = Place(J)
  BY <1>1, <1>2, <1>3, <1>4, <1>5, TurnLays
<1>7. ConditionTyped'
  BY <1>1, <1>2, <1>3, <1>5 DEF ConditionTyped
<1>8. LabelIsOpen'
  BY <1>1, <1>5 DEF LabelIsOpen, Places, OpenIn, PlacesIn
<1>9. ConditionLaid'
  <2>1. j' - 1 = J /\ types' = J
    BY <1>1, <1>2, <1>3
  <2>2. Place(types)' = Place(J)
    BY <2>1, <1>6 DEF Place, Group
  <2> QED BY <2>1, <2>2, <1>1, <1>5, <1>6 DEF ConditionLaid
<1> QED BY <1>7, <1>8, <1>9 DEF ConditionInv

LEMMA StepOrTurn == ASSUME ConditionInv, OrTurn PROVE ConditionInv'
<1>1. /\ at = "loop" /\ j < types /\ relation[j] # "and"
      /\ sq' = Opened \o <<Or>> /\ islabel' = TRUE /\ j' = j + 1
      /\ types' = types /\ relation' = relation /\ at' = at
  BY DEF OrTurn
<1>2. PICK J : J = j
  OBVIOUS
<1>3. J \in Nat \ {0} /\ J \in 1 .. types /\ types \in Nat /\ ConditionTyped
  BY <1>1, <1>2 DEF ConditionInv, ConditionTyped
<1>4. ~Closes(J) /\ J # types
  BY <1>1, <1>2, <1>3 DEF Closes
<1>5. /\ sq' \in Seq(Tokens) /\ Len(sq') = Place(J) + 1
      /\ \A m \in 1 .. Place(J) : sq'[m] = Opened[m]
      /\ sq'[Place(J) + 1] = Or
      /\ OpenIn(sq') = 1
  <2>1. /\ Opened \in Seq(Tokens) /\ Len(Opened) = Place(J) /\ Place(J) \in Nat
        /\ OpenIn(Opened) = 1
    BY <1>1, <1>2, TurnOpens
  <2>2. Or \in Tokens /\ Or \notin {LParen, RParen}
    BY TokensTyped
  <2>3. sq' = Append(Opened, Or)
    BY <1>1, <2>1, <2>2
  <2>4. OpenIn(Append(Opened, Or)) = OpenIn(Opened)
    BY <2>1, <2>2, OpenAppend
  <2> QED BY <2>1, <2>2, <2>3, <2>4, AppendProperties
<1>6. /\ \A k \in 1 .. J : Laid(k)'
      /\ Place(J)' = Place(J) /\ Place(J + 1)' = Place(J + 1) /\ Place(J) \in Nat
      /\ Place(J + 1) = Place(J) + 2
  BY <1>1, <1>2, <1>4, <1>5, TurnLays
<1>7. ConditionTyped'
  <2>1. j' \in 1 .. types'
    BY <1>1, <1>2, <1>3
  <2>2. ~Opens(j)'
    <3>1. j' - 1 = J /\ j' # 1
      BY <1>1, <1>2, <1>3
    <3> QED BY <3>1, <1>1, <1>2 DEF Opens
  <2> QED BY <2>1, <2>2, <1>1, <1>3, <1>5 DEF ConditionTyped
<1>8. LabelIsOpen'
  BY <1>1, <1>5 DEF LabelIsOpen, Places, OpenIn, PlacesIn
<1>9. ConditionLaid'
  <2>1. j' = J + 1 /\ j' - 1 = J
    BY <1>1, <1>2, <1>3
  <2>2. Len(sq') = Place(J + 1)' - 1
    BY <1>5, <1>6
  <2> QED BY <2>1, <2>2, <1>1, <1>6 DEF ConditionLaid
<1> QED BY <1>7, <1>8, <1>9 DEF ConditionInv

LEMMA StepCondition == ConditionInv /\ [ConditionNext]_conditionVars => ConditionInv'
<1> SUFFICES ASSUME ConditionInv, [ConditionNext]_conditionVars PROVE ConditionInv'
  OBVIOUS
<1>1. CASE UNCHANGED conditionVars
  <2>1. UNCHANGED <<types, relation, j, islabel, sq, at>>
    BY <1>1 DEF conditionVars
  <2>2. ConditionTyped' <=> ConditionTyped
    BY <2>1 DEF ConditionTyped, Opens
  <2>3. LabelIsOpen' <=> LabelIsOpen
    BY <2>1 DEF LabelIsOpen, Places
  <2>4. ConditionLaid' <=> ConditionLaid
    BY <2>1 DEF ConditionLaid, Laid, Place, Group, Opens, Closes
  <2> QED BY <2>2, <2>3, <2>4 DEF ConditionInv
<1> QED BY <1>1, StepAndTurn, StepOrTurn, StepLastTurn DEF ConditionNext


-----------------------------------------------------------------------------
(* What the condition means.                                               *)

\* A set of numbers that is not empty has a least one.
LEMMA LeastNat ==
  ASSUME NEW S \in SUBSET Nat, S # {}
  PROVE  \E x \in S : \A y \in S : x <= y
<1>1. PICK x \in S : \A y \in S : ~(<<y, x>> \in OpToRel(<, Nat))
  BY NatLessThanWellFounded, WFMin, Zenon
<1>2. \A y \in S : ~(y < x)
  BY <1>1, Zenon DEF OpToRel
<1> QED BY <1>2

\* What is read at the places from 1 to the end, each from those after it.
Reads(read, T, p) ==
  [conjunction |-> Conjunction(read, T, p), disjunction |-> Disjunction(read, T, p)]

IsReading(read, T) == read = [p \in 1 .. Len(sq) + 1 |-> Reads(read, T, p)]

\* What is accepted is not empty.
Ahead(r, p) ==
  /\ r.conjunction.ok => r.conjunction.next \in Nat /\ r.conjunction.next > p
  /\ r.disjunction.ok => r.disjunction.next \in Nat /\ r.disjunction.next > p

\* What is read at a place depends on what is read after it only.
LEMMA ReadsAfter ==
  ASSUME sq \in Seq(Int), NEW T, NEW f, NEW g, NEW p \in 1 .. Len(sq) + 1,
         \A h \in p + 1 .. Len(sq) + 1 : g[h] = f[h] /\ Ahead(f[h], h)
  PROVE  Reads(g, T, p) = Reads(f, T, p) /\ Ahead(Reads(f, T, p), p)
<1>1. PICK n \in Nat : n = Len(sq)
  OBVIOUS
<1>2. p \in Nat /\ p <= n + 1 /\ DOMAIN sq = 1 .. n
  BY <1>1
<1>3. \A h : h \notin 1 .. n => Token(h) = Stop
  BY <1>2 DEF Token
<1>4. Stop = -5 /\ LParen = -1 /\ And = -3 /\ Or = -4
  BY DEF Stop, LParen, And, Or
<1>5. \A h \in Nat : h > p /\ h <= n + 1 => g[h] = f[h] /\ Ahead(f[h], h)
  BY <1>1, <1>2
<1>6. /\ Term(g, T, p) = Term(f, T, p)
      /\ Term(f, T, p).ok => Term(f, T, p).next \in Nat /\ Term(f, T, p).next > p
  <2>1. CASE Token(p) > 0
    <3>1. Token(p) \in Int
      BY <1>2, <1>4 DEF Token
    <3>2. Token(p) # LParen
      BY <2>1, <3>1, <1>4
    <3>3. /\ Term(g, T, p) = [ok |-> TRUE, value |-> Token(p) \in T, next |-> p + 1]
          /\ Term(f, T, p) = [ok |-> TRUE, value |-> Token(p) \in T, next |-> p + 1]
      BY <2>1, <3>2 DEF Term
    <3> QED BY <3>3, <1>2
  <2>2. CASE Token(p) = LParen
    <3>1. p \in 1 .. n
      BY <2>2, <1>3, <1>4
    <3>2. g[p + 1] = f[p + 1] /\ Ahead(f[p + 1], p + 1)
      <4>1. p + 1 \in Nat /\ p + 1 > p /\ p + 1 <= n + 1
        BY <3>1, <1>1, <1>2
      <4> QED BY <4>1, <1>5, Zenon
    <3>3. ~(Token(p) > 0)
      BY <2>2, <1>4
    <3>4. /\ Term(g, T, p) = Term(f, T, p)
          /\ Term(f, T, p).ok => f[p + 1].disjunction.ok
          /\ Term(f, T, p).next = f[p + 1].disjunction.next + 1
      BY <2>2, <3>2, <3>3 DEF Term
    <3> QED BY <3>2, <3>4, <1>2 DEF Ahead
  <2>3. CASE ~(Token(p) > 0) /\ Token(p) # LParen
    BY <2>3 DEF Term
  <2> QED BY <2>1, <2>2, <2>3
<1>7. /\ Conjunction(g, T, p) = Conjunction(f, T, p)
      /\ Conjunction(f, T, p).ok => Conjunction(f, T, p).next \in Nat /\ Conjunction(f, T, p).next > p
  <2>1. CASE ~Term(f, T, p).ok \/ Token(Term(f, T, p).next) # And
    BY <2>1, <1>6 DEF Conjunction
  <2>2. CASE Term(f, T, p).ok /\ Token(Term(f, T, p).next) = And
    <3>1. PICK q : q = Term(f, T, p).next
      OBVIOUS
    <3>2. q \in Nat /\ q > p /\ q \in 1 .. n
      BY <2>2, <3>1, <1>3, <1>4, <1>6
    <3>3. g[q + 1] = f[q + 1] /\ Ahead(f[q + 1], q + 1)
      <4>1. q + 1 \in Nat /\ q + 1 > p /\ q + 1 <= n + 1
        BY <3>2, <1>1, <1>2
      <4> QED BY <4>1, <1>5, Zenon
    <3>4. /\ Conjunction(g, T, p) = Conjunction(f, T, p)
          /\ Conjunction(f, T, p).ok = f[q + 1].conjunction.ok
          /\ Conjunction(f, T, p).next = f[q + 1].conjunction.next
      BY <2>2, <3>1, <3>3, <1>6 DEF Conjunction
    <3> QED BY <3>2, <3>3, <3>4, <1>2 DEF Ahead
  <2> QED BY <2>1, <2>2
<1>8. /\ Disjunction(g, T, p) = Disjunction(f, T, p)
      /\ Disjunction(f, T, p).ok => Disjunction(f, T, p).next \in Nat /\ Disjunction(f, T, p).next > p
  <2>1. CASE ~Conjunction(f, T, p).ok \/ Token(Conjunction(f, T, p).next) # Or
    BY <2>1, <1>7 DEF Disjunction
  <2>2. CASE Conjunction(f, T, p).ok /\ Token(Conjunction(f, T, p).next) = Or
    <3>1. PICK q : q = Conjunction(f, T, p).next
      OBVIOUS
    <3>2. q \in Nat /\ q > p /\ q \in 1 .. n
      BY <2>2, <3>1, <1>3, <1>4, <1>7
    <3>3. g[q + 1] = f[q + 1] /\ Ahead(f[q + 1], q + 1)
      <4>1. q + 1 \in Nat /\ q + 1 > p /\ q + 1 <= n + 1
        BY <3>2, <1>1, <1>2
      <4> QED BY <4>1, <1>5, Zenon
    <3>4. /\ Disjunction(g, T, p) = Disjunction(f, T, p)
          /\ Disjunction(f, T, p).ok = f[q + 1].disjunction.ok
          /\ Disjunction(f, T, p).next = f[q + 1].disjunction.next
      BY <2>2, <3>1, <3>3, <1>7 DEF Disjunction
    <3> QED BY <3>2, <3>3, <3>4, <1>2 DEF Ahead
  <2> QED BY <2>1, <2>2
<1> QED BY <1>6, <1>7, <1>8 DEF Reads, Ahead

\* There is a reading: it is made from the end of the condition.
LEMMA ReadingExists ==
  ASSUME sq \in Seq(Int), NEW T
  PROVE  \E read : IsReading(read, T)
<1>1. PICK n \in Nat : n = Len(sq)
  OBVIOUS
<1> DEFINE Upto(d, f) == \A p \in (n + 2) - d .. n + 1 :
                           f[p] = Reads(f, T, p) /\ Ahead(f[p], p)
           Bad == {d \in 0 .. n + 1 : ~\E f : Upto(d, f)}
<1>2. ASSUME Bad # {} PROVE FALSE
  <2>1. PICK d \in Bad : \A e \in Bad : d <= e
    <3>1. Bad \in SUBSET Nat
      BY <1>1
    <3> HIDE DEF Bad
    <3> QED BY <1>2, <3>1, LeastNat
  <2>2. d # 0
    <3>1. \A p \in (n + 2) - 0 .. n + 1 : FALSE
      OBVIOUS
    <3>2. Upto(0, << >>)
      BY <3>1
    <3> QED BY <2>1, <3>2
  <2>3. d - 1 \in 0 .. n + 1 /\ d - 1 \notin Bad /\ d \in 1 .. n + 1
    <3>1. d \in 1 .. n + 1 /\ d - 1 \in 0 .. n + 1 /\ ~(d <= d - 1)
      BY <1>1, <2>1, <2>2
    <3> QED BY <3>1, <2>1
  <2>4. PICK f : Upto(d - 1, f)
    BY <2>3
  <2>5. PICK m \in 1 .. n + 1 : m = (n + 2) - d
    BY <2>3
  <2>6. \A p \in m + 1 .. n + 1 : f[p] = Reads(f, T, p) /\ Ahead(f[p], p)
    <3>1. (n + 2) - (d - 1) = m + 1
      BY <2>3, <2>5
    <3> QED BY <3>1, <2>4
  <2>7. PICK g : g = [p \in 1 .. n + 1 |-> IF p = m THEN Reads(f, T, m) ELSE f[p]]
    OBVIOUS
  <2>8. \A p \in m + 1 .. n + 1 : g[p] = f[p]
    BY <2>5, <2>7
  <2>9. g[m] = Reads(f, T, m)
    BY <2>7
  <2>10. ASSUME NEW p \in m .. n + 1 PROVE g[p] = Reads(g, T, p) /\ Ahead(g[p], p)
    <3>1. p \in 1 .. Len(sq) + 1 /\ p \in Nat
      BY <1>1, <2>5
    <3>2. \A h \in p + 1 .. Len(sq) + 1 : h \in m + 1 .. n + 1
      BY <1>1, <2>5
    <3>3. \A h \in p + 1 .. Len(sq) + 1 : g[h] = f[h] /\ Ahead(f[h], h)
      BY <3>2, <2>6, <2>8
    <3>4. Reads(g, T, p) = Reads(f, T, p) /\ Ahead(Reads(f, T, p), p)
      BY <3>1, <3>3, ReadsAfter
    <3>5. CASE p = m
      BY <3>4, <3>5, <2>9
    <3>6. CASE p # m
      <4>1. p \in m + 1 .. n + 1
        BY <3>6, <2>5
      <4> QED BY <4>1, <3>4, <2>6, <2>8
    <3> QED BY <3>5, <3>6
  <2>11. Upto(d, g)
    BY <2>5, <2>10
  <2> QED BY <2>1, <2>11
<1>3. n + 1 \notin Bad /\ n + 1 \in 0 .. n + 1
  <2>1. n + 1 \in 0 .. n + 1
    BY <1>1
  <2> QED BY <2>1, <1>2
<1>4. PICK f : Upto(n + 1, f)
  BY <1>3
<1>5. \A p \in 1 .. n + 1 : f[p] = Reads(f, T, p) /\ Ahead(f[p], p)
  <2>1. (n + 2) - (n + 1) = 1
    OBVIOUS
  <2> QED BY <2>1, <1>4
<1>6. PICK g : g = [p \in 1 .. n + 1 |-> f[p]]
  OBVIOUS
<1>7. \A p \in 1 .. n + 1 : g[p] = Reads(g, T, p)
  <2> TAKE p \in 1 .. n + 1
  <2>1. \A h \in p + 1 .. n + 1 : h \in 1 .. n + 1
    OBVIOUS
  <2>2. \A h \in p + 1 .. Len(sq) + 1 : g[h] = f[h] /\ Ahead(f[h], h)
    BY <2>1, <1>1, <1>5, <1>6
  <2>3. p \in 1 .. Len(sq) + 1
    BY <1>1
  <2>4. Reads(g, T, p) = Reads(f, T, p)
    BY <2>2, <2>3, ReadsAfter
  <2> QED BY <2>4, <1>5, <1>6
<1>8. g = [p \in 1 .. Len(sq) + 1 |-> Reads(g, T, p)]
  <2>1. g = [p \in 1 .. n + 1 |-> g[p]]
    BY <1>6
  <2> QED BY <2>1, <1>1, <1>7
<1> QED BY <1>8 DEF IsReading

\* The condition is read by a reading.
LEMMA ReadByReading ==
  ASSUME sq \in Seq(Int), NEW T
  PROVE  \E read : /\ Read(T) = read[1].disjunction
                   /\ \A p \in 1 .. Len(sq) + 1 :
                        /\ read[p].conjunction = Conjunction(read, T, p)
                        /\ read[p].disjunction = Disjunction(read, T, p)
<1>1. PICK read : IsReading(read, T) /\ read = CHOOSE f : IsReading(f, T)
  BY ReadingExists
<1>2. Read(T) = read[1].disjunction
  BY <1>1 DEF Read, IsReading, Reads
<1>3. \A p \in 1 .. Len(sq) + 1 : read[p] = Reads(read, T, p)
  BY <1>1 DEF IsReading
<1>4. \A p \in 1 .. Len(sq) + 1 :
        /\ read[p].conjunction = Conjunction(read, T, p)
        /\ read[p].disjunction = Disjunction(read, T, p)
  <2> TAKE p \in 1 .. Len(sq) + 1
  <2>1. read[p] = [conjunction |-> Conjunction(read, T, p), disjunction |-> Disjunction(read, T, p)]
    BY <1>3 DEF Reads
  <2> QED BY <2>1
<1> QED BY <1>2, <1>4


\* The tokens around comparison k of a condition that is done, and the next
\* comparison's place.
LEMMA Around ==
  ASSUME ConditionInv, at = "done", NEW k \in 1 .. types
  PROVE  /\ k \in Nat /\ types \in Nat
         /\ Place(k) \in Nat /\ Place(k) > 1 /\ Place(k) <= Len(sq) /\ Len(sq) \in Nat
         /\ Token(Place(k)) = k
         /\ Opens(k) => Token(Place(k) - 1) = LParen
         /\ ~Closes(k) => /\ Token(Place(k) + 1) = Or
                          /\ k # types /\ Place(k + 1) = Place(k) + 2
         /\ Closes(k) => Token(Place(k) + 1) = RParen
         /\ Closes(k) /\ k # types => /\ Token(Place(k) + 2) = And
                                      /\ Opens(k + 1) /\ Place(k + 1) = Place(k) + 4
         /\ k = types => Place(k) + 2 = Len(sq) /\ Token(Place(k) + 2) = Stop
<1>1. /\ types \in Nat /\ k \in Nat \ {0} /\ sq \in Seq(Tokens)
  BY MaxSizeNat DEF ConditionInv, ConditionTyped
<1>2. Laid(k) /\ Len(sq) = Place(types) + 2
  BY <1>1 DEF ConditionInv, ConditionTyped, ConditionLaid
<1>3. PICK p \in Nat : p = Place(k) /\ p > 1
  <2>1. Group(k) \in Nat
    BY <1>1, GroupTyped
  <2> QED BY <2>1, <1>1 DEF Place
<1>4. PICK n \in Nat : n = Len(sq)
  BY <1>1
<1>5. DOMAIN sq = 1 .. n
  BY <1>1, <1>4
<1>6. Place(k + 1) = p + IF relation[k] = "and" THEN 4 ELSE 2
  <2>1. PICK h \in Nat : h = Group(k)
    BY <1>1, GroupTyped
  <2>2. Group(k + 1) = IF relation[k] = "and" THEN h + 1 ELSE h
    BY <2>1, <1>1, NextGroup
  <2> QED BY <2>1, <2>2, <1>1, <1>3 DEF Place
<1>7. p + 1 \in 1 .. n /\ p \in 1 .. n /\ p - 1 \in 1 .. n
  BY <1>2, <1>3, <1>5 DEF Laid
<1>8. Token(p) = k /\ (Opens(k) => Token(p - 1) = LParen)
  BY <1>2, <1>3, <1>5, <1>7 DEF Laid, Token
<1>9. ~Closes(k) => Token(p + 1) = Or /\ k # types /\ Place(k + 1) = p + 2
  <2>1. ~Closes(k) => k # types /\ relation[k] # "and"
    BY DEF Closes
  <2>2. ~Closes(k) => Token(p + 1) = Or
    BY <1>2, <1>3, <1>5, <1>7 DEF Laid, Token
  <2> QED BY <2>1, <2>2, <1>6
<1>10. Closes(k) => /\ Token(p + 1) = RParen
                    /\ Token(p + 2) = IF k = types THEN Stop ELSE And
  BY <1>2, <1>3, <1>5, <1>7 DEF Laid, Token
<1>11. Closes(k) /\ k # types => Opens(k + 1) /\ Place(k + 1) = p + 4
  <2>1. Closes(k) /\ k # types => relation[k] = "and" /\ (k + 1) - 1 = k
    BY <1>1 DEF Closes
  <2> QED BY <2>1, <1>6 DEF Opens
<1>12. k = types => p + 2 = n /\ Closes(k)
  BY <1>2, <1>3, <1>4 DEF Closes
<1> QED BY <1>1, <1>3, <1>4, <1>7, <1>8, <1>9, <1>10, <1>11, <1>12

\* What is read is accepted up to place p and has the value v.
Means(r, v, p) == r.ok /\ r.next = p /\ r.value \in BOOLEAN /\ (r.value <=> v)

LEMMA MembershipMeans ==
  ASSUME NEW r, NEW c, NEW T, NEW p, r = [ok |-> TRUE, value |-> c \in T, next |-> p]
  PROVE  Means(r, c \in T, p)
<1>1. r.value <=> c \in T
  BY Zenon
<1>2. r.ok /\ r.next = p /\ r.value \in BOOLEAN
  BY SMT
<1> QED BY <1>1, <1>2 DEF Means

\* A comparison is a term and, no "and" being next to it, a conjunction.
LEMMA ReadComparison ==
  ASSUME ConditionInv, at = "done", NEW T, NEW read, NEW k \in 1 .. types
  PROVE  Means(Conjunction(read, T, Place(k)), k \in T, Place(k) + 1)
<1>1. PICK p \in Nat : p = Place(k)
  BY Around
<1>2. k \in Nat /\ k > 0 /\ Token(p) = k /\ Token(p + 1) \in {Or, RParen}
  BY <1>1, Around
<1>3. LParen = -1 /\ And = -3 /\ Or = -4 /\ RParen = -2
  BY DEF LParen, And, Or, RParen
<1>4. Token(p) > 0 /\ Token(p) # LParen /\ Token(p + 1) # And
  BY <1>2, <1>3
<1>5. Term(read, T, p) = [ok |-> TRUE, value |-> Token(p) \in T, next |-> p + 1]
  BY <1>4 DEF Term
<1>6. Term(read, T, p).ok /\ Term(read, T, p).next = p + 1
  BY <1>5
<1>7. Conjunction(read, T, p) = Term(read, T, p)
  BY <1>4, <1>6 DEF Conjunction
<1>8. Means(Term(read, T, p), k \in T, p + 1)
  <2>1. Means(Term(read, T, p), Token(p) \in T, p + 1)
    BY <1>5, MembershipMeans
  <2> QED BY <1>2, <2>1
<1> QED BY <1>1, <1>7, <1>8

\* The comparisons from k to e, the last of k's group.
ToEnd(k, e) == e \in k .. types /\ Closes(e) /\ \A m \in k .. e - 1 : ~Closes(m)
Some(T, k, e) == \E m \in k .. e : m \in T

\* From its first comparison on, a group is read as a disjunction.
LEMMA ReadGroup ==
  ASSUME ConditionInv, at = "done", NEW T, NEW read,
         \A p \in 1 .. Len(sq) + 1 : read[p].disjunction = Disjunction(read, T, p)
  PROVE  \A k \in 1 .. types : \E e \in k .. types :
           /\ ToEnd(k, e)
           /\ Means(read[Place(k)].disjunction, Some(T, k, e), Place(e) + 1)
<1>1. PICK n \in Nat : n = types
  BY MaxSizeNat DEF ConditionInv, ConditionTyped
<1> DEFINE Inside(k) == \E e \in k .. types :
             /\ ToEnd(k, e)
             /\ Means(read[Place(k)].disjunction, Some(T, k, e), Place(e) + 1)
           Bad == {d \in 0 .. n - 1 : ~Inside(n - d)}
<1>2. ASSUME NEW k \in 1 .. n, k # n => Inside(k + 1) PROVE Inside(k)
  <2>1. PICK p \in Nat : p = Place(k)
    BY <1>1, Around
  <2>2. Means(Conjunction(read, T, p), k \in T, p + 1)
    BY <1>1, <2>1, ReadComparison
  <2>3. read[p].disjunction = Disjunction(read, T, p)
    <3>1. p > 1 /\ p <= Len(sq) /\ Len(sq) \in Nat
      BY <1>1, <2>1, Around
    <3> QED BY <3>1
  <2>4. Conjunction(read, T, p).ok /\ Conjunction(read, T, p).next = p + 1
    BY <2>2 DEF Means
  <2>5. CASE Closes(k)
    <3>1. Token(p + 1) # Or
      <4>1. Token(p + 1) = RParen
        BY <2>1, <2>5, <1>1, Around
      <4> QED BY <4>1 DEF RParen, Or
    <3>2. Disjunction(read, T, p) = Conjunction(read, T, p)
      BY <2>4, <3>1 DEF Disjunction
    <3>3. ToEnd(k, k)
      BY <2>5, <1>1 DEF ToEnd
    <3>4. Some(T, k, k) <=> k \in T
      BY <1>1 DEF Some
    <3>5. Means(read[p].disjunction, Some(T, k, k), p + 1)
      BY <2>2, <2>3, <3>2, <3>4 DEF Means
    <3>6. k \in k .. types
      BY <1>1
    <3> QED BY <3>3, <3>5, <3>6, <2>1
  <2>6. CASE ~Closes(k)
    <3>1. Token(p + 1) = Or /\ k # n /\ Place(k + 1) = p + 2
      BY <2>1, <2>6, <1>1, Around
    <3>2. PICK e \in k + 1 .. types :
            /\ ToEnd(k + 1, e)
            /\ Means(read[Place(k + 1)].disjunction, Some(T, k + 1, e), Place(e) + 1)
      BY <3>1, <1>2
    <3>3. (p + 1) + 1 = p + 2
      OBVIOUS
    <3>4. Means(read[(p + 1) + 1].disjunction, Some(T, k + 1, e), Place(e) + 1)
      BY <3>1, <3>2, <3>3
    <3>5. Disjunction(read, T, p) =
            [ok |-> read[(p + 1) + 1].disjunction.ok,
             value |-> Conjunction(read, T, p).value \/ read[(p + 1) + 1].disjunction.value,
             next |-> read[(p + 1) + 1].disjunction.next]
      BY <2>4, <3>1 DEF Disjunction
    <3>6. Means(Disjunction(read, T, p), k \in T \/ Some(T, k + 1, e), Place(e) + 1)
      BY <2>2, <3>4, <3>5 DEF Means
    <3>7. Some(T, k, e) <=> (k \in T \/ Some(T, k + 1, e))
      <4>1. \A m \in k .. e : m = k \/ m \in k + 1 .. e
        BY <1>1
      <4>2. k \in k .. e /\ \A m \in k + 1 .. e : m \in k .. e
        BY <1>1
      <4> QED BY <4>1, <4>2 DEF Some
    <3>8. ToEnd(k, e)
      <4>1. \A m \in k .. e - 1 : m = k \/ m \in k + 1 .. e - 1
        BY <1>1
      <4>2. e \in k .. types
        BY <1>1
      <4> QED BY <4>1, <4>2, <3>2, <2>6 DEF ToEnd
    <3>9. e \in k .. types
      BY <1>1
    <3> QED BY <3>6, <3>7, <3>8, <3>9, <2>1, <2>3 DEF Means
  <2> QED BY <2>5, <2>6
<1>3. ASSUME Bad # {} PROVE FALSE
  <2>1. PICK d \in Bad : \A e \in Bad : d <= e
    <3>1. Bad \in SUBSET Nat
      BY <1>1
    <3> HIDE DEF Bad
    <3> QED BY <1>3, <3>1, LeastNat
  <2>2. PICK k \in 1 .. n : k = n - d
    BY <1>1, <2>1
  <2>3. ~Inside(k)
    BY <2>1, <2>2
  <2>4. k # n => Inside(k + 1)
    <3>1. k # n => d - 1 \in 0 .. n - 1 /\ ~(d <= d - 1) /\ n - (d - 1) = k + 1
      BY <1>1, <2>1, <2>2
    <3>2. k # n => d - 1 \notin Bad
      BY <3>1, <2>1
    <3> HIDE DEF Inside
    <3> QED BY <3>1, <3>2
  <2> HIDE DEF Inside
  <2> QED BY <2>3, <2>4, <1>2
<1>4. \A k \in 1 .. n : Inside(k)
  <2> TAKE k \in 1 .. n
  <2>1. n - k \in 0 .. n - 1 /\ n - (n - k) = k
    BY <1>1
  <2> HIDE DEF Inside
  <2> QED BY <2>1, <1>3
<1> QED BY <1>1, <1>4


\* Comparisons with no "and" between them are of one group; the number of the
\* group never goes down.
LEMMA SameGroup ==
  ASSUME NEW k \in Nat, NEW e \in Nat, k <= e, \A m \in k .. e - 1 : relation[m] # "and"
  PROVE  Group(e) = Group(k)
<1>1. {m \in 1 .. e - 1 : relation[m] = "and"} = {m \in 1 .. k - 1 : relation[m] = "and"}
  <2>1. \A m \in 1 .. e - 1 : m \in 1 .. k - 1 \/ m \in k .. e - 1
    OBVIOUS
  <2>2. \A m \in 1 .. k - 1 : m \in 1 .. e - 1
    OBVIOUS
  <2> QED BY <2>1, <2>2
<1> QED BY <1>1 DEF Group

LEMMA GroupsOrdered ==
  ASSUME NEW k \in Nat, NEW e \in Nat, k <= e
  PROVE  Group(k) <= Group(e)
<1>1. \A m \in 1 .. k - 1 : m \in 1 .. e - 1
  OBVIOUS
<1>2. {m \in 1 .. k - 1 : relation[m] = "and"} \subseteq {m \in 1 .. e - 1 : relation[m] = "and"}
  BY <1>1
<1>3. IsFiniteSet({m \in 1 .. e - 1 : relation[m] = "and"})
  BY GroupTyped
<1> QED BY <1>2, <1>3, FS_Subset DEF Group

\* Every group from comparison k on has a comparison that holds.
Rest(T, k) ==
  \A h \in k .. types : \E m \in k .. types : Group(m) = Group(h) /\ m \in T

LEMMA RestSplits ==
  ASSUME NEW T, types \in Nat, NEW k \in 1 .. types, NEW e \in k .. types, ToEnd(k, e)
  PROVE  /\ e = types => (Rest(T, k) <=> Some(T, k, e))
         /\ e # types => (Rest(T, k) <=> Some(T, k, e) /\ Rest(T, e + 1))
<1>1. k \in Nat \ {0} /\ e \in Nat \ {0} /\ k <= e /\ e <= types
  OBVIOUS
<1>2. PICK G \in Nat : G = Group(k)
  BY <1>1, GroupTyped
<1>3. \A m \in k .. e : Group(m) = G
  <2> TAKE m \in k .. e
  <2>1. m \in Nat /\ k <= m /\ \A h \in k .. m - 1 : h \in k .. e - 1
    BY <1>1
  <2>2. \A h \in k .. m - 1 : relation[h] # "and"
    BY <2>1 DEF ToEnd, Closes
  <2> QED BY <2>1, <2>2, <1>1, <1>2, SameGroup
<1>4. \A m \in e + 1 .. types : Group(m) \in Nat /\ Group(m) > G
  <2> TAKE m \in e + 1 .. types
  <2>1. m \in Nat /\ e + 1 \in Nat /\ e + 1 <= m /\ e # types
    BY <1>1
  <2>2. relation[e] = "and"
    BY <2>1 DEF ToEnd, Closes
  <2>3. Group(e + 1) = Group(e) + 1
    BY <1>1, <2>2, NextGroup
  <2>4. Group(e) = G
    BY <1>1, <1>3
  <2>5. Group(e + 1) <= Group(m)
    BY <2>1, GroupsOrdered
  <2>6. Group(m) \in Nat
    BY <2>1, GroupTyped
  <2> QED BY <2>3, <2>4, <2>5, <2>6, <1>2
<1>5. \A m \in k .. types : m \in k .. e \/ m \in e + 1 .. types
  BY <1>1
<1>6. (\A m \in k .. e : m \in k .. types) /\ (\A m \in e + 1 .. types : m \in k .. types)
  BY <1>1
<1>7. ASSUME Rest(T, k) PROVE Some(T, k, e)
  <2>1. k \in k .. types
    BY <1>1
  <2>2. PICK m \in k .. types : Group(m) = Group(k) /\ m \in T
    BY <2>1, <1>7 DEF Rest
  <2>3. m \notin e + 1 .. types
    BY <2>2, <1>2, <1>4
  <2> QED BY <2>2, <2>3, <1>5 DEF Some
<1>8. ASSUME Rest(T, k) PROVE Rest(T, e + 1)
  <2> SUFFICES ASSUME NEW h \in e + 1 .. types
               PROVE  \E m \in e + 1 .. types : Group(m) = Group(h) /\ m \in T
    BY DEF Rest
  <2>1. h \in k .. types
    BY <1>6
  <2>2. PICK m \in k .. types : Group(m) = Group(h) /\ m \in T
    BY <2>1, <1>8 DEF Rest
  <2>3. m \notin k .. e
    BY <2>2, <1>2, <1>3, <1>4
  <2> QED BY <2>2, <2>3, <1>5
<1>9. ASSUME Some(T, k, e), Rest(T, e + 1) \/ e = types PROVE Rest(T, k)
  <2> SUFFICES ASSUME NEW h \in k .. types
               PROVE  \E m \in k .. types : Group(m) = Group(h) /\ m \in T
    BY DEF Rest
  <2>1. CASE h \in k .. e
    <3>1. PICK m \in k .. e : m \in T
      BY <1>9 DEF Some
    <3>2. Group(m) = Group(h) /\ m \in k .. types
      BY <2>1, <1>3, <1>6
    <3> QED BY <3>1, <3>2
  <2>2. CASE h \in e + 1 .. types
    <3>1. e # types
      BY <2>2, <1>1
    <3>2. PICK m \in e + 1 .. types : Group(m) = Group(h) /\ m \in T
      BY <2>2, <3>1, <1>9 DEF Rest
    <3> QED BY <3>2, <1>6
  <2> QED BY <2>1, <2>2, <1>5
<1> QED BY <1>7, <1>8, <1>9

\* A group with its closing parenthesis is accepted.
LEMMA ClosedIsAccepted ==
  ASSUME NEW r, NEW d, NEW v, NEW p,
         r = [ok |-> d.ok /\ Token(d.next) = RParen, value |-> v, next |-> p],
         d.ok, Token(d.next) = RParen
  PROVE  r.ok
<1>1. r.ok <=> d.ok /\ Token(d.next) = RParen
  BY Zenon
<1> QED BY <1>1

\* From the parenthesis of a group on, the rest is read as a conjunction to
\* the end of the condition.
LEMMA ReadGroups ==
  ASSUME ConditionInv, at = "done", NEW T, NEW read,
         \A p \in 1 .. Len(sq) + 1 : read[p].conjunction = Conjunction(read, T, p),
         \A p \in 1 .. Len(sq) + 1 : read[p].disjunction = Disjunction(read, T, p)
  PROVE  \A k \in 1 .. types :
           Opens(k) => Means(read[Place(k) - 1].conjunction, Rest(T, k), Len(sq))
<1>1. PICK n \in Nat : n = types
  BY MaxSizeNat DEF ConditionInv, ConditionTyped
<1> DEFINE From(k) == Opens(k) => Means(read[Place(k) - 1].conjunction, Rest(T, k), Len(sq))
           Bad == {d \in 0 .. n - 1 : ~From(n - d)}
<1>2. ASSUME NEW k \in 1 .. n, \A e \in k + 1 .. n : From(e) PROVE From(k)
  <2> SUFFICES ASSUME Opens(k)
               PROVE  Means(read[Place(k) - 1].conjunction, Rest(T, k), Len(sq))
    OBVIOUS
  <2>1. PICK p \in Nat : p = Place(k) - 1 /\ p > 0 /\ p <= Len(sq) /\ Token(p) = LParen
    BY <1>1, Around
  <2>2. PICK e \in k .. types : ToEnd(k, e) /\ Means(read[Place(k)].disjunction, Some(T, k, e), Place(e) + 1)
    BY <1>1, ReadGroup
  <2>3. e \in 1 .. types /\ Closes(e)
    BY <1>1, <2>2 DEF ToEnd
  <2>4. PICK q \in Nat : q = Place(e)
    BY <2>3, Around
  <2>5. Token(q + 1) = RParen
    BY <2>3, <2>4, Around
  <2>6. Means(read[p + 1].disjunction, Some(T, k, e), q + 1)
    <3>1. p + 1 = Place(k)
      BY <2>1, <1>1, Around
    <3> QED BY <3>1, <2>2, <2>4
  <2>7. Means(Term(read, T, p), Some(T, k, e), q + 2)
    <3>1. ~(Token(p) > 0)
      BY <2>1 DEF LParen
    <3>2. Term(read, T, p) = [ok |-> read[p + 1].disjunction.ok
                                       /\ Token(read[p + 1].disjunction.next) = RParen,
                              value |-> read[p + 1].disjunction.value,
                              next |-> read[p + 1].disjunction.next + 1]
      BY <2>1, <3>1 DEF Term
    <3>3. (q + 1) + 1 = q + 2
      OBVIOUS
    <3>4. PICK d : d = read[p + 1].disjunction
      OBVIOUS
    <3>5. d.ok /\ d.next = q + 1 /\ d.value \in BOOLEAN /\ (d.value <=> Some(T, k, e))
      BY <2>6, <3>4 DEF Means
    <3>6. Term(read, T, p).ok /\ Term(read, T, p).next = q + 2
      <4>1. Term(read, T, p) = [ok |-> d.ok /\ Token(d.next) = RParen,
                                value |-> d.value, next |-> d.next + 1]
        BY <3>2, <3>4
      <4>2. d.ok /\ Token(d.next) = RParen
        BY <2>5, <3>5
      <4>3. Term(read, T, p).ok
        BY <4>1, <4>2, ClosedIsAccepted
      <4>4. Term(read, T, p).next = d.next + 1
        BY <4>1
      <4> QED BY <4>3, <4>4, <3>3, <3>5
    <3>7. Term(read, T, p).value = d.value
      BY <3>2, <3>4
    <3> QED BY <3>5, <3>6, <3>7 DEF Means
  <2>8. read[p].conjunction = Conjunction(read, T, p)
    <3>1. p \in 1 .. Len(sq) + 1
      BY <2>1, <1>1, Around
    <3> QED BY <3>1
  <2>9. CASE e = types
    <3>1. Token(q + 2) # And /\ q + 2 = Len(sq)
      BY <2>3, <2>4, <2>9, Around DEF And, Stop
    <3>2. Conjunction(read, T, p) = Term(read, T, p)
      BY <2>7, <3>1 DEF Conjunction, Means
    <3>3. Rest(T, k) <=> Some(T, k, e)
      BY <1>1, <2>2, <2>9, RestSplits
    <3> QED BY <2>1, <2>7, <2>8, <3>1, <3>2, <3>3 DEF Means
  <2>10. CASE e # types
    <3>1. Token(q + 2) = And /\ Opens(e + 1) /\ Place(e + 1) = q + 4
      BY <2>3, <2>4, <2>10, Around
    <3>2. e + 1 \in k + 1 .. n
      BY <1>1, <2>2, <2>10
    <3>3. Means(read[(q + 2) + 1].conjunction, Rest(T, e + 1), Len(sq))
      <4>1. Place(e + 1) - 1 = (q + 2) + 1
        BY <3>1
      <4> QED BY <4>1, <3>1, <3>2, <1>2
    <3>4. Conjunction(read, T, p) =
            [ok |-> read[(q + 2) + 1].conjunction.ok,
             value |-> Term(read, T, p).value /\ read[(q + 2) + 1].conjunction.value,
             next |-> read[(q + 2) + 1].conjunction.next]
      BY <2>7, <3>1 DEF Conjunction, Means
    <3>5. Means(Conjunction(read, T, p), Some(T, k, e) /\ Rest(T, e + 1), Len(sq))
      BY <2>7, <3>3, <3>4 DEF Means
    <3>6. Rest(T, k) <=> Some(T, k, e) /\ Rest(T, e + 1)
      BY <1>1, <2>2, <2>10, RestSplits
    <3> QED BY <2>1, <2>8, <3>5, <3>6 DEF Means
  <2> QED BY <2>9, <2>10
<1>3. ASSUME Bad # {} PROVE FALSE
  <2>1. PICK d \in Bad : \A e \in Bad : d <= e
    <3>1. Bad \in SUBSET Nat
      BY <1>1
    <3> HIDE DEF Bad
    <3> QED BY <1>3, <3>1, LeastNat
  <2>2. PICK k \in 1 .. n : k = n - d
    BY <1>1, <2>1
  <2>3. ~From(k)
    BY <2>1, <2>2
  <2>4. ASSUME NEW e \in k + 1 .. n PROVE From(e)
    <3>1. n - e \in 0 .. n - 1 /\ ~(d <= n - e) /\ n - (n - e) = e
      BY <1>1, <2>1, <2>2
    <3>2. n - e \notin Bad
      BY <3>1, <2>1
    <3> HIDE DEF From
    <3> QED BY <3>1, <3>2
  <2> HIDE DEF From
  <2> QED BY <2>3, <2>4, <1>2
<1>4. \A k \in 1 .. n : From(k)
  <2> TAKE k \in 1 .. n
  <2>1. n - k \in 0 .. n - 1 /\ n - (n - k) = k
    BY <1>1
  <2> HIDE DEF From
  <2> QED BY <2>1, <1>3
<1> QED BY <1>1, <1>4

LEMMA ConditionMeans == ConditionInv => MeansGroups
<1> SUFFICES ASSUME ConditionInv, at = "done", NEW T \in SUBSET (1 .. types)
             PROVE  /\ Read(T).ok /\ Token(Read(T).next) = Stop /\ Read(T).next = Len(sq)
                    /\ Read(T).value = \A k \in 1 .. types :
                                         \E m \in 1 .. types : Group(m) = Group(k) /\ m \in T
  BY DEF MeansGroups
<1>1. types \in Nat /\ types > 0 /\ sq \in Seq(Tokens)
  BY MaxSizeNat DEF ConditionInv, ConditionTyped
<1>2. sq \in Seq(Int)
  <2>1. Tokens \subseteq Int
    BY MaxSizeNat DEF Tokens, Stop, LParen
  <2>2. \A m \in 1 .. Len(sq) : sq[m] \in Int
    BY <1>1, <2>1, ElementOfSeq
  <2> QED BY <1>1, <2>2, SeqMonotonic
<1>3. PICK read : /\ Read(T) = read[1].disjunction
                  /\ \A p \in 1 .. Len(sq) + 1 :
                       /\ read[p].conjunction = Conjunction(read, T, p)
                       /\ read[p].disjunction = Disjunction(read, T, p)
  BY <1>2, ReadByReading
<1>4. Opens(1) /\ 1 \in 1 .. types /\ types \in 1 .. types
  BY <1>1 DEF Opens
<1>5. Place(1) - 1 = 1
  BY FirstGroup DEF Place
<1>6. Means(read[1].conjunction, Rest(T, 1), Len(sq))
  BY <1>3, <1>4, <1>5, ReadGroups
<1>7. Len(sq) \in Nat /\ Token(Len(sq)) = Stop
  BY <1>4, Around
<1>8. Means(Read(T), Rest(T, 1), Len(sq))
  <2>1. 1 \in 1 .. Len(sq) + 1
    BY <1>7
  <2>2. read[1].conjunction = Conjunction(read, T, 1) /\ Read(T) = Disjunction(read, T, 1)
    BY <1>3, <2>1
  <2>3. Disjunction(read, T, 1) = Conjunction(read, T, 1)
    BY <1>6, <1>7, <2>2 DEF Disjunction, Means, Stop, Or
  <2> QED BY <1>6, <2>2, <2>3
<1>9. Read(T).value = \A k \in 1 .. types :
                         \E m \in 1 .. types : Group(m) = Group(k) /\ m \in T
  <2>1. Read(T).value \in BOOLEAN /\ (Read(T).value <=> Rest(T, 1))
    BY <1>8 DEF Means
  <2>2. PICK v \in BOOLEAN : v = Read(T).value
    BY <2>1
  <2>3. v <=> \A k \in 1 .. types :
                \E m \in 1 .. types : Group(m) = Group(k) /\ m \in T
    BY <2>1, <2>2 DEF Rest
  <2>4. v = \A k \in 1 .. types :
              \E m \in 1 .. types : Group(m) = Group(k) /\ m \in T
    BY <2>3, Zenon
  <2> QED BY <2>2, <2>4, Zenon
<1>10. Read(T).ok /\ Read(T).next = Len(sq)
  BY <1>8 DEF Means
<1> QED BY <1>7, <1>9, <1>10, Zenon


-----------------------------------------------------------------------------
(* The values of all variables.                                            *)

ArraysTyped ==
  /\ color \in Arrays \cup {Wild} /\ type \in Arrays \cup {Wild}
  /\ cin \in {"good", "person", "failed"}
  /\ undefined \in BOOLEAN /\ alive \in BOOLEAN

LEMMA ArrayIsInArrays ==
  ASSUME NEW count \in 0 .. MaxCount, NEW s \in [0 .. count - 1 -> Names \cup {Blank}]
  PROVE  s \in Arrays
<1>1. count - 1 \in -1 .. MaxCount - 1
  BY MaxCountNat
<1> QED BY <1>1 DEF Arrays

LEMMA ArrayHasCount ==
  ASSUME NEW s \in Arrays
  PROVE  \E count \in 0 .. MaxCount : s \in [0 .. count - 1 -> Names \cup {Blank}]
<1>1. PICK m \in -1 .. MaxCount - 1 : s \in [0 .. m -> Names \cup {Blank}]
  BY DEF Arrays
<1>2. m + 1 \in 0 .. MaxCount /\ (m + 1) - 1 = m
  BY MaxCountNat
<1> QED BY <1>1, <1>2

LEMMA FileIsFunction ==
  ASSUME NEW S, NEW s \in UNION {[1 .. m -> S] : m \in 0 .. MaxNames}
  PROVE  \E m \in Nat : s \in [1 .. m -> S] /\ Len(s) = m
<1>1. PICK m \in 0 .. MaxNames : s \in [1 .. m -> S]
  OBVIOUS
<1>2. m \in Nat /\ Len(s) = m
  BY <1>1
<1> QED BY <1>1, <1>2

\* What is stored is what the array had, or the name of the last turn.
LEMMA StoredTyped ==
  ASSUME NEW count \in 0 .. MaxCount, NEW array \in [0 .. count - 1 -> Names \cup {Blank}],
         NEW numbers \in Numbers, NEW file \in Files
  PROVE  Stored(array, numbers, file) \in [0 .. count - 1 -> Names \cup {Blank}]
<1>1. PICK n \in Nat : numbers \in [1 .. n -> 0 .. MaxCount] /\ Len(numbers) = n
  BY FileIsFunction DEF Numbers
<1>2. PICK l \in Nat : file \in [1 .. l -> Names] /\ Len(file) = l
  BY FileIsFunction DEF Files
<1> DEFINE turns(k) == {m \in DOMAIN numbers : numbers[m] = k /\ m <= Len(file)}
<1>3. ASSUME NEW k \in 0 .. count - 1, turns(k) # {}
      PROVE  file[CHOOSE m \in turns(k) : \A h \in turns(k) : h <= m] \in Names
  <2>1. \A m \in turns(k) : m \in 1 .. n /\ m \in 1 .. l
    BY <1>1, <1>2
  <2>2. PICK D : D = {n - m : m \in turns(k)}
    OBVIOUS
  <2>3. D \in SUBSET Nat /\ D # {}
    BY <1>1, <1>3, <2>1, <2>2
  <2>4. PICK x \in D : \A y \in D : x <= y
    BY <2>3, LeastNat
  <2>5. PICK m \in turns(k) : x = n - m
    BY <2>2, <2>4
  <2>6. \A h \in turns(k) : h <= m
    <3> TAKE h \in turns(k)
    <3>1. n - h \in D
      BY <2>2
    <3>2. n - m <= n - h
      BY <2>4, <2>5, <3>1
    <3> QED BY <1>1, <2>1, <3>2
  <2>7. PICK c : c = CHOOSE q \in turns(k) : \A h \in turns(k) : h <= q
    OBVIOUS
  <2> HIDE DEF turns
  <2>8. c \in turns(k)
    BY <2>6, <2>7
  <2>9. c \in 1 .. l
    BY <2>1, <2>8
  <2> QED BY <1>2, <2>7, <2>9
<1>4. DOMAIN array = 0 .. count - 1
  OBVIOUS
<1>5. Stored(array, numbers, file) =
        [k \in 0 .. count - 1 |->
           IF turns(k) = {} THEN array[k]
           ELSE file[CHOOSE m \in turns(k) : \A h \in turns(k) : h <= m]]
  BY <1>4 DEF Stored
<1> HIDE DEF turns
<1> QED BY <1>3, <1>5

LEMMA StepArrays == ArraysTyped /\ [TablesNext]_tablesVars => ArraysTyped'
<1> SUFFICES ASSUME ArraysTyped, [TablesNext]_tablesVars PROVE ArraysTyped'
  OBVIOUS
<1>1. CASE UNCHANGED tablesVars
  BY <1>1 DEF tablesVars, ArraysTyped
<1>2. ASSUME NEW file \in Files, NEW count \in 0 .. MaxCount, InitMapColor(file, count)
      PROVE  ArraysTyped'
  <2>1. PICK l \in Nat : file \in [1 .. l -> Names] /\ Len(file) = l
    BY FileIsFunction DEF Files
  <2>2. color' \in [0 .. count - 1 -> Names \cup {Blank}]
    BY <1>2, <2>1 DEF InitMapColor
  <2>3. color' \in Arrays
    BY <2>2, ArrayIsInArrays
  <2> QED BY <1>2, <2>3 DEF InitMapColor, ArraysTyped
<1>3. ASSUME NEW file \in Files, NEW count \in 0 .. MaxCount, NEW numbers \in Numbers,
             InitMapType(numbers, file, count)
      PROVE  ArraysTyped'
  <2>1. type' \in Arrays
    <3>1. type' \in [0 .. count - 1 -> Names \cup {Blank}]
      BY <1>3 DEF InitMapType, Fresh
    <3> QED BY <3>1, ArrayIsInArrays
  <2>2. color' = color \/ (color # Wild /\ color' = Stored(color, numbers, file))
    BY <1>3 DEF InitMapType
  <2>3. color' \in Arrays \cup {Wild}
    <3>1. CASE color # Wild /\ color' = Stored(color, numbers, file)
      <4>1. PICK c \in 0 .. MaxCount : color \in [0 .. c - 1 -> Names \cup {Blank}]
        BY <3>1, ArrayHasCount DEF ArraysTyped
      <4>2. color' \in [0 .. c - 1 -> Names \cup {Blank}]
        BY <3>1, <4>1, StoredTyped
      <4> QED BY <4>2, ArrayIsInArrays
    <3> QED BY <3>1, <2>2 DEF ArraysTyped
  <2>4. cin' = "failed" /\ undefined' \in BOOLEAN /\ alive' = alive
    BY <1>3 DEF InitMapType, ArraysTyped
  <2> QED BY <2>1, <2>3, <2>4 DEF ArraysTyped
<1>4. ASSUME NEW name \in Names, NEW value \in Names, NEW a \in -1 .. Values,
             PersonLine(name, a, value)
      PROVE  ArraysTyped'
  BY <1>4 DEF PersonLine, PersonLineAs, ArraysTyped
<1>5. CASE PersonEnd
  BY <1>5 DEF PersonEnd, ArraysTyped
<1>6. CASE Destroy
  BY <1>6 DEF Destroy, ArraysTyped
<1> QED BY <1>1, <1>2, <1>3, <1>4, <1>5, <1>6 DEF TablesNext

StoreInv == ConditionInv /\ PersonInv /\ ArraysTyped /\ QueryInv

(* The inductive invariant of the store's three parts.                     *)
THEOREM Invariance == Spec => []StoreInv
<1>1. Init => StoreInv
  <2> SUFFICES ASSUME Init PROVE StoreInv
    OBVIOUS
  <2>1. ConditionInv /\ PersonInv /\ QueryInv
    BY InitCondition, InitPerson, InitQuery DEF Init
  <2>2. ArraysTyped
    BY DEF Init, TablesInit, ArraysTyped
  <2> QED BY <2>1, <2>2 DEF StoreInv
<1>2. StoreInv /\ [Next]_vars => StoreInv'
  <2> SUFFICES ASSUME StoreInv, [Next]_vars PROVE StoreInv'
    OBVIOUS
  <2>1. [ConditionNext]_conditionVars
    BY DEF Next, vars, conditionVars
  <2>2. [TablesNext]_tablesVars
    BY DEF Next, vars, tablesVars
  <2>3. [QueryNext]_queryVars
    BY DEF Next, vars, queryVars
  <2> QED BY <2>1, <2>2, <2>3, StepCondition, StepPerson, StepArrays, StepQueryInv DEF StoreInv
<1> QED BY <1>1, <1>2, PTL DEF Spec

LEMMA StoreTyped == StoreInv => TypeOK
<1> SUFFICES ASSUME StoreInv PROVE TypeOK
  OBVIOUS
<1>1. ConditionTypeOK
  <2>1. j \in 1 .. MaxSize + 1
    <3>1. types \in 0 .. MaxSize /\ (j \in 1 .. types \/ j = types + 1 \/ j = 1)
      BY DEF StoreInv, ConditionInv, ConditionTyped
    <3> QED BY <3>1, MaxSizeNat
  <2> QED BY <2>1 DEF StoreInv, ConditionInv, ConditionTyped, ConditionTypeOK, Tokens
<1>2. TablesTypeOK
  <2>1. \A name \in DOMAIN person :
          name \in Names /\ person[name] \in [0 .. Values - 1 -> Names \cup {""}]
    <3> TAKE name \in DOMAIN person
    <3>1. lines \in Seq(Lines) /\ person \in [{lines[n][1] : n \in DOMAIN lines} -> Attributes]
      BY DEF StoreInv, PersonInv, PersonTyped
    <3>2. PICK n \in DOMAIN lines : name = lines[n][1]
      BY <3>1
    <3>3. lines[n] \in Lines
      BY <3>1, <3>2, ElementOfSeq, LenProperties
    <3> QED BY <3>1, <3>2, <3>3 DEF Lines, Attributes
  <2> QED BY <2>1 DEF StoreInv, ArraysTyped, TablesTypeOK
<1>3. QueryTypeOK
  BY Positions DEF StoreInv, QueryInv, QueryTyped, QueryTypeOK
<1> QED BY <1>1, <1>2, <1>3 DEF TypeOK

(* ConditionMeansGroups: the variables have their values, the label tells  *)
(* whether a group is open, and the condition that is made is accepted by  *)
(* SQL and means the conjunction of its groups of alternatives.            *)
THEOREM ConditionIsGroups == Spec => []ConditionMeansGroups
<1>1. StoreInv => ConditionMeansGroups
  BY StoreTyped, ConditionMeans DEF StoreInv, ConditionInv, ConditionMeansGroups
<1> QED BY <1>1, Invariance, PTL

(* PersonComplete: every value read is under its name and number until     *)
(* another line with both comes, but for a line that resumes an attribute. *)
THEOREM PersonIsComplete == Spec => []PersonComplete
<1>1. StoreInv => PersonComplete
  BY DEF StoreInv, PersonInv
<1> QED BY <1>1, Invariance, PTL

(* SingleRowExact: with an answer of at most one row the positions are     *)
(* exactly those of the neighbours in it, and they fit into the array.     *)
THEOREM SingleRowIsExact == Spec => []SingleRowExact
<1>1. StoreInv => SingleRowExact
  BY QueryExact DEF StoreInv
<1> QED BY <1>1, Invariance, PTL
=============================================================================
