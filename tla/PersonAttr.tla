----------------------------- MODULE PersonAttr ----------------------------
(***************************************************************************)
(* A PersonAttr object (src/include/personAttr.h,                          *)
(* src/src/personAttr/personAttr.cpp): the thresholds read when it is      *)
(* constructed, get_att, which reads four matrices and returns a score for *)
(* each of the 109 attributes of each person, and peta_att_union, which    *)
(* turns the scores into 64 answers for each person.                       *)
(*                                                                         *)
(* The scores are the numbers of a matrix product; of a score only its     *)
(* margin over the attribute's threshold counts.  Matrices are flat, row   *)
(* by row: the element of attribute i and person j is at i * ImgNum + j.   *)
(***************************************************************************)
EXTENDS Integers, Sequences, FiniteSets

CONSTANTS ImgNum,        \* persons of a call
          MaxMargin,     \* bound on a margin
          Floor,         \* a margin that is not over -100000, or not a number
          Products,      \* bound: the margins get_att may return
          Descriptors,   \* the files the process may have open
          Started,       \* those open before the object exists
          Null

ASSUME ImgNumNat == ImgNum \in Nat \ {0}
ASSUME MarginInt == MaxMargin \in Nat /\ Floor \in Int /\ Floor < 0
ASSUME ProductsMargins ==
  Products \subseteq [0 .. 109 * ImgNum - 1 -> Floor .. MaxMargin]
ASSUME DescriptorsNat == Descriptors \in Nat /\ Started \in 0 .. Descriptors

VARIABLES pc,            \* "new", "idle", "persons", "crashed", "gone"
          open,          \* the open files of the process
          X_f,           \* the last scores, as margins, or Null
          ans,           \* the last answers, or Null
          j              \* the person of peta_att_union's outer loop

attrVars == <<pc, open, X_f, ans, j>>

AttrInit ==
  /\ pc = "new"
  /\ open = Started
  /\ X_f = Null /\ ans = Null
  /\ j = 0

\* n calls of readFile: none closes its file, and one that cannot open its
\* file prints that and reads from the null pointer.
ReadFiles(n) == open + n

Construct ==
  /\ pc = "new"
  /\ IF ReadFiles(1) <= Descriptors
       THEN pc' = "idle" /\ open' = ReadFiles(1)
       ELSE pc' = "crashed" /\ UNCHANGED open
  /\ UNCHANGED <<X_f, ans, j>>

\* get_att: invDwTDw.txt, invWtW.txt, Dw.txt, W.txt, then the products.  The
\* caller has used and freed the scores of the call before.
get_att ==
  /\ pc = "idle" /\ X_f = Null
  /\ IF ReadFiles(4) <= Descriptors
       THEN /\ open' = ReadFiles(4)
            /\ X_f' \in Products
            /\ UNCHANGED pc
       ELSE pc' = "crashed" /\ UNCHANGED <<open, X_f>>
  /\ UNCHANGED <<ans, j>>

\* peta_att_union: the 64 answers of every person are -1 at first.
Union ==
  /\ pc = "idle" /\ X_f # Null
  /\ ans' = [a \in 0 .. 64 * ImgNum - 1 |-> -1]
  /\ j' = 0 /\ pc' = "persons"
  /\ UNCHANGED <<open, X_f>>

Element(i, col) == X_f[i * ImgNum + col]

\* att_compare, at every attribute: a margin of 1e-13 or more counts as over.
compare_with_thr == [now \in DOMAIN X_f |-> IF X_f[now] > 0 THEN 1 ELSE 0]

\* Faulty: the search starts after the first attribute of the group.
union_XShort(col, left, right) ==
  LET over == {i \in left + 1 .. right : Element(i, col) > Floor}
      top == {i \in over : \A h \in over : Element(h, col) <= Element(i, col)}
      k == IF top = {} THEN 0 ELSE CHOOSE i \in top : \A h \in top : i <= h
  IN  k - left

\* union_X: k is the first of the largest margins over -100000, 0 if none is.
union_X(col, left, right) ==
  LET over == {i \in left .. right : Element(i, col) > Floor}
      top == {i \in over : \A h \in over : Element(h, col) <= Element(i, col)}
      k == IF top = {} THEN 0 ELSE CHOOSE i \in top : \A h \in top : i <= h
  IN  k - left

\* The answer i of person col, as the loops over i and k assign it.
Answer(i, col) ==
  LET binary(a) == compare_with_thr[a * ImgNum + col]
      k == i - 59
  IN  CASE i = 0         -> binary(0)
        [] i \in 1 .. 10  -> binary(i + 5)
        [] i \in 11 .. 27 -> binary(i + 6)
        [] i \in 28 .. 57 -> binary(i + 7)
        [] i = 58        -> union_X(col, 1, 5)
        [] i = 59        -> IF Element(16, col) > Element(34, col) THEN 0 ELSE 1
        [] i \in 60 .. 63 -> union_X(col, 64 + k + (k - 1) * 10, 64 + k + k * 10)

\* One turn of peta_att_union's outer loop.
Person ==
  /\ pc = "persons" /\ j < ImgNum
  /\ ans' = [a \in DOMAIN ans |->
               IF a % ImgNum = j THEN Answer(a \div ImgNum, j) ELSE ans[a]]
  /\ j' = j + 1
  /\ UNCHANGED <<pc, open, X_f>>

\* The answers are returned; the caller frees them and the scores.
UnionReturns ==
  /\ pc = "persons" /\ j = ImgNum
  /\ pc' = "idle"
  /\ X_f' = Null /\ ans' = Null /\ j' = 0
  /\ UNCHANGED open

\* ~PersonAttr: only the thresholds are given back.
Destroy ==
  /\ pc = "idle"
  /\ pc' = "gone"
  /\ UNCHANGED <<open, X_f, ans, j>>

AttrNext ==
  Construct \/ get_att \/ Union \/ Person \/ UnionReturns \/ Destroy

AttrSpec == AttrInit /\ [][AttrNext]_attrVars

-----------------------------------------------------------------------------
\* src/personAttrFile/att_index.txt: for each answer, numbered from 1, the
\* numbers, from 1, of the attributes its values stand for.  The first 58
\* have the values negative and positive of one attribute.
Simple == <<1>> \o [n \in 1 .. 10 |-> 6 + n] \o [n \in 1 .. 17 |-> 17 + n]
                \o [n \in 1 .. 30 |-> 35 + n]
Grouped == [age       |-> <<59, <<2, 3, 4, 5, 6>> >>,
            gender    |-> <<60, <<17, 35>> >>,
            footwear  |-> <<61, [n \in 1 .. 11 |-> 65 + n]>>,
            hair      |-> <<62, [n \in 1 .. 11 |-> 76 + n]>>,
            lowerBody |-> <<63, [n \in 1 .. 11 |-> 87 + n]>>,
            upperBody |-> <<64, [n \in 1 .. 11 |-> 98 + n]>>]

AttrTypeOK ==
  /\ pc \in {"new", "idle", "persons", "crashed", "gone"}
  /\ open \in 0 .. Descriptors
  /\ X_f # Null => X_f \in [0 .. 109 * ImgNum - 1 -> Floor .. MaxMargin]
  /\ ans # Null => DOMAIN ans = 0 .. 64 * ImgNum - 1
  /\ j \in 0 .. ImgNum

Answered(col, number) == ans[(number - 1) * ImgNum + col]
Margin(col, attribute) == X_f[(attribute - 1) * ImgNum + col]
Returned == pc = "persons" /\ j = ImgNum

\* The 58 simple answers are those of the attributes the table names.
SimpleByTable ==
  Returned =>
    /\ Len(Simple) = 58
    /\ \A col \in 0 .. ImgNum - 1, number \in 1 .. 58 :
         Answered(col, number) = IF Margin(col, Simple[number]) > 0 THEN 1 ELSE 0

\* Each grouped answer is a value of its line in the table, and that value's
\* attribute has the largest margin of the group, unless the margins of the
\* group are all too low to be seen.
GroupByTable ==
  Returned =>
    \A g \in DOMAIN Grouped, col \in 0 .. ImgNum - 1 :
      LET number == Grouped[g][1]
          of == Grouped[g][2]
          value == Answered(col, number) + 1
      IN  (\E v \in DOMAIN of : Margin(col, of[v]) > Floor) =>
            /\ value \in DOMAIN of
            /\ \A v \in DOMAIN of : Margin(col, of[v]) <= Margin(col, of[value])

(* The variables have their values, and the 64 answers for each person are *)
(* those that att_index.txt says: every shift of an index in               *)
(* peta_att_union's loops agrees with the table, person by person, however *)
(* often the object was asked as long as there are files to open.          *)
AnswersByTable == AttrTypeOK /\ SimpleByTable /\ GroupByTable
=============================================================================
