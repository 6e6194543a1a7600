--------------------------- MODULE AttributeQuery --------------------------
(***************************************************************************)
(* Steps 2 to 4 of FeatureWithAttrTest (src/src/main/                      *)
(* FeatureWithAttrTest.cpp:75-118): the labels faiss found for the picture,*)
(* the rows a FeatureSql query found in the table, and the positions of    *)
(* the first that are among the second; with the three searches of         *)
(* FeatureSql and its HandleResult (src/src/db/featureSql.cpp:57-118).     *)
(*                                                                         *)
(* The MySQL server and client are external: a query fails, which leaves   *)
(* no result to store, or has a sequence of different rows as its answer.  *)
(***************************************************************************)
EXTENDS Integers, Sequences, FiniteSets

CONSTANTS Ids,           \* the ids of the table, which are labels of the index
          K,             \* the neighbours asked of the index
          MaxRows,       \* bound on the rows of an answer
          Null           \* the null pointer

ASSUME KNat == K \in Nat
ASSUME IdsNat == Ids \subseteq Nat

VARIABLES pc,
          nns,           \* faiss's labels by position, -1 after the last
          rows,          \* rows of the answer not fetched yet
          result,        \* the array HandleResult allocates, or Null
          row_count,
          kk, i,         \* the counters of the two loops
          total_res,     \* the positions written to the array total_res
          answer         \* history: the rows of the answer

queryVars == <<pc, nns, rows, result, row_count, kk, i, total_res, answer>>

Distinct(s) == \A a, b \in DOMAIN s : s[a] = s[b] => a = b
Answers == UNION {{s \in [1 .. n -> Ids] : Distinct(s)} : n \in 0 .. MaxRows}

\* What an element of an array may hold before anything is written to it.
Garbage == Ids \cup {-1}

QueryInit ==
  /\ pc = "search"
  /\ nns = << >> /\ rows = << >> /\ answer = << >>
  /\ result = Null /\ row_count = 0
  /\ kk = 0 /\ i = 0
  /\ total_res = << >>

\* RetievalIndex: the labels found, padded with -1.
Search ==
  /\ pc = "search"
  /\ \E n \in 0 .. K : \E found \in {s \in [1 .. n -> Ids] : Distinct(s)} :
       nns' = [p \in 0 .. K - 1 |-> IF p < n THEN found[p + 1] ELSE -1]
  /\ pc' = "query"
  /\ UNCHANGED <<rows, result, row_count, kk, i, total_res, answer>>

\* searchWithUdType when AssembleSQL has refused the query.
Refused ==
  /\ pc = "query"
  /\ result' = Null /\ row_count' = 1
  /\ pc' = "intersect"
  /\ UNCHANGED <<nns, rows, kk, i, total_res, answer>>

\* mysql_query failed: mysql_store_result is NULL and mysql_num_rows crashes.
QueryFails ==
  /\ pc = "query"
  /\ pc' = "crashed"
  /\ UNCHANGED <<nns, rows, result, row_count, kk, i, total_res, answer>>

\* searchWithColor, searchWithType and searchWithUdType up to HandleResult's
\* allocation of an uninitialised array.
Query ==
  /\ pc = "query"
  /\ \E s \in Answers :
       /\ rows' = s /\ answer' = s
       /\ row_count' = Len(s)
       /\ result' \in [0 .. Len(s) - 1 -> Garbage]
  /\ pc' = "fetch"
  /\ UNCHANGED <<nns, kk, i, total_res>>

\* One turn of HandleResult's loop: num is never incremented.
FetchRow ==
  /\ pc = "fetch" /\ rows # << >>
  /\ result' = [result EXCEPT ![0] = Head(rows)]
  /\ rows' = Tail(rows)
  /\ UNCHANGED <<pc, nns, row_count, kk, i, total_res, answer>>

FetchEnd ==
  /\ pc = "fetch" /\ rows = << >>
  /\ pc' = "intersect"
  /\ UNCHANGED <<nns, rows, result, row_count, kk, i, total_res, answer>>

\* One turn of the inner loop: a null array is dereferenced; a match is
\* written to total_res, of K elements, at hasNum.
Compare ==
  /\ pc = "intersect" /\ kk < K /\ i < row_count
  /\ \/ result = Null /\ pc' = "crashed" /\ UNCHANGED <<i, total_res>>
     \/ /\ result # Null /\ result[i] = nns[kk] /\ Len(total_res) = K
        /\ pc' = "overflow" /\ UNCHANGED <<i, total_res>>
     \/ /\ result # Null /\ (result[i] = nns[kk] => Len(total_res) < K)
        /\ total_res' = IF result[i] = nns[kk] THEN Append(total_res, kk) ELSE total_res
        /\ i' = i + 1
        /\ UNCHANGED pc
  /\ UNCHANGED <<nns, rows, result, row_count, kk, answer>>

\* Faulty: the inner loop goes on where it stopped.
NextNeighbourGoesOn ==
  /\ pc = "intersect" /\ kk < K /\ i = row_count
  /\ kk' = kk + 1
  /\ UNCHANGED <<pc, nns, rows, result, row_count, i, total_res, answer>>

NextNeighbour ==
  /\ pc = "intersect" /\ kk < K /\ i = row_count
  /\ kk' = kk + 1 /\ i' = 0
  /\ UNCHANGED <<pc, nns, rows, result, row_count, total_res, answer>>

Report ==
  /\ pc = "intersect" /\ kk = K
  /\ pc' = "done"
  /\ UNCHANGED <<nns, rows, result, row_count, kk, i, total_res, answer>>

QueryNext ==
  Search \/ Refused \/ QueryFails \/ Query \/ FetchRow \/ FetchEnd
    \/ Compare \/ NextNeighbour \/ Report

-----------------------------------------------------------------------------
\* HandleResult's array has row_count elements, unless the query was refused.
QueryTypeOK ==
  /\ pc \in {"search", "query", "fetch", "intersect", "done", "crashed",
            "overflow"}
  /\ pc # "search" => nns \in [0 .. K - 1 -> Garbage]
  /\ result # Null => result \in [0 .. row_count - 1 -> Garbage]
  /\ kk \in 0 .. K /\ i \in 0 .. row_count
  /\ \A h \in DOMAIN total_res : total_res[h] \in 0 .. K - 1

Found == {total_res[h] : h \in DOMAIN total_res}
Wanted == {p \in 0 .. K - 1 : \E h \in DOMAIN answer : nns[p] = answer[h]}

(* The intersection is right when the answer has at most one row: every    *)
(* neighbour in the answer is reported, once, and no other, and the array  *)
(* of K positions is not written beyond its end.                           *)
SingleRowExact ==
  Len(answer) <= 1 =>
    pc # "overflow" /\ (pc = "done" => Found = Wanted /\ Distinct(total_res))

(* src/src/main/FeatureWithAttrTest.cpp:23, "intersection '2.' and '3.'    *)
(* results": the positions reported are those of the neighbours that are   *)
(* rows of the answer.  HandleResult stores every row at the same place,   *)
(* so of several rows all but the last are missed.                         *)
FoundIsWanted == pc = "done" => Found = Wanted
=============================================================================
