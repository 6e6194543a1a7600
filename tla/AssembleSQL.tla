---------------------------- MODULE AssembleSQL ----------------------------
(***************************************************************************)
(* FeatureSql::AssembleSQL (src/src/db/featureSql.cpp) builds the          *)
(* condition of a query from a list of comparisons and the relations       *)
(* between them.  The text is a sequence of tokens; comparison j ("column  *)
(* = number") is the token j.                                              *)
(***************************************************************************)
EXTENDS Integers, Sequences, FiniteSets

CONSTANT MaxSize       \* bound on each of the three lists

ASSUME MaxSizeNat == MaxSize \in Nat

LParen == -1
RParen == -2
And    == -3
Or     == -4
Stop   == -5

VARIABLES types, ids,  \* typeName.size() and id.size()
          relation,    \* any word but "and" is taken for "or"
          j, islabel, sq,
          at           \* "loop", "done" or "refused"

conditionVars == <<types, ids, relation, j, islabel, sq, at>>

Words == {"and", "or", "other"}

ConditionInit ==
  /\ types \in 0 .. MaxSize /\ ids \in 0 .. MaxSize
  /\ relation \in UNION {[1 .. m -> Words] : m \in 0 .. MaxSize}
  /\ j = 1 /\ islabel = FALSE /\ sq = << >>
  /\ at = IF types # Len(relation) + 1 \/ types # ids \/ Len(relation) + 1 # ids
            THEN "refused" ELSE "loop"

\* The comparison, after a parenthesis if none is open.
Opened == sq \o (IF islabel THEN << >> ELSE <<LParen>>) \o <<j>>

AndTurn ==
  /\ at = "loop" /\ j < types /\ relation[j] = "and"
  /\ sq' = Opened \o <<RParen, And>>
  /\ islabel' = FALSE
  /\ j' = j + 1
  /\ UNCHANGED <<types, ids, relation, at>>

\* Faulty: every comparison opens a group of its own.
OrTurnOpens ==
  /\ at = "loop" /\ j < types /\ relation[j] # "and"
  /\ sq' = Opened \o <<RParen, Or>>
  /\ islabel' = FALSE
  /\ j' = j + 1
  /\ UNCHANGED <<types, ids, relation, at>>

OrTurn ==
  /\ at = "loop" /\ j < types /\ relation[j] # "and"
  /\ sq' = Opened \o <<Or>>
  /\ islabel' = TRUE
  /\ j' = j + 1
  /\ UNCHANGED <<types, ids, relation, at>>

LastTurn ==
  /\ at = "loop" /\ j = types
  /\ sq' = Opened \o <<RParen, Stop>>
  /\ islabel' = TRUE
  /\ j' = j + 1
  /\ at' = "done"
  /\ UNCHANGED <<types, ids, relation>>

ConditionNext == AndTurn \/ OrTurn \/ LastTurn

-----------------------------------------------------------------------------
ConditionTypeOK ==
  /\ j \in 1 .. MaxSize + 1
  /\ islabel \in BOOLEAN
  /\ at \in {"loop", "done", "refused"}
  /\ sq \in Seq((Stop .. LParen) \cup (1 .. MaxSize))

Places(token) == {i \in DOMAIN sq : sq[i] = token}

\* islabel says that a group is open: parentheses match, never nest, and after
\* the last comparison all are closed.
LabelIsOpen ==
  LET open == Cardinality(Places(LParen)) - Cardinality(Places(RParen))
  IN  CASE at = "loop" -> open = IF islabel THEN 1 ELSE 0
        [] at = "done" -> open = 0
        [] at = "refused" -> sq = << >>

-----------------------------------------------------------------------------
\* The value of a condition by SQL's grammar, AND binding tighter than OR,
\* when the comparisons of the set T hold.

Token(i) == IF i \in DOMAIN sq THEN sq[i] ELSE Stop

\* What starts at place i, when read tells what starts at every place after it.
Term(read, T, i) ==
  CASE Token(i) > 0 -> [ok |-> TRUE, value |-> Token(i) \in T, next |-> i + 1]
    [] Token(i) = LParen ->
         LET d == read[i + 1].disjunction
         IN  [ok |-> d.ok /\ Token(d.next) = RParen, value |-> d.value,
              next |-> d.next + 1]
    [] OTHER -> [ok |-> FALSE, value |-> FALSE, next |-> i]

Conjunction(read, T, i) ==
  LET p == Term(read, T, i) IN
  IF ~p.ok \/ Token(p.next) # And THEN p
  ELSE LET c == read[p.next + 1].conjunction
       IN  [ok |-> c.ok, value |-> p.value /\ c.value, next |-> c.next]

Disjunction(read, T, i) ==
  LET c == Conjunction(read, T, i) IN
  IF ~c.ok \/ Token(c.next) # Or THEN c
  ELSE LET d == read[c.next + 1].disjunction
       IN  [ok |-> d.ok, value |-> c.value \/ d.value, next |-> d.next]

Read(T) ==
  LET read[i \in 1 .. Len(sq) + 1] ==
        [conjunction |-> Conjunction(read, T, i), disjunction |-> Disjunction(read, T, i)]
  IN  read[1].disjunction

\* The group of a comparison: how many times "and" stands before it.
Group(k) == Cardinality({i \in 1 .. k - 1 : relation[i] = "and"})

\* The condition is one that SQL accepts to the end, and for every truth of
\* the comparisons it is their conjunction by groups: those joined by anything
\* but "and" are alternatives and bind tighter, against SQL's own precedence.
MeansGroups ==
  at = "done" =>
    \A T \in SUBSET (1 .. types) :
      LET d == Read(T)
      IN  /\ d.ok /\ Token(d.next) = Stop /\ d.next = Len(sq)
          /\ d.value = \A k \in 1 .. types :
                        \E m \in 1 .. types : Group(m) = Group(k) /\ m \in T
=============================================================================
