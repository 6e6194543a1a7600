--------------------------- MODULE AttributeStore ---------------------------
(***************************************************************************)
(* A FeatureSql object: its tables (FeatureSql), the assembly of a         *)
(* condition (AssembleSQL) and a search intersected with the neighbours    *)
(* (AttributeQuery).  The three have no variable in common: the condition  *)
(* and the rows are local to the call, and no search reads the tables.     *)
(* Their steps commute, so each is followed by itself from every initial   *)
(* state, and what one reaches does not depend on the others.              *)
(***************************************************************************)
EXTENDS AssembleSQL, FeatureSql, AttributeQuery

VARIABLE part           \* "tables", "condition" or "query"

vars == <<conditionVars, tablesVars, queryVars, part>>

\* A condition that is not followed is the empty one.
Init ==
  /\ ConditionInit /\ TablesInit /\ QueryInit
  /\ part \in {"tables", "condition", "query"}
  /\ part # "condition" => types = 0 /\ ids = 0 /\ relation = << >>

Next ==
  /\ \/ part = "condition" /\ ConditionNext /\ UNCHANGED <<tablesVars, queryVars>>
     \/ part = "tables" /\ TablesNext /\ UNCHANGED <<conditionVars, queryVars>>
     \/ part = "query" /\ QueryNext /\ UNCHANGED <<conditionVars, tablesVars>>
  /\ UNCHANGED part

Spec == Init /\ [][Next]_vars

-----------------------------------------------------------------------------
TypeOK == ConditionTypeOK /\ TablesTypeOK /\ QueryTypeOK

(* The variables have their values, and the condition AssembleSQL makes is *)
(* one that SQL accepts, with every group of alternatives closed when it   *)
(* should be; it means the conjunction of these groups for every truth of  *)
(* the comparisons.                                                        *)
ConditionMeansGroups == TypeOK /\ LabelIsOpen /\ MeansGroups
=============================================================================
