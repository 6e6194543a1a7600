-------------------------- MODULE MCAttributeStore --------------------------
(***************************************************************************)
(* Lists of up to five comparisons: three groups, groups of three, every   *)
(* way in which the lengths of the lists disagree.  Two names, arrays of   *)
(* up to two elements, inputs of up to four lines: an attribute of two     *)
(* values, one that is resumed, one that is repeated.  Three ids, 0 among  *)
(* them, three neighbours, answers of up to three rows.                    *)
(***************************************************************************)
EXTENDS AttributeStore
=============================================================================
