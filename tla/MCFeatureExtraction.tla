------------------------ MODULE MCFeatureExtraction ------------------------
(***************************************************************************)
(* Features of images, or attributes of persons.  For the features: a list *)
(* of five images in batches of two, and up to four images of two callers  *)
(* in memory: calls with and without whole batches and remainders, that    *)
(* come round inside a batch, with counts below, at and above the number   *)
(* of images.  The scores: a tie, a highest class in every place, one above*)
(* and one below the -1 that the maximum starts from.  A direct caller has *)
(* batches of one to four and four Forwards on one array.                  *)
(*                                                                         *)
(* For the attributes: two persons.  Margins are raised at the ends of the *)
(* ranges of attributes the loops treat alike, for the first person at one *)
(* or two attributes; the process may open a dozen files, enough for two   *)
(* calls of get_att.                                                       *)
(***************************************************************************)
EXTENDS FeatureExtraction, PersonAttr, TLC

VARIABLE followed      \* "features" or "attributes"

MCScore(image) ==
  LET s == << <<5, 20, 20>>, <<32, 7, -4>>, <<-3, -20, -8>>, <<0, 1, 19>>,
              <<-12, -30, -10>> >>
  IN  [k \in Classes |-> s[image[2]][k + 1]]

\* The owners of images in memory are only told apart.
Symmetry == Permutations(Callers)

MCFloor == -2
Ends == {0, 1, 5, 6, 16, 17, 34, 35, 64, 65, 75, 76, 86, 97, 108}

Raised(base, one, two, other) ==
  [x \in 0 .. 217 |->
     IF x % 2 = 1 THEN (IF x \div 2 = other THEN 1 ELSE 0)
     ELSE IF x \div 2 = one THEN 1 ELSE IF x \div 2 = two THEN 2 ELSE base]

MCProducts ==
  {Raised(base, one, two, other) :
     base \in {MCFloor, 0}, one \in Ends, two \in Ends, other \in {0, 2, 34}}

MCInit ==
  /\ Init /\ AttrInit
  /\ followed \in {"features", "attributes"}
  /\ followed = "attributes" => use = "list"

MCNext ==
  /\ \/ followed = "features" /\ Next /\ UNCHANGED attrVars
     \/ followed = "attributes" /\ AttrNext /\ UNCHANGED vars
  /\ UNCHANGED followed

MCSpec == MCInit /\ [][MCNext]_<<vars, attrVars, followed>>
=============================================================================
