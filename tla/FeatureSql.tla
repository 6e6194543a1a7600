----------------------------- MODULE FeatureSql ----------------------------
(***************************************************************************)
(* The tables of a FeatureSql object (src/include/featureSql.h,            *)
(* src/src/db/featureSql.cpp): the colour and type names by number and the *)
(* values of a person's attributes, read from files and from standard      *)
(* input, until the object is destroyed.                                   *)
(*                                                                         *)
(* The two arrays are bare pointers that no constructor sets.  Two of the  *)
(* three calls read standard input until it fails, after which no call     *)
(* reads anything of it.  A line of attributes is (number, name, value,    *)
(* name of the value, row); the number and the row are read and not used.  *)
(* Nothing compares the value with the size of te, the array it indexes.   *)
(***************************************************************************)
EXTENDS Integers, Sequences

CONSTANTS Names,
          Wild,          \* a pointer that was never set
          Blank,         \* an element that was never written
          MaxCount,      \* bound on the elements of an array
          MaxNames,      \* bound on the names in a file or the numbers typed
          Values,        \* the size of te, 20 in the code
          MaxLines       \* bound on the lines of attributes

ASSUME MaxCountNat == MaxCount \in Nat
ASSUME ValuesNat   == Values \in Nat \ {0}
ASSUME BlankIsNone == Blank \notin Names

VARIABLES color,         \* _id_map_color: Wild or the array
          type,          \* _id_map_type
          person,        \* _id_person_attr: from a name to its values
          cin,           \* "good", "person" inside InitPersonAttr, "failed"
          undefined,     \* a wild pointer or a place beyond an array was used
          alive,
          lines          \* history: the lines InitPersonAttr has read

tablesVars == <<color, type, person, cin, undefined, alive, lines>>

Fresh(count) == [i \in 0 .. count - 1 |-> Blank]

TablesInit ==
  /\ color = Wild /\ type = Wild
  /\ person = << >>
  /\ cin = "good"
  /\ undefined = FALSE /\ alive = TRUE
  /\ lines = << >>

\* Files of names, and numbers on standard input.
Files == UNION {[1 .. m -> Names] : m \in 0 .. MaxNames}
Numbers == UNION {[1 .. m -> 0 .. MaxCount] : m \in 0 .. MaxNames}

\* InitMapColor: element i is the i-th name of the file, whatever its number;
\* the elements after the last line stay as they were allocated.
InitMapColor(file, count) ==
  /\ color' = [i \in 0 .. count - 1 |->
                 IF i + 1 \in DOMAIN file THEN file[i + 1] ELSE Blank]
  /\ UNCHANGED <<type, person, cin, undefined, alive, lines>>

\* The names stored at the numbers, one after the other.
Stored(array, numbers, file) ==
  [k \in DOMAIN array |->
     LET turns == {i \in DOMAIN numbers : numbers[i] = k /\ i <= Len(file)}
     IN  IF turns = {} THEN array[k]
         ELSE file[CHOOSE i \in turns : \A h \in turns : h <= i]]

\* InitMapType: the numbers come from standard input and the names, although
\* read from the file of types, go to the array of colours (featureSql.cpp:30);
\* the array that featureSql.h:63 calls "ID map type" stays as allocated.
InitMapType(numbers, file, count) ==
  /\ cin = "failed" => numbers = << >>
  /\ cin' = "failed"
  /\ type' = Fresh(count)
  /\ IF numbers = << >> \/
        (color # Wild /\ \A i \in DOMAIN numbers : numbers[i] \in DOMAIN color)
       THEN /\ color' = IF numbers = << >> THEN color ELSE Stored(color, numbers, file)
            /\ UNCHANGED undefined
       ELSE undefined' = TRUE /\ UNCHANGED color
  /\ UNCHANGED <<person, alive, lines>>

\* One turn of InitPersonAttr's loop.  again tells that the line has the name
\* of the line before it; insert does not replace what the map has.  A value
\* that is no index of te is written outside of it.
PersonLineAs(name, a, value, again) ==
  LET known == name \in DOMAIN person
      te == [i \in 0 .. Values - 1 |-> IF i = a THEN value ELSE ""]
  IN  /\ cin # "failed" /\ cin' = "person"
      /\ Len(lines) < MaxLines
      /\ \/ /\ a \in 0 .. Values - 1
            /\ person' = CASE again -> [person EXCEPT ![name][a] = value]
                           [] ~again /\ known -> person
                           [] ~again /\ ~known ->
                                [x \in DOMAIN person \cup {name} |->
                                   IF x = name THEN te ELSE person[x]]
            /\ lines' = Append(lines, <<name, a, value>>)
            /\ UNCHANGED undefined
         \/ /\ a \notin 0 .. Values - 1
            /\ undefined' = TRUE
            /\ UNCHANGED <<person, lines>>
      /\ UNCHANGED <<color, type, alive>>

Before == IF lines = << >> THEN Blank ELSE lines[Len(lines)][1]

\* Faulty: before is not kept.
PersonLineForgets(name, a, value) == PersonLineAs(name, a, value, FALSE)

PersonLine(name, a, value) == PersonLineAs(name, a, value, Before = name)

\* InitPersonAttr's loop ends when standard input does.
PersonEnd ==
  /\ cin' = "failed"
  /\ UNCHANGED <<color, type, person, undefined, alive, lines>>

\* ~FeatureSql: mysql_close, then delete[] of both arrays.
Destroy ==
  /\ alive' = FALSE
  /\ undefined' = (undefined \/ color = Wild \/ type = Wild)
  /\ UNCHANGED <<color, type, person, cin, lines>>

\* After undefined behaviour nothing is known of the process.
TablesNext ==
  /\ alive /\ ~undefined
  /\ \/ /\ cin # "person"
        /\ \E file \in Files, count \in 0 .. MaxCount :
             \/ InitMapColor(file, count)
             \/ \E numbers \in Numbers : InitMapType(numbers, file, count)
     \/ \E name, value \in Names, a \in -1 .. Values : PersonLine(name, a, value)
     \/ PersonEnd
     \/ cin # "person" /\ Destroy

-----------------------------------------------------------------------------
Arrays == UNION {[0 .. m -> Names \cup {Blank}] : m \in -1 .. MaxCount - 1}

TablesTypeOK ==
  /\ color \in Arrays \cup {Wild} /\ type \in Arrays \cup {Wild}
  /\ \A name \in DOMAIN person :
       name \in Names /\ person[name] \in [0 .. Values - 1 -> Names \cup {""}]
  /\ cin \in {"good", "person", "failed"}
  /\ undefined \in BOOLEAN /\ alive \in BOOLEAN

\* Line i takes up again an attribute that other lines had ended.
Resumes(i) ==
  /\ i > 1 /\ lines[i - 1][1] # lines[i][1]
  /\ \E h \in 1 .. i - 1 : lines[h][1] = lines[i][1]

(* After InitPersonAttr has read a line, the map has its value under its   *)
(* name and number until another line with both comes, except for a line   *)
(* that resumes an attribute: that one line is lost, those after it are    *)
(* not.  The lines of one attribute must stand together.                   *)
PersonComplete ==
  \A i \in DOMAIN lines :
    ~Resumes(i) /\ (\A h \in i + 1 .. Len(lines) :
                      Resumes(h) \/ lines[h][1] # lines[i][1] \/ lines[h][2] # lines[i][2])
      => /\ lines[i][1] \in DOMAIN person
         /\ person[lines[i][1]][lines[i][2]] = lines[i][3]
=============================================================================
