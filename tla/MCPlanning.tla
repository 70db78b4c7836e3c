----------------------------- MODULE MCPlanning -----------------------------
(***************************************************************************)
(* Every schema over three tables with at most MaxKeys foreign keys, each  *)
(* of them absent, nullable or NOT NULL, with no where clause or one.      *)
(***************************************************************************)
EXTENDS Planning

CONSTANT MaxKeys

Tables == 1..3

\* The key from a table to parent: a column of its own that references "id".
Key(parent, nullable) ==
    LET column == CASE parent = 1 -> "fk1" [] parent = 2 -> "fk2" [] parent = 3 -> "fk3"
    IN  [parent |-> parent, columns |-> {column}, references |-> [c \in {column} |-> "id"],
         notNullable |-> IF nullable THEN {} ELSE {column}, first |-> parent]

\* A choice of keys: which pairs are linked, and which of them by a nullable key.
Schema(links, nullable, subsets) ==
    [tables |-> Tables,
     foreignKeys |-> [t \in Tables |->
        {Key(e[2], e \in nullable) : e \in {x \in links : x[1] = t}}],
     subsets |-> subsets,
     transformed |-> {}]

AllSchemas ==
    UNION {{Schema(links, nullable, subsets) :
              nullable \in SUBSET links, subsets \in {{}} \cup {{t} : t \in Tables}} :
              links \in {l \in SUBSET (Tables \X Tables) : Cardinality(l) <= MaxKeys}}
=============================================================================
