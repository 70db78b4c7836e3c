--------------------------- MODULE SchemaSamples ---------------------------
(***************************************************************************)
(* Small schemas for the model-checked runs, and the benthos configs the   *)
(* planner makes of them.  Not translated from the code.                   *)
(***************************************************************************)
EXTENDS BenthosJobs

FkColumn == <<"fk1", "fk2", "fk3", "fk4">>

\* A key of one column to the columns `target` of parent.
KeyTo(parent, target, nullable) ==
    LET column == FkColumn[parent]
    IN  [parent |-> parent, columns |-> {column}, references |-> [c \in {column} |-> target],
         notNullable |-> IF nullable THEN {} ELSE {column}, first |-> parent]

Key(parent, nullable) == KeyTo(parent, "id", nullable)
Nullable(parent) == Key(parent, TRUE)
NotNull(parent) == Key(parent, FALSE)

SchemaOf(keys, subsets, transformed) ==
    [tables |-> DOMAIN keys, foreignKeys |-> keys, subsets |-> subsets,
     transformed |-> transformed]

\* The configs of a schema the planner accepts, its tables taken in order.
JobOf(schema) ==
    BenthosConfigs(schema,
        CHOOSE plan \in BuildRunConfigs(schema, SetToSortSeq(schema.tables, <)) : TRUE)

Empty == <<>>

\* Two children of a table with a transformed key, and a table on its own.
Fan == JobOf(SchemaOf(<<{}, {NotNull(1)}, {Nullable(1)}, {}>>, {}, {1}))

\* Two tables in a circle, one of whose keys can be set later, and a child.
Circle == JobOf(SchemaOf(<<{Nullable(2)}, {NotNull(1)}, {NotNull(2)}>>, {}, {2}))

\* A table that refers to itself, its child and grandchild; two transformed.
SelfReference == JobOf(SchemaOf(<<{Nullable(1)}, {NotNull(1)}, {NotNull(2)}>>, {}, {1, 2}))

\* Two circles that share table 2.
SharedCircles ==
    JobOf(SchemaOf(<<{NotNull(2)}, {Nullable(1), Nullable(3)}, {NotNull(2)}>>, {}, {2}))

\* A circle that refers to another circle.
TwoCircles ==
    JobOf(SchemaOf(<<{Nullable(2)}, {NotNull(1)}, {Nullable(4), NotNull(2)}, {NotNull(3)}>>,
                   {}, {}))

\* A subset table with two nullable keys.
Subset == JobOf(SchemaOf(<<{}, {}, {Nullable(1), Nullable(2)}>>, {3}, {1, 2}))

\* A circle whose second key points at the first key's column, not at "id".
ColumnCircle == JobOf(SchemaOf(<<{Nullable(2)}, {KeyTo(1, "fk2", TRUE)}>>, {}, {}))
=============================================================================
