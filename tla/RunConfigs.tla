----------------------------- MODULE RunConfigs -----------------------------
(***************************************************************************)
(* The planner of internal/runconfigs: from the foreign keys of the mapped *)
(* tables to the run configs (one INSERT per table, UPDATEs for nullable   *)
(* keys of tables on a cycle or under a subset) and their dependencies.    *)
(*                                                                         *)
(* A schema is a record                                                    *)
(*   tables       the mapped tables, numbered in the order of their names  *)
(*   foreignKeys  [tables -> set of foreign keys]                          *)
(*   subsets      the tables with a where clause                           *)
(*   transformed  the tables whose primary key is transformed              *)
(* and a foreign key a record                                              *)
(*   parent       the table it references                                  *)
(*   columns      the constrained columns of the child                     *)
(*   references   [columns -> columns of the parent]                       *)
(*   notNullable  the columns that are NOT NULL                            *)
(*   first        the rank of the first column's name                      *)
(* Every table has the primary key column "id" and columns no key names.   *)
(***************************************************************************)
EXTENDS CircularDependencies, FiniteSets

PrimaryKeys == {"id"}
OtherColumns == {"data"}

\* What a schema is: finitely many tables and keys.
IsSchema(schema) ==
    /\ IsFiniteSet(schema.tables) /\ schema.tables \subseteq Nat
    /\ DOMAIN schema.foreignKeys = schema.tables
    /\ \A t \in schema.tables : IsFiniteSet(schema.foreignKeys[t])
    /\ \A t \in schema.tables : \A fk \in schema.foreignKeys[t] :
          /\ fk.parent \in Nat /\ fk.first \in Nat
          /\ fk.notNullable \subseteq fk.columns

\* Every key references columns of its parent's primary key.
ReferencesKeys(schema) ==
    \A t \in schema.tables : \A fk \in schema.foreignKeys[t] :
        \A c \in fk.columns : fk.references[c] \in PrimaryKeys

RunTypeInsert == "insert"
RunTypeUpdate == "update"

\* tableColumnsMap[table]
Columns(schema, t) ==
    PrimaryKeys \cup OtherColumns \cup UNION {fk.columns : fk \in schema.foreignKeys[t]}

\* filterDependencies: only keys between two mapped tables stay.
FilterDependencies(schema) ==
    [t \in schema.tables |-> {fk \in schema.foreignKeys[t] : fk.parent \in schema.tables}]

\* sortForeignConstraints: by parent table, then by first column; keys that tie
\* stay in some fixed order.
Before(a, b) == a.parent < b.parent \/ (a.parent = b.parent /\ a.first < b.first)

SortForeignConstraints(fks) ==
    CHOOSE s \in SetToSeqs(fks) : \A i, j \in DOMAIN s : i < j => ~Before(s[j], s[i])

\* The keys with a column that can be set later, in order, and those columns.
NullableKeys(fks) == SortForeignConstraints({fk \in fks : fk.columns # fk.notNullable})
UpdateColumns(fk) == fk.columns \ fk.notNullable

\* Mutated: self references are skipped.
DependencyGraphNoSelf(foreignKeys) ==
    UNION {{<<t, fk.parent>> : fk \in {k \in foreignKeys[t] : k.parent # t}} :
              t \in DOMAIN foreignKeys}

\* buildDependencyGraph; self references are edges here.
DependencyGraph(foreignKeys) ==
    UNION {{<<t, fk.parent>> : fk \in foreignKeys[t]} : t \in DOMAIN foreignKeys}

CircularDependencyTables(foreignKeys) ==
    UNION FindCircularDependencies(DependencyGraph(foreignKeys))

\* computeAllSubsetPaths, reduced to which tables get a path: those that
\* reach a table with a where clause along their foreign keys, and that table.
SubsetPathTables(schema, foreignKeys) ==
    LET reach == Reaches(DependencyGraph(foreignKeys))
    IN  {t \in schema.tables : \E root \in schema.subsets :
                                  t = root \/ <<t, root>> \in reach}

Dependency(table, columns) == [table |-> table, columns |-> columns]

RunConfig(table, runType, count, columns, dependsOn) ==
    [table |-> table, runType |-> runType, count |-> count,
     columns |-> columns, dependsOn |-> dependsOn]

\* buildInsertConfig and getDependsOn
InsertConfig(schema, foreignKeys, t) ==
    RunConfig(t, RunTypeInsert, 0, Columns(schema, t),
        {Dependency(fk.parent, {fk.references[c] : c \in fk.columns}) :
            fk \in foreignKeys[t]})

\* buildUpdateConfig for the nullable columns of fk.  prev is the set of
\* columns the previous UPDATE of the table writes, {} when there is none.
UpdateConfig(t, fk, count, prev) ==
    LET updateCols == UpdateColumns(fk)
    IN  RunConfig(t, RunTypeUpdate, count, updateCols,
            {Dependency(fk.parent, {fk.references[c] : c \in updateCols})}
            \cup (IF fk.parent # t THEN {Dependency(t, PrimaryKeys)} ELSE {})
            \cup (IF prev # {} THEN {Dependency(t, prev)} ELSE {}))

\* Mutated: the INSERT keeps the nullable key columns.
ConstraintHandlingKeepsAll(schema, foreignKeys, t) ==
    LET fks == foreignKeys[t]
        nullable == NullableKeys(fks)
        insert == RunConfig(t, RunTypeInsert, 0, Columns(schema, t),
            {Dependency(fk.parent, {fk.references[c] : c \in fk.notNullable}) :
                fk \in {k \in fks : k.notNullable # {}}})
    IN  <<insert>> \o [n \in 1..Len(nullable) |-> UpdateConfig(t, nullable[n], n, {})]

\* buildConstraintHandlingConfigs: an INSERT of the primary key, the NOT NULL
\* key columns and the unconstrained columns, then one UPDATE per nullable key.
SplitInsertConfig(schema, fks, t) ==
    RunConfig(t, RunTypeInsert, 0,
        PrimaryKeys \cup (Columns(schema, t) \ UNION {fk.columns : fk \in fks})
                    \cup UNION {fk.notNullable : fk \in fks},
        {Dependency(fk.parent, {fk.references[c] : c \in fk.notNullable}) :
            fk \in {k \in fks : k.notNullable # {}}})

SplitUpdateConfigs(fks, t) ==
    LET keys == NullableKeys(fks)
    IN  [n \in 1..Len(keys) |->
            UpdateConfig(t, keys[n], n, IF n = 1 THEN {} ELSE UpdateColumns(keys[n-1]))]

ConstraintHandlingConfigs(schema, foreignKeys, t) ==
    <<SplitInsertConfig(schema, foreignKeys[t], t)>> \o SplitUpdateConfigs(foreignKeys[t], t)

\* The tables newTableConfigsBuilder finds to need more than one INSERT.
ConstrainedTables(schema, foreignKeys) ==
    CircularDependencyTables(foreignKeys) \cup SubsetPathTables(schema, foreignKeys)

\* runConfigBuilder.Build
BuildTable(schema, foreignKeys, constrained, t) ==
    IF t \in constrained
    THEN ConstraintHandlingConfigs(schema, foreignKeys, t)
    ELSE <<InsertConfig(schema, foreignKeys, t)>>

\* AreConfigDependenciesSatisfied: every column a dependency names has been
\* written by one of the completed configs of its table.
AreConfigDependenciesSatisfied(dependsOn, completed) ==
    \A d \in dependsOn :
        /\ \E c \in completed : c.table = d.table
        /\ d.columns \subseteq UNION {c.columns : c \in {x \in completed : x.table = d.table}}

\* The dependencies of c that carry a foreign key: all but those on what an
\* UPDATE of its own table writes.
ForeignKeyDependencies(configs, c) ==
    {d \in c.dependsOn : ~(d.table = c.table /\ \E u \in configs :
        u.runType = RunTypeUpdate /\ u.table = c.table /\ d.columns \subseteq u.columns)}

\* isValidRunOrder: rounds that complete every config that is ready, until all
\* are complete or a round completes none.
IsValidRunOrder(configs) ==
    LET Round[n \in 0..Cardinality(configs)] ==
          IF n = 0 THEN {}
          ELSE LET done == Round[n-1]
               IN  done \cup {c \in configs : AreConfigDependenciesSatisfied(c.dependsOn, done)}
    IN  Round[Cardinality(configs)] = configs

\* The loop of BuildRunConfigs over the mapped tables, in the order the map
\* iteration happens to yield them.
BuildInOrder(schema, tables) ==
    LET foreignKeys == FilterDependencies(schema)
        constrained == ConstrainedTables(schema, foreignKeys)
    IN  FlattenSeq([i \in 1..Len(tables) |->
                        BuildTable(schema, foreignKeys, constrained, tables[i])])

\* BuildRunConfigs: a plan, or no plan when the order check rejects it.
BuildRunConfigs(schema, tables) ==
    LET configs == BuildInOrder(schema, tables)
    IN  IF IsValidRunOrder(ToSet(configs)) THEN {configs} ELSE {}
=============================================================================
