----------------------------- MODULE BenthosJobs -----------------------------
(***************************************************************************)
(* What the config builder makes of a plan: the benthos configs the        *)
(* datasync workflow gets, a sequence called a job, and what is required   *)
(* of one.                                                                 *)
(***************************************************************************)
EXTENDS RunConfigs, ExecutionGroups

\* The SQL builder gives the INSERT of a table a Redis hash when another key
\* references the table's transformed primary key.
HasRedisHash(schema, c) ==
    /\ c.runType = RunTypeInsert
    /\ c.table \in schema.transformed
    /\ \E t \in schema.tables : \E fk \in schema.foreignKeys[t] : fk.parent = c.table

\* The benthos config of a run config, as far as the workflow reads it.
BenthosConfig(schema, c) ==
    [table |-> c.table, runType |-> c.runType, count |-> c.count, columns |-> c.columns,
     dependsOn |-> c.dependsOn, redis |-> HasRedisHash(schema, c)]

BenthosConfigs(schema, configs) ==
    [i \in DOMAIN configs |-> BenthosConfig(schema, configs[i])]

-----------------------------------------------------------------------------
\* What the planner and the config builder give a run: configs with names of
\* their own, one INSERT per table, a Redis hash for INSERTs only, in a circle of
\* tables nothing but INSERTs and UPDATEs, the UPDATEs with dependencies, and
\* merged cycles that share no table.
WellFormed(j) ==
    LET configs == ToSet(j)
        cycles == MergedCycles(configs)
    IN  /\ j \in Seq(configs)
        /\ \A m, n \in DOMAIN j : j[m] = j[n] => m = n
        /\ \A c, d \in configs :
              c.runType = Insert /\ d.runType = Insert /\ c.table = d.table => c = d
        /\ \A c \in configs : c.redis => c.runType = Insert
        /\ \A c \in configs : \A cycle \in cycles :
              c.table \in cycle /\ c.runType # Insert
                  => c.runType = Update /\ c.dependsOn # {}
        /\ \A p, q \in cycles : p # q => p \cap q = {}

\* What a foreign key of the job needs is written by an INSERT, as it is when
\* every key references columns its parent table's INSERT writes.
PointsAtInserts(j) ==
    \A c \in ToSet(j) : \A d \in ForeignKeyDependencies(ToSet(j), c) :
        \E e \in ToSet(j) :
            e.runType = Insert /\ e.table = d.table /\ d.columns \subseteq e.columns
=============================================================================
