--------------------------- MODULE ExecutionGroups ---------------------------
(***************************************************************************)
(* The execution groups of the datasync workflow (execution_group.go) and  *)
(* the rules of its completion tracker (group_completion_tracker.go).      *)
(*                                                                         *)
(* A config is a record with the fields table, runType and dependsOn, a    *)
(* set of [table, columns].  A group is identified by its set of tables:   *)
(* a merged cycle ("cycle:...") or a single table ("table:...").           *)
(***************************************************************************)
EXTENDS CircularDependencies, FiniteSets

Insert == "insert"
Update == "update"

\* buildConfigDependencyGraph: no edge for a self reference.
ConfigDependencyGraph(configs) ==
    UNION {{<<c.table, d.table>> : d \in {x \in c.dependsOn : x.table # c.table}} :
              c \in configs}

-----------------------------------------------------------------------------
(***************************************************************************)
(* mergeCyclesWithSharedTables.  The code unites the cycles a table occurs *)
(* in, one table after the other in the order a map iteration yields them. *)
(***************************************************************************)
\* Mutated: cycles are kept as they are found.
MergeNothingAt(cycles, t) == cycles

MergeAt(cycles, t) ==
    LET shared == {cycle \in cycles : t \in cycle}
    IN  (cycles \ shared) \cup (IF shared = {} THEN {} ELSE {UNION shared})

MergeInOrder(cycles, tables) ==
    LET Merged[n \in 0..Len(tables)] ==
          IF n = 0 THEN cycles ELSE MergeAt(Merged[n-1], tables[n])
    IN  Merged[Len(tables)]

MergeCyclesWithSharedTables(cycles) == MergeInOrder(cycles, SetToSeq(UNION cycles))

MergedCycles(configs) ==
    MergeCyclesWithSharedTables(FindCircularDependencies(ConfigDependencyGraph(configs)))

-----------------------------------------------------------------------------
\* The group of a table: its merged cycle, or itself.
GroupId(cycles, t) ==
    IF \E cycle \in cycles : t \in cycle
    THEN CHOOSE cycle \in cycles : t \in cycle
    ELSE {t}

Members(configs, cycles, id) == {c \in configs : GroupId(cycles, c.table) = id}

\* Mutated: a group's own tables are not left out.
DependenciesOnItself(configs, cycles, ids, id) ==
    {other \in ids : \E c \in Members(configs, cycles, id) : \E d \in c.dependsOn :
                        d.table \in other}

\* calculateGroupDependencies: the other groups that hold a table which a
\* member depends on, leaving out self references and tables of its own cycle.
CalculateGroupDependencies(configs, cycles, ids, id) ==
    {other \in ids \ {id} :
        \E c \in Members(configs, cycles, id) : \E d \in c.dependsOn :
            /\ d.table # c.table
            /\ ~(id \in cycles /\ d.table \in id)
            /\ d.table \in other}

ExecutionGroup(configs, cycles, ids, id) ==
    LET members == Members(configs, cycles, id)
    IN  [insertConfigs   |-> {c \in members : c.runType = Insert},
         updateConfigs   |-> {c \in members : c.runType # Insert},
         dependsOnGroups |-> CalculateGroupDependencies(configs, cycles, ids, id),
         isInCycle       |-> id \in cycles]

\* buildExecutionGroups, for given merged cycles
GroupsOver(configs, cycles) ==
    LET ids == {GroupId(cycles, c.table) : c \in configs}
    IN  [id \in ids |-> ExecutionGroup(configs, cycles, ids, id)]

BuildExecutionGroups(configs) == GroupsOver(configs, MergedCycles(configs))

GroupConfigs(group) == group.insertConfigs \cup group.updateConfigs

\* configToGroup[config]
GroupOf(groups, c) == CHOOSE id \in DOMAIN groups : c \in GroupConfigs(groups[id])

-----------------------------------------------------------------------------
(***************************************************************************)
(* The tracker's state: the completed configs, and per group how many have *)
(* completed and whether all INSERTs have.  UpdatePhaseComplete is kept by *)
(* the code and read by its status text only; it is left out.              *)
(***************************************************************************)
NewGroupCompletionTracker(groups) ==
    [completedConfigs    |-> {},
     completedCount      |-> [id \in DOMAIN groups |-> 0],
     insertPhaseComplete |-> [id \in DOMAIN groups |-> groups[id].insertConfigs = {}]]

\* state.TotalConfigs
TotalConfigs(group) ==
    Cardinality(group.insertConfigs) + Cardinality(group.updateConfigs)

\* MarkConfigComplete; the config is always one of a group's.
MarkConfigComplete(tracker, groups, c) ==
    LET id == GroupOf(groups, c)
        completed == tracker.completedConfigs \cup {c}
    IN  IF c \in tracker.completedConfigs
        THEN tracker
        ELSE [completedConfigs    |-> completed,
              completedCount      |-> [tracker.completedCount EXCEPT ![id] = @ + 1],
              insertPhaseComplete |->
                [tracker.insertPhaseComplete EXCEPT
                    ![id] = @ \/ groups[id].insertConfigs \subseteq completed]]

\* Mutated: off by one.
IsGroupOverfull(tracker, groups, id) ==
    tracker.completedCount[id] > TotalConfigs(groups[id])

IsGroupComplete(tracker, groups, id) ==
    tracker.completedCount[id] = TotalConfigs(groups[id])

\* findConfigByTable: an INSERT config of the table, else an UPDATE config;
\* {} when the group has no config of the table.
FindConfigByTable(group, t) ==
    LET inserts == {c \in group.insertConfigs : c.table = t}
        updates == {c \in group.updateConfigs : c.table = t}
    IN  IF inserts # {} THEN {CHOOSE c \in inserts : TRUE}
        ELSE IF updates # {} THEN {CHOOSE c \in updates : TRUE}
        ELSE {}

\* Mutated: each of the three rules dropped in turn.
CanStartBeforeGroups(tracker, groups, c) ==
    LET id == GroupOf(groups, c)
        group == groups[id]
    IN  /\ group.isInCycle /\ c.runType = Update => tracker.insertPhaseComplete[id]
        /\ \A d \in c.dependsOn :
              FindConfigByTable(group, d.table) \subseteq tracker.completedConfigs

CanStartBeforeInserts(tracker, groups, c) ==
    LET group == groups[GroupOf(groups, c)]
    IN  /\ \A dep \in group.dependsOnGroups : IsGroupComplete(tracker, groups, dep)
        /\ \A d \in c.dependsOn :
              FindConfigByTable(group, d.table) \subseteq tracker.completedConfigs

CanStartBeforeConfigs(tracker, groups, c) ==
    LET id == GroupOf(groups, c)
        group == groups[id]
    IN  /\ \A dep \in group.dependsOnGroups : IsGroupComplete(tracker, groups, dep)
        /\ group.isInCycle /\ c.runType = Update => tracker.insertPhaseComplete[id]

\* CanConfigStart: the groups this one depends on are complete, an UPDATE of a
\* cycle waits for the INSERTs of the cycle, and within the group a config of
\* each table it depends on has completed.
CanConfigStart(tracker, groups, c) ==
    LET id == GroupOf(groups, c)
        group == groups[id]
    IN  /\ \A dep \in group.dependsOnGroups : IsGroupComplete(tracker, groups, dep)
        /\ group.isInCycle /\ c.runType = Update => tracker.insertPhaseComplete[id]
        /\ \A d \in c.dependsOn :
              FindConfigByTable(group, d.table) \subseteq tracker.completedConfigs
=============================================================================
