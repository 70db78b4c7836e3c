------------------------------ MODULE Planning ------------------------------
(***************************************************************************)
(* The planner and the group tracker put together: a schema is planned     *)
(* (BuildRunConfigs), grouped (buildExecutionGroups), and its configs then *)
(* complete one at a time in any order the workflow's start rule allows.   *)
(* Concurrency limits and failures are DatasyncWorkflow's; what is asked   *)
(* here is whether the plan can be carried out at all, for every schema.   *)
(***************************************************************************)
EXTENDS BenthosJobs

CONSTANT Schemas     \* the schemas to plan

ASSUME SchemasAssumption == \A s \in Schemas : IsSchema(s)

VARIABLES schema,    \* never changes
          accepted,  \* whether BuildRunConfigs returned a plan
          plan,      \* the run configs, a set
          groups,    \* the execution groups of the plan
          tracker    \* the completion tracker over the groups

vars == <<schema, accepted, plan, groups, tracker>>

\* The sets of configs the planner may return: its map iteration yields the
\* tables in any order.
Plans(s) ==
    UNION {{ToSet(configs) : configs \in BuildRunConfigs(s, order)} :
              order \in SetToSeqs(s.tables)}

Init ==
    /\ schema \in Schemas
    /\ LET plans == Plans(schema)
       IN  /\ accepted = (plans # {})
           /\ plan \in IF accepted THEN plans ELSE {{}}
    /\ groups = BuildExecutionGroups(plan)
    /\ tracker = NewGroupCompletionTracker(groups)

Configs == plan

\* A config without dependencies is started outright, any other when the
\* tracker lets it (splitBenthosConfigs, isConfigReady).
Startable(c) == c.dependsOn = {} \/ CanConfigStart(tracker, groups, c)

Complete(c) ==
    /\ c \notin tracker.completedConfigs
    /\ Startable(c)
    /\ tracker' = MarkConfigComplete(tracker, groups, c)
    /\ UNCHANGED <<schema, accepted, plan, groups>>

Finished ==
    /\ tracker.completedConfigs = Configs
    /\ UNCHANGED vars

Next == (\E c \in Configs : Complete(c)) \/ Finished

Spec == Init /\ [][Next]_vars /\ WF_vars(\E c \in Configs : Complete(c))

-----------------------------------------------------------------------------
\* Properties of the plan alone are looked at before anything completes.
Planned == accepted /\ tracker.completedConfigs = {}

\* The columns two keys of a table have in common, or a key and the primary key.
SharedColumns(s, t) ==
    {x \in Columns(s, t) : \E fk \in s.foreignKeys[t] :
        /\ x \in fk.columns
        /\ x \in PrimaryKeys \/ \E k \in s.foreignKeys[t] \ {fk} : x \in k.columns}

\* A plan writes every column of every mapped table, and exactly once: no
\* config leaves a column out, and no two configs of a table write the same
\* column, but for those that several keys share.
WritesEveryColumnOnce ==
    Planned => \A t \in schema.tables :
        LET own == {c \in Configs : c.table = t}
        IN  /\ UNION {c.columns : c \in own} = Columns(schema, t)
            /\ \A c, d \in own : c # d =>
                  c.columns \cap d.columns \subseteq SharedColumns(schema, t)

\* The keys that must be set when the row is inserted.
MandatoryGraph(s) ==
    {e \in s.tables \X s.tables : \E fk \in s.foreignKeys[e[1]] :
        fk.parent = e[2] /\ fk.notNullable # {}}

\* BuildRunConfigs refuses a schema with a circle of foreign keys none of which
\* can be set later, the reason its error gives, and, where keys reference
\* primary keys, for no other reason.
RefusesOnlyMandatoryCircles ==
    LET circle == \E t \in schema.tables : <<t, t>> \in Reaches(MandatoryGraph(schema))
    IN  tracker.completedConfigs = {} =>
            /\ circle => ~accepted
            /\ ReferencesKeys(schema) /\ ~accepted => circle

\* The cycle groups are the strongly connected components of the dependency
\* graph, whatever the order in which the cycles are merged.
GroupsAreComponents ==
    Planned =>
        LET edges == ConfigDependencyGraph(Configs)
            cycles == FindCircularDependencies(edges)
        IN  /\ {id \in DOMAIN groups : groups[id].isInCycle} = Components(edges)
            /\ \A order \in SetToSeqs(UNION cycles) :
                  MergeInOrder(cycles, order) = Components(edges)

\* Every config is in exactly one group, and the groups do not wait for each
\* other in a circle.
GroupsArePartitionInOrder ==
    Planned =>
        /\ \A c \in Configs : \E id \in DOMAIN groups :
              /\ c \in GroupConfigs(groups[id])
              /\ \A other \in DOMAIN groups \ {id} : c \notin GroupConfigs(groups[other])
        /\ LET reach == Reaches(UNION {{<<id, dep>> : dep \in groups[id].dependsOnGroups} :
                                          id \in DOMAIN groups})
           IN  \A id \in DOMAIN groups : <<id, id>> \notin reach

\* However the completions fall, as long as a config is left one can start:
\* the start rule is coarser than the column dependencies the plan was
\* validated with, yet never locks the run up.
NeverStuck ==
    tracker.completedConfigs # Configs =>
        \E c \in Configs \ tracker.completedConfigs : Startable(c)

\* A config the start rule lets go finds every column its foreign keys point at
\* written by a completed config, where keys reference primary keys.
ReferencedColumnsWritten ==
    ReferencesKeys(schema) => \A c \in Configs : Startable(c) =>
        AreConfigDependenciesSatisfied(ForeignKeyDependencies(Configs, c), tracker.completedConfigs)
=============================================================================
