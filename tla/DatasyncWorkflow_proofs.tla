----------------------- MODULE DatasyncWorkflow_proofs -----------------------
(***************************************************************************)
(* For every set of well-formed jobs and every limit: the datasync         *)
(* workflow starts a config only after the INSERTs of the tables it        *)
(* depends on, and an UPDATE of a cycle only after the cycle's INSERTs; its *)
(* tracker counts the successes; at most MaxConcurrency syncs run.         *)
(*                                                                         *)
(* Then how a run ends: a success is complete, a cancellation is the       *)
(* user's, nothing is started once the run is called off, and a sync finds *)
(* the Redis hashes it translates its foreign keys with.  Last, that the   *)
(* workflow implements the abstract SyncSchedule.                          *)
(***************************************************************************)
EXTENDS DatasyncWorkflow, FiniteSetTheorems, TLAPS

-----------------------------------------------------------------------------
(***************************************************************************)
(* The inductive invariant.                                                *)
(***************************************************************************)
\* The shape of the state, as far as the proofs need it.
Typing ==
    /\ job \in Jobs
    /\ next \in Nat \ {0}
    /\ started \subseteq Configs
    /\ succeeded \cup failed \cup aborted \subseteq started
    /\ handled \subseteq succeeded \cup failed \cup aborted
    /\ executing \subseteq started
    /\ canceled \in BOOLEAN

\* The groups are those of the job from the moment the loops are entered.
GroupsBuilt ==
    /\ groups = <<>> \/ groups = BuildExecutionGroups(Configs)
    /\ pc \notin SetupStages \cup {"returned"} => groups = BuildExecutionGroups(Configs)
    /\ started # {} => groups = BuildExecutionGroups(Configs)
    /\ pc \in SetupStages => started = {} /\ groups = <<>> /\ next = 1

\* The main coroutine is in the loop over the roots, or in a Select that loop
\* called: the configs it has yet to reach are not started.
InRootLoop == pc = "roots" \/ (site = "root" /\ pc \in {"select", "postTable"})
RootsInOrder ==
    InRootLoop => \A n \in DOMAIN job : n >= next => job[n] \notin started

\* The main coroutine has decided to start the dependent job[next] and waits
\* for a slot, or has got one.
Committed == pc = "slot" \/ (site = "dependent" /\ pc \in {"select", "postTable"})

\* What lets a config start; once true of a config it stays true.
ParentsWritten(c) ==
    \A d \in c.dependsOn :
        {e \in Configs : e.table = d.table /\ e.runType = Insert}
            \subseteq tracker.completedConfigs

PhaseReached(c) ==
    \A id \in DOMAIN groups :
        groups[id].isInCycle /\ c \in groups[id].updateConfigs
            => groups[id].insertConfigs \subseteq tracker.completedConfigs

MayStart(c) == ParentsWritten(c) /\ PhaseReached(c)

CommittedMayStart ==
    Committed => next \in DOMAIN job /\ job[next] \notin started /\ MayStart(job[next])

StartedMayStart == \A c \in started : MayStart(c)

\* The tracker holds what the set of completed configs determines.
TrackerCounts(tr, grps, done) ==
    /\ tr.completedConfigs = done
    /\ tr.completedCount = [id \in DOMAIN grps |-> Cardinality(done \cap GroupConfigs(grps[id]))]
    /\ tr.insertPhaseComplete = [id \in DOMAIN grps |-> grps[id].insertConfigs \subseteq done]

\* The counters, and the slot that is free while a future is being handled.
Counters ==
    /\ inFlight = Cardinality(started \ handled)
    /\ completedCount = Cardinality(handled)
    /\ inFlight <= MaxConcurrency
    /\ pc \in {"postTable", "slot"} => inFlight < MaxConcurrency

\* A running sync is one whose future is open, or was canceled.
Running ==
    /\ executing \cap (succeeded \cup failed) = {}
    /\ ~canceled => aborted = {}
    /\ Cardinality(executing) <= MaxConcurrency

IInv ==
    /\ Typing
    /\ GroupsBuilt
    /\ RootsInOrder
    /\ CommittedMayStart
    /\ StartedMayStart
    /\ TrackerCounts(tracker, groups, succeeded)
    /\ Counters
    /\ Running

-----------------------------------------------------------------------------
(***************************************************************************)
(* Lemmas about jobs, groups and the tracker.                              *)
(***************************************************************************)
LEMMA JobFacts ==
  ASSUME NEW j, WellFormed(j)
  PROVE  /\ Len(j) \in Nat
         /\ DOMAIN j = 1..Len(j)
         /\ \A n \in DOMAIN j : j[n] \in ToSet(j)
         /\ IsFiniteSet(ToSet(j))
<1>1. j \in Seq(ToSet(j))
  BY DEF WellFormed
<1>2. Len(j) \in Nat /\ DOMAIN j = 1..Len(j)
  BY <1>1
<1>3. ToSet(j) = {j[n] : n \in DOMAIN j}
  BY DEF ToSet
<1>4. IsFiniteSet(1..Len(j))
  BY <1>2, FS_Interval
<1>5. j \in Surjection(1..Len(j), ToSet(j))
  BY <1>1, <1>2, <1>3 DEF Surjection
<1>. QED  BY <1>2, <1>3, <1>4, <1>5, FS_Surjection

\* The group of a table holds the table.
LEMMA GroupIdHoldsTable ==
  ASSUME NEW cycles, NEW t
  PROVE  t \in GroupId(cycles, t)
BY DEF GroupId

\* When no two cycles share a table, every table of a cycle has that cycle for
\* its group.
LEMMA CycleIsGroupId ==
  ASSUME NEW cycles, \A p, q \in cycles : p # q => p \cap q = {},
         NEW cycle \in cycles, NEW t \in cycle
  PROVE  GroupId(cycles, t) = cycle
BY DEF GroupId

\* The group of a config's table, the groups of a job and the configs of a group.
Home(S, c) == GroupId(MergedCycles(S), c.table)
Ids(S) == {Home(S, c) : c \in S}
ConfigsAt(S, id) == {c \in S : Home(S, c) = id}

\* The groups of a set of configs, without the operators that build them.
LEMMA GroupShape ==
  ASSUME NEW S, NEW grps, grps = BuildExecutionGroups(S)
  PROVE  /\ DOMAIN grps = Ids(S)
         /\ \A id \in Ids(S) : grps[id] =
              [insertConfigs   |-> {c \in ConfigsAt(S, id) : c.runType = Insert},
               updateConfigs   |-> {c \in ConfigsAt(S, id) : c.runType # Insert},
               dependsOnGroups |-> CalculateGroupDependencies(S, MergedCycles(S), Ids(S), id),
               isInCycle       |-> id \in MergedCycles(S)]
<1>. DEFINE cycles == MergedCycles(S)
<1>. HIDE DEF cycles
<1>1. grps = [id \in Ids(S) |-> ExecutionGroup(S, cycles, Ids(S), id)]
  BY DEF BuildExecutionGroups, GroupsOver, cycles, Ids, Home
<1>. QED  BY <1>1 DEF ExecutionGroup, Members, ConfigsAt, Home, cycles

\* The fields of one group, read off the group.
LEMMA GroupFields ==
  ASSUME NEW S, NEW grps, grps = BuildExecutionGroups(S), NEW id \in DOMAIN grps
  PROVE  /\ grps[id].insertConfigs = {c \in ConfigsAt(S, id) : c.runType = Insert}
         /\ grps[id].updateConfigs = {c \in ConfigsAt(S, id) : c.runType # Insert}
         /\ grps[id].dependsOnGroups
              = CalculateGroupDependencies(S, MergedCycles(S), Ids(S), id)
         /\ grps[id].isInCycle <=> id \in MergedCycles(S)
<1>1. id \in Ids(S)
  BY GroupShape
<1>2. grps[id] =
        [insertConfigs   |-> {c \in ConfigsAt(S, id) : c.runType = Insert},
         updateConfigs   |-> {c \in ConfigsAt(S, id) : c.runType # Insert},
         dependsOnGroups |-> CalculateGroupDependencies(S, MergedCycles(S), Ids(S), id),
         isInCycle       |-> id \in MergedCycles(S)]
  BY <1>1, GroupShape, Zenon
<1>3. grps[id].isInCycle = (id \in MergedCycles(S))
  BY <1>2
<1>4. grps[id].isInCycle <=> id \in MergedCycles(S)
  BY <1>3
<1>. QED  BY <1>2, <1>4

\* A group holds the configs of its tables, and its INSERTs and UPDATEs split them.
LEMMA GroupMembers ==
  ASSUME NEW S, NEW grps, grps = BuildExecutionGroups(S), NEW id \in DOMAIN grps
  PROVE  /\ grps[id].insertConfigs = {c \in ConfigsAt(S, id) : c.runType = Insert}
         /\ grps[id].updateConfigs = {c \in ConfigsAt(S, id) : c.runType # Insert}
         /\ GroupConfigs(grps[id]) = ConfigsAt(S, id)
BY GroupFields DEF GroupConfigs

\* The group of a config is where the tracker looks it up.
LEMMA HomeGroup ==
  ASSUME NEW S, NEW grps, grps = BuildExecutionGroups(S), NEW c \in S
  PROVE  Home(S, c) \in DOMAIN grps /\ GroupOf(grps, c) = Home(S, c)
<1>1. Home(S, c) \in DOMAIN grps
  BY GroupShape DEF Ids
<1>2. \A id \in DOMAIN grps : c \in GroupConfigs(grps[id]) <=> id = Home(S, c)
  BY GroupMembers DEF ConfigsAt
<1>. QED  BY <1>1, <1>2 DEF GroupOf

\* MarkConfigComplete keeps the tracker's counts right.
LEMMA MarkKeepsCounts ==
  ASSUME NEW S, IsFiniteSet(S), NEW grps, grps = BuildExecutionGroups(S),
         NEW tr, NEW done \in SUBSET S, TrackerCounts(tr, grps, done),
         NEW c \in S \ done
  PROVE  TrackerCounts(MarkConfigComplete(tr, grps, c), grps, done \cup {c})
<1>. DEFINE home == Home(S, c)
            after == MarkConfigComplete(tr, grps, c)
<1>1. /\ home \in DOMAIN grps
      /\ GroupOf(grps, c) = home
      /\ \A id \in DOMAIN grps : /\ GroupConfigs(grps[id]) \subseteq S
                                 /\ c \in GroupConfigs(grps[id]) <=> id = home
                                 /\ grps[id].insertConfigs \subseteq GroupConfigs(grps[id])
  <2>1. home \in DOMAIN grps /\ GroupOf(grps, c) = home
    BY HomeGroup
  <2>. QED  BY <2>1, GroupMembers DEF ConfigsAt
<1>. HIDE DEF home
<1>2. /\ tr.completedConfigs = done
      /\ tr.completedCount = [id \in DOMAIN grps |-> Cardinality(done \cap GroupConfigs(grps[id]))]
      /\ tr.insertPhaseComplete = [id \in DOMAIN grps |-> grps[id].insertConfigs \subseteq done]
  BY DEF TrackerCounts
<1>3. after = [completedConfigs    |-> done \cup {c},
               completedCount      |-> [tr.completedCount EXCEPT ![home] = @ + 1],
               insertPhaseComplete |->
                 [tr.insertPhaseComplete EXCEPT
                     ![home] = @ \/ grps[home].insertConfigs \subseteq done \cup {c}]]
  BY <1>1, <1>2, c \notin tr.completedConfigs DEF MarkConfigComplete
<1>. HIDE DEF after
<1>4. after.completedCount =
        [id \in DOMAIN grps |-> Cardinality((done \cup {c}) \cap GroupConfigs(grps[id]))]
  <2>1. ASSUME NEW id \in DOMAIN grps, id # home
        PROVE  (done \cup {c}) \cap GroupConfigs(grps[id]) = done \cap GroupConfigs(grps[id])
    BY <1>1, <2>1
  <2>2. Cardinality((done \cup {c}) \cap GroupConfigs(grps[home]))
          = Cardinality(done \cap GroupConfigs(grps[home])) + 1
    <3>1. IsFiniteSet(done \cap GroupConfigs(grps[home]))
      BY FS_Subset, done \cap GroupConfigs(grps[home]) \subseteq S
    <3>2. (done \cup {c}) \cap GroupConfigs(grps[home])
            = (done \cap GroupConfigs(grps[home])) \cup {c}
      BY <1>1
    <3>. QED  BY <3>1, <3>2, FS_AddElement
  <2>3. after.completedCount = [tr.completedCount EXCEPT ![home] = @ + 1]
    BY <1>3
  <2>4. after.completedCount
          = [id \in DOMAIN grps |->
                IF id = home THEN Cardinality(done \cap GroupConfigs(grps[home])) + 1
                             ELSE Cardinality(done \cap GroupConfigs(grps[id]))]
    <3>1. after.completedCount
            = [id \in DOMAIN tr.completedCount |->
                IF id = home THEN tr.completedCount[home] + 1 ELSE tr.completedCount[id]]
      BY <2>3
    <3>2. /\ DOMAIN tr.completedCount = DOMAIN grps
          /\ \A id \in DOMAIN grps :
                tr.completedCount[id] = Cardinality(done \cap GroupConfigs(grps[id]))
      BY <1>2
    <3>. QED  BY <1>1, <3>1, <3>2
  <2>. QED  BY <2>1, <2>2, <2>4
<1>5. after.insertPhaseComplete =
        [id \in DOMAIN grps |-> grps[id].insertConfigs \subseteq done \cup {c}]
  <2>1. ASSUME NEW id \in DOMAIN grps, id # home
        PROVE  (grps[id].insertConfigs \subseteq done)
                 = (grps[id].insertConfigs \subseteq done \cup {c})
    BY <1>1, <2>1
  <2>2. after.insertPhaseComplete
          = [tr.insertPhaseComplete EXCEPT
                ![home] = @ \/ grps[home].insertConfigs \subseteq done \cup {c}]
    BY <1>3
  <2>3. (grps[home].insertConfigs \subseteq done) \/ (grps[home].insertConfigs \subseteq done \cup {c})
          <=> grps[home].insertConfigs \subseteq done \cup {c}
    OBVIOUS
  <2>4. DOMAIN after.insertPhaseComplete = DOMAIN grps
    BY <1>2, <2>2
  <2>5. after.insertPhaseComplete
          = [id \in DOMAIN grps |->
                IF id = home
                THEN (grps[home].insertConfigs \subseteq done)
                       \/ (grps[home].insertConfigs \subseteq done \cup {c})
                ELSE grps[id].insertConfigs \subseteq done]
    BY <1>1, <1>2, <2>2
  <2>6. ASSUME NEW id \in DOMAIN grps
        PROVE  (IF id = home
                THEN (grps[home].insertConfigs \subseteq done)
                       \/ (grps[home].insertConfigs \subseteq done \cup {c})
                ELSE grps[id].insertConfigs \subseteq done)
               = (grps[id].insertConfigs \subseteq done \cup {c})
    BY <2>1, <2>3
  <2>. QED  BY <2>5, <2>6
<1>. QED  BY <1>3, <1>4, <1>5 DEF TrackerCounts, after

\* A group whose count has reached its size has every config complete.
LEMMA FullGroupIsDone ==
  ASSUME NEW S, IsFiniteSet(S), NEW grps, grps = BuildExecutionGroups(S),
         NEW tr, NEW done \in SUBSET S, TrackerCounts(tr, grps, done),
         NEW id \in DOMAIN grps, IsGroupComplete(tr, grps, id)
  PROVE  GroupConfigs(grps[id]) \subseteq done
<1>. DEFINE ins == grps[id].insertConfigs
            upd == grps[id].updateConfigs
            all == GroupConfigs(grps[id])
<1>1. ins \cap upd = {} /\ all = ins \cup upd /\ ins \subseteq S /\ upd \subseteq S
  BY GroupMembers DEF ConfigsAt
<1>2. Cardinality(done \cap all) = Cardinality(ins) + Cardinality(upd)
  BY DEF TrackerCounts, IsGroupComplete, TotalConfigs
<1>. HIDE DEF ins, upd, all
<1>3. IsFiniteSet(ins) /\ IsFiniteSet(upd) /\ IsFiniteSet(all)
  BY <1>1, FS_Subset, FS_Union
<1>4. Cardinality(all) = Cardinality(ins) + Cardinality(upd)
  <2>1. Cardinality(ins) \in Nat /\ Cardinality(upd) \in Nat
    BY <1>3, FS_CardinalityType
  <2>2. Cardinality(ins \cap upd) = 0
    BY <1>1, FS_EmptySet
  <2>. QED  BY <1>1, <1>3, <2>1, <2>2, FS_Union
<1>5. done \cap all = all
  BY <1>2, <1>3, <1>4, FS_Subset
<1>. QED  BY <1>5 DEF all

\* In a cycle's group, what is not an INSERT is an UPDATE with dependencies.
LEMMA InCycleUpdate ==
  ASSUME NEW j, WellFormed(j), NEW grps, grps = BuildExecutionGroups(ToSet(j)),
         NEW id \in DOMAIN grps, grps[id].isInCycle, NEW c \in grps[id].updateConfigs
  PROVE  c \in ToSet(j) /\ c.runType = Update /\ c.dependsOn # {}
<1>1. c \in ToSet(j) /\ Home(ToSet(j), c) = id /\ c.runType # Insert
  BY GroupMembers DEF ConfigsAt
<1>2. id \in MergedCycles(ToSet(j))
  <2>1. grps[id].isInCycle <=> id \in MergedCycles(ToSet(j))
    BY GroupFields
  <2>. QED  BY <2>1
<1>3. c.table \in id
  BY <1>1, GroupIdHoldsTable DEF Home
<1>. QED  BY <1>1, <1>2, <1>3 DEF WellFormed

-----------------------------------------------------------------------------
(***************************************************************************)
(* What CanConfigStart guarantees: the INSERTs of every table the config   *)
(* depends on are done, through the rule about groups for a table of       *)
(* another group and through the rule about configs for one of its own.    *)
(***************************************************************************)
LEMMA ReadyMeansParentsDone ==
  ASSUME NEW j, WellFormed(j), NEW grps, grps = BuildExecutionGroups(ToSet(j)),
         NEW tr, NEW done \in SUBSET ToSet(j), TrackerCounts(tr, grps, done),
         NEW c \in ToSet(j), CanConfigStart(tr, grps, c),
         NEW d \in c.dependsOn,
         NEW e \in ToSet(j), e.table = d.table, e.runType = Insert
  PROVE  e \in done
<1>. DEFINE S == ToSet(j)
            cycles == MergedCycles(S)
            id == Home(S, c)
            other == Home(S, e)
<1>1. IsFiniteSet(S)
  BY JobFacts
<1>2. \A p, q \in cycles : p # q => p \cap q = {}
  BY DEF WellFormed
<1>3. id \in DOMAIN grps /\ GroupOf(grps, c) = id /\ other \in DOMAIN grps
  BY HomeGroup
<1>4. /\ \A dep \in grps[id].dependsOnGroups : IsGroupComplete(tr, grps, dep)
      /\ FindConfigByTable(grps[id], d.table) \subseteq tr.completedConfigs
  BY <1>3 DEF CanConfigStart
<1>5. CASE other = id
  <2>. DEFINE inserts == {x \in grps[id].insertConfigs : x.table = d.table}
  <2>1. inserts = {e}
    <3>1. e \in inserts
      BY <1>3, <1>5, GroupMembers DEF ConfigsAt
    <3>2. ASSUME NEW x \in inserts
          PROVE  x = e
      <4>1. x \in S /\ x.runType = Insert /\ x.table = e.table
        BY <1>3, GroupMembers DEF ConfigsAt
      <4>. QED  BY <4>1 DEF WellFormed
    <3>. QED  BY <3>1, <3>2
  <2>2. FindConfigByTable(grps[id], d.table) = {CHOOSE x \in inserts : TRUE}
    BY <2>1 DEF FindConfigByTable
  <2>3. e \in FindConfigByTable(grps[id], d.table)
    BY <2>1, <2>2
  <2>. QED  BY <1>4, <2>3 DEF TrackerCounts
<1>6. CASE other # id
  <2>1. d.table \in other
    BY GroupIdHoldsTable DEF Home
  <2>2. d.table # c.table
    BY <1>6 DEF Home
  <2>3. ~(id \in cycles /\ d.table \in id)
    BY <1>2, <1>6, CycleIsGroupId DEF Home
  <2>4. c \in Members(S, cycles, id)
    BY DEF Members, Home
  <2>5. other \in CalculateGroupDependencies(S, cycles, Ids(S), id)
    BY <1>6, <2>1, <2>2, <2>3, <2>4 DEF CalculateGroupDependencies, Ids
  <2>6. grps[id].dependsOnGroups = CalculateGroupDependencies(S, cycles, Ids(S), id)
    BY <1>3, GroupFields
  <2>7. GroupConfigs(grps[other]) \subseteq done
    BY <1>1, <1>3, <1>4, <2>5, <2>6, FullGroupIsDone
  <2>8. e \in GroupConfigs(grps[other])
    BY <1>3, GroupMembers DEF ConfigsAt
  <2>. QED  BY <2>7, <2>8
<1>. QED  BY <1>5, <1>6

\* ... and an UPDATE of a cycle finds the INSERTs of the cycle done.
LEMMA ReadyMeansPhaseReached ==
  ASSUME NEW j, WellFormed(j), NEW grps, grps = BuildExecutionGroups(ToSet(j)),
         NEW tr, NEW done \in SUBSET ToSet(j), TrackerCounts(tr, grps, done),
         NEW c \in ToSet(j), CanConfigStart(tr, grps, c),
         NEW id \in DOMAIN grps, grps[id].isInCycle, c \in grps[id].updateConfigs
  PROVE  grps[id].insertConfigs \subseteq done
<1>1. Home(ToSet(j), c) = id /\ c.runType # Insert
  BY GroupMembers DEF ConfigsAt
<1>2. GroupOf(grps, c) = id
  BY <1>1, HomeGroup
<1>3. c.runType = Update
  BY <1>1, InCycleUpdate
<1>4. tr.insertPhaseComplete[id]
  BY <1>2, <1>3 DEF CanConfigStart
<1>. QED  BY <1>4 DEF TrackerCounts

-----------------------------------------------------------------------------
(***************************************************************************)
(* The invariant holds at first and is kept by every step.                 *)
(***************************************************************************)
LEMMA InitImpliesIInv == Init => IInv
<1>. SUFFICES ASSUME Init PROVE IInv
  OBVIOUS
<1>. USE DEF Init
<1>1. Typing
  <2>1. next \in Nat \ {0}
    OBVIOUS
  <2>2. canceled \in BOOLEAN
    OBVIOUS
  <2>3. /\ job \in Jobs
        /\ started = {} /\ succeeded \cup failed \cup aborted = {}
        /\ handled = {} /\ executing = {}
    OBVIOUS
  <2>. QED  BY ONLY <2>1, <2>2, <2>3 DEF Typing
<1>2. GroupsBuilt
  BY DEF GroupsBuilt, SetupStages
<1>3. RootsInOrder /\ CommittedMayStart /\ StartedMayStart
  BY DEF RootsInOrder, CommittedMayStart, Committed, StartedMayStart
<1>4. TrackerCounts(tracker, groups, succeeded)
  BY DEF TrackerCounts, NewGroupCompletionTracker
<1>5. Cardinality({}) = 0
  BY FS_EmptySet
<1>6. Counters
  BY <1>5, MaxConcurrencyAssumption DEF Counters
<1>7. Running
  BY <1>5, MaxConcurrencyAssumption DEF Running
<1>. QED  BY <1>1, <1>2, <1>3, <1>4, <1>6, <1>7 DEF IInv

\* The sets of configs are finite.
LEMMA ConfigsFinite ==
  ASSUME Typing
  PROVE  /\ IsFiniteSet(Configs)
         /\ IsFiniteSet(started) /\ IsFiniteSet(handled) /\ IsFiniteSet(executing)
         /\ WellFormed(job)
<1>1. WellFormed(job)
  BY JobsAssumption DEF Typing
<1>2. IsFiniteSet(Configs)
  BY <1>1, JobFacts DEF Configs
<1>. QED  BY <1>1, <1>2, FS_Subset DEF Typing

\* What a step has to do to pc, site, next and canceled when it starts no sync,
\* ends none and handles none.
ControlStep ==
    /\ UNCHANGED <<job, started, succeeded, failed, aborted, handled, groups, tracker,
                   inFlight, completedCount>>
    /\ executing' \subseteq executing
    /\ canceled' \in BOOLEAN /\ (canceled => canceled')
    /\ next' \in Nat \ {0}
    /\ pc' \in SetupStages => pc \in SetupStages /\ next' = next
    /\ pc' \notin SetupStages \cup {"returned"} => pc \notin SetupStages \cup {"returned"}
    /\ InRootLoop' => InRootLoop /\ next' >= next
    /\ Committed' =>
          /\ next' = next
          /\ Committed \/ (next \in DOMAIN job /\ job[next] \notin started /\ MayStart(job[next]))
    /\ pc' \in {"postTable", "slot"} => pc \in {"postTable", "slot"}

\* A control step keeps the invariant.
LEMMA ControlStepKeepsIInv ==
  ASSUME IInv, ControlStep
  PROVE  IInv'
<1>. USE DEF IInv, ControlStep
<1>1. Typing'
  BY DEF Typing, Configs
<1>2. GroupsBuilt'
  BY DEF GroupsBuilt, Configs
<1>3. RootsInOrder'
  <2>. SUFFICES ASSUME InRootLoop', NEW n \in DOMAIN job', n >= next'
                PROVE  job'[n] \notin started'
    BY DEF RootsInOrder
  <2>1. WellFormed(job) /\ next \in Nat
    BY ConfigsFinite DEF Typing
  <2>2. n \in Nat
    BY <2>1, JobFacts
  <2>. QED  BY <2>1, <2>2 DEF RootsInOrder
<1>4. \A c : MayStart(c) => MayStart(c)'
  BY DEF MayStart, ParentsWritten, PhaseReached, Configs
<1>5. CommittedMayStart'
  BY <1>4 DEF CommittedMayStart
<1>6. StartedMayStart'
  BY <1>4 DEF StartedMayStart
<1>7. TrackerCounts(tracker, groups, succeeded)'
  OBVIOUS
<1>8. Counters'
  BY DEF Counters
<1>9. Running'
  <2>1. IsFiniteSet(executing)
    BY ConfigsFinite
  <2>2. Cardinality(executing') <= Cardinality(executing) /\ Cardinality(executing) \in Nat
    BY <2>1, FS_Subset, FS_CardinalityType
  <2>3. IsFiniteSet(executing')
    BY <2>1, FS_Subset
  <2>4. Cardinality(executing') \in Nat
    BY <2>3, FS_CardinalityType
  <2>. QED  BY <2>2, <2>4, MaxConcurrencyAssumption DEF Running, Typing
<1>. QED  BY <1>1, <1>2, <1>3, <1>5, <1>6, <1>7, <1>8, <1>9

\* A config the tracker lets start may start.
LEMMA ReadyMayStart ==
  ASSUME IInv, NEW c \in Configs, IsConfigReady(c),
         groups = BuildExecutionGroups(Configs)
  PROVE  MayStart(c)
<1>. USE DEF IInv
<1>1. WellFormed(job) /\ succeeded \in SUBSET Configs
  BY ConfigsFinite DEF Typing
<1>2. TrackerCounts(tracker, groups, succeeded) /\ tracker.completedConfigs = succeeded
  BY DEF TrackerCounts
<1>3. CanConfigStart(tracker, groups, c)
  BY DEF IsConfigReady
<1>4. ParentsWritten(c)
  BY <1>1, <1>2, <1>3, ReadyMeansParentsDone DEF ParentsWritten, Configs
<1>5. PhaseReached(c)
  BY <1>1, <1>2, <1>3, ReadyMeansPhaseReached DEF PhaseReached, Configs
<1>. QED  BY <1>4, <1>5 DEF MayStart

\* In the loops, the job's config at next is one of its configs.
LEMMA ConfigAtNext ==
  ASSUME Typing, next <= Len(job)
  PROVE  next \in DOMAIN job /\ job[next] \in Configs
<1>1. WellFormed(job)
  BY ConfigsFinite
<1>2. Len(job) \in Nat /\ DOMAIN job = 1..Len(job) /\ \A n \in DOMAIN job : job[n] \in Configs
  BY <1>1, JobFacts DEF Configs
<1>. QED  BY <1>2 DEF Typing

\* The actions that are control steps.
LEMMA ControlActions ==
  ASSUME IInv,
         \/ SetupActivity \/ CheckAccount \/ GenerateBenthosConfigs
         \/ PassRoot \/ WaitForRootSlot \/ MainLoop \/ PassDependent \/ WaitForDependentSlot
         \/ SelectStop \/ PostTableSyncDone \/ FailCleanup \/ PostsyncHooks \/ CleanupRedis
         \/ (\E c \in Configs : ChildStops(c) \/ WriteRedis(c))
         \/ CancelRun \/ Poller \/ UNCHANGED vars
  PROVE  ControlStep
<1>. USE DEF IInv, Return, GoTo, UnchangedLoops, UnchangedOthers, UnchangedMain, mainVars, syncVars
<1>0. Typing
  OBVIOUS
<1>1. CASE SetupActivity
  <2>1. /\ pc \in {"options", "presync"}
        /\ pc' \in {"account", "schema", "returned"}
    BY <1>1 DEF SetupActivity, AfterStage
  <2>. QED  BY <1>0, <1>1, <2>1 DEF SetupActivity, ControlStep, InRootLoop, Committed, SetupStages, Typing
<1>2. CASE CheckAccount
  BY <1>0, <1>2 DEF CheckAccount, ControlStep, InRootLoop, Committed, SetupStages, Typing
<1>3. CASE GenerateBenthosConfigs
  BY <1>0, <1>3 DEF GenerateBenthosConfigs, ControlStep, InRootLoop, Committed, SetupStages, Typing
<1>4. CASE PassRoot
  BY <1>0, <1>4 DEF PassRoot, AtConfig, ControlStep, InRootLoop, Committed, SetupStages, Typing
<1>5. CASE WaitForRootSlot
  BY <1>0, <1>5 DEF WaitForRootSlot, Wait, AtConfig, ControlStep, InRootLoop, Committed, SetupStages, Typing
<1>6. CASE MainLoop
  BY <1>0, <1>6 DEF MainLoop, Wait, ControlStep, InRootLoop, Committed, SetupStages, Typing
<1>7. CASE PassDependent
  BY <1>0, <1>7 DEF PassDependent, AtConfig, ControlStep, InRootLoop, Committed, SetupStages, Typing
<1>8. CASE WaitForDependentSlot
  <2>1. next \in DOMAIN job /\ job[next] \in Configs
    BY <1>0, <1>8, ConfigAtNext DEF WaitForDependentSlot, AtConfig
  <2>2. job[next] \notin started /\ IsConfigReady(job[next])
    BY <1>8 DEF WaitForDependentSlot, ShouldStart
  <2>3. groups = BuildExecutionGroups(Configs)
    BY <1>8 DEF WaitForDependentSlot, AtConfig, GroupsBuilt, SetupStages
  <2>4. MayStart(job[next])
    BY <2>1, <2>2, <2>3, ReadyMayStart
  <2>. QED  BY <1>0, <1>8, <2>1, <2>2, <2>4
            DEF WaitForDependentSlot, Wait, AtConfig, ControlStep, InRootLoop, Committed,
                SetupStages, Typing
<1>9. CASE SelectStop
  BY <1>0, <1>9 DEF SelectStop, ControlStep, InRootLoop, Committed, SetupStages, Typing
<1>10. CASE PostTableSyncDone
  BY <1>0, <1>10 DEF PostTableSyncDone, ControlStep, InRootLoop, Committed, SetupStages, Typing
<1>a. HashesFrom(next) \subseteq Nat \ {0}
  BY <1>0, ConfigsFinite, JobFacts DEF HashesFrom
<1>11. CASE FailCleanup
  BY <1>0, <1>a, <1>11 DEF FailCleanup, DeleteRedisHash, ControlStep, InRootLoop, Committed, SetupStages, Typing
<1>12. CASE PostsyncHooks
  BY <1>0, <1>12 DEF PostsyncHooks, ControlStep, InRootLoop, Committed, SetupStages, Typing
<1>13. CASE CleanupRedis
  BY <1>0, <1>a, <1>13 DEF CleanupRedis, DeleteRedisHash, ControlStep, InRootLoop, Committed, SetupStages, Typing
<1>14. CASE \E c \in Configs : ChildStops(c) \/ WriteRedis(c)
  BY <1>0, <1>14 DEF ChildStops, WriteRedis, ControlStep, InRootLoop, Committed, Typing
<1>15. CASE CancelRun
  BY <1>0, <1>15 DEF CancelRun, ControlStep, InRootLoop, Committed, Typing
<1>16. CASE Poller
  BY <1>0, <1>16 DEF Poller, TimerFires, CheckIsValid, CheckIsInvalidOrFails, CheckIsCanceled,
                     Poll, ControlStep, InRootLoop, Committed, Typing
<1>17. CASE UNCHANGED vars
  BY <1>0, <1>17 DEF vars, ControlStep, InRootLoop, Committed, Typing
<1>. QED  BY <1>1, <1>2, <1>3, <1>4, <1>5, <1>6, <1>7, <1>8, <1>9, <1>10, <1>11, <1>12,
             <1>13, <1>14, <1>15, <1>16, <1>17

\* The groups are built while nothing is started.
LEMMA InitSchemaKeepsIInv ==
  ASSUME IInv, InitSchema
  PROVE  IInv'
<1>. USE DEF IInv, Return, GoTo, UnchangedLoops, UnchangedOthers
<1>1. CASE groups' = groups /\ tracker' = tracker /\ pc' = "returned"
  <2>1. ControlStep
    BY <1>1 DEF InitSchema, ControlStep, InRootLoop, Committed, SetupStages, Typing
  <2>. QED  BY <2>1, ControlStepKeepsIInv
<1>2. CASE /\ pc' = "roots"
           /\ groups' = BuildExecutionGroups(Configs)
           /\ tracker' = NewGroupCompletionTracker(groups')
  <2>1. pc = "schema" /\ started = {} /\ next = 1
    BY DEF InitSchema, GroupsBuilt, SetupStages
  <2>2. /\ UNCHANGED <<job, next, started, succeeded, failed, aborted, handled, executing,
                        canceled, inFlight, completedCount>>
        /\ succeeded = {}
    BY <2>1 DEF InitSchema, Typing
  <2>3. Typing'
    BY <2>2 DEF Typing, Configs
  <2>4. GroupsBuilt'
    BY <1>2, <2>1, <2>2 DEF GroupsBuilt, SetupStages, Configs
  <2>5. RootsInOrder' /\ CommittedMayStart' /\ StartedMayStart'
    BY <1>2, <2>1, <2>2 DEF RootsInOrder, CommittedMayStart, Committed, StartedMayStart
  <2>6. TrackerCounts(tracker', groups', succeeded')
    <3>1. \A S : Cardinality({} \cap S) = 0
      BY FS_EmptySet
    <3>. QED  BY <1>2, <2>2, <3>1 DEF TrackerCounts, NewGroupCompletionTracker
  <2>7. Counters' /\ Running'
    BY <1>2, <2>2 DEF Counters, Running
  <2>. QED  BY <2>3, <2>4, <2>5, <2>6, <2>7
<1>3. GroupsOf[job] = BuildExecutionGroups(Configs)
  BY DEF Typing, GroupsOf, Configs
<1>. QED  BY <1>1, <1>2, <1>3 DEF InitSchema

\* A config that may start is started while a slot is free.
LEMMA StartKeepsIInv ==
  ASSUME IInv, ExecuteSync(job[next]),
         next \in DOMAIN job, job[next] \in Configs, job[next] \notin started,
         MayStart(job[next]), inFlight < MaxConcurrency,
         groups = BuildExecutionGroups(Configs),
         UNCHANGED <<job, succeeded, failed, aborted, handled, groups, tracker, canceled,
                     completedCount>>,
         \/ pc' = "returned" /\ next' = next
         \/ pc' \in {"roots", "dependents"} /\ next' = next + 1,
         pc' = "roots" => pc = "roots"
  PROVE  IInv'
<1>. DEFINE c == job[next]
<1>. USE DEF IInv
<1>1. /\ started' = started \cup {c} /\ inFlight' = inFlight + 1
      /\ executing' = IF canceled THEN executing ELSE executing \cup {c}
  BY DEF ExecuteSync
<1>. HIDE DEF c
<1>2. Typing'
  <2>1. /\ started' \subseteq Configs' /\ executing' \subseteq started'
        /\ succeeded' \cup failed' \cup aborted' \subseteq started'
    BY <1>1 DEF Typing, Configs, c
  <2>2. next' \in Nat \ {0}
    BY DEF Typing
  <2>. QED  BY <2>1, <2>2 DEF Typing
<1>3. GroupsBuilt'
  BY DEF GroupsBuilt, SetupStages, Configs
<1>4. RootsInOrder'
  <2>. SUFFICES ASSUME InRootLoop', NEW n \in DOMAIN job', n >= next'
                PROVE  job'[n] \notin started'
    BY DEF RootsInOrder
  <2>1. pc = "roots" /\ next' = next + 1
    BY DEF InRootLoop
  <2>2. n \in Nat /\ next \in Nat
    BY ConfigsFinite, JobFacts DEF Typing
  <2>3. job[n] \notin started
    BY <2>1, <2>2 DEF RootsInOrder, InRootLoop
  <2>4. job[n] # c
    BY <2>1, <2>2, ConfigsFinite DEF WellFormed, c
  <2>. QED  BY <1>1, <2>3, <2>4
<1>5. ~Committed'
  BY DEF Committed
<1>6. \A x : MayStart(x) => MayStart(x)'
  BY DEF MayStart, ParentsWritten, PhaseReached, Configs
<1>7. StartedMayStart'
  BY <1>1, <1>6 DEF StartedMayStart, c
<1>8. TrackerCounts(tracker, groups, succeeded)'
  OBVIOUS
<1>9. c \notin handled
  BY DEF Typing, c
<1>10. Counters'
  <2>1. IsFiniteSet(started \ handled)
    BY ConfigsFinite, FS_Difference
  <2>2. started' \ handled' = (started \ handled) \cup {c} /\ c \notin started \ handled
    BY <1>1, <1>9 DEF c
  <2>3. Cardinality(started' \ handled') = Cardinality(started \ handled) + 1
    BY <2>1, <2>2, FS_AddElement
  <2>4. inFlight \in Nat
    BY <2>1, FS_CardinalityType DEF Counters
  <2>. QED  BY <1>1, <2>3, <2>4, MaxConcurrencyAssumption DEF Counters
<1>11. Running'
  <2>1. CASE canceled
    BY <1>1, <2>1 DEF Running
  <2>2. CASE ~canceled
    <3>1. executing \subseteq started \ handled
      BY <2>2 DEF Running, Typing
    <3>2. IsFiniteSet(started \ handled)
      BY ConfigsFinite, FS_Difference
    <3>3. Cardinality(executing) <= inFlight /\ inFlight \in Nat
      BY <3>1, <3>2, FS_Subset, FS_CardinalityType DEF Counters
    <3>4. executing' = executing \cup {c} /\ c \notin executing
      BY <1>1, <2>2 DEF Typing, c
    <3>5. Cardinality(executing') = Cardinality(executing) + 1 /\ Cardinality(executing) \in Nat
      BY <3>4, ConfigsFinite, FS_AddElement, FS_CardinalityType
    <3>6. Cardinality(executing') <= MaxConcurrency
      BY <3>3, <3>5, MaxConcurrencyAssumption
    <3>7. executing' \cap (succeeded' \cup failed') = {}
      BY <3>4 DEF Running, Typing, c
    <3>. QED  BY <2>2, <3>6, <3>7 DEF Running
  <2>. QED  BY <2>1, <2>2
<1>. QED  BY <1>2, <1>3, <1>4, <1>5, <1>7, <1>8, <1>10, <1>11 DEF CommittedMayStart

\* The loop over the roots starts a root, which nothing precedes.
LEMMA StartRootKeepsIInv ==
  ASSUME IInv, StartRoot
  PROVE  IInv'
<1>. USE DEF IInv, Return, GoTo, UnchangedOthers
<1>1. /\ pc = "roots" /\ next <= Len(job) /\ IsRoot(job[next])
      /\ inFlight < MaxConcurrency /\ ExecuteSync(job[next])
  BY DEF StartRoot, AtConfig
<1>2. /\ \/ pc' = "returned" /\ next' = next
         \/ pc' = "roots" /\ next' = next + 1
      /\ UNCHANGED <<job, succeeded, failed, aborted, handled, groups, tracker, canceled,
                     completedCount>>
  BY DEF StartRoot
<1>3. next \in DOMAIN job /\ job[next] \in Configs
  BY <1>1, ConfigAtNext
<1>4. job[next] \notin started
  <2>1. next \in Nat
    BY DEF Typing
  <2>. QED  BY <1>1, <1>3, <2>1 DEF RootsInOrder, InRootLoop
<1>5. groups = BuildExecutionGroups(Configs)
  BY <1>1 DEF GroupsBuilt, SetupStages
<1>6. MayStart(job[next])
  <2>1. ParentsWritten(job[next])
    BY <1>1 DEF ParentsWritten, IsRoot
  <2>2. PhaseReached(job[next])
    BY <1>1, <1>5, ConfigsFinite, InCycleUpdate DEF PhaseReached, IsRoot, Configs
  <2>. QED  BY <2>1, <2>2 DEF MayStart
<1>. QED  BY <1>1, <1>2, <1>3, <1>4, <1>5, <1>6, StartKeepsIInv

\* The main loop starts a config it has found ready, perhaps some time ago.
LEMMA StartDependentKeepsIInv ==
  ASSUME IInv, StartDependent
  PROVE  IInv'
<1>. USE DEF IInv, GoTo, UnchangedOthers
<1>1. /\ ExecuteSync(job[next])
      /\ pc' = "dependents" /\ next' = next + 1
      /\ UNCHANGED <<job, succeeded, failed, aborted, handled, groups, tracker, canceled,
                     completedCount>>
  BY DEF StartDependent
<1>2. groups = BuildExecutionGroups(Configs)
  BY DEF StartDependent, AtConfig, GroupsBuilt, SetupStages
<1>3. CASE pc = "slot"
  <2>1. next \in DOMAIN job /\ job[next] \notin started /\ MayStart(job[next])
    BY <1>3 DEF CommittedMayStart, Committed
  <2>2. job[next] \in Configs
    BY <2>1, ConfigsFinite, JobFacts DEF Configs
  <2>3. inFlight < MaxConcurrency
    BY <1>3 DEF Counters
  <2>. QED  BY <1>1, <1>2, <2>1, <2>2, <2>3, StartKeepsIInv
<1>4. CASE /\ AtConfig("dependents")
           /\ ShouldStart(job[next])
           /\ inFlight < MaxConcurrency
  <2>1. next \in DOMAIN job /\ job[next] \in Configs
    BY <1>4, ConfigAtNext DEF AtConfig
  <2>2. job[next] \notin started /\ IsConfigReady(job[next])
    BY <1>4 DEF ShouldStart
  <2>3. MayStart(job[next])
    BY <1>2, <2>1, <2>2, ReadyMayStart
  <2>. QED  BY <1>1, <1>2, <1>4, <2>1, <2>2, <2>3, StartKeepsIInv
<1>. QED  BY <1>3, <1>4 DEF StartDependent

\* Handling a future frees a slot.
LEMMA HandleKeepsIInv ==
  ASSUME IInv, NEW c \in (succeeded \cup failed \cup aborted) \ handled, Handle(c),
         pc' \in {"postTable", "failCleanup"},
         UNCHANGED <<job, site, started, succeeded, failed, aborted, groups, tracker, executing>>,
         canceled' \in BOOLEAN, canceled => canceled',
         \/ next' = next
         \/ pc' = "failCleanup" /\ next' = 1
  PROVE  IInv'
<1>. USE DEF IInv
<1>1. /\ pc = "select"
      /\ handled' = handled \cup {c}
      /\ inFlight' = inFlight - 1
      /\ completedCount' = completedCount + 1
  BY DEF Handle
<1>2. Typing'
  BY <1>1 DEF Typing, Configs
<1>3. GroupsBuilt'
  BY <1>1 DEF GroupsBuilt, SetupStages, Configs
<1>4. \A x : MayStart(x) => MayStart(x)'
  BY DEF MayStart, ParentsWritten, PhaseReached, Configs
<1>5. RootsInOrder'
  BY <1>1 DEF RootsInOrder, InRootLoop
<1>6. CommittedMayStart'
  BY <1>1, <1>4 DEF CommittedMayStart, Committed
<1>7. StartedMayStart'
  BY <1>4 DEF StartedMayStart
<1>8. TrackerCounts(tracker, groups, succeeded)'
  OBVIOUS
<1>9. Counters'
  <2>1. IsFiniteSet(started \ handled) /\ IsFiniteSet(handled)
    BY ConfigsFinite, FS_Difference
  <2>2. c \in started \ handled
    BY DEF Typing
  <2>3. started' \ handled' = (started \ handled) \ {c}
    BY <1>1
  <2>4. Cardinality(started' \ handled') = Cardinality(started \ handled) - 1
    BY <2>1, <2>2, <2>3, FS_RemoveElement
  <2>5. Cardinality(handled') = Cardinality(handled) + 1
    BY <1>1, <2>1, <2>2, FS_AddElement
  <2>6. inFlight \in Nat
    BY <2>1, FS_CardinalityType DEF Counters
  <2>. QED  BY <1>1, <2>4, <2>5, <2>6, MaxConcurrencyAssumption DEF Counters
<1>10. Running'
  BY DEF Running, Typing
<1>. QED  BY <1>2, <1>3, <1>5, <1>6, <1>7, <1>8, <1>9, <1>10

\* Receiving a result hands it on and frees its slot.
LEMMA SelectKeepsIInv ==
  ASSUME IInv, NEW c \in Configs, SelectSuccess(c) \/ SelectFailure(c)
  PROVE  IInv'
<1>. USE DEF IInv, GoTo, UnchangedOthers
<1>1. CASE SelectSuccess(c)
  <2>1. /\ c \in (succeeded \cup failed \cup aborted) \ handled /\ Handle(c)
        /\ pc' = "postTable" /\ next' = next
        /\ UNCHANGED <<job, site, started, succeeded, failed, aborted, groups, tracker, executing>>
    BY <1>1 DEF SelectSuccess
  <2>2. canceled' \in BOOLEAN /\ (canceled => canceled')
    BY <1>1 DEF SelectSuccess, Typing
  <2>. QED  BY <2>1, <2>2, HandleKeepsIInv
<1>2. CASE SelectFailure(c)
  <2>1. /\ c \in (succeeded \cup failed \cup aborted) \ handled /\ Handle(c)
        /\ pc' = "failCleanup" /\ next' = 1
        /\ UNCHANGED <<job, site, started, succeeded, failed, aborted, groups, tracker, executing>>
    BY <1>2 DEF SelectFailure
  <2>2. canceled' \in BOOLEAN /\ (canceled => canceled')
    BY <1>2 DEF SelectFailure
  <2>. QED  BY <2>1, <2>2, HandleKeepsIInv
<1>. QED  BY <1>1, <1>2

\* A sync ends: the main coroutine does not move.
LEMMA SyncEndsKeepsIInv ==
  ASSUME IInv, NEW c \in Configs, SyncEnds(c)
  PROVE  IInv'
<1>. USE DEF IInv, UnchangedMain, mainVars
<1>1. /\ c \in started /\ c \notin succeeded \cup failed \cup aborted
      /\ UNCHANGED <<job, pc, next, site, started, inFlight, completedCount, handled, groups,
                     canceled>>
      /\ succeeded' \cup failed' \cup aborted' = succeeded \cup failed \cup aborted \cup {c}
      /\ succeeded \subseteq succeeded'
      /\ executing' \subseteq executing
  BY DEF SyncEnds, SyncSucceeds, SyncFails, SyncCanceled, Pending
<1>2. groups = BuildExecutionGroups(Configs)
  BY <1>1 DEF GroupsBuilt
<1>3. Typing'
  BY <1>1 DEF Typing, Configs
<1>4. GroupsBuilt'
  BY <1>1 DEF GroupsBuilt, Configs
<1>5. RootsInOrder'
  BY <1>1 DEF RootsInOrder, InRootLoop
<1>6. TrackerCounts(tracker', groups', succeeded')
  <2>1. CASE SyncSucceeds(c)
    <3>1. tracker' = MarkConfigComplete(tracker, groups, c) /\ succeeded' = succeeded \cup {c}
      BY <2>1 DEF SyncSucceeds
    <3>2. IsFiniteSet(Configs) /\ succeeded \in SUBSET Configs /\ c \in Configs \ succeeded
      BY <1>1, ConfigsFinite DEF Typing
    <3>. QED  BY <1>1, <1>2, <3>1, <3>2, MarkKeepsCounts
  <2>2. CASE SyncFails(c) \/ SyncCanceled(c)
    <3>1. UNCHANGED <<tracker, groups, succeeded>>
      BY <1>1, <2>2 DEF SyncFails, SyncCanceled
    <3>. QED  BY <3>1
  <2>. QED  BY <2>1, <2>2 DEF SyncEnds
<1>7. tracker.completedConfigs \subseteq tracker'.completedConfigs
  BY <1>1, <1>6 DEF TrackerCounts
<1>8. \A x : MayStart(x) => MayStart(x)'
  BY <1>1, <1>7 DEF MayStart, ParentsWritten, PhaseReached, Configs
<1>9. CommittedMayStart' /\ StartedMayStart'
  BY <1>1, <1>8 DEF CommittedMayStart, Committed, StartedMayStart
<1>10. Counters'
  BY <1>1 DEF Counters
<1>11. Running'
  <2>1. Cardinality(executing') <= MaxConcurrency
    <3>1. Cardinality(executing') <= Cardinality(executing)
          /\ Cardinality(executing') \in Nat /\ Cardinality(executing) \in Nat
      BY <1>1, ConfigsFinite, FS_Subset, FS_CardinalityType
    <3>. QED  BY <3>1, MaxConcurrencyAssumption DEF Running
  <2>2. executing' \cap (succeeded' \cup failed') = {}
    BY <1>1 DEF SyncEnds, SyncSucceeds, SyncFails, SyncCanceled, Running
  <2>3. ~canceled' => aborted' = {}
    <3>1. CASE SyncSucceeds(c) \/ SyncFails(c)
      BY <3>1 DEF SyncSucceeds, SyncFails, Running
    <3>2. CASE SyncCanceled(c)
      BY <1>1, <3>2 DEF SyncCanceled
    <3>. QED  BY <3>1, <3>2 DEF SyncEnds
  <2>. QED  BY <2>1, <2>2, <2>3 DEF Running
<1>. QED  BY <1>3, <1>4, <1>5, <1>6, <1>9, <1>10, <1>11

\* Every step keeps the inductive invariant.
LEMMA NextKeepsIInv == IInv /\ [Next]_vars => IInv'
<1>. SUFFICES ASSUME IInv, [Next]_vars PROVE IInv'
  OBVIOUS
<1>1. CASE InitSchema
  BY <1>1, InitSchemaKeepsIInv
<1>2. CASE StartRoot
  BY <1>2, StartRootKeepsIInv
<1>3. CASE StartDependent
  BY <1>3, StartDependentKeepsIInv
<1>4. CASE \E c \in Configs : SelectSuccess(c) \/ SelectFailure(c)
  BY <1>4, SelectKeepsIInv
<1>5. CASE \E c \in Configs : SyncEnds(c)
  BY <1>5, SyncEndsKeepsIInv
<1>6. CASE \/ SetupActivity \/ CheckAccount \/ GenerateBenthosConfigs
           \/ PassRoot \/ WaitForRootSlot \/ MainLoop \/ PassDependent \/ WaitForDependentSlot
           \/ SelectStop \/ PostTableSyncDone \/ FailCleanup \/ PostsyncHooks \/ CleanupRedis
           \/ (\E c \in Configs : ChildStops(c) \/ WriteRedis(c))
           \/ CancelRun \/ Poller \/ UNCHANGED vars
  BY <1>6, ControlActions, ControlStepKeepsIInv
<1>. QED  BY <1>1, <1>2, <1>3, <1>4, <1>5, <1>6
          DEF Next, Main, Setup, Loops, Select, Closed

\* The inductive invariant holds of every reachable state.
LEMMA IInvInvariant == Spec => []IInv
BY InitImpliesIInv, NextKeepsIInv, PTL DEF Spec

-----------------------------------------------------------------------------
(***************************************************************************)
(* Type correctness, for the variables IInv does not speak of.             *)
(***************************************************************************)
Control ==
    /\ pc \in SetupStages \cup BlockedOnActivity
              \cup {"roots", "dependents", "slot", "select", "returned"}
    /\ site \in {"root", "main", "dependent"}
    /\ activityErr \in Outcomes \ {"ok"}
    /\ result \in Outcomes
    /\ poller \in {"off", "timer", "checking", "sending", "exited"}

Histories == accountBad \in BOOLEAN /\ userCanceled \in BOOLEAN

Effects == postSynced \subseteq handled /\ redisKeys \subseteq started

\* Every step keeps the control variables well formed.
LEMMA NextKeepsControl == Control /\ [Next]_vars => Control'
<1>. SUFFICES ASSUME Control, [Next]_vars PROVE Control'
  OBVIOUS
<1>. USE DEF Control, SetupStages, BlockedOnActivity, Outcomes, Return, GoTo, ActivityError
<1>1. CASE Setup
  BY <1>1 DEF Setup, SetupActivity, AfterStage, CheckAccount, GenerateBenthosConfigs, InitSchema,
              UnchangedLoops
<1>2. CASE Loops
  BY <1>2 DEF Loops, PassRoot, StartRoot, WaitForRootSlot, MainLoop, PassDependent,
              WaitForDependentSlot, StartDependent, Wait, UnchangedLoops
<1>3. CASE Select
  BY <1>3 DEF Select, SelectStop, SelectSuccess, SelectFailure
<1>4. CASE PostTableSyncDone \/ FailCleanup \/ PostsyncHooks \/ CleanupRedis
  BY <1>4 DEF PostTableSyncDone, FailCleanup, PostsyncHooks, CleanupRedis, DeleteRedisHash,
              UnchangedLoops
<1>5. CASE \/ \E c \in Configs : SyncEnds(c) \/ ChildStops(c) \/ WriteRedis(c)
           \/ CancelRun
  BY <1>5 DEF SyncEnds, SyncSucceeds, SyncFails, SyncCanceled, ChildStops, WriteRedis, CancelRun,
              UnchangedMain, mainVars
<1>6. CASE Poller
  BY <1>6 DEF Poller, TimerFires, CheckIsValid, CheckIsInvalidOrFails, CheckIsCanceled, Poll,
              UnchangedMain, mainVars
<1>7. CASE UNCHANGED vars
  BY <1>7 DEF vars, mainVars
<1>. QED  BY <1>1, <1>2, <1>3, <1>4, <1>5, <1>6, <1>7 DEF Next, Main, Closed

\* Every step keeps the history variables well formed.
LEMMA NextKeepsHistories == Histories /\ [Next]_vars => Histories'
<1>. SUFFICES ASSUME Histories, [Next]_vars PROVE Histories'
  OBVIOUS
<1>. USE DEF Histories
<1>1. CASE UNCHANGED <<accountBad, userCanceled>>
  BY <1>1
<1>2. CASE accountBad' = TRUE /\ userCanceled' = userCanceled
  BY <1>2
<1>3. CASE accountBad' = accountBad /\ userCanceled' = TRUE
  BY <1>3
<1>4. \/ UNCHANGED <<accountBad, userCanceled>>
      \/ accountBad' = TRUE /\ userCanceled' = userCanceled
      \/ accountBad' = accountBad /\ userCanceled' = TRUE
  BY DEF Next, Main, Setup, SetupActivity, CheckAccount, GenerateBenthosConfigs, InitSchema,
         Loops, PassRoot, StartRoot, WaitForRootSlot, MainLoop, PassDependent,
         WaitForDependentSlot, StartDependent, Select, SelectStop, SelectSuccess, SelectFailure,
         PostTableSyncDone, FailCleanup, PostsyncHooks, CleanupRedis,
         SyncEnds, SyncSucceeds, SyncFails, SyncCanceled, ChildStops, WriteRedis, CancelRun,
         Poller, TimerFires, CheckIsValid, CheckIsInvalidOrFails, CheckIsCanceled, Poll,
         Closed, vars, UnchangedOthers
<1>. QED  BY <1>1, <1>2, <1>3, <1>4

\* Only syncs that were started leave keys behind, only handled ones are post-synced.
LEMMA NextKeepsEffects == Typing /\ Effects /\ [Next]_vars => Effects'
<1>. SUFFICES ASSUME Typing, Effects, [Next]_vars PROVE Effects'
  OBVIOUS
<1>. USE DEF Effects
<1>1. CASE Setup
  BY <1>1 DEF Setup, SetupActivity, CheckAccount, GenerateBenthosConfigs, InitSchema,
              UnchangedLoops
<1>2. CASE Loops
  BY <1>2 DEF Loops, PassRoot, StartRoot, WaitForRootSlot, MainLoop, PassDependent,
              WaitForDependentSlot, StartDependent, ExecuteSync, UnchangedLoops
<1>3. CASE Select
  BY <1>3 DEF Select, SelectStop, SelectSuccess, SelectFailure, Handle
<1>4. CASE PostTableSyncDone \/ FailCleanup \/ PostsyncHooks \/ CleanupRedis
  BY <1>4 DEF PostTableSyncDone, FailCleanup, PostsyncHooks, CleanupRedis, DeleteRedisHash,
              UnchangedLoops
<1>5. CASE \/ \E c \in Configs : SyncEnds(c) \/ ChildStops(c) \/ WriteRedis(c)
           \/ CancelRun
  BY <1>5 DEF SyncEnds, SyncSucceeds, SyncFails, SyncCanceled, ChildStops, WriteRedis, CancelRun,
              UnchangedMain, mainVars, Pending, Typing
<1>6. CASE Poller
  BY <1>6 DEF Poller, TimerFires, CheckIsValid, CheckIsInvalidOrFails, CheckIsCanceled, Poll,
              UnchangedMain, mainVars
<1>7. CASE UNCHANGED vars
  BY <1>7 DEF vars, mainVars
<1>. QED  BY <1>1, <1>2, <1>3, <1>4, <1>5, <1>6, <1>7 DEF Next, Main, Closed

-----------------------------------------------------------------------------
(***************************************************************************)
(* The theorems.                                                           *)
(***************************************************************************)
\* A started config finds the INSERTs of the tables it depends on done, for every
\* job, limit and interleaving of syncs, failures and cancellations.
THEOREM ParentsWrittenFirstHolds == Spec => []ParentsWrittenFirst
<1>1. IInv => ParentsWrittenFirst
  BY DEF IInv, StartedMayStart, MayStart, ParentsWritten, ParentsWrittenFirst
<1>. QED  BY <1>1, IInvInvariant, PTL

\* No UPDATE of a cycle starts before every INSERT of the cycle is done.
THEOREM UpdatesAfterInsertsHolds == Spec => []UpdatesAfterInserts
<1>1. IInv => UpdatesAfterInserts
  BY DEF IInv, StartedMayStart, MayStart, PhaseReached, UpdatesAfterInserts
<1>. QED  BY <1>1, IInvInvariant, PTL

\* The counters of the main coroutine count, and at most MaxConcurrency syncs run.
THEOREM ConcurrencyBoundHolds == Spec => []ConcurrencyBound
<1>1. IInv => ConcurrencyBound
  BY DEF IInv, Counters, Running, ConcurrencyBound
<1>. QED  BY <1>1, IInvInvariant, PTL

\* The tracker counts exactly the syncs that succeeded.
THEOREM TrackerCountsSuccessesHolds == Spec => []TrackerCountsSuccesses
<1>1. IInv => TrackerCountsSuccesses
  <2>. SUFFICES ASSUME IInv PROVE TrackerCountsSuccesses
    OBVIOUS
  <2>1. /\ tracker.completedConfigs = succeeded
        /\ tracker.completedCount
             = [id \in DOMAIN groups |-> Cardinality(succeeded \cap GroupConfigs(groups[id]))]
        /\ tracker.insertPhaseComplete
             = [id \in DOMAIN groups |-> groups[id].insertConfigs \subseteq succeeded]
    BY DEF IInv, TrackerCounts
  <2>2. ASSUME NEW id \in DOMAIN groups
        PROVE  tracker.insertPhaseComplete[id] = (groups[id].insertConfigs \subseteq succeeded)
    BY <2>1
  <2>3. ASSUME NEW id \in DOMAIN groups
        PROVE  tracker.completedCount[id] = Cardinality(succeeded \cap GroupConfigs(groups[id]))
    BY <2>1
  <2>. QED  BY <2>1, <2>2, <2>3, Zenon DEF TrackerCountsSuccesses
<1>. QED  BY <1>1, IInvInvariant, PTL

\* Type correctness.
THEOREM TypeCorrect == Spec => []TypeOK
<1>1. Init => Control /\ Effects
  BY DEF Init, Control, Effects, SetupStages, Outcomes
<1>2. Init => Histories
  BY DEF Init, Histories
<1>3. IInv /\ Control /\ Histories /\ Effects => TypeOK
  <2>. SUFFICES ASSUME IInv, Control, Histories, Effects PROVE TypeOK
    OBVIOUS
  <2>1. inFlight \in Nat /\ completedCount \in Nat
    BY ConfigsFinite, FS_Difference, FS_CardinalityType DEF IInv, Counters
  <2>. QED  BY <2>1 DEF IInv, Typing, Control, Histories, Effects, TypeOK
<1>4. IInv => Typing
  BY DEF IInv
<1>. QED  BY <1>1, <1>2, <1>3, <1>4, IInvInvariant, NextKeepsControl, NextKeepsHistories,
             NextKeepsEffects, PTL DEF Spec

-----------------------------------------------------------------------------
(***************************************************************************)
(* How a run ends.                                                         *)
(***************************************************************************)
\* A run that is called off, and not on its way out with the reason at hand, was
\* canceled by its user.
Reasons ==
    /\ canceled /\ pc \notin {"failCleanup", "returned"} => userCanceled
    /\ activityErr = "canceled" => userCanceled
    /\ result = "canceled" => userCanceled

\* Called off, the main coroutine is not where it starts a sync, but for the
\* first root.
Quiet == canceled => pc \notin {"dependents", "slot"} /\ (pc = "roots" => started = {})

\* What was handled has succeeded and was post-synced; when the loops are left
\* all is handled, and of the hashes those remain that are yet to be deleted.
Finishing ==
    /\ result # "none" => pc = "returned"
    /\ pc \notin {"postTable", "failCleanup", "returned"}
         => handled \subseteq succeeded \cap postSynced
    /\ pc = "postTable"
         => handled \subseteq succeeded /\ (canceled \/ handled \subseteq postSynced)
    /\ pc \in {"postsync", "cleanup"} => handled = Configs
    /\ redisKeys \subseteq {c \in started : c.redis}
    /\ pc = "cleanup" => redisKeys \subseteq {job[m] : m \in HashesFrom(next)}

\* The hashes of what has succeeded are there until the run is over.
HashesKept ==
    /\ pc = "failCleanup" => canceled
    /\ ~canceled /\ pc \in {"cleanup", "returned"} => executing = {}
    /\ ~canceled /\ pc \notin {"cleanup", "returned"}
         => \A e \in succeeded : e.redis => e \in redisKeys

-----------------------------------------------------------------------------
\* Every step keeps the reasons.
LEMMA NextKeepsReasons == IInv /\ Reasons /\ [Next]_vars => Reasons'
<1>. SUFFICES ASSUME IInv, Reasons, [Next]_vars PROVE Reasons'
  OBVIOUS
<1>. USE DEF Reasons, Return, GoTo, ActivityError, SetupStages, BlockedOnActivity
<1>1. CASE Setup
  BY <1>1 DEF Setup, SetupActivity, AfterStage, CheckAccount, GenerateBenthosConfigs, InitSchema,
              UnchangedLoops, UnchangedOthers
<1>2. CASE Loops
  BY <1>2 DEF Loops, PassRoot, StartRoot, WaitForRootSlot, MainLoop, PassDependent,
              WaitForDependentSlot, StartDependent, Wait, AtConfig, UnchangedLoops,
              UnchangedOthers
<1>3. CASE Select
  <2>1. CASE SelectStop
    BY <2>1 DEF SelectStop, UnchangedOthers
  <2>2. ASSUME NEW c \in Configs, SelectSuccess(c) PROVE Reasons'
    BY <2>2 DEF SelectSuccess, Handle, UnchangedOthers
  <2>3. ASSUME NEW c \in Configs, SelectFailure(c) PROVE Reasons'
    <3>1. c \notin failed => canceled
      BY <2>3 DEF SelectFailure, IInv, Running
    <3>. QED  BY <2>3, <3>1 DEF SelectFailure, Handle, UnchangedOthers
  <2>. QED  BY <1>3, <2>1, <2>2, <2>3 DEF Select
<1>4. CASE PostTableSyncDone \/ FailCleanup \/ PostsyncHooks \/ CleanupRedis
  BY <1>4 DEF PostTableSyncDone, FailCleanup, PostsyncHooks, CleanupRedis, DeleteRedisHash,
              UnchangedLoops, UnchangedOthers
<1>5. CASE \/ \E c \in Configs : SyncEnds(c) \/ ChildStops(c) \/ WriteRedis(c)
           \/ CancelRun
  BY <1>5 DEF SyncEnds, SyncSucceeds, SyncFails, SyncCanceled, ChildStops, WriteRedis, CancelRun,
              UnchangedMain, mainVars
<1>6. CASE Poller
  BY <1>6 DEF Poller, TimerFires, CheckIsValid, CheckIsInvalidOrFails, CheckIsCanceled, Poll,
              UnchangedMain, mainVars
<1>7. CASE UNCHANGED vars
  BY <1>7 DEF vars, mainVars
<1>. QED  BY <1>1, <1>2, <1>3, <1>4, <1>5, <1>6, <1>7 DEF Next, Main, Closed

\* Every step of a run that is called off stays away from the starts.
LEMMA NextKeepsQuiet == IInv /\ Quiet /\ [Next]_vars => Quiet'
<1>. SUFFICES ASSUME IInv, Quiet, [Next]_vars PROVE Quiet'
  OBVIOUS
<1>. USE DEF Quiet, Return, GoTo, ActivityError, SetupStages, BlockedOnActivity
<1>1. CASE Setup
  BY <1>1 DEF Setup, SetupActivity, AfterStage, CheckAccount, GenerateBenthosConfigs, InitSchema,
              UnchangedLoops, UnchangedOthers, IInv, GroupsBuilt
<1>2. CASE Loops
  BY <1>2 DEF Loops, PassRoot, StartRoot, WaitForRootSlot, MainLoop, PassDependent,
              WaitForDependentSlot, StartDependent, Wait, AtConfig, UnchangedLoops,
              UnchangedOthers
<1>3. CASE Select
  BY <1>3 DEF Select, SelectStop, SelectSuccess, SelectFailure, Handle, UnchangedOthers
<1>4. CASE PostTableSyncDone \/ FailCleanup \/ PostsyncHooks \/ CleanupRedis
  BY <1>4 DEF PostTableSyncDone, FailCleanup, PostsyncHooks, CleanupRedis, DeleteRedisHash,
              UnchangedLoops, UnchangedOthers
<1>5. CASE \/ \E c \in Configs : SyncEnds(c) \/ ChildStops(c) \/ WriteRedis(c)
           \/ CancelRun
  BY <1>5 DEF SyncEnds, SyncSucceeds, SyncFails, SyncCanceled, ChildStops, WriteRedis, CancelRun,
              MainBlocked, UnchangedMain, mainVars
<1>6. CASE Poller
  BY <1>6 DEF Poller, TimerFires, CheckIsValid, CheckIsInvalidOrFails, CheckIsCanceled, Poll,
              UnchangedMain, mainVars
<1>7. CASE UNCHANGED vars
  BY <1>7 DEF vars, mainVars
<1>. QED  BY <1>1, <1>2, <1>3, <1>4, <1>5, <1>6, <1>7 DEF Next, Main, Closed

\* A job has as many configs as positions.
LEMMA LenIsCardinality ==
  ASSUME Typing
  PROVE  Cardinality(Configs) = Len(job)
<1>1. WellFormed(job)
  BY ConfigsFinite
<1>2. job \in Seq(Configs) /\ Len(job) \in Nat /\ DOMAIN job = 1..Len(job)
  BY <1>1, JobFacts DEF WellFormed, Configs
<1>3. job \in Bijection(1..Len(job), Configs)
  BY <1>1, <1>2 DEF WellFormed, Configs, ToSet, Bijection, Injection, Surjection, IsInjective
<1>4. IsFiniteSet(1..Len(job)) /\ Cardinality(1..Len(job)) = Len(job)
  BY <1>2, FS_Interval
<1>. QED  BY <1>3, <1>4, FS_Bijection DEF ExistsBijection

\* The main loop is left when all is handled.
LEMMA CountedMeansHandled ==
  ASSUME IInv, completedCount = Len(job)
  PROVE  handled = Configs
<1>1. Cardinality(handled) = Cardinality(Configs)
  BY LenIsCardinality DEF IInv, Counters
<1>2. handled \subseteq Configs /\ IsFiniteSet(Configs)
  BY ConfigsFinite DEF IInv, Typing
<1>. QED  BY <1>1, <1>2, FS_Subset

\* Deleting the hash at hand leaves those after it.
LEMMA DeleteKeepsRest ==
  ASSUME Typing, DeleteRedisHash, redisKeys \subseteq {job[m] : m \in HashesFrom(next)}
  PROVE  redisKeys' \subseteq {job[m] : m \in {k \in DOMAIN job : k >= next' /\ job[k].redis}}
<1>1. PICK n \in HashesFrom(next) : /\ \A m \in HashesFrom(next) : n <= m
                                    /\ redisKeys' = redisKeys \ {job[n]}
                                    /\ next' = n + 1
  BY DEF DeleteRedisHash
<1>2. DOMAIN job \subseteq Nat
  BY ConfigsFinite, JobFacts
<1>3. ASSUME NEW c \in redisKeys' 
      PROVE  \E m \in DOMAIN job : m >= next' /\ job[m].redis /\ c = job[m]
  <2>1. PICK m \in HashesFrom(next) : c = job[m]
    BY <1>1, <1>3
  <2>2. m # n /\ n <= m /\ m \in Nat /\ n \in Nat
    BY <1>1, <1>2, <1>3, <2>1 DEF HashesFrom
  <2>. QED  BY <1>1, <2>1, <2>2 DEF HashesFrom
<1>. QED  BY <1>3

\* Every step keeps account of what is handled and of the hashes.
LEMMA NextKeepsFinishing ==
  IInv /\ Effects /\ Finishing /\ [Next]_vars => Finishing'
<1>. SUFFICES ASSUME IInv, Effects, Finishing, [Next]_vars PROVE Finishing'
  OBVIOUS
<1>. USE DEF Finishing, Return, GoTo, SetupStages, BlockedOnActivity
<1>a. Typing
  BY DEF IInv
<1>1. CASE Setup
  <2>1. /\ pc \in SetupStages /\ started = {}
        /\ pc' \notin {"postTable", "postsync", "cleanup"}
        /\ result' # "none" => pc' = "returned"
        /\ UNCHANGED <<job, handled, started, succeeded, postSynced, redisKeys>>
    BY <1>1 DEF Setup, SetupActivity, AfterStage, CheckAccount, GenerateBenthosConfigs,
                InitSchema, UnchangedLoops, UnchangedOthers, syncVars, IInv, GroupsBuilt
  <2>2. handled = {}
    BY <1>a, <2>1 DEF Typing
  <2>. QED  BY <2>1, <2>2
<1>2. CASE Loops
  <2>1. /\ pc \in {"roots", "dependents", "slot"}
        /\ UNCHANGED <<job, handled, succeeded, postSynced, redisKeys>>
        /\ started \subseteq started'
        /\ pc' \notin {"postTable", "cleanup"}
        /\ pc' = "postsync" => completedCount = Len(job)
        /\ result' # "none" => pc' = "returned"
    BY <1>2 DEF Loops, PassRoot, StartRoot, WaitForRootSlot, MainLoop, PassDependent,
                WaitForDependentSlot, StartDependent, Wait, AtConfig, ExecuteSync,
                UnchangedLoops, UnchangedOthers
  <2>2. pc' = "postsync" => handled' = Configs'
    BY <2>1, CountedMeansHandled DEF Configs
  <2>. QED  BY <2>1, <2>2
<1>3. CASE Select
  <2>1. CASE SelectStop
    BY <2>1 DEF SelectStop, UnchangedOthers
  <2>2. ASSUME NEW c \in Configs, SelectSuccess(c) PROVE Finishing'
    BY <2>2 DEF SelectSuccess, Handle, UnchangedOthers
  <2>3. ASSUME NEW c \in Configs, SelectFailure(c) PROVE Finishing'
    BY <2>3 DEF SelectFailure, Handle, UnchangedOthers
  <2>. QED  BY <1>3, <2>1, <2>2, <2>3 DEF Select
<1>4. CASE PostTableSyncDone
  BY <1>4 DEF PostTableSyncDone, UnchangedLoops, UnchangedOthers
<1>5. CASE FailCleanup
  BY <1>5 DEF FailCleanup, DeleteRedisHash, UnchangedLoops, UnchangedOthers
<1>6. CASE PostsyncHooks
  <2>1. /\ handled = Configs
        /\ UNCHANGED <<job, handled, started, succeeded, postSynced, redisKeys>>
        /\ \/ pc' = "cleanup" /\ next' = 1 /\ UNCHANGED result
           \/ pc' = "returned"
    BY <1>6 DEF PostsyncHooks, UnchangedLoops, UnchangedOthers
  <2>2. redisKeys \subseteq {job[m] : m \in {k \in DOMAIN job : k >= 1 /\ job[k].redis}}
    <3>1. \A c \in Configs : \E m \in DOMAIN job : c = job[m]
      BY DEF Configs, ToSet
    <3>2. \A m \in DOMAIN job : m >= 1
      BY <1>a, ConfigsFinite, JobFacts
    <3>. QED  BY <1>a, <3>1, <3>2 DEF Typing
  <2>. QED  BY <1>6, <2>1, <2>2 DEF PostsyncHooks, HashesFrom, Configs
<1>7. CASE CleanupRedis
  <2>1. CASE DeleteRedisHash
    <3>1. UNCHANGED <<job, handled, started, succeeded, postSynced, result, pc>>
      BY <1>7, <2>1 DEF CleanupRedis, DeleteRedisHash, UnchangedLoops, UnchangedOthers
    <3>2. pc = "cleanup" /\ redisKeys' \subseteq redisKeys
      BY <1>7, <2>1 DEF CleanupRedis, DeleteRedisHash
    <3>3. redisKeys' \subseteq {job'[m] : m \in HashesFrom(next)'}
      BY <1>a, <2>1, <3>1, <3>2, DeleteKeepsRest DEF HashesFrom
    <3>. QED  BY <3>1, <3>2, <3>3 DEF Configs
  <2>2. CASE pc' = "returned"
    BY <1>7, <2>2 DEF CleanupRedis, DeleteRedisHash, UnchangedLoops, UnchangedOthers
  <2>. QED  BY <1>7, <2>1, <2>2 DEF CleanupRedis
<1>8. ASSUME NEW c \in Configs, SyncEnds(c) PROVE Finishing'
  <2>1. /\ UNCHANGED <<job, pc, next, result, canceled, handled, started, postSynced>>
        /\ succeeded \subseteq succeeded' /\ c \in started
        /\ c \notin succeeded \cup failed \cup aborted
        /\ redisKeys' \subseteq redisKeys \cup {x \in {c} : x.redis}
    BY <1>8 DEF SyncEnds, SyncSucceeds, SyncFails, SyncCanceled, UnchangedMain, mainVars, Pending
  <2>2. pc \notin {"postsync", "cleanup"}
    BY <1>a, <2>1 DEF Typing
  <2>. QED  BY <2>1, <2>2
<1>9. ASSUME NEW c \in Configs, ChildStops(c) \/ WriteRedis(c) PROVE Finishing'
  <2>1. /\ UNCHANGED <<job, pc, next, result, canceled, handled, started, postSynced, succeeded>>
        /\ c \in executing
        /\ redisKeys' \subseteq redisKeys \cup {x \in {c} : x.redis}
        /\ pc = "cleanup" => redisKeys' = redisKeys \/ c \in executing
    BY <1>9 DEF ChildStops, WriteRedis, UnchangedMain, mainVars, syncVars
  <2>2. pc # "cleanup"
    BY <1>a, <2>1 DEF Typing, IInv, Running
  <2>. QED  BY <1>a, <2>1, <2>2 DEF Configs, Typing
<1>10. CASE CancelRun
  BY <1>10 DEF CancelRun, UnchangedMain, mainVars, syncVars, HashesFrom, Configs
<1>11. CASE Poller
  BY <1>11 DEF Poller, TimerFires, CheckIsValid, CheckIsInvalidOrFails, CheckIsCanceled, Poll,
               UnchangedMain, mainVars, syncVars, HashesFrom, Configs
<1>12. CASE UNCHANGED vars
  BY <1>12 DEF vars, mainVars, syncVars, HashesFrom, Configs
<1>. QED  BY <1>1, <1>2, <1>3, <1>4, <1>5, <1>6, <1>7, <1>8, <1>9, <1>10, <1>11, <1>12
          DEF Next, Main, Closed

\* After the last sync nothing runs.
LEMMA AllHandledAllDone ==
  ASSUME IInv, Finishing, pc \in {"postsync", "cleanup"}
  PROVE  /\ handled = Configs /\ started = Configs
         /\ succeeded = Configs /\ Configs \subseteq postSynced
         /\ executing = {}
<1>1. handled = Configs /\ handled \subseteq succeeded \cap postSynced
  BY DEF Finishing
<1>. QED  BY <1>1 DEF IInv, Typing, Running

\* Every step but the last deletions keeps the hashes.
LEMMA NextKeepsHashes ==
  IInv /\ Finishing /\ HashesKept /\ [Next]_vars => HashesKept'
<1>. SUFFICES ASSUME IInv, Finishing, HashesKept, [Next]_vars PROVE HashesKept'
  OBVIOUS
<1>. USE DEF HashesKept, Return, GoTo, SetupStages, BlockedOnActivity
<1>a. Typing
  BY DEF IInv
<1>1. CASE Setup
  <2>1. started = {} /\ UNCHANGED <<started, succeeded, redisKeys, executing>>
        /\ pc' \notin {"failCleanup", "cleanup"}
    BY <1>1 DEF Setup, SetupActivity, AfterStage, CheckAccount, GenerateBenthosConfigs,
                InitSchema, UnchangedLoops, UnchangedOthers, syncVars, IInv, GroupsBuilt
  <2>. QED  BY <1>a, <2>1 DEF Typing
<1>2. CASE Loops
  BY <1>2 DEF Loops, PassRoot, StartRoot, WaitForRootSlot, MainLoop, PassDependent,
              WaitForDependentSlot, StartDependent, Wait, AtConfig, UnchangedLoops,
              UnchangedOthers
<1>3. CASE Select
  BY <1>3 DEF Select, SelectStop, SelectSuccess, SelectFailure, Handle, UnchangedOthers
<1>4. CASE PostTableSyncDone
  BY <1>4 DEF PostTableSyncDone, UnchangedLoops, UnchangedOthers
<1>5. CASE FailCleanup
  BY <1>5 DEF FailCleanup, DeleteRedisHash, UnchangedLoops, UnchangedOthers
<1>6. CASE PostsyncHooks \/ CleanupRedis
  <2>1. executing = {} /\ UNCHANGED <<executing, canceled>> /\ pc' \in {"cleanup", "returned"}
    BY <1>6, AllHandledAllDone DEF PostsyncHooks, CleanupRedis, DeleteRedisHash, UnchangedOthers
  <2>. QED  BY <2>1
<1>7. ASSUME NEW c \in Configs, SyncSucceeds(c) PROVE HashesKept'
  BY <1>7 DEF SyncSucceeds, UnchangedMain, mainVars
<1>8. ASSUME NEW c \in Configs,
             SyncFails(c) \/ SyncCanceled(c) \/ ChildStops(c) \/ WriteRedis(c)
      PROVE  HashesKept'
  BY <1>8 DEF SyncFails, SyncCanceled, ChildStops, WriteRedis, UnchangedMain, mainVars, syncVars
<1>9. CASE CancelRun
  BY <1>9 DEF CancelRun, UnchangedMain, mainVars, syncVars
<1>10. CASE Poller
  BY <1>10 DEF Poller, TimerFires, CheckIsValid, CheckIsInvalidOrFails, CheckIsCanceled, Poll,
               UnchangedMain, mainVars, syncVars
<1>11. CASE UNCHANGED vars
  BY <1>11 DEF vars, mainVars, syncVars
<1>. QED  BY <1>1, <1>2, <1>3, <1>4, <1>5, <1>6, <1>7, <1>8, <1>9, <1>10, <1>11
          DEF Next, Main, Closed, SyncEnds

\* Every step keeps the promise of success.
LEMMA NextKeepsSuccess ==
  IInv /\ Effects /\ Control /\ Finishing /\ SuccessMeansEverything /\ [Next]_vars
    => SuccessMeansEverything'
<1>. SUFFICES ASSUME IInv, Effects, Control, Finishing, SuccessMeansEverything, [Next]_vars,
                     result' = "ok"
              PROVE  /\ \/ started' = Configs' /\ succeeded' = Configs' /\ postSynced' = Configs'
                        \/ Configs' = {}
                     /\ executing' = {} /\ redisKeys' = {}
  BY DEF SuccessMeansEverything
<1>. USE DEF Return, GoTo
<1>a. Typing
  BY DEF IInv
<1>1. CASE result = "ok"
  <2>1. pc = "returned" /\ executing = {} /\ redisKeys = {}
    BY <1>1 DEF Finishing, SuccessMeansEverything
  <2>2. UNCHANGED <<job, started, succeeded, postSynced, executing, redisKeys>>
    BY <2>1 DEF Next, Main, Setup, SetupActivity, CheckAccount, GenerateBenthosConfigs, InitSchema,
         SetupStages, BlockedOnActivity, MainBlocked, AtConfig,
         Loops, PassRoot, StartRoot, WaitForRootSlot, MainLoop, PassDependent,
         WaitForDependentSlot, StartDependent, Select, SelectStop, SelectSuccess, SelectFailure,
         Handle, PostTableSyncDone, FailCleanup, PostsyncHooks, CleanupRedis,
         SyncEnds, SyncSucceeds, SyncFails, SyncCanceled, ChildStops, WriteRedis, CancelRun,
         Poller, TimerFires, CheckIsValid, CheckIsInvalidOrFails, CheckIsCanceled, Poll,
         Closed, vars, mainVars, syncVars
  <2>. QED  BY <1>1, <2>1, <2>2 DEF SuccessMeansEverything, Configs
<1>2. CASE result # "ok"
  <2>1. \/ CleanupRedis /\ HashesFrom(next) = {} /\ UNCHANGED redisKeys
        \/ GenerateBenthosConfigs /\ Configs = {}
    BY <1>2 DEF Next, Main, Setup, SetupActivity, CheckAccount, GenerateBenthosConfigs, InitSchema,
         ActivityError, Outcomes, Control,
         Loops, PassRoot, StartRoot, WaitForRootSlot, MainLoop, PassDependent, Wait,
         WaitForDependentSlot, StartDependent, Select, SelectStop, SelectSuccess, SelectFailure,
         PostTableSyncDone, FailCleanup, PostsyncHooks, CleanupRedis, DeleteRedisHash,
         SyncEnds, SyncSucceeds, SyncFails, SyncCanceled, ChildStops, WriteRedis, CancelRun,
         Poller, TimerFires, CheckIsValid, CheckIsInvalidOrFails, CheckIsCanceled, Poll,
         Closed, vars, mainVars, UnchangedMain
  <2>2. CASE CleanupRedis /\ HashesFrom(next) = {} /\ UNCHANGED redisKeys
    <3>1. /\ pc = "cleanup"
          /\ UNCHANGED <<job, started, succeeded, postSynced, executing, redisKeys>>
      BY <2>2 DEF CleanupRedis, UnchangedLoops, UnchangedOthers
    <3>2. redisKeys = {}
      BY <2>2, <3>1 DEF Finishing
    <3>3. postSynced \subseteq Configs
      BY <1>a DEF Effects, Typing
    <3>. QED  BY <3>1, <3>2, <3>3, AllHandledAllDone DEF Configs
  <2>3. CASE GenerateBenthosConfigs /\ Configs = {}
    <3>1. UNCHANGED <<job, started, executing, redisKeys>>
      BY <2>3 DEF GenerateBenthosConfigs, UnchangedLoops, UnchangedOthers
    <3>. QED  BY <1>a, <2>3, <3>1 DEF Typing, Effects, Configs
  <2>. QED  BY <2>1, <2>2, <2>3
<1>. QED  BY <1>1, <1>2

\* What the theorems below rest on holds of every reachable state.
LEMMA OutcomeHolds == Spec => [](/\ IInv /\ Reasons /\ Quiet
                                 /\ Finishing /\ HashesKept /\ SuccessMeansEverything)
<1>1. Init => Reasons /\ Quiet /\ HashesKept /\ SuccessMeansEverything
  BY DEF Init, Reasons, Quiet, HashesKept, SuccessMeansEverything
<1>2. Init => Finishing
  BY DEF Init, Finishing
<1>3. TypeOK => Effects /\ Control
  BY DEF TypeOK, Effects, Control
<1>. QED  BY <1>1, <1>2, <1>3, IInvInvariant, TypeCorrect, NextKeepsReasons, NextKeepsQuiet,
             NextKeepsFinishing, NextKeepsHashes, NextKeepsSuccess, PTL DEF Spec

-----------------------------------------------------------------------------
\* A run that succeeds has synced and post-synced every config, leaves no sync
\* running and no hash in Redis.
THEOREM SuccessMeansEverythingHolds == Spec => []SuccessMeansEverything
BY OutcomeHolds, PTL

\* A run reports a cancellation only when its user canceled it.
THEOREM CanceledMeansUserHolds == Spec => []CanceledMeansUser
<1>1. Reasons => CanceledMeansUser
  BY DEF Reasons, CanceledMeansUser
<1>. QED  BY <1>1, OutcomeHolds, PTL

\* A running sync finds the hashes it translates its foreign keys with, and
\* finds them complete, unless the run is being called off.
THEOREM LookupHashCompleteHolds == Spec => []LookupHashComplete
<1>1. IInv /\ HashesKept => LookupHashComplete
  <2>. SUFFICES ASSUME IInv, HashesKept, ~canceled, NEW c \in executing, NEW d \in c.dependsOn,
                       NEW e \in Configs, e.table = d.table, e.redis
                PROVE  e \in redisKeys /\ e \in tracker.completedConfigs
    BY DEF LookupHashComplete
  <2>1. e.runType = Insert /\ c \in started
    BY ConfigsFinite DEF IInv, Typing, WellFormed, Configs
  <2>2. e \in tracker.completedConfigs
    BY <2>1 DEF IInv, StartedMayStart, MayStart, ParentsWritten
  <2>3. e \in succeeded
    BY <2>2 DEF IInv, TrackerCounts
  <2>. QED  BY <2>2, <2>3 DEF HashesKept
<1>. QED  BY <1>1, OutcomeHolds, PTL

\* No sync is invoked once the run is called off, but for the first root when
\* the cancellation came with the end of the setup; and then the run returns.
THEOREM NoStartAfterCancelHolds == Spec => NoStartAfterCancel
<1>1. ASSUME Quiet, [Next]_vars, canceled, started' # started
      PROVE  started = {} /\ pc' = "returned"
  <2>1. StartRoot \/ StartDependent
    BY <1>1 DEF Next, Main, Setup, SetupActivity, CheckAccount, GenerateBenthosConfigs, InitSchema,
         Loops, PassRoot, WaitForRootSlot, MainLoop, PassDependent, WaitForDependentSlot,
         Select, SelectStop, SelectSuccess, SelectFailure,
         PostTableSyncDone, FailCleanup, PostsyncHooks, CleanupRedis,
         SyncEnds, SyncSucceeds, SyncFails, SyncCanceled, ChildStops, WriteRedis, CancelRun,
         Poller, TimerFires, CheckIsValid, CheckIsInvalidOrFails, CheckIsCanceled, Poll,
         Closed, vars, mainVars, UnchangedMain, UnchangedLoops
  <2>. QED  BY <1>1, <2>1 DEF Quiet, StartRoot, StartDependent, AtConfig, Return
<1>2. Quiet /\ [Next]_vars
        => [canceled /\ started' # started => started = {} /\ pc' = "returned"]_vars
  BY <1>1
<1>. QED  BY <1>2, OutcomeHolds, PTL DEF Spec, NoStartAfterCancel

-----------------------------------------------------------------------------
(***************************************************************************)
(* The datasync workflow implements SyncSchedule, for every set of         *)
(* well-formed jobs whose foreign keys reference columns an INSERT writes, *)
(* and every limit.                                                        *)
(***************************************************************************)

\* What the abstract schedule sees of a step is four sets and a flag.
Seen == <<job, started, succeeded, executing, canceled>>

\* Every config's status, told from what succeeded.
StatusFrom(begun, done, running) ==
    [c \in Configs |->
        IF c \notin begun THEN "waiting"
        ELSE IF c \in done THEN "done"
        ELSE IF c \in running THEN "running"
        ELSE "stopped"]

-----------------------------------------------------------------------------
\* The schedule is about the configs of the run.
LEMMA ScheduleConfigs == Schedule!Configs = Configs
BY DEF Schedule!Configs, Schedule!ToSet, Configs, ToSet

\* It counts them as the workflow does.
LEMMA ScheduleCardinality ==
  ASSUME NEW S
  PROVE  Schedule!Cardinality(S) = Cardinality(S)
BY DEF Schedule!Cardinality, Cardinality

\* The tracker is no more than a record of the successes.
LEMMA StatusIs ==
  ASSUME IInv
  PROVE  Status = StatusFrom(started, succeeded, executing)
BY DEF IInv, TrackerCounts, Status, StatusFrom

\* The same of the state after a step, which keeps the job.
LEMMA StatusAfterIs ==
  ASSUME IInv', job' = job
  PROVE  Status' = StatusFrom(started', succeeded', executing')
BY DEF IInv, TrackerCounts, Status, StatusFrom, Configs

\* The configs that run are those whose child workflow does.
LEMMA RunningIs ==
  ASSUME IInv
  PROVE  Schedule!With("running") = executing
<1>1. executing \subseteq started /\ started \subseteq Configs /\ executing \cap succeeded = {}
  BY DEF IInv, Typing, Running
<1>2. ASSUME NEW c \in Configs PROVE Status[c] = "running" <=> c \in executing
  BY <1>1, <1>2, StatusIs DEF StatusFrom
<1>. QED  BY <1>1, <1>2, ScheduleConfigs DEF Schedule!With

\* The configs that are done are those that succeeded.
LEMMA DoneIs ==
  ASSUME IInv
  PROVE  Schedule!With("done") = succeeded
<1>1. succeeded \subseteq started /\ started \subseteq Configs
  BY DEF IInv, Typing
<1>2. ASSUME NEW c \in Configs PROVE Status[c] = "done" <=> c \in succeeded
  BY <1>1, <1>2, StatusIs DEF StatusFrom
<1>. QED  BY <1>1, <1>2, ScheduleConfigs DEF Schedule!With

\* Until the run is called off, a sync that runs is one the main coroutine has
\* yet to hear of, so the limit it keeps is the limit of the schedule.
LEMMA SlotMeansBelowLimit ==
  ASSUME IInv, ~canceled, inFlight < MaxConcurrency
  PROVE  Cardinality(executing) < MaxConcurrency
<1>1. executing \subseteq started \ handled
  BY DEF IInv, Typing, Running
<1>2. IsFiniteSet(started \ handled)
  BY ConfigsFinite, FS_Difference DEF IInv
<1>3. /\ Cardinality(executing) <= Cardinality(started \ handled)
      /\ IsFiniteSet(executing)
  BY <1>1, <1>2, FS_Subset
<1>4. Cardinality(executing) \in Nat /\ Cardinality(started \ handled) \in Nat
  BY <1>2, <1>3, FS_CardinalityType
<1>. QED  BY <1>3, <1>4, MaxConcurrencyAssumption DEF IInv, Counters

\* A config that may start has the columns its foreign keys need.
LEMMA MayStartSatisfies ==
  ASSUME IInv, PointsAtInserts(job), NEW c \in Configs, MayStart(c)
  PROVE  AreConfigDependenciesSatisfied(ForeignKeyDependencies(Configs, c), succeeded)
<1>. SUFFICES ASSUME NEW d \in ForeignKeyDependencies(Configs, c)
              PROVE  \E e \in succeeded : e.table = d.table /\ d.columns \subseteq e.columns
  BY DEF AreConfigDependenciesSatisfied
<1>1. PICK e \in Configs :
          e.runType = Insert /\ e.table = d.table /\ d.columns \subseteq e.columns
  BY DEF PointsAtInserts, Configs
<1>2. d \in c.dependsOn
  BY DEF ForeignKeyDependencies
<1>3. e \in tracker.completedConfigs
  BY <1>1, <1>2 DEF MayStart, ParentsWritten
<1>. QED  BY <1>1, <1>3 DEF IInv, TrackerCounts

-----------------------------------------------------------------------------
(***************************************************************************)
(* The steps, by what the schedule sees of them.                           *)
(***************************************************************************)
\* A step that changes nothing the schedule sees is a stutter.
LEMMA UnseenStutters ==
  ASSUME IInv, IInv', UNCHANGED Seen
  PROVE  UNCHANGED Schedule!vars
BY StatusIs, StatusAfterIs DEF Seen, Schedule!vars

\* A step that only cancels the run calls it off, if it was not.
LEMMA CancelCallsOff ==
  ASSUME IInv, IInv', UNCHANGED <<job, started, succeeded, executing>>, canceled' = TRUE
  PROVE  [Schedule!Next]_(Schedule!vars)
<1>1. Status' = Status
  BY StatusIs, StatusAfterIs
<1>2. CASE canceled
  BY <1>1, <1>2 DEF Schedule!vars
<1>3. CASE ~canceled
  BY <1>1, <1>3 DEF Schedule!Next, Schedule!CallOff
<1>. QED  BY <1>2, <1>3 DEF IInv, Typing

\* A sync that is invoked begins.
LEMMA StartBegins ==
  ASSUME IInv, IInv', PointsAtInserts(job), ~canceled,
         NEW c \in Configs \ started, MayStart(c), inFlight < MaxConcurrency,
         started' = started \cup {c}, executing' = executing \cup {c},
         UNCHANGED <<job, succeeded, canceled>>
  PROVE  Schedule!Next
<1>1. c \notin succeeded
  BY DEF IInv, Typing
<1>2. Status[c] = "waiting"
  BY StatusIs DEF StatusFrom
<1>3. Status' = [Status EXCEPT ![c] = "running"]
  BY <1>1, StatusIs, StatusAfterIs DEF StatusFrom
<1>4. Schedule!Cardinality(Schedule!With("running")) < MaxConcurrency
  BY RunningIs, SlotMeansBelowLimit, ScheduleCardinality
<1>5. Schedule!AreConfigDependenciesSatisfied(
          Schedule!ForeignKeyDependencies(Schedule!Configs, c), Schedule!With("done"))
  BY DoneIs, MayStartSatisfies, ScheduleConfigs
  DEF Schedule!AreConfigDependenciesSatisfied, AreConfigDependenciesSatisfied,
      Schedule!ForeignKeyDependencies, ForeignKeyDependencies,
      Schedule!RunTypeUpdate, RunTypeUpdate
<1>6. Schedule!Begin(c)
  BY <1>2, <1>3, <1>4, <1>5 DEF Schedule!Begin
<1>. QED  BY <1>6, ScheduleConfigs DEF Schedule!Next

\* A sync invoked under a canceled context is dropped.
LEMMA CanceledStartStops ==
  ASSUME IInv, IInv', canceled, NEW c \in Configs \ started,
         started' = started \cup {c},
         UNCHANGED <<job, succeeded, executing, canceled>>
  PROVE  Schedule!Next
<1>1. c \notin succeeded /\ c \notin executing
  BY DEF IInv, Typing
<1>2. Status[c] = "waiting"
  BY StatusIs DEF StatusFrom
<1>3. Status' = [Status EXCEPT ![c] = "stopped"]
  BY <1>1, StatusIs, StatusAfterIs DEF StatusFrom
<1>. QED  BY <1>2, <1>3, ScheduleConfigs DEF Schedule!Next, Schedule!Stop

\* A running sync that succeeds is completed; one that ends otherwise stops.
LEMMA EndCompletesOrStops ==
  ASSUME IInv, IInv', NEW c \in executing, executing' = executing \ {c},
         \/ succeeded' = succeeded \cup {c}
         \/ succeeded' = succeeded,
         UNCHANGED <<job, started, canceled>>
  PROVE  Schedule!Next
<1>1. c \in started /\ c \in Configs /\ c \notin succeeded
  BY DEF IInv, Typing, Running
<1>2. Status[c] = "running"
  BY <1>1, StatusIs DEF StatusFrom
<1>3. CASE succeeded' = succeeded \cup {c}
  <2>1. Status' = [Status EXCEPT ![c] = "done"]
    BY <1>1, <1>3, StatusIs, StatusAfterIs DEF StatusFrom
  <2>. QED  BY <1>1, <1>2, <2>1, ScheduleConfigs DEF Schedule!Next, Schedule!Complete
<1>4. CASE succeeded' = succeeded
  <2>1. Status' = [Status EXCEPT ![c] = "stopped"]
    BY <1>1, <1>4, StatusIs, StatusAfterIs DEF StatusFrom
  <2>. QED  BY <1>1, <1>2, <2>1, ScheduleConfigs DEF Schedule!Next, Schedule!Stop
<1>. QED  BY <1>3, <1>4

-----------------------------------------------------------------------------
\* The loop over the roots begins one, or drops it and returns.
LEMMA StartRootRefines ==
  ASSUME IInv, IInv', PointsAtInserts(job), StartRoot
  PROVE  Schedule!Next
<1>1. /\ pc = "roots" /\ next <= Len(job) /\ IsRoot(job[next])
      /\ inFlight < MaxConcurrency
      /\ started' = started \cup {job[next]}
      /\ executing' = IF canceled THEN executing ELSE executing \cup {job[next]}
      /\ UNCHANGED <<job, succeeded, canceled>>
  BY DEF StartRoot, AtConfig, ExecuteSync, UnchangedOthers
<1>2. next \in DOMAIN job /\ job[next] \in Configs
  BY <1>1, ConfigAtNext DEF IInv
<1>3. job[next] \notin started
  <2>1. next \in Nat
    BY DEF IInv, Typing
  <2>. QED  BY <1>1, <1>2, <2>1 DEF IInv, RootsInOrder, InRootLoop
<1>4. MayStart(job[next])
  <2>1. groups = BuildExecutionGroups(Configs)
    BY <1>1 DEF IInv, GroupsBuilt, SetupStages
  <2>2. ParentsWritten(job[next])
    BY <1>1 DEF ParentsWritten, IsRoot
  <2>3. PhaseReached(job[next])
    BY <1>1, <2>1, ConfigsFinite, InCycleUpdate DEF IInv, PhaseReached, IsRoot, Configs
  <2>. QED  BY <2>2, <2>3 DEF MayStart
<1>5. CASE canceled
  BY <1>1, <1>2, <1>3, <1>5, CanceledStartStops
<1>6. CASE ~canceled
  BY <1>1, <1>2, <1>3, <1>4, <1>6, StartBegins
<1>. QED  BY <1>5, <1>6

\* The main loop begins a dependent, and never under a canceled context.
LEMMA StartDependentRefines ==
  ASSUME IInv, IInv', Quiet, PointsAtInserts(job), StartDependent
  PROVE  Schedule!Next
<1>1. /\ ~canceled
      /\ started' = started \cup {job[next]}
      /\ executing' = executing \cup {job[next]}
      /\ UNCHANGED <<job, succeeded, canceled>>
  BY DEF Quiet, StartDependent, AtConfig, ExecuteSync, UnchangedOthers
<1>2. CASE pc = "slot"
  <2>1. next \in DOMAIN job /\ job[next] \notin started /\ MayStart(job[next])
    BY <1>2 DEF IInv, CommittedMayStart, Committed
  <2>2. job[next] \in Configs
    BY <2>1, ConfigsFinite, JobFacts DEF IInv, Configs
  <2>3. inFlight < MaxConcurrency
    BY <1>2 DEF IInv, Counters
  <2>. QED  BY <1>1, <2>1, <2>2, <2>3, StartBegins
<1>3. CASE /\ AtConfig("dependents")
           /\ ShouldStart(job[next])
           /\ inFlight < MaxConcurrency
  <2>1. job[next] \in Configs /\ job[next] \notin started /\ IsConfigReady(job[next])
    BY <1>3, ConfigAtNext DEF IInv, AtConfig, ShouldStart
  <2>2. groups = BuildExecutionGroups(Configs)
    BY <1>3 DEF IInv, AtConfig, GroupsBuilt, SetupStages
  <2>3. MayStart(job[next])
    BY <2>1, <2>2, ReadyMayStart
  <2>. QED  BY <1>1, <1>3, <2>1, <2>3, StartBegins
<1>. QED  BY <1>2, <1>3 DEF StartDependent

\* Every step of the workflow is a step of the schedule, or a stutter.
LEMMA NextRefines ==
  ASSUME IInv, IInv', Quiet, PointsAtInserts(job), [Next]_vars
  PROVE  [Schedule!Next]_(Schedule!vars)
<1>1. CASE Setup
  <2>1. UNCHANGED Seen
    BY <1>1 DEF Setup, SetupActivity, CheckAccount, GenerateBenthosConfigs, InitSchema,
                Seen, syncVars, UnchangedLoops, UnchangedOthers
  <2>. QED  BY <2>1, UnseenStutters
<1>2. CASE PassRoot \/ WaitForRootSlot \/ MainLoop \/ PassDependent \/ WaitForDependentSlot
  <2>1. UNCHANGED Seen
    BY <1>2 DEF PassRoot, WaitForRootSlot, MainLoop, PassDependent, WaitForDependentSlot,
                Seen, UnchangedLoops, UnchangedOthers
  <2>. QED  BY <2>1, UnseenStutters
<1>3. CASE StartRoot
  BY <1>3, StartRootRefines
<1>4. CASE StartDependent
  BY <1>4, StartDependentRefines
<1>5. CASE SelectStop \/ CancelRun \/ \E c \in Configs : SelectFailure(c)
  <2>1. UNCHANGED <<job, started, succeeded, executing>> /\ canceled' = TRUE
    BY <1>5 DEF SelectStop, SelectFailure, CancelRun, UnchangedOthers, UnchangedMain,
                mainVars, syncVars
  <2>. QED  BY <2>1, CancelCallsOff
<1>6. CASE \E c \in Configs : SelectSuccess(c)
  <2>1. UNCHANGED Seen
    BY <1>6 DEF SelectSuccess, Handle, Seen, UnchangedOthers
  <2>. QED  BY <2>1, UnseenStutters
<1>7. CASE PostTableSyncDone \/ FailCleanup \/ PostsyncHooks \/ CleanupRedis
  <2>1. UNCHANGED Seen
    BY <1>7 DEF PostTableSyncDone, FailCleanup, PostsyncHooks, CleanupRedis, Seen,
                UnchangedLoops, UnchangedOthers
  <2>. QED  BY <2>1, UnseenStutters
<1>8. CASE \E c \in Configs : SyncSucceeds(c) \/ SyncFails(c) \/ ChildStops(c)
  <2>1. PICK c \in Configs : SyncSucceeds(c) \/ SyncFails(c) \/ ChildStops(c)
    BY <1>8
  <2>2. /\ c \in executing /\ executing' = executing \ {c}
        /\ succeeded' = succeeded \cup {c} \/ succeeded' = succeeded
        /\ UNCHANGED <<job, started, canceled>>
    BY <2>1 DEF SyncSucceeds, SyncFails, ChildStops, UnchangedMain, mainVars
  <2>. QED  BY <2>2, EndCompletesOrStops
<1>9. CASE \E c \in Configs : SyncCanceled(c) \/ WriteRedis(c)
  <2>1. UNCHANGED Seen
    BY <1>9 DEF SyncCanceled, WriteRedis, Seen, UnchangedMain, mainVars, syncVars
  <2>. QED  BY <2>1, UnseenStutters
<1>10. CASE Poller \/ UNCHANGED vars
  <2>1. UNCHANGED Seen
    BY <1>10 DEF Poller, TimerFires, CheckIsValid, CheckIsInvalidOrFails, CheckIsCanceled, Poll,
                 Seen, vars, UnchangedMain, mainVars, syncVars
  <2>. QED  BY <2>1, UnseenStutters
<1>. QED  BY <1>1, <1>2, <1>3, <1>4, <1>5, <1>6, <1>7, <1>8, <1>9, <1>10
          DEF Next, Main, Loops, Select, SyncEnds, Closed

\* A run begins as the schedule does.
LEMMA InitRefines == Init => Schedule!Init
<1>. SUFFICES ASSUME Init PROVE Schedule!Init
  OBVIOUS
<1>1. Status = [c \in Configs |-> "waiting"]
  BY DEF Init, Status
<1>. QED  BY <1>1, ScheduleConfigs DEF Init, Schedule!Init

-----------------------------------------------------------------------------
\* Where every foreign key references columns that an INSERT writes, the
\* workflow with its groups, loops and futures implements the schedule: each
\* config is synced at most once, after the columns its foreign keys need, with
\* at most MaxConcurrency at a time, and none once the run is called off.
THEOREM ImplementsSyncScheduleHolds ==
  ASSUME \A j \in Jobs : PointsAtInserts(j)
  PROVE  Spec => ImplementsSyncSchedule
<1>1. Spec => [](IInv /\ Quiet)
  BY OutcomeHolds, PTL
<1>2. IInv => PointsAtInserts(job)
  BY DEF IInv, Typing
<1>3. IInv /\ Quiet /\ IInv' /\ [Next]_vars => [Schedule!Next]_(Schedule!vars)
  BY <1>2, NextRefines
<1>. QED  BY <1>1, <1>3, InitRefines, PTL DEF Spec, ImplementsSyncSchedule, Schedule!Spec
=============================================================================
