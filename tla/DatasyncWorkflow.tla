-------------------------- MODULE DatasyncWorkflow --------------------------
(***************************************************************************)
(* executeWorkflow of the datasync workflow: the setup activities, the     *)
(* loop that starts the configs without dependencies, the loop that starts *)
(* the others as the group tracker allows, the account status poller, the  *)
(* clean up of the Redis hashes, cancellation and failure.                 *)
(*                                                                         *)
(* Temporal runs the coroutines of a workflow one at a time: the main      *)
(* coroutine keeps control until it blocks in a Select or on an activity.  *)
(* Every other coroutine's steps, and cancellation, are therefore enabled  *)
(* only while it is blocked (MainBlocked).                                 *)
(***************************************************************************)
EXTENDS BenthosJobs

CONSTANTS Jobs,           \* the benthos configs a run may get: a set of sequences
          MaxConcurrency, \* TABLESYNC_MAX_CONCURRENCY
          PollModes       \* the values ShouldPoll may have

ASSUME MaxConcurrencyAssumption == MaxConcurrency \in Nat \ {0}

\* Every run gets a well-formed job (Planning_proofs shows that plans are).
ASSUME JobsAssumption == \A j \in Jobs : WellFormed(j)

ASSUME PollModesAssumption == PollModes \subseteq BOOLEAN /\ PollModes # {}

VARIABLES
  job,            \* the benthos configs of this run; never changes
  pc,             \* where the main coroutine is
  next,           \* the index of the loop it is in
  site,           \* the loop its Select was called from
  started,        \* the configs whose sync was invoked (the map `started`)
  inFlight,       \* the counter of the same name
  completedCount, \* the counter of the same name
  succeeded,      \* configs whose future was set without an error
  failed,         \* configs whose future was set with the error of the sync
  aborted,        \* configs whose future was set by cancellation
  handled,        \* configs whose future the main Select has taken
  groups,         \* the execution groups
  tracker,        \* the group completion tracker
  postSynced,     \* configs whose post-table-sync activity was scheduled
  activityErr,    \* the variable of the same name
  canceled,       \* ctx.Err() # nil
  result,         \* how the workflow returned
  poller,         \* where the account status coroutine is
  executing,      \* table sync workflows that really run (they write data)
  redisKeys,      \* configs whose hash of transformed primary keys exists in Redis
  accountBad,     \* history: an account check answered invalid or failed
  userCanceled    \* history: a user canceled the run

mainVars == <<pc, next, site, started, inFlight, completedCount, handled,
              postSynced, activityErr, result>>
syncVars == <<succeeded, failed, aborted, tracker, executing>>
vars == <<job, groups, mainVars, syncVars, canceled, poller, redisKeys,
          accountBad, userCanceled>>

Configs == ToSet(job)

\* The groups of each job
GroupsOf == [j \in Jobs |-> BuildExecutionGroups(ToSet(j))]

\* splitBenthosConfigs: the two loops below each walk the whole job and pass
\* over the configs of the other half.
IsRoot(c) == c.dependsOn = {}

\* The positions from n on of configs whose hash runRedisCleanUpActivity deletes.
HashesFrom(n) == {m \in DOMAIN job : m >= n /\ job[m].redis}

\* The syncs whose future is not set.
Pending == started \ (succeeded \cup failed \cup aborted)

SetupStages == {"options", "account", "generate", "presync", "schema"}
BlockedOnActivity == {"postTable", "failCleanup", "postsync", "cleanup"}
MainBlocked == pc \in SetupStages \cup BlockedOnActivity \cup {"select"}

-----------------------------------------------------------------------------
Init ==
    /\ job \in Jobs
    /\ pc = "options"
    /\ next = 1
    /\ site = "root"
    /\ started = {}
    /\ inFlight = 0
    /\ completedCount = 0
    /\ succeeded = {}
    /\ failed = {}
    /\ aborted = {}
    /\ handled = {}
    /\ groups = <<>>
    /\ tracker = NewGroupCompletionTracker(groups)
    /\ postSynced = {}
    /\ activityErr = "none"
    /\ canceled = FALSE
    /\ result = "none"
    /\ poller = "off"
    /\ executing = {}
    /\ redisKeys = {}
    /\ accountBad = FALSE
    /\ userCanceled = FALSE

Return(outcome) ==
    /\ pc' = "returned"
    /\ result' = outcome

\* The error an activity the main coroutine waits for gives it.
ActivityError == IF canceled THEN "canceled" ELSE "failed"

GoTo(label) ==
    /\ pc' = label
    /\ UNCHANGED result

UnchangedLoops == UNCHANGED <<started, inFlight, completedCount, handled, postSynced, activityErr>>

UnchangedOthers == UNCHANGED <<job, succeeded, failed, aborted, accountBad, userCanceled>>

-----------------------------------------------------------------------------
(***************************************************************************)
(* The activities before the syncs.  Under a canceled context only the     *)
(* result that was on its way when the cancellation came is a success; the *)
(* last stage stands for that, an earlier one would fail the next stage.   *)
(***************************************************************************)
AfterStage == [options |-> "account", presync |-> "schema"]

SetupActivity ==
    /\ pc \in {"options", "presync"}
    /\ \/ ~canceled /\ GoTo(AfterStage[pc])
       \/ Return(ActivityError)
    /\ UnchangedLoops
    /\ UnchangedOthers
    /\ UNCHANGED <<next, site, groups, tracker, canceled, poller, executing, redisKeys>>

\* The first CheckAccountStatus
CheckAccount ==
    /\ pc = "account"
    /\ \/ ~canceled /\ GoTo("generate") /\ UNCHANGED accountBad
       \/ Return(ActivityError) /\ UNCHANGED accountBad
       \/ Return("invalidAccount") /\ accountBad' = TRUE
    /\ UnchangedLoops
    /\ UNCHANGED <<job, next, site, groups, syncVars, canceled, poller, redisKeys, userCanceled>>

\* GenerateBenthosConfigs: a run without configs ends here.
GenerateBenthosConfigs ==
    /\ pc = "generate"
    /\ \/ /\ ~canceled
          /\ IF Configs = {} THEN Return("ok") ELSE GoTo("presync")
       \/ Return(ActivityError)
    /\ UnchangedLoops
    /\ UnchangedOthers
    /\ UNCHANGED <<next, site, groups, tracker, canceled, poller, executing, redisKeys>>

\* The last schema init workflow ends; the poller is spawned, the configs are
\* split and grouped.
InitSchema ==
    /\ pc = "schema"
    /\ \/ /\ \E c \in Configs : IsRoot(c)
          /\ GoTo("roots")
          /\ groups' = GroupsOf[job]
          /\ tracker' = NewGroupCompletionTracker(groups')
          /\ \E shouldPoll \in PollModes : poller' = IF shouldPoll THEN "timer" ELSE "off"
       \/ Return(ActivityError) /\ UNCHANGED <<groups, tracker, poller>>
    /\ UnchangedLoops
    /\ UnchangedOthers
    /\ UNCHANGED <<next, site, canceled, executing, redisKeys>>

-----------------------------------------------------------------------------
\* executeSyncActivity and invokeSync
\* A child workflow invoked under a
\* canceled context is never started.
ExecuteSync(c) ==
    /\ started' = started \cup {c}
    /\ inFlight' = inFlight + 1
    /\ executing' = IF canceled THEN executing ELSE executing \cup {c}

AtConfig(loop) ==
    /\ pc = loop
    /\ next <= Len(job)

\* The loop over the root configs
PassRoot ==
    /\ AtConfig("roots")
    /\ ~IsRoot(job[next])
    /\ next' = next + 1
    /\ UnchangedLoops
    /\ UnchangedOthers
    /\ UNCHANGED <<pc, result, site, groups, tracker, canceled, poller, executing, redisKeys>>

StartRoot ==
    /\ AtConfig("roots")
    /\ IsRoot(job[next])
    /\ inFlight < MaxConcurrency
    /\ ExecuteSync(job[next])
    /\ IF canceled
       THEN Return("canceled") /\ UNCHANGED next
       ELSE GoTo("roots") /\ next' = next + 1
    /\ UnchangedOthers
    /\ UNCHANGED <<site, completedCount, handled, postSynced, activityErr, groups, tracker,
                   canceled, poller, redisKeys>>

Wait(loop) ==
    /\ GoTo("select")
    /\ site' = loop

WaitForRootSlot ==
    /\ AtConfig("roots")
    /\ IsRoot(job[next])
    /\ inFlight >= MaxConcurrency
    /\ Wait("root")
    /\ UnchangedLoops
    /\ UnchangedOthers
    /\ UNCHANGED <<next, groups, tracker, canceled, poller, executing, redisKeys>>

\* Mutated: the loop ends when everything is started.
MainLoopUntilStarted ==
    /\ pc \in {"roots", "dependents"}
    /\ next > Len(job)
    /\ IF Cardinality(started) = Len(job)
       THEN GoTo("postsync") /\ UNCHANGED site
       ELSE Wait("main")
    /\ UnchangedLoops
    /\ UnchangedOthers
    /\ UNCHANGED <<next, groups, tracker, canceled, poller, executing, redisKeys>>

\* The head of the main loop, reached when the roots are spawned and after
\* every pass over the dependents.
MainLoop ==
    /\ pc \in {"roots", "dependents"}
    /\ next > Len(job)
    /\ IF completedCount = Len(job)
       THEN GoTo("postsync") /\ UNCHANGED site
       ELSE Wait("main")
    /\ UnchangedLoops
    /\ UnchangedOthers
    /\ UNCHANGED <<next, groups, tracker, canceled, poller, executing, redisKeys>>

\* isConfigReady
IsConfigReady(c) == CanConfigStart(tracker, groups, c)

\* The loop over the dependents starts those that are ready and not started.
ShouldStart(c) == ~IsRoot(c) /\ c \notin started /\ IsConfigReady(c)

PassDependent ==
    /\ AtConfig("dependents")
    /\ ~ShouldStart(job[next])
    /\ next' = next + 1
    /\ UnchangedLoops
    /\ UnchangedOthers
    /\ UNCHANGED <<pc, result, site, groups, tracker, canceled, poller, executing, redisKeys>>

WaitForDependentSlot ==
    /\ AtConfig("dependents")
    /\ ShouldStart(job[next])
    /\ inFlight >= MaxConcurrency
    /\ Wait("dependent")
    /\ UnchangedLoops
    /\ UnchangedOthers
    /\ UNCHANGED <<next, groups, tracker, canceled, poller, executing, redisKeys>>

\* Mutated: the dependents ignore the limit.
StartDependentUnlimited ==
    /\ \/ pc = "slot"
       \/ /\ AtConfig("dependents")
          /\ ShouldStart(job[next])
    /\ ExecuteSync(job[next])
    /\ GoTo("dependents")
    /\ next' = next + 1
    /\ UnchangedOthers
    /\ UNCHANGED <<site, completedCount, handled, postSynced, activityErr, groups, tracker,
                   canceled, poller, redisKeys>>

\* A ready dependent is started, at once or ("slot") after the one Select that
\* waited for a sync to finish; neither readiness nor the limit is looked at again.
StartDependent ==
    /\ \/ pc = "slot"
       \/ /\ AtConfig("dependents")
          /\ ShouldStart(job[next])
          /\ inFlight < MaxConcurrency
    /\ ExecuteSync(job[next])
    /\ GoTo("dependents")
    /\ next' = next + 1
    /\ UnchangedOthers
    /\ UNCHANGED <<site, completedCount, handled, postSynced, activityErr, groups, tracker,
                   canceled, poller, redisKeys>>

-----------------------------------------------------------------------------
(***************************************************************************)
(* The Select of the main coroutine: a stop signal, or one sync's future.  *)
(***************************************************************************)
\* The poller's send meets the Select: the main coroutine cancels and returns,
\* the poller ends.
SelectStop ==
    /\ pc = "select"
    /\ poller = "sending"
    /\ poller' = "exited"
    /\ canceled' = TRUE
    /\ activityErr' = "invalidAccount"
    /\ Return("invalidAccount")
    /\ UNCHANGED <<started, inFlight, completedCount, handled, postSynced>>
    /\ UnchangedOthers
    /\ UNCHANGED <<next, site, groups, tracker, executing, redisKeys>>

Handle(c) ==
    /\ pc = "select"
    /\ handled' = handled \cup {c}
    /\ inFlight' = inFlight - 1
    /\ completedCount' = completedCount + 1

\* A sync's success: its post-table-sync activity is scheduled, and waited for.
SelectSuccess(c) ==
    /\ c \in succeeded \ handled
    /\ Handle(c)
    /\ GoTo("postTable")
    /\ postSynced' = IF canceled THEN postSynced ELSE postSynced \cup {c}
    /\ UnchangedOthers
    /\ UNCHANGED <<next, site, started, activityErr, groups, tracker, canceled, poller,
                   executing, redisKeys>>

\* Mutated: the context is not looked at after the Select.
PostTableSyncDoneUnchecked ==
    /\ pc = "postTable"
    /\ \/ site = "root" /\ GoTo("roots") /\ UNCHANGED next
       \/ site = "main" /\ GoTo("dependents") /\ next' = 1
       \/ site = "dependent" /\ GoTo("slot") /\ UNCHANGED next
    /\ UnchangedLoops
    /\ UnchangedOthers
    /\ UNCHANGED <<site, groups, tracker, canceled, poller, executing, redisKeys>>

\* The activity's outcome is logged only.  Back in the loop the Select was
\* called from, a cancellation that came meanwhile ends the workflow.
PostTableSyncDone ==
    /\ pc = "postTable"
    /\ IF canceled
       THEN Return("canceled") /\ UNCHANGED next
       ELSE \/ site = "root" /\ GoTo("roots") /\ UNCHANGED next
            \/ site = "main" /\ GoTo("dependents") /\ next' = 1
            \/ site = "dependent" /\ GoTo("slot") /\ UNCHANGED next
    /\ UnchangedLoops
    /\ UnchangedOthers
    /\ UNCHANGED <<site, groups, tracker, canceled, poller, executing, redisKeys>>

\* Mutated: the hashes go while the other syncs run on.
SelectFailureUncanceled(c) ==
    /\ c \in (failed \cup aborted) \ handled
    /\ Handle(c)
    /\ GoTo("failCleanup")
    /\ next' = 1
    /\ activityErr' = IF c \in failed THEN "failed" ELSE "canceled"
    /\ UnchangedOthers
    /\ UNCHANGED <<site, started, postSynced, groups, tracker, canceled, poller, executing, redisKeys>>

\* A sync's error, a cancellation included: everything else is canceled, and the
\* Redis hashes are deleted under a context of its own.
SelectFailure(c) ==
    /\ c \in (failed \cup aborted) \ handled
    /\ Handle(c)
    /\ GoTo("failCleanup")
    /\ next' = 1
    /\ activityErr' = IF c \in failed THEN "failed" ELSE "canceled"
    /\ canceled' = TRUE
    /\ UnchangedOthers
    /\ UNCHANGED <<site, started, postSynced, groups, tracker, poller, executing, redisKeys>>

-----------------------------------------------------------------------------
(***************************************************************************)
(* runRedisCleanUpActivity deletes the hashes one by one and gives up at   *)
(* the first error.                                                        *)
(***************************************************************************)
DeleteRedisHash ==
    /\ \E n \in HashesFrom(next) :
          /\ \A m \in HashesFrom(next) : n <= m
          /\ redisKeys' = redisKeys \ {job[n]}
          /\ next' = n + 1
    /\ UNCHANGED <<pc, result>>

\* Mutated: an error starts the clean up over.
FailCleanupAgain ==
    /\ pc = "failCleanup"
    /\ \/ DeleteRedisHash
       \/ HashesFrom(next) # {} /\ next' = 1 /\ UNCHANGED <<pc, result, redisKeys>>
       \/ HashesFrom(next) = {} /\ Return(activityErr) /\ UNCHANGED <<next, redisKeys>>
    /\ UnchangedLoops
    /\ UnchangedOthers
    /\ UNCHANGED <<site, groups, tracker, canceled, poller, executing>>

FailCleanup ==
    /\ pc = "failCleanup"
    /\ \/ DeleteRedisHash
       \/ Return(activityErr) /\ UNCHANGED <<next, redisKeys>>
    /\ UnchangedLoops
    /\ UnchangedOthers
    /\ UNCHANGED <<site, groups, tracker, canceled, poller, executing>>

\* After the last sync.  Canceled, a success only counts when no activity follows.
PostsyncHooks ==
    /\ pc = "postsync"
    /\ \/ /\ ~canceled \/ HashesFrom(1) = {}
          /\ GoTo("cleanup")
          /\ next' = 1
       \/ Return(ActivityError) /\ UNCHANGED next
    /\ UnchangedLoops
    /\ UnchangedOthers
    /\ UNCHANGED <<site, groups, tracker, canceled, poller, executing, redisKeys>>

CleanupRedis ==
    /\ pc = "cleanup"
    /\ \/ /\ ~canceled \/ Cardinality(HashesFrom(next)) = 1
          /\ DeleteRedisHash
       \/ /\ HashesFrom(next) # {}
          /\ Return(ActivityError)
          /\ UNCHANGED <<next, redisKeys>>
       \/ /\ HashesFrom(next) = {}
          /\ Return("ok")
          /\ UNCHANGED <<next, redisKeys>>
    /\ UnchangedLoops
    /\ UnchangedOthers
    /\ UNCHANGED <<site, groups, tracker, canceled, poller, executing>>

-----------------------------------------------------------------------------
(***************************************************************************)
(* The coroutine invokeSync spawns for a config, and the table sync        *)
(* workflow it waits for.  The future is set, and on success the config is *)
(* marked complete, before the main coroutine hears of it.  Canceled, the  *)
(* future does not wait for the child to stop.                             *)
(***************************************************************************)
UnchangedMain == UNCHANGED <<job, groups, mainVars>>

SyncSucceeds(c) ==
    /\ MainBlocked
    /\ c \in Pending \cap executing
    /\ succeeded' = succeeded \cup {c}
    /\ tracker' = MarkConfigComplete(tracker, groups, c)
    /\ executing' = executing \ {c}
    /\ redisKeys' = IF c.redis THEN redisKeys \cup {c} ELSE redisKeys
    /\ UnchangedMain
    /\ UNCHANGED <<failed, aborted, canceled, poller, accountBad, userCanceled>>

\* Mutated: the config is marked complete whatever the sync's outcome.
SyncFailsMarked(c) ==
    /\ MainBlocked
    /\ c \in Pending \cap executing
    /\ failed' = failed \cup {c}
    /\ tracker' = MarkConfigComplete(tracker, groups, c)
    /\ executing' = executing \ {c}
    /\ UnchangedMain
    /\ UNCHANGED <<succeeded, aborted, canceled, poller, redisKeys, accountBad, userCanceled>>

SyncFails(c) ==
    /\ MainBlocked
    /\ c \in Pending \cap executing
    /\ failed' = failed \cup {c}
    /\ executing' = executing \ {c}
    /\ UnchangedMain
    /\ UNCHANGED <<succeeded, aborted, tracker, canceled, poller, redisKeys, accountBad, userCanceled>>

SyncCanceled(c) ==
    /\ MainBlocked
    /\ canceled
    /\ c \in Pending
    /\ aborted' = aborted \cup {c}
    /\ UnchangedMain
    /\ UNCHANGED <<succeeded, failed, tracker, executing, canceled, poller, redisKeys,
                   accountBad, userCanceled>>

\* Mutated: children outlive their parent.
ChildStopsIfAsked(c) ==
    /\ c \in executing
    /\ c \in aborted
    /\ executing' = executing \ {c}
    /\ UnchangedMain
    /\ UNCHANGED <<succeeded, failed, aborted, tracker, canceled, poller, redisKeys,
                   accountBad, userCanceled>>

\* A child asked to cancel, or terminated because its parent closed, stops.
ChildStops(c) ==
    /\ c \in executing
    /\ c \in aborted \/ pc = "returned"
    /\ executing' = executing \ {c}
    /\ UnchangedMain
    /\ UNCHANGED <<succeeded, failed, aborted, tracker, canceled, poller, redisKeys,
                   accountBad, userCanceled>>

\* A running sync writes rows, and with them the hash of its primary keys.
WriteRedis(c) ==
    /\ c \in executing
    /\ c.redis
    /\ redisKeys' = redisKeys \cup {c}
    /\ UnchangedMain
    /\ UNCHANGED <<syncVars, canceled, poller, accountBad, userCanceled>>

-----------------------------------------------------------------------------
\* A user cancels the run.
CancelRun ==
    /\ MainBlocked
    /\ ~canceled
    /\ canceled' = TRUE
    /\ userCanceled' = TRUE
    /\ UnchangedMain
    /\ UNCHANGED <<syncVars, poller, redisKeys, accountBad>>

(***************************************************************************)
(* The account status coroutine: a timer, then a check; after a bad check  *)
(* or an error it blocks on the stop channel until a Select receives.      *)
(***************************************************************************)
Poll(from, to) ==
    /\ MainBlocked
    /\ poller = from
    /\ poller' = to
    /\ UnchangedMain
    /\ UNCHANGED <<syncVars, canceled, redisKeys, userCanceled>>

TimerFires == Poll("timer", IF canceled THEN "exited" ELSE "checking") /\ UNCHANGED accountBad

CheckIsValid == Poll("checking", IF canceled THEN "exited" ELSE "timer") /\ UNCHANGED accountBad

\* Mutated: cancelHandler is called before the stop signal is sent.
CheckCancelsFirst ==
    /\ MainBlocked
    /\ poller = "checking"
    /\ poller' = "sending"
    /\ canceled' = TRUE
    /\ accountBad' = TRUE
    /\ UnchangedMain
    /\ UNCHANGED <<syncVars, redisKeys, userCanceled>>

CheckIsInvalidOrFails == Poll("checking", "sending") /\ accountBad' = TRUE

\* Canceled, the check's future gets the cancellation error: an error.
CheckIsCanceled == canceled /\ Poll("checking", "sending") /\ UNCHANGED accountBad

Poller == TimerFires \/ CheckIsValid \/ CheckIsInvalidOrFails \/ CheckIsCanceled

-----------------------------------------------------------------------------
Setup == SetupActivity \/ CheckAccount \/ GenerateBenthosConfigs \/ InitSchema

Loops ==
    \/ PassRoot \/ StartRoot \/ WaitForRootSlot \/ MainLoop
    \/ PassDependent \/ WaitForDependentSlot \/ StartDependent

Select == SelectStop \/ \E c \in Configs : SelectSuccess(c) \/ SelectFailure(c)

Main ==
    \/ Setup \/ Loops \/ Select
    \/ PostTableSyncDone \/ FailCleanup \/ PostsyncHooks \/ CleanupRedis

\* How a sync ends
SyncEnds(c) == SyncSucceeds(c) \/ SyncFails(c) \/ SyncCanceled(c)

\* The run has returned.
Closed ==
    /\ pc = "returned"
    /\ UNCHANGED vars

Next ==
    \/ Main
    \/ \E c \in Configs : SyncEnds(c) \/ ChildStops(c) \/ WriteRedis(c)
    \/ CancelRun
    \/ Poller
    \/ Closed

\* Temporal schedules the workflow whenever it is not blocked, ends every
\* activity (they have timeouts and bounded retries), and stops a child that
\* was canceled or lost its parent.  A table sync is assumed to end.  Nothing is
\* assumed of the poller, the user, or the Redis writes.
Fairness ==
    /\ WF_vars(Main)
    /\ WF_vars(\E c \in Configs : SyncEnds(c))
    /\ WF_vars(\E c \in Configs : ChildStops(c))

Spec == Init /\ [][Next]_vars /\ Fairness

-----------------------------------------------------------------------------
Outcomes == {"none", "ok", "failed", "canceled", "invalidAccount"}

\* The values the variables take, and how the sets of configs nest.
TypeOK ==
    /\ job \in Jobs
    /\ pc \in SetupStages \cup BlockedOnActivity
              \cup {"roots", "dependents", "slot", "select", "returned"}
    /\ next \in Nat \ {0}
    /\ site \in {"root", "main", "dependent"}
    /\ started \subseteq Configs
    /\ handled \subseteq succeeded \cup failed \cup aborted
    /\ succeeded \cup failed \cup aborted \subseteq started
    /\ postSynced \subseteq handled
    /\ executing \subseteq started
    /\ redisKeys \subseteq started
    /\ inFlight \in Nat /\ completedCount \in Nat
    /\ activityErr \in Outcomes \ {"ok"} /\ result \in Outcomes
    /\ poller \in {"off", "timer", "checking", "sending", "exited"}
    /\ canceled \in BOOLEAN /\ accountBad \in BOOLEAN /\ userCanceled \in BOOLEAN

\* The counters of the main coroutine tell the truth, and at most
\* MaxConcurrency table syncs run at any time, those a canceled run has left
\* behind included.
ConcurrencyBound ==
    /\ inFlight = Cardinality(started \ handled)
    /\ completedCount = Cardinality(handled)
    /\ inFlight <= MaxConcurrency
    /\ Cardinality(executing) <= MaxConcurrency

\* A config that was started finds the INSERTs of every table it depends on
\* done, though the main coroutine may decide to start it, block for a slot,
\* and start it without looking again.
ParentsWrittenFirst ==
    \A c \in started : \A d \in c.dependsOn :
        {e \in Configs : e.table = d.table /\ e.runType = Insert}
            \subseteq tracker.completedConfigs

\* No UPDATE of a cycle starts before every INSERT of the cycle is done, also
\* those of tables the UPDATE does not mention.
UpdatesAfterInserts ==
    \A c \in started : \A id \in DOMAIN groups :
        groups[id].isInCycle /\ c \in groups[id].updateConfigs
            => groups[id].insertConfigs \subseteq tracker.completedConfigs

\* The tracker, which coroutines write and the main coroutine reads, counts
\* exactly the syncs that succeeded: a failed or canceled one never releases
\* the groups that wait for it.
TrackerCountsSuccesses ==
    /\ tracker.completedConfigs = succeeded
    /\ \A id \in DOMAIN groups :
          /\ tracker.completedCount[id] = Cardinality(succeeded \cap GroupConfigs(groups[id]))
          /\ tracker.insertPhaseComplete[id] <=> groups[id].insertConfigs \subseteq succeeded

\* Unless the run is being called off, a running sync finds the hash of every
\* transformed primary key it translates its foreign keys with, and finds it
\* complete.
LookupHashComplete ==
    ~canceled => \A c \in executing : \A d \in c.dependsOn :
        \A e \in Configs : e.table = d.table /\ e.redis =>
            e \in redisKeys /\ e \in tracker.completedConfigs

\* A run that returns without an error has synced every config, scheduled the
\* post-table-sync of each, left no sync running and no hash in Redis.
SuccessMeansEverything ==
    result = "ok" =>
        /\ \/ started = Configs /\ succeeded = Configs /\ postSynced = Configs
           \/ Configs = {}
        /\ executing = {}
        /\ redisKeys = {}

\* A run reports a cancellation only when a user canceled it: that of the
\* account poller, or of a failed sync, never hides the reason.
CanceledMeansUser == result = "canceled" => userCanceled

\* Once the context is canceled no sync is invoked; at most the first root is,
\* when the cancellation came with the end of the setup, and the run returns.
NoStartAfterCancel ==
    [][canceled /\ started' # started => started = {} /\ pc' = "returned"]_vars

\* The run implements SyncSchedule: a config waits until it is invoked, runs
\* while its child workflow does, is done when the tracker says so, and has
\* stopped otherwise.
Status ==
    [c \in Configs |->
        IF c \notin started THEN "waiting"
        ELSE IF c \in tracker.completedConfigs THEN "done"
        ELSE IF c \in executing THEN "running"
        ELSE "stopped"]

Schedule == INSTANCE SyncSchedule WITH status <- Status, calledOff <- canceled

ImplementsSyncSchedule == Schedule!Spec

\* A run ends, whatever fails, is canceled or polls.
Termination == <>(pc = "returned")

\* After a cancellation, or the run's end, no sync keeps running.
ChildrenStop == (canceled \/ pc = "returned") ~> (executing = {})

-----------------------------------------------------------------------------
(***************************************************************************)
(* What comments of the code say and the runs of its own refute.           *)
(***************************************************************************)
\* "Config-level dependencies (individual config dependencies must be
\* satisfied)": a config that runs has every column it depends on written.
ConfigDependenciesSatisfied ==
    \A c \in executing :
        AreConfigDependenciesSatisfied(c.dependsOn, tracker.completedConfigs)

\* "received signal to stop workflow based on account status": a run that
\* returns errInvalidAccountStatusError had a check of the account go wrong.
InvalidAccountMeansBadCheck == result = "invalidAccount" => accountBad
=============================================================================
