# Neosync: specifications, model checks and proofs

TLA+ models of the parts of Neosync that decide *what is written when*: the planner that orders
tables, the workflow that runs the table syncs, the table sync with its identities, the activity
that streams a page, the rows it reads and writes, the connection manager and the SSH dialer below
it, and the job service above it. TLC checks them on small instances, TLAPS proves the safety
properties the runs check for all values of the constants.

`tlc -workers 2 -config X.cfg M` runs a configuration, `tlapm M_proofs.tla` checks a proof module;
`PROJECT.json` lists every run, property, mutant, theorem, hazard and the source lines of each
definition.

## 1. The system

A *job run* copies the mapped tables of one database to others, anonymising on the way.

| component | source | state it keeps | talks to |
|---|---|---|---|
| Run config planner | `internal/runconfigs`, `internal/benthos/benthos-builder/builders/sql.go` | none (pure) | called by the activity GenerateBenthosConfigs |
| Execution groups, completion tracker | `worker/pkg/workflows/datasync/workflow/{execution_group,group_completion_tracker}.go` | completed configs, counts and phase per group | written by sync coroutines, read by the main coroutine |
| Datasync workflow | `.../datasync/workflow/workflow.go` | `started`, `inFlight`, `completedCount`, `activityErr`, futures, stop channel | child workflows, activities, Redis (through an activity), the account poller coroutine |
| Table sync workflow | `worker/pkg/workflows/tablesync/workflow/workflow.go` | continuation token, iteration, identity cursors | runs the activity; answers updates from it |
| Identity allocator | `.../tablesync/shared/identity-allocator.go` | block and used values per column, per attempt | sends updates to the workflow over the network |
| SyncTable activity | `.../tablesync/activities/sync/activity.go`, `worker/pkg/benthos/error` | two channels, the stream, the session | three goroutines; the Benthos stream |
| Paged SQL input, SQL insert output | `worker/pkg/benthos/sql`, `worker/pkg/select-query-builder`, `internal/continuation-token` | the open rows, the count and the last values read, per attempt; the token across pages | the source and the destination database; Benthos |
| Connection manager | `internal/connection-manager` | clients per group, bindings per session, reaper flag | activities, the reaper goroutine, Shutdown |
| SSH dialer | `internal/sshtunnel/dialer.go` | one client and a mutex | the SQL connectors, a keepalive goroutine per client |
| Job service, Temporal client manager | `backend/services/mgmt/v1alpha1/job-service`, `internal/temporal/clientmanager` | none of its own: a row in the database, a schedule and its runs in Temporal | users, the database, Temporal |

Also there, and not modelled as components of their own: the small activities of the datasync
workflow (steps of it), the schema init workflow (one of its stages), the Redis hash output, SQL
retry, the cache of Temporal clients, the CLI's own sync, the account hook and PII workflows, the
backend's other services, the schema manager, transformers, the frontend. Section 7 gives the
reasons.

What is hard in this code:

- *ordering across actors*: coroutines set futures and the tracker before the main coroutine hears
  of it; the poller's signal races its own cancellation; a stream's error and its end travel on
  different channels;
- *stale decisions*: a config is found ready, the loop blocks for a slot, then starts it unasked;
- *failure half way*: a failed sync calls the run off while others write, and the Redis hashes they
  read are deleted;
- *retries and zombies*: an activity attempt that timed out goes on running and asking for
  identities beside its successor; answers are lost after the cursor moved;
- *continuing as new* with update handlers in flight;
- *planning for cycles*: which columns go in an INSERT, which in UPDATEs, and whether the coarser
  rule of the tracker ever locks up a plan that was validated column by column;
- *sharing and closing* clients among sessions, reaper and shutdown, or among dials, keepalives and
  Close;
- *paging* through a table that others change, with a token that is JSON, pages that are retried and
  attempts that write late;
- *batches that fail in part*: written again row by row, rows skipped, rows written whose answer was
  lost, and what a conflict does depending on the database, the key and the attempt;
- *two stores* for one job, changed one after the other, by calls that may meet or break off.

## 2. The modules

| module | models |
|---|---|
| `CircularDependencies` | `FindCircularDependencies`: all simple cycles by depth first search. `Reaches` and `Components` are reference definitions. |
| `RunConfigs` | `BuildRunConfigs`: dependency graph, INSERT and UPDATE configs, `isValidRunOrder` |
| `ExecutionGroups` | `buildExecutionGroups` with the merging of cycles, and the tracker: `MarkConfigComplete`, `IsGroupComplete`, `CanConfigStart` |
| `BenthosJobs` | the fields of a benthos config the workflow reads, and what a job made of them is required to be (`WellFormed`, `PointsAtInserts`) |
| `Planning` | composes planner, groups and tracker: a schema is planned, grouped, and its configs complete in any allowed order |
| `SyncSchedule` | abstract: what a run promises about its syncs |
| `DatasyncWorkflow` | composes `BenthosJobs` and `ExecutionGroups` with `executeWorkflow` |
| `TableSync` | the table sync workflow, its update handler, the allocator of each attempt, the network between |
| `SyncActivity` | one attempt at SyncTable: activity, monitor and stream goroutines |
| `PagedSync` | the rows of one table sync: paged query, input, insert output, attempts, token, a source that changes |
| `ConnectionManager` | the manager, the reaper goroutine, a caller of Shutdown |
| `SSHDialer` | dials, keepalive goroutines and Close around one mutex, and a server that fails or falls silent |
| `JobSchedule` | the calls of the job service on a job's row and schedule, their faults, and Temporal's firing |
| `MC*`, `SchemaSamples` | instances for TLC |
| `*_proofs` | lemmas and theorems |

An operator that begins with "Mutated:" in its comment is a plausible bug of the definition after
it; no specification uses it. Substituted for that definition, it makes TLC refute one property, so
every property checked is one the code could break.

### State and code

**DatasyncWorkflow.** Temporal runs the coroutines of a workflow one at a time and switches only
when one blocks. `pc` is where the main coroutine is; every step of another coroutine, and a
cancellation, has `MainBlocked` as its guard. The variables keep the names of the Go variables.
A future is one of `succeeded`, `failed`, `aborted`, and joins `handled` when the Select takes it.
`executing` is the set of child workflows that really run, which a canceled context does not empty
at once; `redisKeys` is which hashes exist. Both loops walk the whole `job` and pass over the configs of the other half,
which is what `splitBenthosConfigs` and its two slices amount to. `accountBad` and `userCanceled`
are history variables.

**TableSync.** An attempt is named by page and number. Temporal's giving an attempt up
(`AttemptFails`) and the attempt's own steps are separate, so an attempt may run on for ever, or
stop at any point. An update carries the run id its allocator was made with and is refused by any
other run. A lost request is one never accepted; a lost answer is one never received (`GiveUp`).
The pseudo-random probes of `tryGetValue` are a free choice among unused values, or a miss.

**SyncActivity.** `sees` is what the monitor found when it read `benthosStream`, a plain variable
another goroutine writes: either value may be read. Channels have the capacities of the code. The
stream takes batches in any order; a batch with a critical error waits in `failing` for room in the
stop channel.

**ConnectionManager.** A mutex makes each operation one step; `holds`, `open` and `opened` are the
clients seen from outside. `mode` tells the backend's configuration (close on release, no reaper)
from the worker's (reaper).

**PagedSync.** An attempt is the seven variables `input` to `flaws`; a new attempt sets them afresh
from `token` and `tries`. A page is one query: `Pages` are the results the database may give, by SQL's
rules for NULL and ties. `lastRead` is remembered row by row, and `more` is the response of the
activity. A batch is any part of what was read. `Mode` is what its INSERT does on a conflict: an
error; nothing; an update in the statement (Postgres with a primary key and columns to update, and
MySQL); an `upsert`, row by row, where Postgres has a deferrable constraint; or no INSERT at all
(`skip`), an upsert without a column to update. A batch is `Accepted`, when some rows may be left as
they are (`Inserted`) or out (`MaySkip`: violations of foreign keys, skipped in the row by row retry
or dropped by MySQL's INSERT IGNORE); or `Rejected`, by a critical error for one row, when rows before
it may have been written. The report of that error may be overtaken by the end of the stream
(`SyncActivity`), so it is a flaw of the attempt and, if the attempt succeeds, a loss of the sync; a
conflict is told apart from other errors. `WriteBreaksOff` is a batch that was written, in whole or in
part, and is written again, since its answer was lost or an error that is not critical stopped it. On
SQL Server a conflict is such an error, met again until the attempt times out. An attempt that was
given up leaves behind what it may still write (`late`). `DecodedValue` is what JSON does to an
integer. `kept`, `changes`, `losses`, `retried`, `zombies` and `rewritten` are history variables.

**SSHDialer.** `clientmu` is who has the mutex, `step` where a dial is in `DialContext` and `getClient`,
`keeper` where the goroutine of a client is. `link` is what a request over a client meets: an answer,
silence or an error; a client that is closed answers with an error. A client that is closed and that
nobody refers to is used again for a new one, so the number of clients is bounded only at a time.

**JobSchedule.** A step is one request to the database or to Temporal. `call` holds what a handler has
in its hands: the schedule it read and will write back, the runs it listed. A fault refuses a request,
or carries it out and loses the answer, or ends the backend; an errored request takes effect before
the error or never, and a lost connection frees the lock. `mishaps`, `doubtful`, `wanted` and `deleted`
are history variables. `paused` may be changed in Temporal alone, as PauseJob does.

**Planning.** A schema has tables, foreign keys (each column nullable or not), the tables with a
where clause and those whose primary key is transformed. Columns are names; subset paths are reduced
to which tables have one, which is all the planner's choice of configs depends on. Tables are numbered in
the order of their names. The map iteration of `BuildRunConfigs` yields them in any order (`Plans`);
keys that tie in `sortForeignConstraints` stay in an order of which nothing is assumed. The cycle
search, the merging of cycles and the rounds of the order check are recursive functions, so that they
can be reasoned about.

## 3. The runs

| run | instance | shows |
|---|---|---|
| `planning` | every schema over three tables, in every order, self references included, with up to 4 foreign keys, each nullable or not, no where clause or one | `WritesEveryColumnOnce`, `RefusesOnlyMandatoryCircles`, `GroupsAreComponents` (for every order of merging), `GroupsArePartitionInOrder`, `NeverStuck`, `ReferencedColumnsWritten` |
| `datasync` | 7 jobs made by the planner, 2 syncs at a time, poller on and off | `ConcurrencyBound`, `ParentsWrittenFirst`, `UpdatesAfterInserts`, `TrackerCountsSuccesses`, `LookupHashComplete`, `SuccessMeansEverything`, `CanceledMeansUser`, `NoStartAfterCancel`, `ImplementsSyncSchedule`, `Termination`, `ChildrenStop` |
| `table_sync` | 1 column, 2 pages in 2 workflow runs, 2 attempts, 1 row each, 1 request given up | `IdentitiesAreFresh`, `DrainedBeforeClosing`, `PagesFollowEachOther`, `Termination` |
| `sync_activity` | 5 batches, capacities 3 and 1 | `SuccessMeansWholePage`, `ReportStopsActivity`, `RoutinesEnd` |
| `paged_sync` | 16 tables of up to 5 rows, on 3 databases, 2 rows a page, 2 attempts a page, 1 change of the source | `CopiesEveryRow`, `OldRowsHaveCause`, `ConflictsHaveCause`, `Termination` |
| `connection_manager` | 2 sessions of one group, 1 of another, 2 connections, at most 3 clients opened | `HeldClientsAreOpen`, `MapsMatchClients`, `NoIdleClients`, `IdleClientsAreReaped`, `ShutdownClosesClients` |
| `ssh_dialer` | 2 dials, 2 clients at a time | `ClientIsOwned`, `NothingWaitsForEver` |
| `job_schedule` | 2 calls at a time, 2 fields of 2 values, 1 run, 1 fault | `RowAndScheduleAgree`, `OrphansHaveCause`, `HalfJobsHaveCause`, `NoRunAfterDelete`, `DeleteCompletes` |
| `column_order`, `invalid_account`, `lost_error`, `full_refresh` | small | the disagreements of section 6 |

The types of the variables are theorems (`TypeCorrect` in each proof module) and no run checks them.

### Bounds, and why they are enough

- *Schemas.* Three tables and four keys hold every way two cycles can share a table, a cycle can
  hang below another, and a self reference can sit on a cycle. All keys reference the column `id`;
  keys that reference a column another UPDATE writes are the subject of `column_order`, and in
  `DatasyncWorkflow` the sample `ColumnCircle`. The properties of `Planning` say where they need keys
  to reference primary keys (`ReferencesKeys`), and that columns shared by several keys
  (`SharedColumns`) are written by each; the theorems hold for composite and overlapping keys, which
  the run has none of.
- *Jobs.* They cover roots only, a fan, a cycle with a child, a self reference with a chain below,
  cycles that share a table, a subset with two UPDATEs of one table, a cycle above a cycle, and no
  configs at all. With two syncs at a time both loops block for a slot.
- *Table sync.* `BlockSize` 2 makes blocks run out within a page; two attempts are the fewest with a
  zombie; `MaxGiveUps` bounds requests given up; `MaxIterations` 1 makes every page end a run.
- *Connection manager.* `MaxClients` bounds how many clients are ever opened; three allow one to be
  closed and opened again while another is shared. The manager only reacts, and when nothing is
  left to close it may rest: deadlock is not looked for in this run, and in no other is it left out.
- *Paged sync.* Five rows are three pages. The tables have a composite key, rows that tie across a
  page, a NULL in a unique column and a key that JSON rounds; rows left from an earlier run under each
  conflict mode; each way Postgres treats an update (primary key or not, columns or not, deferrable or
  not); violations of foreign keys that are skipped in a statement and in an upsert, those MySQL
  ignores on a retry, and SQL Server. One change inserts a row into, or deletes one from, a page that
  is read again or comes next; two attempts are the fewest with a zombie. The theorems hold for any
  number of changes and attempts.
- *SSH dialer.* Two dials are one in the mutex and one that waits or forwards; two clients are the
  current one and one replaced, with its keepalive still to wake up. (With three clients the safety
  holds as well, in 15 336 states.)
- *Job service.* Two calls are a call and its rival, or a call and the retry of one that broke off.
  Two values of two fields tell a lost update from a kept one.
- *Sync activity.* Five batches are more than the stop channel holds plus the one the monitor takes.

### Fairness

Temporal schedules a workflow that is not blocked, ends every activity by timeout, runs update
handlers that have started, and stops children whose parent canceled or closed them. That is weak
fairness of `Main`, of some sync's ending and of some child's stopping; of `Workflow` and
`AllocateBlock`; of `PageDone \/ AttemptFails`, since an activity ends or times out; and nothing for
the poller, the user, deliveries, the Redis writes, or an attempt's own steps. That a table sync ends
at all is an assumption of `datasync`, which `table_sync` and `paged_sync` check on their side. In
`JobSchedule` each call goes on, with strong fairness as it may have to queue for the lock of the
row, which the database serves in turn; and a user who wants the job deleted asks again. In
`SSHDialer` a goroutine that waits for the mutex gets it in the end (Go's mutex hands itself to one
that starves), tickers tick, the keepalive's wait ends by its timeout, and a server that keeps coming
back answers; nothing makes a silent server answer, nor `ssh.Dial` end, whose timeout is one of the
TCP connection and not of the handshake. In `SyncActivity` and `ConnectionManager` a goroutine that can run does; a stream
need not take its next batch; and Temporal cancels the context of an activity that returned.

## 4. Abstract specification

`SyncSchedule` says what a run promises whatever the groups and futures it is made of: a config is
begun at most once, with every column its foreign keys point at written, at most `MaxConcurrency` at
a time, none once the run is called off. `ImplementsSyncSchedule` states that `DatasyncWorkflow`
implements it, with `status` read off `started`, `executing` and the tracker, and `calledOff` off
the context. TLC checks it in `datasync`, and `ImplementsSyncScheduleHolds` proves it for jobs with
`PointsAtInserts`: every column a foreign key references is written by an INSERT. That assumption is
needed: `column_order` shows what happens without it. `PlansPointAtInserts` proves it of every plan of a
schema whose keys reference primary keys.

## 5. What is proved

**Planning** (`Planning_proofs`). All six properties of the planner and the tracker, for every schema
(`IsSchema`: finitely many tables and keys, the keys' NOT NULL columns among their columns):
`WritesColumnsOnce`, `CycleGroupsAreComponents`, `GroupsPartTheConfigs`, `NeverLocksUp`,
`WritesReferencedColumns`, `RefusesMandatoryCircles`. The argument has six parts.

1. *The search finds what it should* (`CirclesFound`). Every set of tables `dfsCycles` returns is
   strongly connected, and the two ends of every edge on a circle are in a set it returns: as long as
   the path walked has a way back to its start that avoids the path, some branch of the search keeps
   one, and the path grows until it closes.
2. *Merging gives the components* (`MergedAreComponents`), in whatever order the tables are taken:
   after each table the sets are still strongly connected and cover the circles, and those that hold
   a table already taken are apart.
3. *The order of the tables does not matter* (`OnePlan`): `BuildRunConfigs` gives one set of configs or
   refuses, so a plan is a function of the schema.
4. *Groups.* A cycle group is a component, so the dependencies between groups have no circle
   (`GroupsPartTheConfigs`).
5. *The validated order carries over to the coarser rule* (`NeverLocksUp`). The rounds of
   `isValidRunOrder` give each config of an accepted plan a rank above those of what it depends on.
   Of the groups with a config left, take one that waits for no other such group: if it has INSERTs left,
   the tracker lets the one of least rank start, and if it has none, any of its UPDATEs. `SpecTracker` is
   the invariant this stands on: `Static` (plan and groups are those of the schema, which nothing
   changes) and `TrackerInv` (the counts and flags of the groups are those of the completed configs).
6. *What starts finds its columns* (`WritesReferencedColumns`): the INSERT of every table a config
   depends on is complete, and writes the primary key.

A refusal means that the rounds stopped early; following the dependencies of what is left leads round
a circle of mandatory keys (`RefusesMandatoryCircles`). The operators of the planner are recursive
functions over sequences, sets and numbers. That each has a value is shown by exhibiting a function
that solves its recursion, by induction on a bound over numbers, after which `CHOOSE` gives one that
does; what it computes follows by taking a least counterexample.

`PlansAreWellFormed` and `PlansPointAtInserts` join this to the workflow below: what the planner and
the config builder make of *any* schema has the properties the theorems on `DatasyncWorkflow` assume
of its jobs, the second where keys reference primary keys.

**DatasyncWorkflow** (`DatasyncWorkflow_proofs`). `ParentsWrittenFirstHolds`, `UpdatesAfterInsertsHolds`,
`ConcurrencyBoundHolds`, `TrackerCountsSuccessesHolds` and `TypeCorrect`, for every set of jobs that
is `WellFormed`, every limit and both poll modes. `WellFormed` is what the planner gives: configs
are distinct, one INSERT per table, only INSERTs and UPDATEs on a cycle, UPDATEs with dependencies,
merged cycles disjoint. TLC evaluates it for every sample, and `PlansAreWellFormed` proves it of every
plan. The argument: *what may start stays allowed to start*. The tracker
only grows, so a config that passed `CanConfigStart` once passes it ever after; the invariant keeps
`MayStart` for every started config, for the config the main coroutine holds while it waits in the
dependents' Select (`site = "dependent"`), and for `pc = "slot"`. Neither property is inductive
without that last part, for the loop does not look again. The counters need that a future is handled
once and that what executes was started and is not handled, or was aborted. That `CanConfigStart` gives `MayStart` is a
lemma with two cases: a table in another group, which is complete and so are all its configs, or in
the same group, where `FindConfigByTable` gives the INSERT.

**How a run ends** (the second half of `DatasyncWorkflow_proofs`). `SuccessMeansEverythingHolds`,
`CanceledMeansUserHolds`, `LookupHashCompleteHolds`, `NoStartAfterCancelHolds` and
`ImplementsSyncScheduleHolds`. On top of the invariant above: a context that is canceled has its
reason at hand or a user who canceled it (`Reasons`); once canceled, the main coroutine is not where
it starts a sync (`Quiet`); when the loops are left everything is handled, and what is handled was
post-synced (`Finishing`); a hash stays while the run is neither over nor called off (`HashesKept`).
The refinement maps each step to one of `SyncSchedule` or a stutter: a start to a begin, the end of a
sync to its completion or stop, the cancellation to the calling off.

**TableSync.** `IdentitiesAreFreshHolds`, `BlocksApartHolds`, `CursorsNeverMoveBackHolds`,
`DrainedBeforeClosingHolds`, `PagesFollowEachOtherHolds`, `TypeCorrect`. Freshness is not inductive; the strengthening follows the values. Blocks granted lie
apart and below the cursor (`BlocksApart`). A block in an attempt's hands was granted to that
attempt, in its present call or an earlier one (`BlocksAreGranted`); so were the blocks all its
identities came from, and the call of an identity is over (`IdentitiesAreGranted`): two attempts
never draw from one block. An identity of the block an attempt holds now is marked as used
(`UsedAreMarked`): one attempt never draws a value twice. The only assumption is that the sizes are
natural numbers, and those that must be, positive.

**ConnectionManager.** `HeldClientsAreOpenHolds`, `MapsMatchClientsHolds`, `NoIdleClientsHolds`,
`TypeCorrect`. The strengthening: until a shutdown is called, what a session holds is the
cached client of a connection it is bound to (`HeldClientsAreBound`), and the reaper is not closing
(`NobodyClosesYet`).

**SyncActivity.** `SuccessMeansWholePageHolds`, `TypeCorrect`. The stream ends without an error
before its page is done only once it was stopped, and the monitor stops it last
(`EarlyEndMeansStopped`); by then its error is in the channel, and ahead of what the stream sends
(`MonitorIsHeard`); so the first result the activity receives is true (`GoodNewsIsTrue`).

**PagedSync.** `CopiesEveryRowHolds`, `OldRowsHaveCauseHolds`, `ConflictsHaveCauseHolds`,
`TypeCorrect`. A row of the source that
was there from the start is written, or left out for a cause the table has (`LeftOut`), or lies ahead:
beyond the token of the page, in the result not read yet, or on its way to the destination. Each mode
has the cause that is named for it (`ModeHasCause`), and a step only adds to what is written, also one
that fails half way (`WrittenOfBatch`). That a page ends with its last row in the order, so that
what comes after the token is what was not on the page, is where keys that tell the rows apart are
needed, and no more is assumed of them. For the conflicts, what is at the destination is placed as
well (`CInv`, for a sync none of the exempted causes disturbs): a row there is behind the token, or was
written by this attempt, once, and is not beyond the last row read, or was written by an attempt before it
and, the source being the same, is of the one page the query can return (`OwnRows`). That the order of
the WHERE clause is transitive, and that keys which tell rows apart leave the database no choice of a
page, are lemmas of their own.

**JobSchedule.** `RowAndScheduleAgreeHolds`, `OrphansHaveCauseHolds`, `HalfJobsHaveCauseHolds`,
`NoRunAfterDeleteHolds`, `TypeCorrect`. A call that holds a copy of the schedule to write back has the
lock of the row, and while it has, no other call changes what the row and the schedule say of the job
(PauseJob changes another field). A row or a schedule without its counterpart is in the hands of a
call in flight, or its mishap is on record.

**SSHDialer.** `ClientIsOwnedHolds`, `TypeCorrect`. The mutex is a dial's while it probes or connects and
a keepalive's while it probes (`HolderKnown`), and what its holder works on is `s.client`
(`HolderCurrent`).

*Model-checked only*: all liveness (`Termination` of three modules, `ChildrenStop`,
`IdleClientsAreReaped`, `ShutdownClosesClients`, `ReportStopsActivity`, `RoutinesEnd`, `DeleteCompletes`,
`NothingWaitsForEver`), which needs `ENABLED` and fairness and is beyond the prover. Every safety
property of the passing runs is proved.

## 6. Disagreements found

- `column_order`: `CanConfigStart` promises that the dependencies of a config are satisfied, but a
  dependency on a column that only an UPDATE writes counts as satisfied by the table's INSERT.
- `invalid_account`: a user's cancellation during an account check is reported as an invalid account.
- `lost_error`: a critical error of the last batch may be overtaken by the stream's success, and the
  activity succeeds.
- `full_refresh`: an error in the middle of a page passes for the end of the table, and the sync
  succeeds with rows missing.

Other ways to lose or keep rows are exempted by name in the properties of `PagedSync` rather than
claimed as disagreements. Rows may be lost or repeated that tie in a table without a unique key, have
a NULL in a unique column or an integer above 2^53 in the token (`Distinguishing`). Rows are left out
(`LeftOut`) that violate a foreign key, where the job or a subset that is not safe for foreign keys
says to skip them, and on MySQL wherever conflicts are ignored: a retry drops rows on which the first
attempt failed; and so is every row of a Postgres table that has a deferrable constraint and no column
but its primary key, such as a join table, in a job that updates on conflict: `postgresUpsert` returns
early (`output_sql_insert.go:370`), although no row is in conflict. Rows of an earlier run stay (`MayStayOld`) where the job or a retry ignores conflicts,
where the update option meets a Postgres table without a primary key, or without a column to update,
and falls back to ignoring conflicts (`insert-query-builder.go:175`), and where the row that would
replace them is skipped. A sync runs into its own rows (`ConflictsHaveCause`) when a batch is written
again within an attempt, which does not ignore conflicts, and on a retry when an upsert has no primary
key: its UPDATE then has no WHERE clause, and would give every row the same key. The note of the allocator that a
retry gets the same block (`identity-allocator.go:145`) does not hold either: it gets the next one,
and `IdentitiesAreFresh` rests on that. In `JobSchedule`, PauseJob takes no lock, so an update that
writes the whole schedule back may undo it; and a run that starts between the listing of a job's runs
and the deletion of its schedule stays.

## 7. Not modelled, and why

- *SQL retry*: a loop around one call, which may repeat an INSERT (`WriteBreaksOff`); `RetryTx`, which would repeat a commit whose answer was lost,
  has no caller. *The cache of Temporal clients*: its reference counts close nothing.
- *CLI sync*: the same configs, one group of dependencies after the other, in one process. *PII
  workflows*: a queue of tables and a fixed number of coroutines, in any order. *Account hooks*:
  independent activities.
- *Transformers, schema manager, connection data, the UPDATE output*: conversion of data and
  statements, sequential, specific to a database.
- *Other backend services, generated queries, billing, licences*: request handlers over single rows,
  and calls of external services. *Frontend, docs, charts*: no shared state.
- Inside the modelled parts: generate, AI and NoSQL jobs (they use the same workflow with other
  configs); an update for a column without a cursor (an error to its caller); provider errors of the
  connection manager (they change nothing); a stream that goes on after its activity returned; where
  clauses and subset joins of the paged query; unique constraints other than the key the rows are
  ordered by, and keys a transformer makes collide; columns that no one may update, which keep their
  value in a row that counts as new; a dial in flight when an SSH dialer is closed, whose client
  nobody closes; calls of the job service that change the row alone or a run alone; the handler of a
  panic in a keepalive.

The map covers a small share of the repository's lines. Most of them are generated code (protocol
buffers, queries, mocks), the data sets of the transformers, and adapters to databases, which have no
behaviour over time; the state machines are in a few thousand lines, most of which it covers.

## 8. What could come next

1. `SyncActivity` with `ConnectionManager`: sessions released under a stream that still runs.
2. An abstract allocator ("blocks of a counter") that `TableSync` implements, and an abstract pool
   for `ConnectionManager`.
3. `PagedSync` with the pages and workflow runs of `TableSync`, which now meet only in the token.
