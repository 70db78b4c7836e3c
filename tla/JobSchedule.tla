----------------------------- MODULE JobSchedule -----------------------------
(***************************************************************************)
(* A job is a row of the backend's database and a schedule of Temporal of  *)
(* the same id.  The calls of the job service (jobs.go, runs.go) read and  *)
(* change one after the other; several calls are in flight at a time, in   *)
(* any number of backends, and share nothing but the two stores.           *)
(*                                                                         *)
(* A step is one request to the database or to Temporal.  A fault is a     *)
(* request refused, a request carried out whose answer is lost, or the end *)
(* of the backend in the middle of a call.  Statements that change the row *)
(* wait for its lock, which a transaction holds until it ends.             *)
(***************************************************************************)
EXTENDS Integers, FiniteSets

CONSTANTS Calls,      \* requests handled at a time
          Values,     \* values of a field
          Runs,       \* bound: the runs there can be
          Requested,  \* what a new job may be asked to be
          None,       \* no row, no schedule, no lock, no change
          MaxFaults   \* bound: faults

(* What both stores hold of a job: when to run, and the timeout of a run.  *)
Fields == {"cron", "timeout"}
Row == [Fields -> Values]
Schedule == [job : Row, paused : BOOLEAN]
Changes == [field : Fields, to : Values]

ASSUME RequestedAssumption == Requested \subseteq Schedule
ASSUME NoneAssumption == None \notin Row \cup Schedule \cup Changes \cup Calls
ASSUME FaultsAssumption == MaxFaults \in Nat

VARIABLES row,        \* the row, or None
          lock,       \* the call with an open transaction, or None
          schedule,   \* the schedule, or None
          runs,       \* the runs there were, and those Temporal keeps
          created,    \* the id of the job is in use, or was
          call        \* per call: its operation and next step, what an update
                      \* changes, the schedule it holds, the runs it listed

(* What happened so far.                                                   *)
VARIABLES faults,     \* number of faults
          mishaps,    \* halves of a job that calls have left
          doubtful,   \* fields whose last update failed half way
          wanted,     \* some user wants the job deleted
          deleted     \* a DeleteJob was answered with success

storeVars == <<row, lock, schedule, runs, created>>
historyVars == <<faults, mishaps, doubtful, wanted, deleted>>
vars == <<storeVars, call, historyVars>>

Ops == {"idle", "create", "delete", "update", "pause", "run"}
Steps == {"Done", "InsertRow", "CreateSchedule", "TriggerFirst", "RemoveCreated",
          "GetJob", "ListRuns", "DeleteRuns", "DeleteSchedule", "RemoveRow",
          "WriteRow", "Describe", "WriteBack", "Commit", "Patch", "Trigger"}
Mishaps == {"CreateLost", "CreateOvertaken", "CreateBroken", "DeleteBroken"}

CallState == [op : Ops, step : Steps, change : Changes \cup {None},
              hand : Schedule \cup {None}, listed : SUBSET Runs]

Idle == [op |-> "idle", step |-> "Done", change |-> None, hand |-> None,
         listed |-> {}]

At(c, s) == call[c].step = s
GoTo(c, s) == call' = [call EXCEPT ![c].step = s]
End(c) == call' = [call EXCEPT ![c] = Idle]
Fault == faults < MaxFaults /\ faults' = faults + 1
Creating == \E c \in Calls : call[c].op = "create"

(* Temporal starts a run of the schedule, as far as the bound goes.        *)
StartRun ==
    \/ \E r \in Runs \ runs.started :
          runs' = [started |-> runs.started \cup {r}, kept |-> runs.kept \cup {r}]
    \/ runs.started = Runs /\ UNCHANGED runs

RemoveRuns(R) == runs' = [runs EXCEPT !.kept = runs.kept \ R]

Init ==
    /\ row = None /\ lock = None /\ schedule = None
    /\ runs = [started |-> {}, kept |-> {}]
    /\ created = FALSE
    /\ call = [c \in Calls |-> Idle]
    /\ faults = 0 /\ mishaps = {} /\ doubtful = {}
    /\ wanted = FALSE /\ deleted = FALSE
------------------------------------------------------------------------------
(* CreateJob: the row, then the schedule, paused unless the request has a  *)
(* cron string.  The id is new.                                            *)
BeginCreate(c) ==
    /\ call[c] = Idle /\ ~created
    /\ created' = TRUE
    /\ \E s \in Requested :
          call' = [call EXCEPT ![c] = [Idle EXCEPT !.op = "create",
                                                   !.step = "InsertRow",
                                                   !.hand = s]]
    /\ UNCHANGED <<row, lock, schedule, runs, historyVars>>

InsertRow(c) ==
    /\ At(c, "InsertRow")
    /\ row' = call[c].hand.job
    /\ GoTo(c, "CreateSchedule")
    /\ UNCHANGED <<lock, schedule, runs, created, historyVars>>

InsertRowFails(c) ==
    /\ At(c, "InsertRow") /\ Fault
    /\ \/ UNCHANGED <<row, mishaps>>
       \/ row' = call[c].hand.job /\ mishaps' = mishaps \cup {"CreateBroken"}
    /\ End(c)
    /\ UNCHANGED <<lock, schedule, runs, created, doubtful, wanted, deleted>>

(* The request may ask for a first run.                                    *)
CreateSchedule(c) ==
    /\ At(c, "CreateSchedule")
    /\ schedule' = call[c].hand
    /\ GoTo(c, "TriggerFirst") \/ End(c)
    /\ UNCHANGED <<row, lock, runs, created, historyVars>>

(* Mutated: an error of Temporal leaves the row.                           *)
CreateScheduleFailsFast(c) ==
    /\ At(c, "CreateSchedule") /\ Fault
    /\ UNCHANGED <<schedule, mishaps>>
    /\ End(c)
    /\ UNCHANGED <<row, lock, runs, created, doubtful, wanted, deleted>>

(* On an error of Temporal the row is removed again.                       *)
CreateScheduleFails(c) ==
    /\ At(c, "CreateSchedule") /\ Fault
    /\ \/ UNCHANGED <<schedule, mishaps>>
       \/ schedule' = call[c].hand /\ mishaps' = mishaps \cup {"CreateLost"}
    /\ GoTo(c, "RemoveCreated")
    /\ UNCHANGED <<row, lock, runs, created, doubtful, wanted, deleted>>

RemoveCreated(c) ==
    /\ At(c, "RemoveCreated")
    /\ lock = None
    /\ row' = None
    /\ End(c)
    /\ UNCHANGED <<lock, schedule, runs, created, historyVars>>

(* MaxFaults does not count it: it follows a fault, once.                  *)
RemoveCreatedFails(c) ==
    /\ At(c, "RemoveCreated")
    /\ \/ lock = None /\ row' = None /\ UNCHANGED mishaps
       \/ UNCHANGED row /\ mishaps' = mishaps \cup {"CreateBroken"}
    /\ End(c)
    /\ UNCHANGED <<lock, schedule, runs, created, faults, doubtful, wanted,
                   deleted>>
------------------------------------------------------------------------------
(* Nobody knows the id before the row is there.                            *)
Known == created /\ \A c \in Calls : ~At(c, "InsertRow")

(* The other calls read the job first.                                     *)
Begin(c, o) ==
    /\ call[c] = Idle /\ Known
    /\ call' = [call EXCEPT ![c] = [Idle EXCEPT !.op = o, !.step = "GetJob"]]
    /\ UNCHANGED <<storeVars, faults, mishaps, doubtful, deleted>>

BeginDelete(c) == Begin(c, "delete") /\ wanted' = TRUE
BeginPause(c) == Begin(c, "pause") /\ UNCHANGED wanted
BeginRun(c) == Begin(c, "run") /\ UNCHANGED wanted

(* UpdateJobSchedule and SetJobWorkflowOptions differ in the field.        *)
BeginUpdate(c) ==
    /\ call[c] = Idle /\ Known
    /\ \E change \in Changes :
          call' = [call EXCEPT ![c] = [Idle EXCEPT !.op = "update",
                                                   !.step = "GetJob",
                                                   !.change = change]]
    /\ UNCHANGED <<storeVars, historyVars>>

FirstStep(o) == CASE o = "delete" -> "ListRuns"
                  [] o = "update" -> "WriteRow"
                  [] o = "pause" -> "Patch"
                  [] OTHER -> "Trigger"

(* Without a row DeleteJob succeeds, and the others fail.                  *)
GetJob(c) ==
    /\ At(c, "GetJob")
    /\ IF row = None
         THEN End(c) /\ deleted' = (deleted \/ call[c].op = "delete")
         ELSE GoTo(c, FirstStep(call[c].op)) /\ UNCHANGED deleted
    /\ UNCHANGED <<storeVars, faults, mishaps, doubtful, wanted>>

(* DeleteJob: the runs, the schedule, the row.                             *)
ListRuns(c) ==
    /\ At(c, "ListRuns")
    /\ call' = [call EXCEPT ![c].step = "DeleteRuns", ![c].listed = runs.kept]
    /\ UNCHANGED <<storeVars, historyVars>>

(* All at once; a run that is gone already is an error, which cancels the  *)
(* others.                                                                 *)
DeleteRuns(c) ==
    /\ At(c, "DeleteRuns")
    /\ IF call[c].listed \subseteq runs.kept
         THEN RemoveRuns(call[c].listed) /\ GoTo(c, "DeleteSchedule")
         ELSE (\E R \in SUBSET call[c].listed : RemoveRuns(R)) /\ End(c)
    /\ UNCHANGED <<row, lock, schedule, created, historyVars>>

DeleteRunsFails(c) ==
    /\ At(c, "DeleteRuns") /\ Fault
    /\ \E R \in SUBSET call[c].listed : RemoveRuns(R)
    /\ End(c)
    /\ UNCHANGED <<row, lock, schedule, created, mishaps, doubtful, wanted,
                   deleted>>

Overtakes == IF schedule = None /\ Creating THEN {"CreateOvertaken"} ELSE {}

(* Mutated: a schedule that is not found is an error.                      *)
DeleteExistingSchedule(c) ==
    /\ At(c, "DeleteSchedule")
    /\ schedule' = None
    /\ mishaps' = mishaps \cup Overtakes
    /\ IF schedule = None THEN End(c) ELSE GoTo(c, "RemoveRow")
    /\ UNCHANGED <<row, lock, runs, created, faults, doubtful, wanted, deleted>>

(* A schedule that is not found counts as deleted, though CreateJob may be *)
(* about to make it.                                                       *)
DeleteSchedule(c) ==
    /\ At(c, "DeleteSchedule")
    /\ schedule' = None
    /\ mishaps' = mishaps \cup Overtakes
    /\ GoTo(c, "RemoveRow")
    /\ UNCHANGED <<row, lock, runs, created, faults, doubtful, wanted, deleted>>

(* Mutated: the error is logged, and the row removed.                      *)
DeleteScheduleFailsLogged(c) ==
    /\ At(c, "DeleteSchedule") /\ Fault
    /\ \/ UNCHANGED <<schedule, mishaps>>
       \/ schedule' = None /\ mishaps' = mishaps \cup {"DeleteBroken"}
    /\ GoTo(c, "RemoveRow")
    /\ UNCHANGED <<row, lock, runs, created, doubtful, wanted, deleted>>

DeleteScheduleFails(c) ==
    /\ At(c, "DeleteSchedule") /\ Fault
    /\ \/ UNCHANGED <<schedule, mishaps>>
       \/ schedule' = None /\ mishaps' = mishaps \cup {"DeleteBroken"}
    /\ End(c)
    /\ UNCHANGED <<row, lock, runs, created, doubtful, wanted, deleted>>

RemoveRow(c) ==
    /\ At(c, "RemoveRow")
    /\ lock = None
    /\ row' = None
    /\ deleted' = TRUE
    /\ End(c)
    /\ UNCHANGED <<lock, schedule, runs, created, faults, mishaps, doubtful,
                   wanted>>

RemoveRowFails(c) ==
    /\ At(c, "RemoveRow") /\ Fault
    /\ \/ lock = None /\ row' = None /\ UNCHANGED mishaps
       \/ UNCHANGED row /\ mishaps' = mishaps \cup {"DeleteBroken"}
    /\ End(c)
    /\ UNCHANGED <<lock, schedule, runs, created, doubtful, wanted, deleted>>
------------------------------------------------------------------------------
(* Mutated: the row is updated outside of a transaction.                   *)
WriteRowUnlocked(c) ==
    /\ At(c, "WriteRow")
    /\ lock = None
    /\ IF row = None THEN End(c) ELSE GoTo(c, "Describe")
    /\ UNCHANGED <<storeVars, historyVars>>

(* The transaction of an update: the UPDATE takes the lock of the row.     *)
WriteRow(c) ==
    /\ At(c, "WriteRow")
    /\ lock = None
    /\ IF row = None THEN End(c) /\ UNCHANGED lock
                     ELSE GoTo(c, "Describe") /\ lock' = c
    /\ UNCHANGED <<row, schedule, runs, created, historyVars>>

(* Temporal's client reads the schedule, lets the call change it, and      *)
(* writes it back as a whole.                                              *)
Describe(c) ==
    /\ At(c, "Describe")
    /\ IF schedule = None
         THEN End(c) /\ lock' = None
         ELSE /\ call' = [call EXCEPT ![c].step = "WriteBack",
                                      ![c].hand = schedule]
              /\ UNCHANGED lock
    /\ UNCHANGED <<row, schedule, runs, created, historyVars>>

Changed(c) == [call[c].hand EXCEPT
                  !.job[call[c].change.field] = call[c].change.to]

(* Mutated: a schedule that is gone is made again.                         *)
WriteBackAnew(c) ==
    /\ At(c, "WriteBack")
    /\ schedule' = Changed(c) /\ GoTo(c, "Commit")
    /\ UNCHANGED <<row, lock, runs, created, historyVars>>

WriteBack(c) ==
    /\ At(c, "WriteBack")
    /\ IF schedule = None
         THEN End(c) /\ lock' = None /\ UNCHANGED schedule
         ELSE schedule' = Changed(c) /\ GoTo(c, "Commit") /\ UNCHANGED lock
    /\ UNCHANGED <<row, runs, created, historyVars>>

Commit(c) ==
    /\ At(c, "Commit")
    /\ row' = [row EXCEPT ![call[c].change.field] = call[c].change.to]
    /\ lock' = None
    /\ doubtful' = doubtful \ {call[c].change.field}
    /\ End(c)
    /\ UNCHANGED <<schedule, runs, created, faults, mishaps, wanted, deleted>>

(* An error before the schedule is written rolls back.                     *)
UpdateFails(c) ==
    /\ At(c, "WriteRow") \/ At(c, "Describe") \/ At(c, "WriteBack")
    /\ Fault
    /\ lock' = IF lock = c THEN None ELSE lock
    /\ End(c)
    /\ UNCHANGED <<row, schedule, runs, created, mishaps, doubtful, wanted,
                   deleted>>

(* Written, and the answer lost: rolled back all the same.                 *)
WriteBackLost(c) ==
    /\ At(c, "WriteBack") /\ schedule # None /\ Fault
    /\ schedule' = Changed(c)
    /\ doubtful' = doubtful \cup {call[c].change.field}
    /\ lock' = None
    /\ End(c)
    /\ UNCHANGED <<row, runs, created, mishaps, wanted, deleted>>

(* A commit that fails leaves the schedule changed; one whose answer is    *)
(* lost has done its work.                                                 *)
CommitFails(c) ==
    /\ At(c, "Commit") /\ Fault
    /\ \/ UNCHANGED row /\ doubtful' = doubtful \cup {call[c].change.field}
       \/ /\ row' = [row EXCEPT ![call[c].change.field] = call[c].change.to]
          /\ doubtful' = doubtful \ {call[c].change.field}
    /\ lock' = None
    /\ End(c)
    /\ UNCHANGED <<schedule, runs, created, mishaps, wanted, deleted>>
------------------------------------------------------------------------------
(* PauseJob patches the schedule in Temporal, without the row.             *)
Patch(c) ==
    /\ At(c, "Patch")
    /\ IF schedule = None
         THEN UNCHANGED schedule
         ELSE \E p \in BOOLEAN : schedule' = [schedule EXCEPT !.paused = p]
    /\ End(c)
    /\ UNCHANGED <<row, lock, runs, created, historyVars>>

(* CreateJobRun, or CreateJob at its end, triggers the schedule, paused or *)
(* not.                                                                    *)
Trigger(c) ==
    /\ At(c, "Trigger") \/ At(c, "TriggerFirst")
    /\ IF schedule = None THEN UNCHANGED runs ELSE StartRun
    /\ End(c)
    /\ UNCHANGED <<row, lock, schedule, created, historyVars>>

(* A request that has not changed anything is refused.  Where Temporal's   *)
(* answer is lost the step was taken as if it had been heard.              *)
RequestFails(c) ==
    /\ \E s \in {"GetJob", "ListRuns", "Patch", "Trigger", "TriggerFirst"} :
          At(c, s)
    /\ Fault
    /\ End(c)
    /\ UNCHANGED <<storeVars, mishaps, doubtful, wanted, deleted>>

(* DeleteJobRun removes one run.                                           *)
DeleteJobRun ==
    /\ \E r \in runs.kept : RemoveRuns({r})
    /\ UNCHANGED <<row, lock, schedule, created, call, historyVars>>

(* The schedule fires.                                                     *)
Fire ==
    /\ schedule # None /\ ~schedule.paused
    /\ StartRun
    /\ UNCHANGED <<row, lock, schedule, created, call, historyVars>>

(* The backend of a call is gone, and with it the transaction.             *)
Crash(c) ==
    /\ call[c].op # "idle" /\ Fault
    /\ lock' = IF lock = c THEN None ELSE lock
    /\ mishaps' = mishaps \cup
          CASE At(c, "CreateSchedule") \/ At(c, "RemoveCreated") -> {"CreateBroken"}
            [] At(c, "RemoveRow") -> {"DeleteBroken"}
            [] OTHER -> {}
    /\ doubtful' = doubtful \cup
          IF At(c, "Commit") THEN {call[c].change.field} ELSE {}
    /\ End(c)
    /\ UNCHANGED <<row, schedule, runs, created, wanted, deleted>>
------------------------------------------------------------------------------
Begins(c) == \/ BeginCreate(c) \/ BeginDelete(c) \/ BeginUpdate(c)
             \/ BeginPause(c) \/ BeginRun(c)

(* The next step of a call that nothing disturbs.                          *)
Step(c) == \/ InsertRow(c) \/ CreateSchedule(c) \/ RemoveCreated(c)
           \/ GetJob(c) \/ ListRuns(c) \/ DeleteRuns(c) \/ DeleteSchedule(c)
           \/ RemoveRow(c) \/ WriteRow(c) \/ Describe(c) \/ WriteBack(c)
           \/ Commit(c) \/ Patch(c) \/ Trigger(c)

Fails(c) == \/ InsertRowFails(c) \/ CreateScheduleFails(c)
            \/ RemoveCreatedFails(c) \/ DeleteRunsFails(c)
            \/ DeleteScheduleFails(c) \/ RemoveRowFails(c) \/ UpdateFails(c)
            \/ WriteBackLost(c) \/ CommitFails(c) \/ RequestFails(c) \/ Crash(c)

Next == \/ \E c \in Calls : Begins(c) \/ Step(c) \/ Fails(c)
        \/ DeleteJobRun \/ Fire

(* A user who wants the job deleted asks again as long as it is there.     *)
DeleteAgain == wanted /\ row # None /\ \E c \in Calls : BeginDelete(c)

(* A call goes on, and the database serves waiting statements in turn.     *)
Fairness == /\ \A c \in Calls : SF_vars(Step(c))
            /\ SF_vars(DeleteAgain)

Spec == Init /\ [][Next]_vars /\ Fairness
------------------------------------------------------------------------------
(* The variables keep their types.                                         *)
TypeOK ==
    /\ row \in Row \cup {None}
    /\ lock \in Calls \cup {None}
    /\ schedule \in Schedule \cup {None}
    /\ runs \in [started : SUBSET Runs, kept : SUBSET Runs]
    /\ created \in BOOLEAN
    /\ call \in [Calls -> CallState]
    /\ faults \in 0..MaxFaults
    /\ mishaps \subseteq Mishaps /\ doubtful \subseteq Fields
    /\ wanted \in BOOLEAN /\ deleted \in BOOLEAN

(* Outside of transactions the row and the schedule of a job say the same, *)
(* but for a field whose last update failed after it had changed the       *)
(* schedule: the lock of the row keeps the updates of different fields,    *)
(* each of which writes the whole schedule back, from undoing each other   *)
(* (UpdateJobSchedule, SetJobWorkflowOptions).                             *)
RowAndScheduleAgree ==
    lock = None /\ row # None /\ schedule # None =>
       \A f \in Fields \ doubtful : row[f] = schedule.job[f]

(* A schedule without a row, which no call can remove any more, is left    *)
(* only by a CreateJob: one whose request to Temporal was carried out      *)
(* though it was answered with an error, or one that a DeleteJob overtook. *)
OrphansHaveCause ==
    row = None /\ schedule # None =>
       mishaps \cap {"CreateLost", "CreateOvertaken"} # {}

(* A row without a schedule belongs to a call in flight, or is left by a   *)
(* CreateJob that could not clean up, or a DeleteJob that did not get to   *)
(* the row.                                                                *)
HalfJobsHaveCause ==
    row # None /\ schedule = None =>
       \/ \E c \in Calls : call[c].op \in {"create", "delete"}
       \/ mishaps \cap {"CreateBroken", "DeleteBroken"} # {}

(* Once DeleteJob has been answered with success no run of the job is      *)
(* started, neither by the schedule nor by a call that was in flight, but  *)
(* for the orphans above.                                                  *)
NoRunAfterDelete ==
    [][deleted /\ runs'.started # runs.started =>
          mishaps \cap {"CreateLost", "CreateOvertaken"} # {}]_vars

(* A user who keeps asking gets the job deleted, whatever half of it is    *)
(* there and whatever else is going on.                                    *)
DeleteCompletes == wanted ~> row = None
==============================================================================
