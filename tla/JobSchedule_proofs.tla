------------------------- MODULE JobSchedule_proofs --------------------------
(***************************************************************************)
(* Proofs about JobSchedule for any number of calls, values, runs and      *)
(* faults.  The inductive invariant adds to the types what each step of a  *)
(* call may rely on: which operation it is part of, who holds the lock,    *)
(* that the schedule is made once, and what the schedule an update holds   *)
(* has to do with the one that is there.                                   *)
(***************************************************************************)
EXTENDS JobSchedule, TLAPS

(* A step belongs to its operation, which has what the step needs.         *)
Sequenced ==
    \A c \in Calls :
       /\ call[c].step \in {"InsertRow", "CreateSchedule", "TriggerFirst",
                            "RemoveCreated"} => call[c].op = "create"
       /\ call[c].step = "GetJob" =>
             call[c].op \in {"delete", "update", "pause", "run"}
       /\ call[c].step \in {"ListRuns", "DeleteRuns", "DeleteSchedule",
                            "RemoveRow"} => call[c].op = "delete"
       /\ call[c].step \in {"WriteRow", "Describe", "WriteBack", "Commit"} =>
             call[c].op = "update"
       /\ call[c].op = "update" => call[c].change \in Changes
       /\ call[c].op = "create" => call[c].hand \in Schedule
       /\ call[c].step \in {"WriteBack", "Commit"} => call[c].hand \in Schedule

(* The lock is held exactly between the statement of an update and its     *)
(* end.                                                                    *)
Locked ==
    \A c \in Calls :
       call[c].step \in {"Describe", "WriteBack", "Commit"} <=> lock = c

(* A CreateJob whose schedule is still to be made.                         *)
Making(c) == call[c].step \in {"InsertRow", "CreateSchedule"}

(* A CreateJob has left, or will leave, a schedule without a row.          *)
Lost == mishaps \cap {"CreateLost", "CreateOvertaken"} # {}

(* A job is created once: before, there is nothing; while its schedule is  *)
(* to be made there is none, so no update gets past Describe, and the row  *)
(* is the one inserted; and while the row is to be inserted nobody else    *)
(* knows the id.                                                           *)
OneCreation ==
    /\ \A c \in Calls : call[c].op # "idle" => created
    /\ \A c, d \in Calls : call[c].op = "create" /\ call[d].op = "create" => c = d
    /\ ~created => row = None /\ schedule = None /\ ~deleted
    /\ \A c \in Calls : Making(c) =>
          /\ schedule = None
          /\ row \in {None, call[c].hand.job}
          /\ \A d \in Calls : call[d].step \notin {"WriteBack", "Commit"}
    /\ \A c \in Calls : call[c].step = "InsertRow" =>
          /\ row = None /\ ~deleted
          /\ \A d \in Calls \ {c} : call[d].op = "idle"

(* A locked row is there, and one that was deleted stays deleted.          *)
RowKept ==
    /\ lock # None => row # None
    /\ deleted => row = None

(* Row and schedule agree, but for doubtful fields and the field of an     *)
(* update about to commit; an update about to write back holds the         *)
(* schedule as it is, and one about to commit has changed it.              *)
Agreement ==
    /\ row # None /\ schedule # None =>
          \A f \in Fields \ doubtful :
             \/ row[f] = schedule.job[f]
             \/ \E c \in Calls : call[c].step = "Commit" /\ call[c].change.field = f
    /\ schedule # None => \A c \in Calls :
          /\ call[c].step = "WriteBack" => call[c].hand.job = schedule.job
          /\ call[c].step = "Commit" =>
                schedule.job[call[c].change.field] = call[c].change.to

(* Short of a CreateJob gone wrong, there is a schedule only beside a row, *)
(* and once a call is about to remove the row there is none, and will be   *)
(* none.                                                                   *)
Orphans ==
    ~Lost =>
       /\ row = None => schedule = None
       /\ \A c \in Calls : call[c].step = "CreateSchedule" => row # None
       /\ \A c \in Calls : call[c].step \in {"RemoveCreated", "RemoveRow"} =>
             schedule = None /\ \A d \in Calls : ~Making(d)

(* A row without a schedule has a call that will make the schedule or      *)
(* remove the row, or a mishap.                                            *)
Halves ==
    row # None /\ schedule = None =>
       \/ \E c \in Calls :
             call[c].step \in {"CreateSchedule", "RemoveCreated", "RemoveRow"}
       \/ mishaps \cap {"CreateBroken", "DeleteBroken"} # {}

(* The inductive invariant.                                                *)
IInv == /\ TypeOK /\ Sequenced /\ Locked /\ OneCreation /\ RowKept
        /\ Agreement /\ Orphans /\ Halves
------------------------------------------------------------------------------
(* The next step of a call keeps the type of the calls.                    *)
LEMMA GoToTyped ==
  ASSUME call \in [Calls -> CallState], NEW c \in Calls, NEW s \in Steps, GoTo(c, s)
  PROVE  call' \in [Calls -> CallState]
BY DEF GoTo, CallState

(* So does the end of a call.                                              *)
LEMMA EndTyped ==
  ASSUME call \in [Calls -> CallState], NEW c \in Calls, End(c)
  PROVE  call' \in [Calls -> CallState]
<1>1. Idle \in CallState
  BY DEF Idle, CallState, Ops, Steps
<1> QED
  BY <1>1 DEF End

(* A fault keeps the bound on faults.                                      *)
LEMMA FaultTyped ==
  ASSUME faults \in 0..MaxFaults, Fault
  PROVE  faults' \in 0..MaxFaults
BY FaultsAssumption DEF Fault

(* What an update writes back is a schedule.                               *)
LEMMA ChangedTyped ==
  ASSUME NEW c \in Calls, call[c].hand \in Schedule, call[c].change \in Changes
  PROVE  Changed(c) \in Schedule /\ Changed(c) # None
<1>1. Changed(c) \in Schedule
  BY DEF Changed, Schedule, Row, Changes
<1> QED
  BY <1>1, NoneAssumption

(* What an update commits is a row.                                        *)
LEMMA CommitTyped ==
  ASSUME NEW c \in Calls, row \in Row, call[c].change \in Changes
  PROVE  [row EXCEPT ![call[c].change.field] = call[c].change.to] \in Row \ {None}
<1>1. [row EXCEPT ![call[c].change.field] = call[c].change.to] \in Row
  BY DEF Row, Changes
<1> QED
  BY <1>1, NoneAssumption

(* A patch keeps all of a schedule but whether it is paused.               *)
LEMMA PatchTyped ==
  ASSUME schedule \in Schedule, NEW p \in BOOLEAN
  PROVE  /\ [schedule EXCEPT !.paused = p] \in Schedule \ {None}
         /\ [schedule EXCEPT !.paused = p].job = schedule.job
<1>1. [schedule EXCEPT !.paused = p] \in Schedule
  BY DEF Schedule
<1> QED
  BY <1>1, NoneAssumption DEF Schedule
------------------------------------------------------------------------------
(* Every step of a call keeps the types.                                   *)
LEMMA TypeOKStep ==
  ASSUME TypeOK, Sequenced, Locked, RowKept,
         NEW c \in Calls, Begins(c) \/ Step(c) \/ Fails(c)
  PROVE  TypeOK'
<1>1. CASE BeginCreate(c)
  <2>1. PICK s \in Requested :
           call' = [call EXCEPT ![c] = [Idle EXCEPT !.op = "create",
                                                    !.step = "InsertRow",
                                                    !.hand = s]]
    BY <1>1 DEF BeginCreate
  <2>2. [Idle EXCEPT !.op = "create", !.step = "InsertRow", !.hand = s]
           \in CallState
    BY RequestedAssumption DEF Idle, CallState, Ops, Steps
  <2> QED
    BY <1>1, <2>1, <2>2 DEF BeginCreate, TypeOK, historyVars
<1>2. CASE BeginDelete(c)
  <2>1. [Idle EXCEPT !.op = "delete", !.step = "GetJob"] \in CallState
    BY DEF Idle, CallState, Ops, Steps
  <2> QED
    BY <1>2, <2>1 DEF BeginDelete, Begin, TypeOK, storeVars
<1>3. CASE BeginUpdate(c)
  <2>1. PICK ch \in Changes :
           call' = [call EXCEPT ![c] = [Idle EXCEPT !.op = "update",
                                                    !.step = "GetJob",
                                                    !.change = ch]]
    BY <1>3 DEF BeginUpdate
  <2>2. [Idle EXCEPT !.op = "update", !.step = "GetJob", !.change = ch]
           \in CallState
    BY DEF Idle, CallState, Ops, Steps
  <2> QED
    BY <1>3, <2>1, <2>2 DEF BeginUpdate, TypeOK, storeVars, historyVars
<1>4. CASE BeginPause(c)
  <2>1. [Idle EXCEPT !.op = "pause", !.step = "GetJob"] \in CallState
    BY DEF Idle, CallState, Ops, Steps
  <2> QED
    BY <1>4, <2>1 DEF BeginPause, Begin, TypeOK, storeVars
<1>5. CASE BeginRun(c)
  <2>1. [Idle EXCEPT !.op = "run", !.step = "GetJob"] \in CallState
    BY DEF Idle, CallState, Ops, Steps
  <2> QED
    BY <1>5, <2>1 DEF BeginRun, Begin, TypeOK, storeVars
<1>6. CASE InsertRow(c)
  BY <1>6, GoToTyped, EndTyped, FaultTyped DEF Schedule, historyVars, Steps,
     Mishaps, At, InsertRow, TypeOK, Sequenced
<1>7. CASE CreateSchedule(c)
  BY <1>7, GoToTyped, EndTyped, FaultTyped DEF historyVars, Ops, Steps,
     Mishaps, At, CreateSchedule, TypeOK, Sequenced
<1>8. CASE RemoveCreated(c)
  BY <1>8, GoToTyped, EndTyped, FaultTyped DEF historyVars, Ops, Steps,
     Mishaps, At, RemoveCreated, TypeOK
<1>9. CASE GetJob(c)
  BY <1>9, GoToTyped, EndTyped, FaultTyped DEF storeVars, Ops, Steps, Mishaps,
     At, FirstStep, GetJob, TypeOK, Sequenced
<1>10. CASE ListRuns(c)
  <2>1. call' = [call EXCEPT ![c] = [call[c] EXCEPT !.step = "DeleteRuns",
                                                    !.listed = runs.kept]]
    BY <1>10 DEF ListRuns, TypeOK, CallState
  <2>2. [call[c] EXCEPT !.step = "DeleteRuns", !.listed = runs.kept] \in CallState
    BY DEF TypeOK, CallState, Steps
  <2> QED
    BY <1>10, <2>1, <2>2 DEF ListRuns, TypeOK, storeVars, historyVars
<1>11. CASE DeleteRuns(c)
  BY <1>11, GoToTyped, EndTyped, FaultTyped DEF historyVars, Ops, Steps,
     Mishaps, At, RemoveRuns, DeleteRuns, TypeOK
<1>12. CASE DeleteSchedule(c)
  BY <1>12, GoToTyped, EndTyped, FaultTyped DEF Ops, Steps, Mishaps, At,
     Creating, Overtakes, DeleteSchedule, TypeOK
<1>13. CASE RemoveRow(c)
  BY <1>13, GoToTyped, EndTyped, FaultTyped DEF Ops, Steps, Mishaps, At,
     RemoveRow, TypeOK
<1>14. CASE WriteRow(c)
  BY <1>14, GoToTyped, EndTyped, FaultTyped DEF historyVars, Ops, Steps,
     Mishaps, At, WriteRow, TypeOK
<1>15. CASE Describe(c)
  <2>1. CASE schedule = None
    BY <1>15, <2>1, EndTyped DEF Describe, TypeOK, historyVars
  <2>2. CASE schedule # None
    <3>1. call' = [call EXCEPT ![c] = [call[c] EXCEPT !.step = "WriteBack",
                                                      !.hand = schedule]]
      BY <1>15, <2>2 DEF Describe, TypeOK, CallState
    <3>2. [call[c] EXCEPT !.step = "WriteBack", !.hand = schedule] \in CallState
      BY DEF TypeOK, CallState, Steps
    <3> QED
      BY <1>15, <2>2, <3>1, <3>2 DEF Describe, TypeOK, historyVars
  <2> QED
    BY <2>1, <2>2
<1>16. CASE WriteBack(c)
  <2>1. Changed(c) \in Schedule
    BY <1>16, ChangedTyped DEF WriteBack, At, Sequenced
  <2>2. call' \in [Calls -> CallState]
    BY <1>16, GoToTyped, EndTyped DEF WriteBack, TypeOK, Steps
  <2> QED
    BY <1>16, <2>1, <2>2 DEF WriteBack, TypeOK, historyVars
<1>17. CASE Commit(c)
  <2>1. row \in Row /\ call[c].change \in Changes
    BY <1>17, NoneAssumption DEF Commit, At, TypeOK, Sequenced, Locked, RowKept
  <2>2. row' \in Row
    BY <1>17, <2>1, CommitTyped DEF Commit
  <2>3. doubtful' \subseteq Fields
    BY <1>17, <2>1 DEF Commit, TypeOK, Changes
  <2> QED
    BY <1>17, <2>2, <2>3, EndTyped, FaultTyped DEF Commit, TypeOK
<1>18. CASE Patch(c)
  BY <1>18, GoToTyped, EndTyped, FaultTyped DEF Fields, Row, Schedule,
     Changes, historyVars, Steps, Mishaps, CallState, At, Patch, TypeOK,
     Sequenced
<1>19. CASE Trigger(c)
  BY <1>19, GoToTyped, EndTyped, FaultTyped DEF historyVars, Ops, Steps,
     Mishaps, At, StartRun, Trigger, TypeOK
<1>20. CASE InsertRowFails(c)
  BY <1>20, GoToTyped, EndTyped, FaultTyped DEF Schedule, Steps, Mishaps, At,
     InsertRowFails, TypeOK, Sequenced
<1>21. CASE CreateScheduleFails(c)
  BY <1>21, GoToTyped, EndTyped, FaultTyped DEF Ops, Steps, Mishaps, At,
     CreateScheduleFails, TypeOK, Sequenced
<1>22. CASE RemoveCreatedFails(c)
  BY <1>22, GoToTyped, EndTyped, FaultTyped DEF Ops, Steps, Mishaps, At,
     RemoveCreatedFails, TypeOK
<1>23. CASE DeleteRunsFails(c)
  BY <1>23, GoToTyped, EndTyped, FaultTyped DEF Ops, Steps, Mishaps, At,
     RemoveRuns, DeleteRunsFails, TypeOK
<1>24. CASE DeleteScheduleFails(c)
  BY <1>24, GoToTyped, EndTyped, FaultTyped DEF Ops, Steps, Mishaps, At,
     DeleteScheduleFails, TypeOK
<1>25. CASE RemoveRowFails(c)
  BY <1>25, GoToTyped, EndTyped, FaultTyped DEF Ops, Steps, Mishaps, At,
     RemoveRowFails, TypeOK
<1>26. CASE UpdateFails(c)
  BY <1>26, GoToTyped, EndTyped, FaultTyped DEF Ops, Steps, Mishaps, At,
     UpdateFails, TypeOK
<1>27. CASE WriteBackLost(c)
  BY <1>27, GoToTyped, EndTyped, FaultTyped DEF Fields, Row, Schedule,
     Changes, Steps, Mishaps, CallState, At, Changed, WriteBackLost, TypeOK,
     Sequenced
<1>28. CASE CommitFails(c)
  <2>1. row \in Row /\ call[c].change \in Changes
    BY <1>28, NoneAssumption DEF CommitFails, At, TypeOK, Sequenced, Locked, RowKept
  <2>2. row' \in Row
    BY <1>28, <2>1, CommitTyped DEF CommitFails
  <2>3. doubtful' \subseteq Fields
    BY <1>28, <2>1 DEF CommitFails, TypeOK, Changes
  <2> QED
    BY <1>28, <2>2, <2>3, EndTyped, FaultTyped DEF CommitFails, TypeOK
<1>29. CASE RequestFails(c)
  BY <1>29, GoToTyped, EndTyped, FaultTyped DEF storeVars, Ops, Steps,
     Mishaps, At, RequestFails, TypeOK
<1>30. CASE Crash(c)
  <2>1. doubtful' \subseteq Fields
    BY <1>30 DEF Crash, TypeOK, Sequenced, At, Changes
  <2>2. mishaps' \subseteq Mishaps
    BY <1>30 DEF Crash, TypeOK, Mishaps, At
  <2> QED
    BY <1>30, <2>1, <2>2, EndTyped, FaultTyped DEF Crash, TypeOK
<1> QED
  BY <1>1, <1>2, <1>3, <1>4, <1>5, <1>6, <1>7, <1>8, <1>9, <1>10, <1>11,
     <1>12, <1>13, <1>14, <1>15, <1>16, <1>17, <1>18, <1>19, <1>20, <1>21,
     <1>22, <1>23, <1>24, <1>25, <1>26, <1>27, <1>28, <1>29, <1>30 DEF Begins,
     Step, Fails

(* Every step of a call leads to one of the same operation.                *)
LEMMA SequencedStep ==
  ASSUME TypeOK, Sequenced,
         NEW c \in Calls, Begins(c) \/ Step(c) \/ Fails(c)
  PROVE  Sequenced'
<1>1. CASE BeginCreate(c)
  BY <1>1, NoneAssumption, RequestedAssumption DEF historyVars, Ops, Steps,
     CallState, Idle, BeginCreate, TypeOK, Sequenced
<1>2. CASE BeginDelete(c)
  BY <1>2, NoneAssumption, RequestedAssumption DEF storeVars, Ops, Steps,
     CallState, Idle, At, Known, Begin, BeginDelete, TypeOK, Sequenced
<1>3. CASE BeginUpdate(c)
  BY <1>3, NoneAssumption, RequestedAssumption DEF storeVars, historyVars,
     Ops, Steps, CallState, Idle, At, Known, BeginUpdate, TypeOK, Sequenced
<1>4. CASE BeginPause(c)
  BY <1>4, NoneAssumption, RequestedAssumption DEF storeVars, Ops, Steps,
     CallState, Idle, At, Known, Begin, BeginPause, TypeOK, Sequenced
<1>5. CASE BeginRun(c)
  BY <1>5, NoneAssumption, RequestedAssumption DEF storeVars, Ops, Steps,
     CallState, Idle, At, Known, Begin, BeginRun, TypeOK, Sequenced
<1>6. CASE InsertRow(c)
  BY <1>6, NoneAssumption, RequestedAssumption DEF historyVars, Ops, Steps,
     CallState, At, GoTo, InsertRow, TypeOK, Sequenced
<1>7. CASE CreateSchedule(c)
  BY <1>7, NoneAssumption, RequestedAssumption DEF historyVars, Ops, Steps,
     CallState, Idle, At, GoTo, End, CreateSchedule, TypeOK, Sequenced
<1>8. CASE RemoveCreated(c)
  BY <1>8, NoneAssumption, RequestedAssumption DEF historyVars, Ops, Steps,
     CallState, Idle, At, End, RemoveCreated, TypeOK, Sequenced
<1>9. CASE GetJob(c)
  BY <1>9, NoneAssumption, RequestedAssumption DEF storeVars, Ops, Steps,
     CallState, Idle, At, GoTo, End, FirstStep, GetJob, TypeOK, Sequenced
<1>10. CASE ListRuns(c)
  BY <1>10, NoneAssumption, RequestedAssumption DEF storeVars, historyVars,
     Ops, Steps, CallState, At, ListRuns, TypeOK, Sequenced
<1>11. CASE DeleteRuns(c)
  BY <1>11, NoneAssumption, RequestedAssumption DEF historyVars, Ops, Steps,
     CallState, Idle, At, GoTo, End, RemoveRuns, DeleteRuns, TypeOK, Sequenced
<1>12. CASE DeleteSchedule(c)
  BY <1>12, NoneAssumption, RequestedAssumption DEF Ops, Steps, CallState, At,
     GoTo, Creating, Overtakes, DeleteSchedule, TypeOK, Sequenced
<1>13. CASE RemoveRow(c)
  BY <1>13, NoneAssumption, RequestedAssumption DEF Ops, Steps, CallState,
     Idle, At, End, RemoveRow, TypeOK, Sequenced
<1>14. CASE WriteRow(c)
  BY <1>14, NoneAssumption, RequestedAssumption DEF historyVars, Ops, Steps,
     CallState, Idle, At, GoTo, End, WriteRow, TypeOK, Sequenced
<1>15. CASE Describe(c)
  BY <1>15, NoneAssumption, RequestedAssumption DEF historyVars, Ops, Steps,
     CallState, Idle, At, End, Describe, TypeOK, Sequenced
<1>16. CASE WriteBack(c)
  BY <1>16, NoneAssumption, RequestedAssumption DEF historyVars, Ops, Steps,
     CallState, Idle, At, GoTo, End, Changed, WriteBack, TypeOK, Sequenced
<1>17. CASE Commit(c)
  BY <1>17, NoneAssumption, RequestedAssumption DEF Ops, Steps, CallState,
     Idle, At, End, Commit, TypeOK, Sequenced
<1>18. CASE Patch(c)
  BY <1>18, NoneAssumption, RequestedAssumption DEF historyVars, Ops, Steps,
     CallState, Idle, At, End, Patch, TypeOK, Sequenced
<1>19. CASE Trigger(c)
  BY <1>19, NoneAssumption, RequestedAssumption DEF historyVars, Ops, Steps,
     CallState, Idle, At, End, StartRun, Trigger, TypeOK, Sequenced
<1>20. CASE InsertRowFails(c)
  BY <1>20, NoneAssumption, RequestedAssumption DEF Ops, Steps, CallState,
     Idle, At, End, Fault, InsertRowFails, TypeOK, Sequenced
<1>21. CASE CreateScheduleFails(c)
  BY <1>21, NoneAssumption, RequestedAssumption DEF Ops, Steps, CallState, At,
     GoTo, Fault, CreateScheduleFails, TypeOK, Sequenced
<1>22. CASE RemoveCreatedFails(c)
  BY <1>22, NoneAssumption, RequestedAssumption DEF Ops, Steps, CallState,
     Idle, At, End, Fault, RemoveCreatedFails, TypeOK, Sequenced
<1>23. CASE DeleteRunsFails(c)
  BY <1>23, NoneAssumption, RequestedAssumption DEF Ops, Steps, CallState,
     Idle, At, End, Fault, RemoveRuns, DeleteRunsFails, TypeOK, Sequenced
<1>24. CASE DeleteScheduleFails(c)
  BY <1>24, NoneAssumption, RequestedAssumption DEF Ops, Steps, CallState,
     Idle, At, End, Fault, DeleteScheduleFails, TypeOK, Sequenced
<1>25. CASE RemoveRowFails(c)
  BY <1>25, NoneAssumption, RequestedAssumption DEF Ops, Steps, CallState,
     Idle, At, End, Fault, RemoveRowFails, TypeOK, Sequenced
<1>26. CASE UpdateFails(c)
  BY <1>26, NoneAssumption, RequestedAssumption DEF Ops, Steps, CallState,
     Idle, At, End, Fault, UpdateFails, TypeOK, Sequenced
<1>27. CASE WriteBackLost(c)
  BY <1>27, NoneAssumption, RequestedAssumption DEF Ops, Steps, CallState,
     Idle, At, End, Fault, Changed, WriteBackLost, TypeOK, Sequenced
<1>28. CASE CommitFails(c)
  BY <1>28, NoneAssumption, RequestedAssumption DEF Ops, Steps, CallState,
     Idle, At, End, Fault, CommitFails, TypeOK, Sequenced
<1>29. CASE RequestFails(c)
  BY <1>29, NoneAssumption, RequestedAssumption DEF storeVars, Ops, Steps,
     CallState, Idle, At, End, Fault, RequestFails, TypeOK, Sequenced
<1>30. CASE Crash(c)
  BY <1>30, NoneAssumption, RequestedAssumption DEF Ops, Steps, CallState,
     Idle, At, End, Fault, Crash, TypeOK, Sequenced
<1> QED
  BY <1>1, <1>2, <1>3, <1>4, <1>5, <1>6, <1>7, <1>8, <1>9, <1>10, <1>11,
     <1>12, <1>13, <1>14, <1>15, <1>16, <1>17, <1>18, <1>19, <1>20, <1>21,
     <1>22, <1>23, <1>24, <1>25, <1>26, <1>27, <1>28, <1>29, <1>30 DEF Begins,
     Step, Fails

(* Every step of a call keeps the lock where the transaction is.           *)
LEMMA LockedStep ==
  ASSUME TypeOK, Sequenced, Locked,
         NEW c \in Calls, Begins(c) \/ Step(c) \/ Fails(c)
  PROVE  Locked'
<1>1. CASE BeginCreate(c)
  BY <1>1, NoneAssumption DEF historyVars, CallState, Idle, BeginCreate,
     TypeOK, Sequenced, Locked
<1>2. CASE BeginDelete(c)
  BY <1>2, NoneAssumption DEF storeVars, CallState, Idle, At, Known, Begin,
     BeginDelete, TypeOK, Sequenced, Locked
<1>3. CASE BeginUpdate(c)
  BY <1>3, NoneAssumption DEF storeVars, historyVars, CallState, Idle, At,
     Known, BeginUpdate, TypeOK, Sequenced, Locked
<1>4. CASE BeginPause(c)
  BY <1>4, NoneAssumption DEF storeVars, CallState, Idle, At, Known, Begin,
     BeginPause, TypeOK, Sequenced, Locked
<1>5. CASE BeginRun(c)
  BY <1>5, NoneAssumption DEF storeVars, CallState, Idle, At, Known, Begin,
     BeginRun, TypeOK, Sequenced, Locked
<1>6. CASE InsertRow(c)
  BY <1>6, NoneAssumption DEF historyVars, CallState, At, GoTo, InsertRow,
     TypeOK, Sequenced, Locked
<1>7. CASE CreateSchedule(c)
  BY <1>7, NoneAssumption DEF historyVars, CallState, Idle, At, GoTo, End,
     CreateSchedule, TypeOK, Sequenced, Locked
<1>8. CASE RemoveCreated(c)
  BY <1>8, NoneAssumption DEF historyVars, CallState, Idle, At, End,
     RemoveCreated, TypeOK, Sequenced, Locked
<1>9. CASE GetJob(c)
  BY <1>9, NoneAssumption DEF storeVars, CallState, Idle, At, GoTo, End,
     FirstStep, GetJob, TypeOK, Sequenced, Locked
<1>10. CASE ListRuns(c)
  BY <1>10, NoneAssumption DEF storeVars, historyVars, CallState, At,
     ListRuns, TypeOK, Sequenced, Locked
<1>11. CASE DeleteRuns(c)
  BY <1>11, NoneAssumption DEF historyVars, CallState, Idle, At, GoTo, End,
     RemoveRuns, DeleteRuns, TypeOK, Sequenced, Locked
<1>12. CASE DeleteSchedule(c)
  BY <1>12, NoneAssumption DEF CallState, At, GoTo, Creating, Overtakes,
     DeleteSchedule, TypeOK, Sequenced, Locked
<1>13. CASE RemoveRow(c)
  BY <1>13, NoneAssumption DEF CallState, Idle, At, End, RemoveRow, TypeOK,
     Sequenced, Locked
<1>14. CASE WriteRow(c)
  BY <1>14, NoneAssumption DEF historyVars, CallState, Idle, At, GoTo, End,
     WriteRow, TypeOK, Sequenced, Locked
<1>15. CASE Describe(c)
  BY <1>15, NoneAssumption DEF historyVars, CallState, Idle, At, End,
     Describe, TypeOK, Sequenced, Locked
<1>16. CASE WriteBack(c)
  BY <1>16, NoneAssumption DEF historyVars, CallState, Idle, At, GoTo, End,
     Changed, WriteBack, TypeOK, Sequenced, Locked
<1>17. CASE Commit(c)
  BY <1>17, NoneAssumption DEF CallState, Idle, At, End, Commit, TypeOK,
     Sequenced, Locked
<1>18. CASE Patch(c)
  BY <1>18, NoneAssumption DEF historyVars, CallState, Idle, At, End, Patch,
     TypeOK, Sequenced, Locked
<1>19. CASE Trigger(c)
  BY <1>19, NoneAssumption DEF historyVars, CallState, Idle, At, End,
     StartRun, Trigger, TypeOK, Sequenced, Locked
<1>20. CASE InsertRowFails(c)
  BY <1>20, NoneAssumption DEF CallState, Idle, At, End, Fault,
     InsertRowFails, TypeOK, Sequenced, Locked
<1>21. CASE CreateScheduleFails(c)
  BY <1>21, NoneAssumption DEF CallState, At, GoTo, Fault,
     CreateScheduleFails, TypeOK, Sequenced, Locked
<1>22. CASE RemoveCreatedFails(c)
  BY <1>22, NoneAssumption DEF CallState, Idle, At, End, Fault,
     RemoveCreatedFails, TypeOK, Sequenced, Locked
<1>23. CASE DeleteRunsFails(c)
  BY <1>23, NoneAssumption DEF CallState, Idle, At, End, Fault, RemoveRuns,
     DeleteRunsFails, TypeOK, Sequenced, Locked
<1>24. CASE DeleteScheduleFails(c)
  BY <1>24, NoneAssumption DEF CallState, Idle, At, End, Fault,
     DeleteScheduleFails, TypeOK, Sequenced, Locked
<1>25. CASE RemoveRowFails(c)
  BY <1>25, NoneAssumption DEF CallState, Idle, At, End, Fault,
     RemoveRowFails, TypeOK, Sequenced, Locked
<1>26. CASE UpdateFails(c)
  BY <1>26, NoneAssumption DEF CallState, Idle, At, End, Fault, UpdateFails,
     TypeOK, Sequenced, Locked
<1>27. CASE WriteBackLost(c)
  BY <1>27, NoneAssumption DEF CallState, Idle, At, End, Fault, Changed,
     WriteBackLost, TypeOK, Sequenced, Locked
<1>28. CASE CommitFails(c)
  BY <1>28, NoneAssumption DEF CallState, Idle, At, End, Fault, CommitFails,
     TypeOK, Sequenced, Locked
<1>29. CASE RequestFails(c)
  BY <1>29, NoneAssumption DEF storeVars, CallState, Idle, At, End, Fault,
     RequestFails, TypeOK, Sequenced, Locked
<1>30. CASE Crash(c)
  BY <1>30, NoneAssumption DEF CallState, Idle, At, End, Fault, Crash, TypeOK,
     Sequenced, Locked
<1> QED
  BY <1>1, <1>2, <1>3, <1>4, <1>5, <1>6, <1>7, <1>8, <1>9, <1>10, <1>11,
     <1>12, <1>13, <1>14, <1>15, <1>16, <1>17, <1>18, <1>19, <1>20, <1>21,
     <1>22, <1>23, <1>24, <1>25, <1>26, <1>27, <1>28, <1>29, <1>30 DEF Begins,
     Step, Fails

(* Every step of a call keeps the job created once.                        *)
LEMMA OneCreationStep ==
  ASSUME TypeOK, Sequenced, OneCreation,
         NEW c \in Calls, Begins(c) \/ Step(c) \/ Fails(c)
  PROVE  OneCreation'
<1>1. CASE BeginCreate(c)
  BY <1>1, NoneAssumption, RequestedAssumption DEF historyVars, CallState,
     Idle, BeginCreate, TypeOK, Sequenced, Making, OneCreation
<1>2. CASE BeginDelete(c)
  BY <1>2, NoneAssumption, RequestedAssumption DEF storeVars, CallState, Idle,
     At, Known, Begin, BeginDelete, TypeOK, Sequenced, Making, OneCreation
<1>3. CASE BeginUpdate(c)
  BY <1>3, NoneAssumption, RequestedAssumption DEF storeVars, historyVars,
     CallState, Idle, At, Known, BeginUpdate, TypeOK, Sequenced, Making,
     OneCreation
<1>4. CASE BeginPause(c)
  BY <1>4, NoneAssumption, RequestedAssumption DEF storeVars, CallState, Idle,
     At, Known, Begin, BeginPause, TypeOK, Sequenced, Making, OneCreation
<1>5. CASE BeginRun(c)
  BY <1>5, NoneAssumption, RequestedAssumption DEF storeVars, CallState, Idle,
     At, Known, Begin, BeginRun, TypeOK, Sequenced, Making, OneCreation
<1>6. CASE InsertRow(c)
  BY <1>6, NoneAssumption, RequestedAssumption DEF historyVars, CallState, At,
     GoTo, InsertRow, TypeOK, Sequenced, Making, OneCreation
<1>7. CASE CreateSchedule(c)
  BY <1>7, NoneAssumption, RequestedAssumption DEF historyVars, CallState,
     Idle, At, GoTo, End, CreateSchedule, TypeOK, Sequenced, Making,
     OneCreation
<1>8. CASE RemoveCreated(c)
  BY <1>8, NoneAssumption, RequestedAssumption DEF historyVars, CallState,
     Idle, At, End, RemoveCreated, TypeOK, Sequenced, Making, OneCreation
<1>9. CASE GetJob(c)
  BY <1>9, NoneAssumption, RequestedAssumption DEF storeVars, CallState, Idle,
     At, GoTo, End, FirstStep, GetJob, TypeOK, Sequenced, Making, OneCreation
<1>10. CASE ListRuns(c)
  BY <1>10, NoneAssumption, RequestedAssumption DEF storeVars, historyVars,
     CallState, At, ListRuns, TypeOK, Sequenced, Making, OneCreation
<1>11. CASE DeleteRuns(c)
  BY <1>11, NoneAssumption, RequestedAssumption DEF historyVars, CallState,
     Idle, At, GoTo, End, RemoveRuns, DeleteRuns, TypeOK, Sequenced, Making,
     OneCreation
<1>12. CASE DeleteSchedule(c)
  BY <1>12, NoneAssumption, RequestedAssumption DEF CallState, At, GoTo,
     Creating, Overtakes, DeleteSchedule, TypeOK, Sequenced, Making,
     OneCreation
<1>13. CASE RemoveRow(c)
  BY <1>13, NoneAssumption, RequestedAssumption DEF CallState, Idle, At, End,
     RemoveRow, TypeOK, Sequenced, Making, OneCreation
<1>14. CASE WriteRow(c)
  BY <1>14, NoneAssumption, RequestedAssumption DEF historyVars, CallState,
     Idle, At, GoTo, End, WriteRow, TypeOK, Sequenced, Making, OneCreation
<1>15. CASE Describe(c)
  BY <1>15, NoneAssumption, RequestedAssumption DEF historyVars, CallState,
     Idle, At, End, Describe, TypeOK, Sequenced, Making, OneCreation
<1>16. CASE WriteBack(c)
  BY <1>16, NoneAssumption, RequestedAssumption DEF historyVars, CallState,
     Idle, At, GoTo, End, Changed, WriteBack, TypeOK, Sequenced, Making,
     OneCreation
<1>17. CASE Commit(c)
  BY <1>17, NoneAssumption, RequestedAssumption DEF CallState, Idle, At, End,
     Commit, TypeOK, Sequenced, Making, OneCreation
<1>18. CASE Patch(c)
  BY <1>18, NoneAssumption, RequestedAssumption DEF historyVars, CallState,
     Idle, At, End, Patch, TypeOK, Sequenced, Making, OneCreation
<1>19. CASE Trigger(c)
  BY <1>19, NoneAssumption, RequestedAssumption DEF historyVars, CallState,
     Idle, At, End, StartRun, Trigger, TypeOK, Sequenced, Making, OneCreation
<1>20. CASE InsertRowFails(c)
  BY <1>20, NoneAssumption, RequestedAssumption DEF CallState, Idle, At, End,
     Fault, InsertRowFails, TypeOK, Sequenced, Making, OneCreation
<1>21. CASE CreateScheduleFails(c)
  BY <1>21, NoneAssumption, RequestedAssumption DEF CallState, At, GoTo,
     Fault, CreateScheduleFails, TypeOK, Sequenced, Making, OneCreation
<1>22. CASE RemoveCreatedFails(c)
  BY <1>22, NoneAssumption, RequestedAssumption DEF CallState, Idle, At, End,
     Fault, RemoveCreatedFails, TypeOK, Sequenced, Making, OneCreation
<1>23. CASE DeleteRunsFails(c)
  BY <1>23, NoneAssumption, RequestedAssumption DEF CallState, Idle, At, End,
     Fault, RemoveRuns, DeleteRunsFails, TypeOK, Sequenced, Making,
     OneCreation
<1>24. CASE DeleteScheduleFails(c)
  BY <1>24, NoneAssumption, RequestedAssumption DEF CallState, Idle, At, End,
     Fault, DeleteScheduleFails, TypeOK, Sequenced, Making, OneCreation
<1>25. CASE RemoveRowFails(c)
  BY <1>25, NoneAssumption, RequestedAssumption DEF CallState, Idle, At, End,
     Fault, RemoveRowFails, TypeOK, Sequenced, Making, OneCreation
<1>26. CASE UpdateFails(c)
  BY <1>26, NoneAssumption, RequestedAssumption DEF CallState, Idle, At, End,
     Fault, UpdateFails, TypeOK, Sequenced, Making, OneCreation
<1>27. CASE WriteBackLost(c)
  BY <1>27, NoneAssumption, RequestedAssumption DEF CallState, Idle, At, End,
     Fault, Changed, WriteBackLost, TypeOK, Sequenced, Making, OneCreation
<1>28. CASE CommitFails(c)
  BY <1>28, NoneAssumption, RequestedAssumption DEF CallState, Idle, At, End,
     Fault, CommitFails, TypeOK, Sequenced, Making, OneCreation
<1>29. CASE RequestFails(c)
  BY <1>29, NoneAssumption, RequestedAssumption DEF storeVars, CallState,
     Idle, At, End, Fault, RequestFails, TypeOK, Sequenced, Making,
     OneCreation
<1>30. CASE Crash(c)
  BY <1>30, NoneAssumption, RequestedAssumption DEF CallState, Idle, At, End,
     Fault, Crash, TypeOK, Sequenced, Making, OneCreation
<1> QED
  BY <1>1, <1>2, <1>3, <1>4, <1>5, <1>6, <1>7, <1>8, <1>9, <1>10, <1>11,
     <1>12, <1>13, <1>14, <1>15, <1>16, <1>17, <1>18, <1>19, <1>20, <1>21,
     <1>22, <1>23, <1>24, <1>25, <1>26, <1>27, <1>28, <1>29, <1>30 DEF Begins,
     Step, Fails

(* No step of a call removes a locked row, or brings a deleted one back.   *)
LEMMA RowKeptStep ==
  ASSUME TypeOK, Sequenced, Locked, OneCreation, RowKept,
         NEW c \in Calls, Begins(c) \/ Step(c) \/ Fails(c)
  PROVE  RowKept'
<1>1. CASE BeginCreate(c)
  BY <1>1, NoneAssumption DEF historyVars, CallState, Idle, BeginCreate,
     TypeOK, Sequenced, Locked, Making, OneCreation, RowKept
<1>2. CASE BeginDelete(c)
  BY <1>2, NoneAssumption DEF storeVars, CallState, Idle, At, Known, Begin,
     BeginDelete, TypeOK, Sequenced, Locked, Making, OneCreation, RowKept
<1>3. CASE BeginUpdate(c)
  BY <1>3, NoneAssumption DEF storeVars, historyVars, CallState, Idle, At,
     Known, BeginUpdate, TypeOK, Sequenced, Locked, Making, OneCreation,
     RowKept
<1>4. CASE BeginPause(c)
  BY <1>4, NoneAssumption DEF storeVars, CallState, Idle, At, Known, Begin,
     BeginPause, TypeOK, Sequenced, Locked, Making, OneCreation, RowKept
<1>5. CASE BeginRun(c)
  BY <1>5, NoneAssumption DEF storeVars, CallState, Idle, At, Known, Begin,
     BeginRun, TypeOK, Sequenced, Locked, Making, OneCreation, RowKept
<1>6. CASE InsertRow(c)
  BY <1>6, NoneAssumption DEF historyVars, CallState, At, GoTo, InsertRow,
     TypeOK, Sequenced, Locked, Making, OneCreation, RowKept
<1>7. CASE CreateSchedule(c)
  BY <1>7, NoneAssumption DEF historyVars, CallState, Idle, At, GoTo, End,
     CreateSchedule, TypeOK, Sequenced, Locked, Making, OneCreation, RowKept
<1>8. CASE RemoveCreated(c)
  BY <1>8, NoneAssumption DEF historyVars, CallState, Idle, At, End,
     RemoveCreated, TypeOK, Sequenced, Locked, Making, OneCreation, RowKept
<1>9. CASE GetJob(c)
  BY <1>9, NoneAssumption DEF storeVars, CallState, Idle, At, GoTo, End,
     FirstStep, GetJob, TypeOK, Sequenced, Locked, Making, OneCreation,
     RowKept
<1>10. CASE ListRuns(c)
  BY <1>10, NoneAssumption DEF storeVars, historyVars, CallState, At,
     ListRuns, TypeOK, Sequenced, Locked, Making, OneCreation, RowKept
<1>11. CASE DeleteRuns(c)
  BY <1>11, NoneAssumption DEF historyVars, CallState, Idle, At, GoTo, End,
     RemoveRuns, DeleteRuns, TypeOK, Sequenced, Locked, Making, OneCreation,
     RowKept
<1>12. CASE DeleteSchedule(c)
  BY <1>12, NoneAssumption DEF CallState, At, GoTo, Creating, Overtakes,
     DeleteSchedule, TypeOK, Sequenced, Locked, Making, OneCreation, RowKept
<1>13. CASE RemoveRow(c)
  BY <1>13, NoneAssumption DEF CallState, Idle, At, End, RemoveRow, TypeOK,
     Sequenced, Locked, Making, OneCreation, RowKept
<1>14. CASE WriteRow(c)
  BY <1>14, NoneAssumption DEF historyVars, CallState, Idle, At, GoTo, End,
     WriteRow, TypeOK, Sequenced, Locked, Making, OneCreation, RowKept
<1>15. CASE Describe(c)
  BY <1>15, NoneAssumption DEF historyVars, CallState, Idle, At, End,
     Describe, TypeOK, Sequenced, Locked, Making, OneCreation, RowKept
<1>16. CASE WriteBack(c)
  BY <1>16, NoneAssumption DEF historyVars, CallState, Idle, At, GoTo, End,
     Changed, WriteBack, TypeOK, Sequenced, Locked, Making, OneCreation,
     RowKept
<1>17. CASE Commit(c)
  BY <1>17, NoneAssumption DEF CallState, Idle, At, End, Commit, TypeOK,
     Sequenced, Locked, Making, OneCreation, RowKept
<1>18. CASE Patch(c)
  BY <1>18, NoneAssumption DEF historyVars, CallState, Idle, At, End, Patch,
     TypeOK, Sequenced, Locked, Making, OneCreation, RowKept
<1>19. CASE Trigger(c)
  BY <1>19, NoneAssumption DEF historyVars, CallState, Idle, At, End,
     StartRun, Trigger, TypeOK, Sequenced, Locked, Making, OneCreation,
     RowKept
<1>20. CASE InsertRowFails(c)
  BY <1>20, NoneAssumption DEF CallState, Idle, At, End, Fault,
     InsertRowFails, TypeOK, Sequenced, Locked, Making, OneCreation, RowKept
<1>21. CASE CreateScheduleFails(c)
  BY <1>21, NoneAssumption DEF CallState, At, GoTo, Fault,
     CreateScheduleFails, TypeOK, Sequenced, Locked, Making, OneCreation,
     RowKept
<1>22. CASE RemoveCreatedFails(c)
  BY <1>22, NoneAssumption DEF CallState, Idle, At, End, Fault,
     RemoveCreatedFails, TypeOK, Sequenced, Locked, Making, OneCreation,
     RowKept
<1>23. CASE DeleteRunsFails(c)
  BY <1>23, NoneAssumption DEF CallState, Idle, At, End, Fault, RemoveRuns,
     DeleteRunsFails, TypeOK, Sequenced, Locked, Making, OneCreation, RowKept
<1>24. CASE DeleteScheduleFails(c)
  BY <1>24, NoneAssumption DEF CallState, Idle, At, End, Fault,
     DeleteScheduleFails, TypeOK, Sequenced, Locked, Making, OneCreation,
     RowKept
<1>25. CASE RemoveRowFails(c)
  BY <1>25, NoneAssumption DEF CallState, Idle, At, End, Fault,
     RemoveRowFails, TypeOK, Sequenced, Locked, Making, OneCreation, RowKept
<1>26. CASE UpdateFails(c)
  BY <1>26, NoneAssumption DEF CallState, Idle, At, End, Fault, UpdateFails,
     TypeOK, Sequenced, Locked, Making, OneCreation, RowKept
<1>27. CASE WriteBackLost(c)
  BY <1>27, NoneAssumption DEF CallState, Idle, At, End, Fault, Changed,
     WriteBackLost, TypeOK, Sequenced, Locked, Making, OneCreation, RowKept
<1>28. CASE CommitFails(c)
  BY <1>28, NoneAssumption DEF CallState, Idle, At, End, Fault, CommitFails,
     TypeOK, Sequenced, Locked, Making, OneCreation, RowKept
<1>29. CASE RequestFails(c)
  BY <1>29, NoneAssumption DEF storeVars, CallState, Idle, At, End, Fault,
     RequestFails, TypeOK, Sequenced, Locked, Making, OneCreation, RowKept
<1>30. CASE Crash(c)
  BY <1>30, NoneAssumption DEF CallState, Idle, At, End, Fault, Crash, TypeOK,
     Sequenced, Locked, Making, OneCreation, RowKept
<1> QED
  BY <1>1, <1>2, <1>3, <1>4, <1>5, <1>6, <1>7, <1>8, <1>9, <1>10, <1>11,
     <1>12, <1>13, <1>14, <1>15, <1>16, <1>17, <1>18, <1>19, <1>20, <1>21,
     <1>22, <1>23, <1>24, <1>25, <1>26, <1>27, <1>28, <1>29, <1>30 DEF Begins,
     Step, Fails

(* Every step of a call keeps row and schedule in agreement: what an       *)
(* update holds is not stale, since the lock keeps other updates out and   *)
(* no call makes a schedule twice.                                         *)
LEMMA AgreementStep ==
  ASSUME TypeOK, Sequenced, Locked, OneCreation, RowKept, Agreement,
         NEW c \in Calls, Begins(c) \/ Step(c) \/ Fails(c)
  PROVE  Agreement'
<1>1. CASE BeginCreate(c)
  BY <1>1, NoneAssumption DEF Fields, Row, Schedule, Changes, historyVars,
     CallState, Idle, BeginCreate, TypeOK, Sequenced, Locked, Making,
     OneCreation, RowKept, Agreement
<1>2. CASE BeginDelete(c)
  BY <1>2, NoneAssumption DEF Fields, Row, Schedule, Changes, storeVars,
     CallState, Idle, At, Known, Begin, BeginDelete, TypeOK, Sequenced,
     Locked, Making, OneCreation, RowKept, Agreement
<1>3. CASE BeginUpdate(c)
  BY <1>3, NoneAssumption DEF Fields, Row, Schedule, Changes, storeVars,
     historyVars, CallState, Idle, At, Known, BeginUpdate, TypeOK, Sequenced,
     Locked, Making, OneCreation, RowKept, Agreement
<1>4. CASE BeginPause(c)
  BY <1>4, NoneAssumption DEF Fields, Row, Schedule, Changes, storeVars,
     CallState, Idle, At, Known, Begin, BeginPause, TypeOK, Sequenced, Locked,
     Making, OneCreation, RowKept, Agreement
<1>5. CASE BeginRun(c)
  BY <1>5, NoneAssumption DEF Fields, Row, Schedule, Changes, storeVars,
     CallState, Idle, At, Known, Begin, BeginRun, TypeOK, Sequenced, Locked,
     Making, OneCreation, RowKept, Agreement
<1>6. CASE InsertRow(c)
  BY <1>6, NoneAssumption DEF Fields, Row, Schedule, Changes, historyVars,
     CallState, At, GoTo, InsertRow, TypeOK, Sequenced, Locked, Making,
     OneCreation, RowKept, Agreement
<1>7. CASE CreateSchedule(c)
  BY <1>7, NoneAssumption DEF Fields, Row, Schedule, Changes, historyVars,
     CallState, Idle, At, GoTo, End, CreateSchedule, TypeOK, Sequenced,
     Locked, Making, OneCreation, RowKept, Agreement
<1>8. CASE RemoveCreated(c)
  BY <1>8, NoneAssumption DEF Fields, Row, Schedule, Changes, historyVars,
     CallState, Idle, At, End, RemoveCreated, TypeOK, Sequenced, Locked,
     Making, OneCreation, RowKept, Agreement
<1>9. CASE GetJob(c)
  BY <1>9, NoneAssumption DEF Fields, Row, Schedule, Changes, storeVars,
     CallState, Idle, At, GoTo, End, FirstStep, GetJob, TypeOK, Sequenced,
     Locked, Making, OneCreation, RowKept, Agreement
<1>10. CASE ListRuns(c)
  BY <1>10, NoneAssumption DEF Fields, Row, Schedule, Changes, storeVars,
     historyVars, CallState, At, ListRuns, TypeOK, Sequenced, Locked, Making,
     OneCreation, RowKept, Agreement
<1>11. CASE DeleteRuns(c)
  BY <1>11, NoneAssumption DEF Fields, Row, Schedule, Changes, historyVars,
     CallState, Idle, At, GoTo, End, RemoveRuns, DeleteRuns, TypeOK,
     Sequenced, Locked, Making, OneCreation, RowKept, Agreement
<1>12. CASE DeleteSchedule(c)
  BY <1>12, NoneAssumption DEF Fields, Row, Schedule, Changes, CallState, At,
     GoTo, Creating, Overtakes, DeleteSchedule, TypeOK, Sequenced, Locked,
     Making, OneCreation, RowKept, Agreement
<1>13. CASE RemoveRow(c)
  BY <1>13, NoneAssumption DEF Fields, Row, Schedule, Changes, CallState,
     Idle, At, End, RemoveRow, TypeOK, Sequenced, Locked, Making, OneCreation,
     RowKept, Agreement
<1>14. CASE WriteRow(c)
  BY <1>14, NoneAssumption DEF Fields, Row, Schedule, Changes, historyVars,
     CallState, Idle, At, GoTo, End, WriteRow, TypeOK, Sequenced, Locked,
     Making, OneCreation, RowKept, Agreement
<1>15. CASE Describe(c)
  BY <1>15, NoneAssumption DEF Fields, Row, Schedule, Changes, historyVars,
     CallState, Idle, At, End, Describe, TypeOK, Sequenced, Locked, Making,
     OneCreation, RowKept, Agreement
<1>16. CASE WriteBack(c)
  <2>1. CASE schedule = None
    BY <1>16, <2>1 DEF WriteBack, End, Idle, TypeOK, CallState, Agreement
  <2>2. CASE schedule # None
    <3> DEFINE change == call[c].change
    <3>1. /\ change \in Changes /\ call[c].hand \in Schedule
          /\ call[c].hand.job = schedule.job /\ lock = c
      BY <1>16, <2>2 DEF WriteBack, At, Sequenced, Locked, Agreement
    <3>2. /\ schedule'.job[change.field] = change.to
          /\ \A f \in Fields \ {change.field} : schedule'.job[f] = schedule.job[f]
      BY <1>16, <2>2, <3>1 DEF WriteBack, Changed, Schedule, Row, Changes
    <3>3. /\ call'[c].step = "Commit" /\ call'[c].change = change
          /\ \A d \in Calls \ {c} :
                call'[d] = call[d] /\ call[d].step \notin {"WriteBack", "Commit"}
      BY <1>16, <2>2, <3>1 DEF WriteBack, At, GoTo, TypeOK, CallState, Locked
    <3> QED
      BY <1>16, <2>2, <3>2, <3>3 DEF WriteBack, At, Agreement, historyVars
  <2> QED
    BY <2>1, <2>2
<1>17. CASE Commit(c)
  BY <1>17, NoneAssumption DEF Fields, Row, Schedule, Changes, CallState,
     Idle, At, End, Commit, TypeOK, Sequenced, Locked, Making, OneCreation,
     RowKept, Agreement
<1>18. CASE Patch(c)
  BY <1>18, NoneAssumption DEF Fields, Row, Schedule, Changes, historyVars,
     CallState, Idle, At, End, Patch, TypeOK, Sequenced, Locked, Making,
     OneCreation, RowKept, Agreement
<1>19. CASE Trigger(c)
  BY <1>19, NoneAssumption DEF Fields, Row, Schedule, Changes, historyVars,
     CallState, Idle, At, End, StartRun, Trigger, TypeOK, Sequenced, Locked,
     Making, OneCreation, RowKept, Agreement
<1>20. CASE InsertRowFails(c)
  BY <1>20, NoneAssumption DEF Fields, Row, Schedule, Changes, CallState,
     Idle, At, End, Fault, InsertRowFails, TypeOK, Sequenced, Locked, Making,
     OneCreation, RowKept, Agreement
<1>21. CASE CreateScheduleFails(c)
  BY <1>21, NoneAssumption DEF Fields, Row, Schedule, Changes, CallState, At,
     GoTo, Fault, CreateScheduleFails, TypeOK, Sequenced, Locked, Making,
     OneCreation, RowKept, Agreement
<1>22. CASE RemoveCreatedFails(c)
  BY <1>22, NoneAssumption DEF Fields, Row, Schedule, Changes, CallState,
     Idle, At, End, Fault, RemoveCreatedFails, TypeOK, Sequenced, Locked,
     Making, OneCreation, RowKept, Agreement
<1>23. CASE DeleteRunsFails(c)
  BY <1>23, NoneAssumption DEF Fields, Row, Schedule, Changes, CallState,
     Idle, At, End, Fault, RemoveRuns, DeleteRunsFails, TypeOK, Sequenced,
     Locked, Making, OneCreation, RowKept, Agreement
<1>24. CASE DeleteScheduleFails(c)
  BY <1>24, NoneAssumption DEF Fields, Row, Schedule, Changes, CallState,
     Idle, At, End, Fault, DeleteScheduleFails, TypeOK, Sequenced, Locked,
     Making, OneCreation, RowKept, Agreement
<1>25. CASE RemoveRowFails(c)
  BY <1>25, NoneAssumption DEF Fields, Row, Schedule, Changes, CallState,
     Idle, At, End, Fault, RemoveRowFails, TypeOK, Sequenced, Locked, Making,
     OneCreation, RowKept, Agreement
<1>26. CASE UpdateFails(c)
  BY <1>26, NoneAssumption DEF Fields, Row, Schedule, Changes, CallState,
     Idle, At, End, Fault, UpdateFails, TypeOK, Sequenced, Locked, Making,
     OneCreation, RowKept, Agreement
<1>27. CASE WriteBackLost(c)
  BY <1>27, NoneAssumption DEF Fields, Row, Schedule, Changes, CallState,
     Idle, At, End, Fault, Changed, WriteBackLost, TypeOK, Sequenced, Locked,
     Making, OneCreation, RowKept, Agreement
<1>28. CASE CommitFails(c)
  BY <1>28, NoneAssumption DEF Fields, Row, Schedule, Changes, CallState,
     Idle, At, End, Fault, CommitFails, TypeOK, Sequenced, Locked, Making,
     OneCreation, RowKept, Agreement
<1>29. CASE RequestFails(c)
  BY <1>29, NoneAssumption DEF Fields, Row, Schedule, Changes, storeVars,
     CallState, Idle, At, End, Fault, RequestFails, TypeOK, Sequenced, Locked,
     Making, OneCreation, RowKept, Agreement
<1>30. CASE Crash(c)
  BY <1>30, NoneAssumption DEF Fields, Row, Schedule, Changes, CallState,
     Idle, At, End, Fault, Crash, TypeOK, Sequenced, Locked, Making,
     OneCreation, RowKept, Agreement
<1> QED
  BY <1>1, <1>2, <1>3, <1>4, <1>5, <1>6, <1>7, <1>8, <1>9, <1>10, <1>11,
     <1>12, <1>13, <1>14, <1>15, <1>16, <1>17, <1>18, <1>19, <1>20, <1>21,
     <1>22, <1>23, <1>24, <1>25, <1>26, <1>27, <1>28, <1>29, <1>30 DEF Begins,
     Step, Fails

(* No step of a call leaves a schedule without a row, short of a CreateJob *)
(* gone wrong.                                                             *)
LEMMA OrphansStep ==
  ASSUME TypeOK, Sequenced, Locked, OneCreation, RowKept, Orphans,
         NEW c \in Calls, Begins(c) \/ Step(c) \/ Fails(c)
  PROVE  Orphans'
<1>1. CASE BeginCreate(c)
  BY <1>1, NoneAssumption DEF historyVars, CallState, Idle, BeginCreate,
     TypeOK, Sequenced, Locked, Making, Lost, OneCreation, RowKept, Orphans
<1>2. CASE BeginDelete(c)
  BY <1>2, NoneAssumption DEF storeVars, CallState, Idle, At, Known, Begin,
     BeginDelete, TypeOK, Sequenced, Locked, Making, Lost, OneCreation,
     RowKept, Orphans
<1>3. CASE BeginUpdate(c)
  BY <1>3, NoneAssumption DEF storeVars, historyVars, CallState, Idle, At,
     Known, BeginUpdate, TypeOK, Sequenced, Locked, Making, Lost, OneCreation,
     RowKept, Orphans
<1>4. CASE BeginPause(c)
  BY <1>4, NoneAssumption DEF storeVars, CallState, Idle, At, Known, Begin,
     BeginPause, TypeOK, Sequenced, Locked, Making, Lost, OneCreation,
     RowKept, Orphans
<1>5. CASE BeginRun(c)
  BY <1>5, NoneAssumption DEF storeVars, CallState, Idle, At, Known, Begin,
     BeginRun, TypeOK, Sequenced, Locked, Making, Lost, OneCreation, RowKept,
     Orphans
<1>6. CASE InsertRow(c)
  <2>1. row' # None
    BY <1>6, NoneAssumption DEF InsertRow, At, Sequenced, Schedule
  <2>2. \A d \in Calls \ {c} : call'[d].step \notin {"RemoveCreated", "RemoveRow",
                                                   "CreateSchedule"}
    BY <1>6 DEF InsertRow, At, GoTo, Sequenced, OneCreation
  <2> QED
    BY <1>6, <2>1, <2>2 DEF InsertRow, GoTo, TypeOK, CallState, Orphans
<1>7. CASE CreateSchedule(c)
  BY <1>7, NoneAssumption DEF historyVars, CallState, Idle, At, GoTo, End,
     CreateSchedule, TypeOK, Sequenced, Locked, Making, Lost, OneCreation,
     RowKept, Orphans
<1>8. CASE RemoveCreated(c)
  BY <1>8, NoneAssumption DEF historyVars, CallState, Idle, At, End,
     RemoveCreated, TypeOK, Sequenced, Locked, Making, Lost, OneCreation,
     RowKept, Orphans
<1>9. CASE GetJob(c)
  BY <1>9, NoneAssumption DEF storeVars, CallState, Idle, At, GoTo, End,
     FirstStep, GetJob, TypeOK, Sequenced, Locked, Making, Lost, OneCreation,
     RowKept, Orphans
<1>10. CASE ListRuns(c)
  BY <1>10, NoneAssumption DEF storeVars, historyVars, CallState, At,
     ListRuns, TypeOK, Sequenced, Locked, Making, Lost, OneCreation, RowKept,
     Orphans
<1>11. CASE DeleteRuns(c)
  BY <1>11, NoneAssumption DEF historyVars, CallState, Idle, At, GoTo, End,
     RemoveRuns, DeleteRuns, TypeOK, Sequenced, Locked, Making, Lost,
     OneCreation, RowKept, Orphans
<1>12. CASE DeleteSchedule(c)
  <2>1. call'[c].step = "RemoveRow" /\ \A d \in Calls \ {c} : call'[d] = call[d]
    BY <1>12 DEF DeleteSchedule, GoTo, TypeOK, CallState
  <2>2. SUFFICES ASSUME ~Lost' PROVE Orphans'
    BY DEF Orphans
  <2>3. ~Lost
    BY <1>12, <2>2 DEF DeleteSchedule, Lost
  <2>4. \A d \in Calls : ~Making(d)
    <3>1. CASE schedule = None
      <4>1. ~Creating
        BY <1>12, <2>2, <3>1 DEF DeleteSchedule, Overtakes, Lost
      <4> QED
        BY <4>1 DEF Creating, Making, Sequenced
    <3>2. CASE schedule # None
      BY <3>2 DEF OneCreation
    <3> QED
      BY <3>1, <3>2
  <2> QED
    BY <1>12, <2>1, <2>3, <2>4 DEF DeleteSchedule, Orphans, Making
<1>13. CASE RemoveRow(c)
  BY <1>13, NoneAssumption DEF CallState, Idle, At, End, RemoveRow, TypeOK,
     Sequenced, Locked, Making, Lost, OneCreation, RowKept, Orphans
<1>14. CASE WriteRow(c)
  BY <1>14, NoneAssumption DEF historyVars, CallState, Idle, At, GoTo, End,
     WriteRow, TypeOK, Sequenced, Locked, Making, Lost, OneCreation, RowKept,
     Orphans
<1>15. CASE Describe(c)
  BY <1>15, NoneAssumption DEF historyVars, CallState, Idle, At, End,
     Describe, TypeOK, Sequenced, Locked, Making, Lost, OneCreation, RowKept,
     Orphans
<1>16. CASE WriteBack(c)
  BY <1>16, NoneAssumption DEF historyVars, CallState, Idle, At, GoTo, End,
     Changed, WriteBack, TypeOK, Sequenced, Locked, Making, Lost, OneCreation,
     RowKept, Orphans
<1>17. CASE Commit(c)
  <2>1. row \in Row /\ call[c].change \in Changes
    BY <1>17, NoneAssumption DEF Commit, At, TypeOK, Sequenced, Locked, RowKept
  <2>2. row # None /\ row' # None
    BY <1>17, <2>1, CommitTyped, NoneAssumption DEF Commit
  <2> QED
    BY <1>17, <2>2 DEF Commit, At, End, Idle, TypeOK, CallState, Orphans, Making, Lost
<1>18. CASE Patch(c)
  BY <1>18, NoneAssumption DEF historyVars, CallState, Idle, At, End, Patch,
     TypeOK, Sequenced, Locked, Making, Lost, OneCreation, RowKept, Orphans
<1>19. CASE Trigger(c)
  BY <1>19, NoneAssumption DEF historyVars, CallState, Idle, At, End,
     StartRun, Trigger, TypeOK, Sequenced, Locked, Making, Lost, OneCreation,
     RowKept, Orphans
<1>20. CASE InsertRowFails(c)
  BY <1>20, NoneAssumption DEF CallState, Idle, At, End, Fault,
     InsertRowFails, TypeOK, Sequenced, Locked, Making, Lost, OneCreation,
     RowKept, Orphans
<1>21. CASE CreateScheduleFails(c)
  BY <1>21, NoneAssumption DEF CallState, At, GoTo, Fault,
     CreateScheduleFails, TypeOK, Sequenced, Locked, Making, Lost,
     OneCreation, RowKept, Orphans
<1>22. CASE RemoveCreatedFails(c)
  BY <1>22, NoneAssumption DEF CallState, Idle, At, End, Fault,
     RemoveCreatedFails, TypeOK, Sequenced, Locked, Making, Lost, OneCreation,
     RowKept, Orphans
<1>23. CASE DeleteRunsFails(c)
  BY <1>23, NoneAssumption DEF CallState, Idle, At, End, Fault, RemoveRuns,
     DeleteRunsFails, TypeOK, Sequenced, Locked, Making, Lost, OneCreation,
     RowKept, Orphans
<1>24. CASE DeleteScheduleFails(c)
  BY <1>24, NoneAssumption DEF CallState, Idle, At, End, Fault,
     DeleteScheduleFails, TypeOK, Sequenced, Locked, Making, Lost,
     OneCreation, RowKept, Orphans
<1>25. CASE RemoveRowFails(c)
  BY <1>25, NoneAssumption DEF CallState, Idle, At, End, Fault,
     RemoveRowFails, TypeOK, Sequenced, Locked, Making, Lost, OneCreation,
     RowKept, Orphans
<1>26. CASE UpdateFails(c)
  BY <1>26, NoneAssumption DEF CallState, Idle, At, End, Fault, UpdateFails,
     TypeOK, Sequenced, Locked, Making, Lost, OneCreation, RowKept, Orphans
<1>27. CASE WriteBackLost(c)
  BY <1>27, NoneAssumption DEF CallState, Idle, At, End, Fault, Changed,
     WriteBackLost, TypeOK, Sequenced, Locked, Making, Lost, OneCreation,
     RowKept, Orphans
<1>28. CASE CommitFails(c)
  <2>1. row \in Row /\ call[c].change \in Changes
    BY <1>28, NoneAssumption DEF CommitFails, At, TypeOK, Sequenced, Locked, RowKept
  <2>2. row # None /\ row' # None
    BY <1>28, <2>1, CommitTyped, NoneAssumption DEF CommitFails
  <2> QED
    BY <1>28, <2>2 DEF CommitFails, At, End, Idle, TypeOK, CallState, Orphans, Making, Lost
<1>29. CASE RequestFails(c)
  BY <1>29, NoneAssumption DEF storeVars, CallState, Idle, At, End, Fault,
     RequestFails, TypeOK, Sequenced, Locked, Making, Lost, OneCreation,
     RowKept, Orphans
<1>30. CASE Crash(c)
  BY <1>30, NoneAssumption DEF CallState, Idle, At, End, Fault, Crash, TypeOK,
     Sequenced, Locked, Making, Lost, OneCreation, RowKept, Orphans
<1> QED
  BY <1>1, <1>2, <1>3, <1>4, <1>5, <1>6, <1>7, <1>8, <1>9, <1>10, <1>11,
     <1>12, <1>13, <1>14, <1>15, <1>16, <1>17, <1>18, <1>19, <1>20, <1>21,
     <1>22, <1>23, <1>24, <1>25, <1>26, <1>27, <1>28, <1>29, <1>30 DEF Begins,
     Step, Fails

(* No step of a call leaves a row without a schedule and without cause.    *)
LEMMA HalvesStep ==
  ASSUME TypeOK, Sequenced, Locked, RowKept, Halves,
         NEW c \in Calls, Begins(c) \/ Step(c) \/ Fails(c)
  PROVE  Halves'
<1>1. CASE BeginCreate(c)
  BY <1>1, NoneAssumption DEF historyVars, CallState, Idle, BeginCreate,
     TypeOK, Sequenced, Locked, RowKept, Halves
<1>2. CASE BeginDelete(c)
  BY <1>2, NoneAssumption DEF storeVars, CallState, Idle, At, Known, Begin,
     BeginDelete, TypeOK, Sequenced, Locked, RowKept, Halves
<1>3. CASE BeginUpdate(c)
  BY <1>3, NoneAssumption DEF storeVars, historyVars, CallState, Idle, At,
     Known, BeginUpdate, TypeOK, Sequenced, Locked, RowKept, Halves
<1>4. CASE BeginPause(c)
  BY <1>4, NoneAssumption DEF storeVars, CallState, Idle, At, Known, Begin,
     BeginPause, TypeOK, Sequenced, Locked, RowKept, Halves
<1>5. CASE BeginRun(c)
  BY <1>5, NoneAssumption DEF storeVars, CallState, Idle, At, Known, Begin,
     BeginRun, TypeOK, Sequenced, Locked, RowKept, Halves
<1>6. CASE InsertRow(c)
  BY <1>6, NoneAssumption DEF historyVars, CallState, At, GoTo, InsertRow,
     TypeOK, Sequenced, Locked, RowKept, Halves
<1>7. CASE CreateSchedule(c)
  BY <1>7, NoneAssumption DEF historyVars, CallState, Idle, At, GoTo, End,
     CreateSchedule, TypeOK, Sequenced, Locked, RowKept, Halves
<1>8. CASE RemoveCreated(c)
  BY <1>8, NoneAssumption DEF historyVars, CallState, Idle, At, End,
     RemoveCreated, TypeOK, Sequenced, Locked, RowKept, Halves
<1>9. CASE GetJob(c)
  BY <1>9, NoneAssumption DEF storeVars, CallState, Idle, At, GoTo, End,
     FirstStep, GetJob, TypeOK, Sequenced, Locked, RowKept, Halves
<1>10. CASE ListRuns(c)
  BY <1>10, NoneAssumption DEF storeVars, historyVars, CallState, At,
     ListRuns, TypeOK, Sequenced, Locked, RowKept, Halves
<1>11. CASE DeleteRuns(c)
  BY <1>11, NoneAssumption DEF historyVars, CallState, Idle, At, GoTo, End,
     RemoveRuns, DeleteRuns, TypeOK, Sequenced, Locked, RowKept, Halves
<1>12. CASE DeleteSchedule(c)
  BY <1>12, NoneAssumption DEF CallState, At, GoTo, Creating, Overtakes,
     DeleteSchedule, TypeOK, Sequenced, Locked, RowKept, Halves
<1>13. CASE RemoveRow(c)
  BY <1>13, NoneAssumption DEF CallState, Idle, At, End, RemoveRow, TypeOK,
     Sequenced, Locked, RowKept, Halves
<1>14. CASE WriteRow(c)
  BY <1>14, NoneAssumption DEF historyVars, CallState, Idle, At, GoTo, End,
     WriteRow, TypeOK, Sequenced, Locked, RowKept, Halves
<1>15. CASE Describe(c)
  BY <1>15, NoneAssumption DEF historyVars, CallState, Idle, At, End,
     Describe, TypeOK, Sequenced, Locked, RowKept, Halves
<1>16. CASE WriteBack(c)
  <2>1. row # None => schedule' = None <=> schedule = None
    BY <1>16, ChangedTyped DEF WriteBack, At, Sequenced
  <2> QED
    BY <1>16, <2>1 DEF WriteBack, At, GoTo, End, Idle, TypeOK, CallState, Halves,
                      historyVars
<1>17. CASE Commit(c)
  BY <1>17, NoneAssumption DEF CallState, Idle, At, End, Commit, TypeOK,
     Sequenced, Locked, RowKept, Halves
<1>18. CASE Patch(c)
  <2>1. schedule' = None <=> schedule = None
    BY <1>18, PatchTyped DEF Patch, TypeOK
  <2> QED
    BY <1>18, <2>1 DEF Patch, At, End, Idle, TypeOK, CallState, Halves, historyVars
<1>19. CASE Trigger(c)
  BY <1>19, NoneAssumption DEF historyVars, CallState, Idle, At, End,
     StartRun, Trigger, TypeOK, Sequenced, Locked, RowKept, Halves
<1>20. CASE InsertRowFails(c)
  BY <1>20, NoneAssumption DEF CallState, Idle, At, End, Fault,
     InsertRowFails, TypeOK, Sequenced, Locked, RowKept, Halves
<1>21. CASE CreateScheduleFails(c)
  BY <1>21, NoneAssumption DEF CallState, At, GoTo, Fault,
     CreateScheduleFails, TypeOK, Sequenced, Locked, RowKept, Halves
<1>22. CASE RemoveCreatedFails(c)
  BY <1>22, NoneAssumption DEF CallState, Idle, At, End, Fault,
     RemoveCreatedFails, TypeOK, Sequenced, Locked, RowKept, Halves
<1>23. CASE DeleteRunsFails(c)
  BY <1>23, NoneAssumption DEF CallState, Idle, At, End, Fault, RemoveRuns,
     DeleteRunsFails, TypeOK, Sequenced, Locked, RowKept, Halves
<1>24. CASE DeleteScheduleFails(c)
  BY <1>24, NoneAssumption DEF CallState, Idle, At, End, Fault,
     DeleteScheduleFails, TypeOK, Sequenced, Locked, RowKept, Halves
<1>25. CASE RemoveRowFails(c)
  BY <1>25, NoneAssumption DEF CallState, Idle, At, End, Fault,
     RemoveRowFails, TypeOK, Sequenced, Locked, RowKept, Halves
<1>26. CASE UpdateFails(c)
  BY <1>26, NoneAssumption DEF CallState, Idle, At, End, Fault, UpdateFails,
     TypeOK, Sequenced, Locked, RowKept, Halves
<1>27. CASE WriteBackLost(c)
  <2>1. schedule' # None
    BY <1>27, ChangedTyped DEF WriteBackLost, At, Sequenced
  <2> QED
    BY <2>1 DEF Halves
<1>28. CASE CommitFails(c)
  BY <1>28, NoneAssumption DEF CallState, Idle, At, End, Fault, CommitFails,
     TypeOK, Sequenced, Locked, RowKept, Halves
<1>29. CASE RequestFails(c)
  BY <1>29, NoneAssumption DEF storeVars, CallState, Idle, At, End, Fault,
     RequestFails, TypeOK, Sequenced, Locked, RowKept, Halves
<1>30. CASE Crash(c)
  BY <1>30, NoneAssumption DEF CallState, Idle, At, End, Fault, Crash, TypeOK,
     Sequenced, Locked, RowKept, Halves
<1> QED
  BY <1>1, <1>2, <1>3, <1>4, <1>5, <1>6, <1>7, <1>8, <1>9, <1>10, <1>11,
     <1>12, <1>13, <1>14, <1>15, <1>16, <1>17, <1>18, <1>19, <1>20, <1>21,
     <1>22, <1>23, <1>24, <1>25, <1>26, <1>27, <1>28, <1>29, <1>30 DEF Begins,
     Step, Fails
------------------------------------------------------------------------------
(* In the beginning there is no job and no call.                           *)
LEMMA InitIInv == Init => IInv
<1> SUFFICES ASSUME Init PROVE IInv
  OBVIOUS
<1>1. Idle \in CallState /\ 0 \in 0..MaxFaults
  BY FaultsAssumption DEF CallState, Idle, Ops, Steps
<1>2. TypeOK
  BY <1>1 DEF Init, TypeOK
<1>3. Sequenced /\ Locked /\ RowKept
  BY NoneAssumption DEF Init, Sequenced, Locked, RowKept, Idle
<1>4. OneCreation /\ Agreement /\ Orphans /\ Halves
  BY DEF Init, OneCreation, Making, Agreement, Orphans, Halves, Idle
<1> QED
  BY <1>2, <1>3, <1>4 DEF IInv

(* A run that starts or goes, and a step of somebody else, disturb nothing. *)
LEMMA RunsStep ==
  ASSUME IInv, DeleteJobRun \/ Fire \/ UNCHANGED vars
  PROVE  IInv'
<1>1. UNCHANGED <<row, lock, schedule, created, call, historyVars>>
  BY DEF DeleteJobRun, Fire, vars, storeVars
<1>2. runs' \in [started : SUBSET Runs, kept : SUBSET Runs]
  BY DEF DeleteJobRun, Fire, StartRun, RemoveRuns, vars, storeVars, IInv, TypeOK
<1>3. TypeOK'
  BY <1>1, <1>2 DEF IInv, TypeOK, historyVars
<1>4. Sequenced' /\ Locked' /\ RowKept'
  BY <1>1 DEF IInv, Sequenced, Locked, RowKept, historyVars
<1>5. OneCreation' /\ Agreement'
  BY <1>1 DEF IInv, OneCreation, Making, Agreement, historyVars
<1>6. Orphans' /\ Halves'
  BY <1>1 DEF IInv, Orphans, Making, Lost, Halves, historyVars
<1> QED
  BY <1>3, <1>4, <1>5, <1>6 DEF IInv

(* Every step keeps the invariant.                                         *)
LEMMA NextIInv == IInv /\ [Next]_vars => IInv'
<1> SUFFICES ASSUME IInv, [Next]_vars PROVE IInv'
  OBVIOUS
<1>1. CASE \E c \in Calls : Begins(c) \/ Step(c) \/ Fails(c)
  <2>1. PICK c \in Calls : Begins(c) \/ Step(c) \/ Fails(c)
    BY <1>1
  <2> QED
    BY <2>1, TypeOKStep, SequencedStep, LockedStep, OneCreationStep,
       RowKeptStep, AgreementStep, OrphansStep, HalvesStep DEF IInv
<1>2. CASE DeleteJobRun \/ Fire \/ UNCHANGED vars
  BY <1>2, RunsStep
<1> QED
  BY <1>1, <1>2 DEF Next

(* The invariant holds throughout.                                         *)
THEOREM IInvHolds == Spec => []IInv
<1>1. Init => IInv
  BY InitIInv
<1>2. IInv /\ [Next]_vars => IInv'
  BY NextIInv
<1> QED
  BY <1>1, <1>2, PTL DEF Spec

(* The variables of jobs, schedules and calls keep their types.            *)
THEOREM TypeCorrect == Spec => []TypeOK
<1>1. IInv => TypeOK
  BY DEF IInv
<1> QED
  BY <1>1, IInvHolds, PTL

(* Outside of transactions row and schedule agree (UpdateJobSchedule,      *)
(* SetJobWorkflowOptions), however many calls there are.                   *)
THEOREM RowAndScheduleAgreeHolds == Spec => []RowAndScheduleAgree
<1>1. IInv => RowAndScheduleAgree
  BY NoneAssumption DEF IInv, Agreement, Locked, RowAndScheduleAgree
<1> QED
  BY <1>1, IInvHolds, PTL

(* Only a CreateJob that went wrong leaves a schedule without a row.       *)
THEOREM OrphansHaveCauseHolds == Spec => []OrphansHaveCause
<1>1. IInv => OrphansHaveCause
  BY DEF IInv, Orphans, Lost, OrphansHaveCause
<1> QED
  BY <1>1, IInvHolds, PTL

(* A row without a schedule is being made, or deleted, or has a mishap.    *)
THEOREM HalfJobsHaveCauseHolds == Spec => []HalfJobsHaveCause
<1>1. IInv => HalfJobsHaveCause
  BY DEF IInv, Halves, Sequenced, HalfJobsHaveCause
<1> QED
  BY <1>1, IInvHolds, PTL

(* Only steps that start a run of a schedule change the runs started.      *)
LEMMA StartsNeedSchedule ==
  ASSUME TypeOK, [Next]_vars, runs'.started # runs.started
  PROVE  schedule # None
<1>1. CASE \E c \in Calls : Begins(c) \/ Step(c) \/ Fails(c)
  <2>1. PICK c \in Calls : Begins(c) \/ Step(c) \/ Fails(c)
    BY <1>1
  <2>2. CASE Begins(c)
    BY <2>2 DEF Begins, BeginCreate, BeginDelete, BeginUpdate, BeginPause,
                BeginRun, Begin, storeVars
  <2>3. CASE Step(c)
    BY <2>3 DEF Step, InsertRow, CreateSchedule, RemoveCreated, GetJob, ListRuns,
                DeleteRuns, DeleteSchedule, RemoveRow, WriteRow, Describe,
                WriteBack, Commit, Patch, Trigger, RemoveRuns, storeVars, TypeOK
  <2>4. CASE Fails(c)
    BY <2>4 DEF Fails, InsertRowFails, CreateScheduleFails, RemoveCreatedFails,
                DeleteRunsFails, DeleteScheduleFails, RemoveRowFails, UpdateFails,
                WriteBackLost, CommitFails, RequestFails, Crash, RemoveRuns,
                storeVars, TypeOK
  <2> QED
    BY <2>1, <2>2, <2>3, <2>4
<1>2. CASE DeleteJobRun
  BY <1>2 DEF DeleteJobRun, RemoveRuns, TypeOK
<1>3. CASE Fire \/ UNCHANGED vars
  BY <1>3 DEF Fire, vars, storeVars
<1> QED
  BY <1>1, <1>2, <1>3 DEF Next

(* After a DeleteJob that succeeded no run starts, short of an orphan.     *)
THEOREM NoRunAfterDeleteHolds == Spec => NoRunAfterDelete
<1>1. IInv /\ [Next]_vars =>
        [deleted /\ runs'.started # runs.started =>
           mishaps \cap {"CreateLost", "CreateOvertaken"} # {}]_vars
  BY StartsNeedSchedule DEF IInv, RowKept, Orphans, Lost
<1> QED
  BY <1>1, IInvHolds, PTL DEF Spec, NoRunAfterDelete
==============================================================================
