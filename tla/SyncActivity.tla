----------------------------- MODULE SyncActivity -----------------------------
(***************************************************************************)
(* One attempt at the SyncTable activity: the goroutine that runs the      *)
(* activity function, the one that heartbeats and waits for a reason to    *)
(* stop, the one that runs the Benthos stream, and the two channels        *)
(* between them.  The error output and the error processor of the stream   *)
(* report a failed batch on the stop channel and then take the batch for   *)
(* done.                                                                   *)
(*                                                                         *)
(* The stream itself is Benthos: it takes its batches in any order, ends   *)
(* by itself once every batch is taken, and may end with an error.  Run    *)
(* may return when its context is done, and stopping cannot interrupt a    *)
(* batch that is waiting to report its error.  What the stream still takes *)
(* after Run has returned is left out: nobody hears of it.                 *)
(***************************************************************************)
EXTENDS Integers, Sequences

CONSTANTS Batches,         \* batches of the page
          StopCapacity,    \* of stopActivityChan (3 in the code)
          ResultCapacity   \* of syncResultChan (1 in the code)

ASSUME SizesAssumption ==
    /\ Batches \in Nat
    /\ StopCapacity \in Nat \ {0}
    /\ ResultCapacity \in Nat \ {0}

VARIABLES main,        \* "Fetching" | "Building" | "Starting" | "Awaiting" |
                       \* "Returned"
          result,      \* "none" | "ok" | "error": what the activity returned
          contextDone, \* the activity's context is canceled
          session,     \* "Open" | "Released": the connection session
          monitor,     \* "Selecting" | "Sending" | "Stopping" | "Done"
          sees,        \* the monitor found benthosStream set
          stopChan,    \* number of errors in stopActivityChan
          resultChan   \* contents of syncResultChan

VARIABLES assigned,    \* benthosStream is set
          stream,      \* "Off" | "Running" | "Ending" | "Done"
          outcome,     \* what Run returned
          stopped,     \* StopWithin has been called on the stream
          left,        \* batches the stream has still to take
          failing,     \* batches waiting to report their error
          reported     \* a critical error has been reported

activityVars == <<main, result, contextDone, session>>
streamVars == <<assigned, stream, outcome, stopped, left, failing, reported>>
vars == <<main, result, contextDone, session, monitor, sees, stopChan,
          resultChan, assigned, stream, outcome, stopped, left, failing, reported>>

Init ==
    /\ main = "Fetching" /\ result = "none" /\ contextDone = FALSE
    /\ session = "Open" /\ monitor = "Selecting" /\ sees = FALSE
    /\ stopChan = 0 /\ resultChan = <<>>
    /\ assigned = FALSE /\ stream = "Off" /\ outcome = "none"
    /\ stopped = FALSE /\ left = Batches /\ failing = 0 /\ reported = FALSE

(* Mutated: syncResultChan is not buffered.                                *)
ResultHasReceiver == main = "Awaiting" /\ resultChan = <<>>

ResultHasRoom == Len(resultChan) < ResultCapacity
------------------------------------------------------------------------------
(* SyncTable.  An error before the Benthos config is there returns without *)
(* the deferred release; no connection has been asked for yet.             *)
Fetch ==
    /\ main = "Fetching"
    /\ \/ main' = "Building" /\ UNCHANGED result
       \/ main' = "Returned" /\ result' = "error"
    /\ UNCHANGED <<contextDone, session, monitor, sees, stopChan, resultChan,
                   streamVars>>

Build ==
    /\ main = "Building"
    /\ \/ /\ main' = "Starting"
          /\ assigned' = TRUE
          /\ UNCHANGED <<result, session>>
       \/ /\ main' = "Returned" /\ result' = "error"
          /\ session' = "Released"
          /\ UNCHANGED assigned
    /\ UNCHANGED <<contextDone, monitor, sees, stopChan, resultChan, stream, outcome,
                   stopped, left, failing, reported>>

Start ==
    /\ main = "Starting"
    /\ main' = "Awaiting"
    /\ stream' = "Running"
    /\ UNCHANGED <<result, contextDone, session, monitor, sees, stopChan, resultChan,
                   assigned, outcome, stopped, left, failing, reported>>

Return ==
    /\ main = "Awaiting"
    /\ resultChan # <<>>
    /\ main' = "Returned"
    /\ result' = Head(resultChan)
    /\ resultChan' = Tail(resultChan)
    /\ session' = "Released"
    /\ UNCHANGED <<contextDone, monitor, sees, stopChan, streamVars>>

(* The run is canceled, the attempt times out, the worker is told to stop; *)
(* and Temporal cancels the context of an activity that has returned.      *)
ContextEnds ==
    /\ ~contextDone
    /\ contextDone' = TRUE
    /\ UNCHANGED <<main, result, session, monitor, sees, stopChan, resultChan,
                   streamVars>>
------------------------------------------------------------------------------
(* monitorActivityHeartbeat and handleStreamStop.  benthosStream is read   *)
(* when the monitor calls, by then without synchronisation when the reason *)
(* is the context: it may be missed though it is set.  A report comes from *)
(* the stream, so it is set.  The error goes to the result channel before  *)
(* the stream is stopped.                                                  *)
MonitorHearsContext ==
    /\ monitor = "Selecting"
    /\ contextDone
    /\ monitor' = "Sending"
    /\ sees' \in {FALSE, assigned}
    /\ UNCHANGED <<activityVars, stopChan, resultChan, streamVars>>

(* Mutated: the report is dropped and the monitor ends.                    *)
MonitorDropsReport ==
    /\ monitor = "Selecting"
    /\ stopChan > 0
    /\ monitor' = "Done"
    /\ stopChan' = stopChan - 1
    /\ UNCHANGED <<activityVars, sees, resultChan, streamVars>>

MonitorHearsStop ==
    /\ monitor = "Selecting"
    /\ stopChan > 0
    /\ monitor' = "Sending"
    /\ sees' = assigned
    /\ stopChan' = stopChan - 1
    /\ UNCHANGED <<activityVars, resultChan, streamVars>>

(* Mutated: the stream is stopped before the error is sent.                *)
MonitorStopsThenSends ==
    /\ monitor = "Sending"
    /\ \/ sees /\ ~stopped /\ stopped' = TRUE /\ UNCHANGED <<monitor, resultChan>>
       \/ /\ stopped = sees /\ ResultHasRoom
          /\ monitor' = "Stopping"
          /\ resultChan' = Append(resultChan, "error")
          /\ UNCHANGED stopped
    /\ UNCHANGED <<activityVars, sees, stopChan, assigned, stream, outcome,
                   left, failing, reported>>

MonitorSends ==
    /\ monitor = "Sending"
    /\ ResultHasRoom
    /\ monitor' = "Stopping"
    /\ resultChan' = Append(resultChan, "error")
    /\ UNCHANGED <<activityVars, sees, stopChan, streamVars>>

MonitorStops ==
    /\ monitor = "Stopping"
    /\ monitor' = "Done"
    /\ stopped' = sees
    /\ UNCHANGED <<activityVars, sees, stopChan, resultChan, assigned, stream,
                   outcome, left, failing, reported>>
------------------------------------------------------------------------------
(* The stream takes a batch: written, or on its way to the error output.   *)
TakeBatch ==
    /\ stream = "Running"
    /\ left > 0
    /\ left' = left - 1
    /\ failing' \in {failing, failing + 1}
    /\ UNCHANGED <<activityVars, monitor, sees, stopChan, resultChan, assigned,
                   stream, outcome, stopped, reported>>

(* WriteBatch or ProcessBatch sends the error, and waits for room to; it   *)
(* heeds no context.                                                       *)
ReportError ==
    /\ failing > 0
    /\ stopChan < StopCapacity
    /\ stopChan' = stopChan + 1
    /\ failing' = failing - 1
    /\ reported' = TRUE
    /\ UNCHANGED <<activityVars, monitor, sees, resultChan, assigned, stream,
                   outcome, stopped, left>>

(* Run returns: every batch is done, the stream was stopped, or its context *)
(* is done.                                                                *)
RunEnds ==
    /\ stream = "Running"
    /\ \/ left = 0 /\ failing = 0 /\ outcome' = "ok"
       \/ stopped /\ failing = 0 /\ outcome' \in {"ok", "error"}
       \/ contextDone /\ outcome' = "error"
    /\ stream' = "Ending"
    /\ UNCHANGED <<activityVars, monitor, sees, stopChan, resultChan, assigned,
                   stopped, left, failing, reported>>

(* Run fails or panics.                                                    *)
RunFails ==
    /\ stream = "Running"
    /\ failing = 0
    /\ outcome' = "error"
    /\ stream' = "Ending"
    /\ UNCHANGED <<activityVars, monitor, sees, stopChan, resultChan, assigned,
                   stopped, left, failing, reported>>

StreamSends ==
    /\ stream = "Ending"
    /\ ResultHasRoom
    /\ resultChan' = Append(resultChan, outcome)
    /\ stream' = "Done"
    /\ UNCHANGED <<activityVars, monitor, sees, stopChan, assigned, outcome, stopped,
                   left, failing, reported>>

(* Everything that will happen has: the activity has returned, and the     *)
(* errors nobody reads any more keep their batches waiting.                *)
Over ==
    /\ main = "Returned" /\ contextDone /\ monitor = "Done"
    /\ stream \in {"Off", "Done"}
    /\ UNCHANGED vars

Main == Fetch \/ Build \/ Start \/ Return
Monitor == \/ MonitorHearsContext
           \/ MonitorHearsStop
           \/ MonitorSends
           \/ MonitorStops
Stream == TakeBatch \/ ReportError \/ RunEnds \/ RunFails \/ StreamSends

Next == Main \/ Monitor \/ Stream \/ ContextEnds \/ Over

(* The Go scheduler runs what can run, a stream whose batches are done or  *)
(* whose context is ends, and Temporal cancels the context of an activity  *)
(* that has returned.  Nothing makes the stream take its next batch: an    *)
(* error that is not critical is retried for ever.                         *)
Fairness ==
    /\ WF_vars(Main) /\ WF_vars(Monitor)
    /\ WF_vars(ReportError) /\ WF_vars(RunEnds) /\ WF_vars(StreamSends)
    /\ WF_vars(main = "Returned" /\ ContextEnds)

Spec == Init /\ [][Next]_vars /\ Fairness
------------------------------------------------------------------------------
Results == {"ok", "error"}

PageIsDone == left = 0 /\ failing = 0

(* The state is well formed; neither channel holds more than its capacity. *)
TypeOK ==
    /\ main \in {"Fetching", "Building", "Starting", "Awaiting", "Returned"}
    /\ result \in Results \cup {"none"}
    /\ contextDone \in BOOLEAN
    /\ session \in {"Open", "Released"}
    /\ monitor \in {"Selecting", "Sending", "Stopping", "Done"}
    /\ sees \in BOOLEAN
    /\ stopChan \in 0..StopCapacity
    /\ resultChan \in Seq(Results) /\ Len(resultChan) <= ResultCapacity
    /\ assigned \in BOOLEAN
    /\ stream \in {"Off", "Running", "Ending", "Done"}
    /\ outcome \in Results \cup {"none"}
    /\ stopped \in BOOLEAN
    /\ left \in 0..Batches
    /\ failing \in 0..Batches
    /\ reported \in BOOLEAN

(* The activity succeeds only when the stream is through with every batch  *)
(* of the page: a stream that was stopped half way also ends without an    *)
(* error, and the activity must have heard of the stop by then             *)
(* (handleStreamStop sends before it stops).                               *)
SuccessMeansWholePage == result = "ok" => PageIsDone

(* A reported critical error ends the activity, however long the stream    *)
(* would still run and although nobody interrupts a batch that waits to    *)
(* report (monitorActivityHeartbeat).                                      *)
ReportStopsActivity == reported ~> main = "Returned"

(* No goroutine outlives an activity that has returned: whoever has still  *)
(* something to send on syncResultChan finds room, though nobody receives. *)
RoutinesEnd ==
    main = "Returned" ~> monitor = "Done" /\ stream \in {"Off", "Done"}

(* What output_error.go and processor_error.go say of a critical error     *)
(* ("kill activity"), and what Test_Sync_Run_Processor_Error requires: the *)
(* activity does not succeed.  It may: the stream can end well and send    *)
(* its result before the monitor has forwarded the report.                 *)
CriticalErrorFailsActivity == result = "ok" => ~reported
==============================================================================
