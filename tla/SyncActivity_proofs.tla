------------------------- MODULE SyncActivity_proofs -------------------------
(***************************************************************************)
(* SyncTable never succeeds for a page its stream did not finish, whatever *)
(* the number of batches and the capacities of the two channels.           *)
(***************************************************************************)
EXTENDS SyncActivity, TLAPS

(* A batch is left, failing or done.                                       *)
BatchesAreCounted == left + failing <= Batches

(* The stream runs only once the activity awaits it; it has an outcome when *)
(* Run has returned.                                                       *)
StreamIsStarted ==
    /\ main \in {"Fetching", "Building", "Starting"} => stream = "Off"
    /\ stream \in {"Off", "Running"} <=> outcome = "none"

(* The stream ends well before its page is done only once it was stopped,  *)
(* which is the last thing the monitor does.                               *)
EarlyEndMeansStopped ==
    /\ outcome = "ok" /\ ~PageIsDone => stopped
    /\ stopped => monitor = "Done"

(* Until the stream has sent its result, the channel holds what the        *)
(* monitor has sent and the activity has not received.                     *)
MonitorIsHeard ==
    /\ monitor \in {"Selecting", "Sending"} /\ stream # "Done" => resultChan = <<>>
    /\ monitor \in {"Stopping", "Done"} /\ stream # "Done" /\ main # "Returned"
       => resultChan = <<"error">>

(* The first result the activity has to receive is true.                   *)
GoodNewsIsTrue ==
    main # "Returned" /\ resultChan # <<>> /\ Head(resultChan) = "ok"
    => PageIsDone

IInv ==
    /\ TypeOK
    /\ BatchesAreCounted
    /\ StreamIsStarted
    /\ EarlyEndMeansStopped
    /\ MonitorIsHeard
    /\ GoodNewsIsTrue
    /\ SuccessMeansWholePage

\* The invariant holds when the activity starts.
LEMMA InitIsGood == Init => IInv
  <1> SUFFICES ASSUME Init
               PROVE  IInv
    OBVIOUS
  <1>1. resultChan \in Seq(Results) /\ Len(resultChan) = 0
    BY DEF Init
  <1>2. TypeOK
    <2>1. stopChan \in 0..StopCapacity /\ left \in 0..Batches /\ failing \in 0..Batches
      BY SizesAssumption DEF Init, SizesAssumption
    <2>2. Len(resultChan) <= ResultCapacity
      BY <1>1, SizesAssumption DEF SizesAssumption
    <2>3. /\ contextDone \in BOOLEAN /\ sees \in BOOLEAN /\ assigned \in BOOLEAN
          /\ stopped \in BOOLEAN /\ reported \in BOOLEAN
      BY DEF Init
    <2> QED
      BY <1>1, <2>1, <2>2, <2>3 DEF Init, TypeOK, Results
  <1>3. BatchesAreCounted
    BY SizesAssumption DEF Init, BatchesAreCounted, SizesAssumption
  <1> QED
    BY <1>2, <1>3
       DEF Init, IInv, StreamIsStarted, EarlyEndMeansStopped, MonitorIsHeard,
           GoodNewsIsTrue, SuccessMeansWholePage

(* What sending does to a channel.                                         *)
LEMMA Sending ==
    ASSUME NEW c \in Seq(Results), NEW r \in Results
    PROVE  /\ Append(c, r) \in Seq(Results)
           /\ Len(Append(c, r)) = Len(c) + 1
           /\ c = <<>> => Append(c, r) = <<r>> /\ Head(Append(c, r)) = r
           /\ c # <<>> => Head(Append(c, r)) = Head(c)
  <1>1. Append(c, r) \in Seq(Results) /\ Len(Append(c, r)) = Len(c) + 1
    OBVIOUS
  <1>2. c = <<>> => Append(c, r) = <<r>> /\ Head(Append(c, r)) = r
    OBVIOUS
  <1>3. c # <<>> => Head(Append(c, r)) = Head(c)
    OBVIOUS
  <1> QED
    BY <1>1, <1>2, <1>3

\* What receiving does to a channel.
LEMMA Receiving ==
    ASSUME NEW c \in Seq(Results), c # <<>>
    PROVE  /\ Head(c) \in Results
           /\ Tail(c) \in Seq(Results)
           /\ Len(Tail(c)) = Len(c) - 1
  OBVIOUS

(* Every step keeps the invariant.                                         *)
LEMMA NextIsGood == IInv /\ [Next]_vars => IInv'
  <1> SUFFICES ASSUME IInv, [Next]_vars
               PROVE  IInv'
    OBVIOUS
  <1> USE SizesAssumption
      DEF IInv, TypeOK, BatchesAreCounted, StreamIsStarted,
          EarlyEndMeansStopped, MonitorIsHeard, GoodNewsIsTrue,
          SuccessMeansWholePage, PageIsDone, Results, activityVars, streamVars,
          SizesAssumption
  <1>1. CASE Fetch
    BY <1>1 DEF Fetch
  <1>2. CASE Build
    <2>1. CASE main' = "Starting"
      BY <1>2, <2>1 DEF Build
    <2>2. CASE main' = "Returned"
      BY <1>2, <2>2 DEF Build
    <2> QED
      BY <1>2, <2>1, <2>2 DEF Build
  <1>3. CASE Start
    BY <1>3 DEF Start
  <1>4. CASE Return
    <2>1. /\ Tail(resultChan) \in Seq(Results)
          /\ Len(Tail(resultChan)) = Len(resultChan) - 1
          /\ Head(resultChan) \in Results
      BY <1>4, Receiving DEF Return
    <2> QED
      BY <1>4, <2>1 DEF Return
  <1>5. CASE ContextEnds
    BY <1>5 DEF ContextEnds
  <1>6. CASE MonitorHearsContext
    <2>1. sees' \in BOOLEAN
      BY <1>6 DEF MonitorHearsContext
    <2> QED
      BY <1>6, <2>1 DEF MonitorHearsContext
  <1>7. CASE MonitorHearsStop
    BY <1>7 DEF MonitorHearsStop
  <1>8. CASE MonitorSends
    <2>1. TypeOK' /\ BatchesAreCounted'
      BY <1>8, Sending DEF MonitorSends, ResultHasRoom
    <2>2. StreamIsStarted' /\ EarlyEndMeansStopped'
      BY <1>8 DEF MonitorSends, ResultHasRoom
    <2>3. MonitorIsHeard'
      BY <1>8, Sending DEF MonitorSends, ResultHasRoom
    <2>4. GoodNewsIsTrue' /\ SuccessMeansWholePage'
      BY <1>8, Sending DEF MonitorSends, ResultHasRoom
    <2> QED
      BY <2>1, <2>2, <2>3, <2>4
  <1>9. CASE MonitorStops
    BY <1>9 DEF MonitorStops
  <1>10. CASE TakeBatch
    <2>1. failing' = failing \/ failing' = failing + 1
      BY <1>10 DEF TakeBatch
    <2>2. /\ left \in Nat /\ failing \in Nat /\ left > 0
          /\ left' = left - 1
      BY <1>10 DEF TakeBatch
    <2>3. /\ left' \in 0..Batches /\ failing' \in 0..Batches
          /\ left' + failing' <= Batches
      BY <2>1, <2>2
    <2>4. TypeOK' /\ BatchesAreCounted'
      BY <1>10, <2>3 DEF TakeBatch
    <2>5. ~PageIsDone
      BY <2>2
    <2> QED
      BY <1>10, <2>4, <2>5 DEF TakeBatch
  <1>11. CASE ReportError
    BY <1>11 DEF ReportError
  <1>12. CASE RunEnds
    <2>1. TypeOK' /\ BatchesAreCounted'
      BY <1>12 DEF RunEnds
    <2>2. StreamIsStarted' /\ EarlyEndMeansStopped'
      BY <1>12 DEF RunEnds
    <2>3. MonitorIsHeard'
      BY <1>12 DEF RunEnds
    <2>4. GoodNewsIsTrue' /\ SuccessMeansWholePage'
      BY <1>12 DEF RunEnds
    <2> QED
      BY <2>1, <2>2, <2>3, <2>4
  <1>13. CASE RunFails
    BY <1>13 DEF RunFails
  <1>14. CASE StreamSends
    <2>1. TypeOK' /\ BatchesAreCounted'
      BY <1>14, Sending DEF StreamSends, ResultHasRoom
    <2>2. StreamIsStarted' /\ EarlyEndMeansStopped'
      BY <1>14 DEF StreamSends, ResultHasRoom
    <2>3. MonitorIsHeard'
      BY <1>14, Sending DEF StreamSends, ResultHasRoom
    <2>4. GoodNewsIsTrue' /\ SuccessMeansWholePage'
      BY <1>14, Sending DEF StreamSends, ResultHasRoom
    <2> QED
      BY <2>1, <2>2, <2>3, <2>4
  <1>15. CASE UNCHANGED vars
    BY <1>15 DEF vars
  <1> QED
    BY <1>1, <1>2, <1>3, <1>4, <1>5, <1>6, <1>7, <1>8, <1>9, <1>10, <1>11,
       <1>12, <1>13, <1>14, <1>15
       DEF Next, Main, Monitor, Stream, Over

(* The inductive invariant holds of every reachable state.                 *)
THEOREM IInvHolds == Spec => []IInv
  BY InitIsGood, NextIsGood, PTL DEF Spec

(* The state is always well formed and no channel overflows.               *)
THEOREM TypeCorrect == Spec => []TypeOK
  <1>1. IInv => TypeOK
    BY DEF IInv
  <1> QED
    BY <1>1, IInvHolds, PTL

(* An activity that succeeds has the whole page behind it.                 *)
THEOREM SuccessMeansWholePageHolds == Spec => []SuccessMeansWholePage
  <1>1. IInv => SuccessMeansWholePage
    BY DEF IInv
  <1> QED
    BY <1>1, IInvHolds, PTL
==============================================================================
