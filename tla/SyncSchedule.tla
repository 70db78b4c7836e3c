---------------------------- MODULE SyncSchedule ----------------------------
(***************************************************************************)
(* What a data sync run promises about its table syncs, whatever the       *)
(* groups, loops and futures it is made of: each config is synced at most  *)
(* once, never before the rows its foreign keys point at are written, with *)
(* at most MaxConcurrency at a time, and none is begun once the run is     *)
(* called off.                                                             *)
(***************************************************************************)
EXTENDS RunConfigs

CONSTANTS Jobs, MaxConcurrency

VARIABLES job,       \* the configs of the run
          status,    \* where each config is
          calledOff  \* the run was canceled or has failed

vars == <<job, status, calledOff>>

Configs == ToSet(job)
With(value) == {c \in Configs : status[c] = value}

Init ==
    /\ job \in Jobs
    /\ status = [c \in Configs |-> "waiting"]
    /\ calledOff = FALSE

Begin(c) ==
    /\ ~calledOff
    /\ status[c] = "waiting"
    /\ Cardinality(With("running")) < MaxConcurrency
    /\ AreConfigDependenciesSatisfied(ForeignKeyDependencies(Configs, c), With("done"))
    /\ status' = [status EXCEPT ![c] = "running"]
    /\ UNCHANGED <<job, calledOff>>

Complete(c) ==
    /\ status[c] = "running"
    /\ status' = [status EXCEPT ![c] = "done"]
    /\ UNCHANGED <<job, calledOff>>

\* A running config stops without success; one that waits may be dropped once
\* the run is called off.
Stop(c) ==
    /\ status[c] = "running" \/ (calledOff /\ status[c] = "waiting")
    /\ status' = [status EXCEPT ![c] = "stopped"]
    /\ UNCHANGED <<job, calledOff>>

CallOff ==
    /\ ~calledOff
    /\ calledOff' = TRUE
    /\ UNCHANGED <<job, status>>

Next == CallOff \/ \E c \in Configs : Begin(c) \/ Complete(c) \/ Stop(c)

Spec == Init /\ [][Next]_vars
=============================================================================
