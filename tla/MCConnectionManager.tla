------------------------ MODULE MCConnectionManager ------------------------
(***************************************************************************)
(* Two sessions of a job run, one of another run, two connections; the     *)
(* manager as the backend makes it and as the worker does.                 *)
(***************************************************************************)
EXTENDS ConnectionManager, TLC

CONSTANTS s1, s2, s3, run1, run2

ThreeSessions == {s1, s2, s3}
TwoGroups == {run1, run2}
TwoRuns == s1 :> run1 @@ s2 :> run1 @@ s3 :> run2
Backend == [closeOnRelease |-> TRUE, reaper |-> FALSE]
Worker == [closeOnRelease |-> FALSE, reaper |-> TRUE]
BothModes == {Backend, Worker}
==============================================================================
