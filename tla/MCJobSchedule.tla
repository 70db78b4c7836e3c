---------------------------- MODULE MCJobSchedule ----------------------------
(***************************************************************************)
(* Two calls at a time on one job for JobSchedule, with two values of each *)
(* field: a call and its rival, or a call and the retry of another.  The   *)
(* values being alike, a new job has the first of them.                    *)
(***************************************************************************)
EXTENDS JobSchedule

TwoValues == 1..2
OneRun == {1}
Asked == [job : {[f \in Fields |-> 1]}, paused : BOOLEAN]
==============================================================================
