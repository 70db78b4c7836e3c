------------------------- MODULE MCDatasyncWorkflow -------------------------
(***************************************************************************)
(* Jobs for DatasyncWorkflow: what the planner makes of the sample schemas *)
(***************************************************************************)
EXTENDS DatasyncWorkflow

Samples == INSTANCE SchemaSamples

SampleJobs == {Samples!Empty, Samples!Fan, Samples!Circle, Samples!SelfReference,
               Samples!SharedCircles, Samples!Subset, Samples!TwoCircles}

\* The theorem about SyncSchedule is about jobs like these.
ASSUME SamplesPointAtInserts == \A j \in SampleJobs : PointsAtInserts(j)

ColumnJobs == {Samples!ColumnCircle}

SmallJobs == {Samples!Circle}
=============================================================================
