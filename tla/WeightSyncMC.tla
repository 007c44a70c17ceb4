---------------------------- MODULE WeightSyncMC ----------------------------
(***************************************************************************)
(* The settings TLC tries: an engine that pauses and one that does not,    *)
(* each with and without the other settings.                               *)
(***************************************************************************)
EXTENDS WeightSync

Setting(limit, pauses, resumes, parallel, errors) ==
    [maxTokens |-> limit, pausing |-> pauses, partial |-> resumes,
     dataParallel |-> parallel, abortErrors |-> errors]

Settings ==
    {Setting(NoLimit, TRUE, TRUE, TRUE, FALSE), Setting(2, TRUE, FALSE, FALSE, FALSE),
     Setting(2, FALSE, TRUE, TRUE, TRUE)}

WaitsForTasks == {Setting(NoLimit, TRUE, FALSE, FALSE, FALSE)}

=============================================================================
