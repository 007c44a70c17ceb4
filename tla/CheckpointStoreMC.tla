-------------------------- MODULE CheckpointStoreMC --------------------------
(* Settings of CheckpointStore for TLC.                                    *)
EXTENDS CheckpointStore

Keeping(a, c) == [m \in Managers |-> IF m = "actor" THEN a ELSE c]

(* None, two or three checkpoints are kept, by actor and critic alike or   *)
(* not; the job ends within an epoch or with one.                          *)
KeepSeveral ==
    [total : {5, 6}, saveFreq : {1, 2, 3}, critic : {TRUE},
     keep : {Keeping(0, 2), Keeping(2, 2), Keeping(2, 3), Keeping(3, 2)}]
    \cup [total : {5}, saveFreq : {-1, 1}, critic : {FALSE}, keep : {Keeping(2, 2)}]

(* Each manager keeps one checkpoint, and every step is saved.             *)
KeepOne ==
    [total : {2}, saveFreq : {1}, critic : {TRUE}, keep : {Keeping(1, 1)}]

=============================================================================
