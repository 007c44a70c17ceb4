--------------------------- MODULE CheckpointStore ---------------------------
(***************************************************************************)
(* Checkpoints on disk, across crashes: RayPPOTrainer saves a step as      *)
(* several parts, one after the other (ray_trainer.py), the checkpoint     *)
(* managers of the actor and the critic delete old parts as they go        *)
(* (utils/checkpoint/checkpoint_manager.py), the tracker file names the    *)
(* step a new process resumes from.  Weights are the sequence of batches   *)
(* they were trained on; batch b is number b % EpochLength of its epoch.   *)
(***************************************************************************)
EXTENDS Integers, Sequences

CONSTANTS
    EpochLength,     \* len(train_dataloader)
    TotalEpochs,     \* trainer.total_epochs
    MaxCrashes,      \* bound on the crashes
    Configurations,  \* the settings a job may have
    Missing,         \* no such file
    Torn             \* a file or folder not written to its end

Managers == {"actor", "critic"}
Configuration ==
    [total : Nat \ {0},          \* total_training_steps
     saveFreq : Int,             \* trainer.save_freq
     critic : BOOLEAN,           \* use_critic
     keep : [Managers -> Nat]]   \* max_actor_ckpt_to_keep, max_critic_ckpt_to_keep

ASSUME StoreAssumption ==
    /\ EpochLength \in Nat \ {0} /\ TotalEpochs \in Nat \ {0}
    /\ MaxCrashes \in Nat /\ Configurations \subseteq Configuration
    /\ Missing # Torn /\ Missing \notin Nat /\ Torn \notin Nat
    /\ Missing \notin Seq(Nat) /\ Torn \notin Seq(Nat)

VARIABLES
    config,         \* the settings of this job
    disk,           \* [Managers -> [Steps -> content]], global_step_N/<manager>
    data,           \* [Steps -> content], global_step_N/data.pt
    tracker,        \* latest_checkpointed_iteration.txt
    stage,          \* where the process stands
    part,           \* the part of the checkpoint being saved
    globalSteps,    \* steps of the weights
    weights,        \* [Managers -> Seq(Nat)], of the training engines
    loader,         \* epoch of the loop and position in train_dataloader
    previousSaved,  \* [Managers -> Seq(Steps)], previous_saved_paths
    crashes

diskVars == <<disk, data, tracker>>
engineVars == <<globalSteps, weights, loader>>
vars == <<config, diskVars, stage, part, engineVars, previousSaved, crashes>>

Steps == 1 .. EpochLength * TotalEpochs
Used == IF config.critic THEN Managers ELSE {"actor"}
Whole(content) == content # Missing /\ content # Torn
Stage == {"down", "failed", "training", "open", "write", "register", "finished"}

Untrained == [m \in Managers |-> <<>>]
Beginning == [epoch |-> 0, next |-> 0]

Init ==
    /\ config \in Configurations
    /\ disk = [m \in Managers |-> [v \in Steps |-> Missing]]
    /\ data = [v \in Steps |-> Missing]
    /\ tracker = Missing
    /\ stage = "down" /\ part = "actor"
    /\ globalSteps = 0 /\ weights = Untrained /\ loader = Beginning
    /\ previousSaved = [m \in Managers |-> <<>>]
    /\ crashes = 0

-----------------------------------------------------------------------------
(* fit.                                                                    *)

(* Where the next batch comes from: a new epoch iterates from the start.   *)
Position ==
    IF loader.next < EpochLength THEN loader
    ELSE [epoch |-> loader.epoch + 1, next |-> 0]

StepEnds(step) == IF step >= config.total THEN "finished" ELSE "training"

(* A step, saved if it is the last, by frequency, or before the instance   *)
(* expires (esi), which may be at any step.                                *)
Train ==
    /\ stage = "training"
    /\ Position.epoch < TotalEpochs
    /\ globalSteps' = globalSteps + 1
    /\ weights' = [m \in Managers |-> IF m \in Used
           THEN Append(weights[m], Position.epoch * EpochLength + Position.next)
           ELSE weights[m]]
    /\ loader' = [Position EXCEPT !.next = @ + 1]
    /\ \E esi \in BOOLEAN :
          IF /\ config.saveFreq > 0
             /\ \/ globalSteps' >= config.total
                \/ globalSteps' % config.saveFreq = 0
                \/ esi
          THEN stage' = "open" /\ part' = "actor"
          ELSE stage' = StepEnds(globalSteps') /\ UNCHANGED part
    /\ UNCHANGED <<config, diskVars, previousSaved, crashes>>

EpochsEnd ==
    /\ stage = "training"
    /\ Position.epoch >= TotalEpochs
    /\ stage' = "finished"
    /\ UNCHANGED <<config, diskVars, part, engineVars, previousSaved, crashes>>

-----------------------------------------------------------------------------
(* _save_checkpoint.                                                       *)

(* The first n checkpoints of a list leave it, and the disk.               *)
Dropped(m, paths, n) ==
    [v \in Steps |-> IF \E i \in 1..n : paths[i] = v THEN Missing ELSE disk[m][v]]
Kept(paths, n) == SubSeq(paths, n + 1, Len(paths))

(* Mutant: one checkpoint too many makes room.                             *)
ExcessPlusOne(paths, keep) ==
    IF keep > 1 /\ Len(paths) >= keep THEN Len(paths) - keep + 2 ELSE 0

(* ensure_checkpoint_capacity: how many go before a save.                  *)
ExcessBefore(paths, keep) ==
    IF keep > 1 /\ Len(paths) >= keep THEN Len(paths) - keep + 1 ELSE 0

(* register_checkpoint: how many go after it.                              *)
ExcessAfter(paths, keep) ==
    IF keep > 0 /\ Len(paths) > keep THEN Len(paths) - keep ELSE 0

(* save_checkpoint of an engine makes room and opens its folder, ...       *)
OpenEngine ==
    /\ stage = "open" /\ part \in Managers
    /\ LET paths == previousSaved[part]
           n == ExcessBefore(paths, config.keep[part])
       IN  /\ disk' = [disk EXCEPT ![part] =
                          [Dropped(part, paths, n) EXCEPT ![globalSteps] = Torn]]
           /\ previousSaved' = [previousSaved EXCEPT ![part] = Kept(paths, n)]
    /\ stage' = "write"
    /\ UNCHANGED <<config, data, tracker, part, engineVars, crashes>>

(* ... its ranks write their shards and meet at a barrier, ...             *)
WriteEngine ==
    /\ stage = "write" /\ part \in Managers
    /\ disk' = [disk EXCEPT ![part][globalSteps] = weights[part]]
    /\ stage' = "register"
    /\ UNCHANGED <<config, data, tracker, part, engineVars, previousSaved, crashes>>

(* ... and rank 0 registers it, which may remove older ones.               *)
Register ==
    /\ stage = "register"
    /\ LET paths == Append(previousSaved[part], globalSteps)
           n == ExcessAfter(paths, config.keep[part])
       IN  /\ disk' = [disk EXCEPT ![part] = Dropped(part, paths, n)]
           /\ previousSaved' = [previousSaved EXCEPT ![part] = Kept(paths, n)]
    /\ stage' = "open"
    /\ part' = IF part = "actor" /\ config.critic THEN "critic" ELSE "data"
    /\ UNCHANGED <<config, data, tracker, engineVars, crashes>>

OpenData ==
    /\ stage = "open" /\ part = "data"
    /\ data' = [data EXCEPT ![globalSteps] = Torn]
    /\ stage' = "write"
    /\ UNCHANGED <<config, disk, tracker, part, engineVars, previousSaved, crashes>>

WriteData ==
    /\ stage = "write" /\ part = "data"
    /\ data' = [data EXCEPT ![globalSteps] = loader.next]
    /\ stage' = "open" /\ part' = "tracker"
    /\ UNCHANGED <<config, disk, tracker, engineVars, previousSaved, crashes>>

(* open(..., "w") empties the tracker, write and close fill it.            *)
OpenTracker ==
    /\ stage = "open" /\ part = "tracker"
    /\ tracker' = Torn
    /\ stage' = "write"
    /\ UNCHANGED <<config, disk, data, part, engineVars, previousSaved, crashes>>

(* Mutant: written when global_steps is already the next step's.           *)
WriteTrackerLate ==
    /\ stage = "write" /\ part = "tracker"
    /\ tracker' = globalSteps + 1
    /\ stage' = StepEnds(globalSteps)
    /\ UNCHANGED <<config, disk, data, part, engineVars, previousSaved, crashes>>

WriteTracker ==
    /\ stage = "write" /\ part = "tracker"
    /\ tracker' = globalSteps
    /\ stage' = StepEnds(globalSteps)
    /\ UNCHANGED <<config, disk, data, part, engineVars, previousSaved, crashes>>

-----------------------------------------------------------------------------
(* The process dies, or it had finished and is started once more.          *)
Crash ==
    /\ stage \notin {"down", "failed"} /\ crashes < MaxCrashes
    /\ crashes' = crashes + 1
    /\ stage' = "down" /\ part' = "actor"
    /\ globalSteps' = 0 /\ weights' = Untrained /\ loader' = Beginning
    /\ previousSaved' = [m \in Managers |-> <<>>]
    /\ UNCHANGED <<config, diskVars>>

(* _load_checkpoint, resume_mode auto: find_latest_ckpt_path finds none.   *)
StartFromScratch ==
    /\ stage = "down" /\ tracker = Missing
    /\ stage' = "training"
    /\ UNCHANGED <<config, diskVars, part, engineVars, previousSaved, crashes>>

Loadable ==
    /\ tracker \in Steps
    /\ \A m \in Used : Whole(disk[m][tracker])
    /\ data[tracker] # Torn

(* Mutant: the position is restored at an epoch's end too.                 *)
RestoredAlways(v) ==
    IF data[v] = Missing THEN 0 ELSE data[v]

(* The loader's position: none is restored at an epoch's end.              *)
Restored(v) ==
    IF data[v] = Missing \/ v % EpochLength = 0 THEN 0 ELSE data[v]

Resume ==
    /\ stage = "down" /\ Loadable
    /\ globalSteps' = tracker
    /\ weights' = [m \in Managers |-> IF m \in Used THEN disk[m][tracker] ELSE <<>>]
    /\ loader' = [epoch |-> tracker \div EpochLength, next |-> Restored(tracker)]
    /\ stage' = "training"
    /\ UNCHANGED <<config, diskVars, part, previousSaved, crashes>>

(* An empty tracker, or a part that is gone or torn, raises.               *)
ResumeFails ==
    /\ stage = "down" /\ tracker # Missing /\ ~Loadable
    /\ stage' = "failed"
    /\ UNCHANGED <<config, diskVars, part, engineVars, previousSaved, crashes>>

-----------------------------------------------------------------------------
Next ==
    \/ Train \/ EpochsEnd
    \/ OpenEngine \/ WriteEngine \/ Register
    \/ OpenData \/ WriteData \/ OpenTracker \/ WriteTracker
    \/ Crash \/ StartFromScratch \/ Resume \/ ResumeFails

Spec == Init /\ [][Next]_vars

-----------------------------------------------------------------------------
StoreTypeOK ==
    /\ config \in Configurations
    /\ disk \in [Managers -> [Steps -> {Missing, Torn} \cup Seq(Nat)]]
    /\ data \in [Steps -> {Missing, Torn} \cup 0..EpochLength]
    /\ tracker \in Steps \cup {Missing, Torn}
    /\ stage \in Stage /\ part \in Managers \cup {"data", "tracker"}
    /\ globalSteps \in 0 .. EpochLength * TotalEpochs
    /\ weights \in [Managers -> Seq(Nat)]
    /\ loader \in [epoch : 0..TotalEpochs, next : 0..EpochLength]
    /\ previousSaved \in [Managers -> Seq(Steps)]
    /\ \A m \in Managers : config.keep[m] > 0 => Len(previousSaved[m]) <= config.keep[m]
    /\ crashes \in 0..MaxCrashes

WholeAt(v) == Whole(data[v]) /\ \A m \in Used : Whole(disk[m][v])

(* Kept until saved: the checkpoint the tracker names is whole, as the     *)
(* docstring of ensure_checkpoint_capacity says even of a retention of one *)
(* ("we keep the existing checkpoint until the new save completes          *)
(* successfully").  Not met with one: register_checkpoint of the actor     *)
(* removes the old one while the new save still lacks its other parts.     *)
KeptUntilSaved == tracker \in Steps => WholeAt(tracker)

(* Tracked: at any point of a save, or of the removals it causes, the step *)
(* the tracker names can be resumed from; and while the tracker is empty,  *)
(* between its open and its write, when a crash makes the next start       *)
(* raise, some step on the disk is whole and may be named by hand.       *)
TrackedWhole ==
    /\ KeptUntilSaved
    /\ tracker = Torn => \E v \in Steps : WholeAt(v)

(* Across crashes and resumptions, at whatever step of an epoch, the       *)
(* weights were trained on every batch exactly once and in order, as many  *)
(* as global_steps says, and the actor on what the critic was trained on.  *)
LineageExact ==
    \A m \in Used : weights[m] = [i \in 1..globalSteps |-> i - 1]

=============================================================================
