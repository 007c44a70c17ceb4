---------------------------- MODULE AsyncTrainer ----------------------------
(***************************************************************************)
(* The Ray actor FullyAsyncTrainer                                         *)
(* (experimental/fully_async_policy/fully_async_trainer.py): it collects   *)
(* RequiredSamples samples, makes one local update, and after              *)
(* TriggerParameterSyncStep of them starts a new parameter version: it     *)
(* sends the weights to the rollout servers, resets the staleness of the   *)
(* rollouter, and saves a checkpoint. The weights are the number of actor  *)
(* updates they contain.                                                   *)
(***************************************************************************)
EXTENDS Integers

CONSTANTS
    RequiredSamples,           \* self.required_samples
    TriggerParameterSyncStep,  \* self.trigger_parameter_sync_step
    TestFreq,                  \* trainer.test_freq
    SaveFreq,                  \* trainer.save_freq
    EsiAnswers,                \* what should_save_ckpt_esi may answer
    StartVersion,              \* the version load_checkpoint resumed from, or 0
    Surplus                    \* updates in that checkpoint beyond its version's

ASSUME TrainerAssumption ==
    /\ RequiredSamples \in Nat \ {0}
    /\ TriggerParameterSyncStep \in Nat \ {0}
    /\ TestFreq \in Nat \ {0}      \* -1 (never) behaves like 1 where it is used
    /\ StartVersion \in Nat /\ Surplus \in Nat
    /\ StartVersion = 0 => Surplus = 0
    /\ SaveFreq \in Int
    /\ EsiAnswers \subseteq BOOLEAN /\ EsiAnswers # {}

VARIABLES
    step,                 \* where fit stands
    collected,            \* len(queue_samples)
    localTriggerStep,     \* self.local_trigger_step
    currentParamVersion,  \* self.current_param_version
    lastCkptVersion,      \* self.last_ckpt_version
    ending,               \* fit has left its loop
    updates,              \* weights of the training engine
    served,               \* weights and version of the rollout servers
    saved                 \* weights in the last checkpoint written

versionVars == <<localTriggerStep, currentParamVersion>>
trainerVars == <<step, collected, versionVars, lastCkptVersion, ending, updates,
                 served, saved>>

StepState == {"collecting", "syncing", "calling", "resetting", "saving", "stopped"}

(* A save between two versions files its updates under the older one;      *)
(* loading keeps the weights and counts from the version alone (lines      *)
(* 729-731), so they may be ahead of it.                                   *)
ResumedWeights == StartVersion * TriggerParameterSyncStep + Surplus

(* load_checkpoint, then the weights are sent once before fit              *)
(* (fully_async_main.py:104-111).                                          *)
TInit ==
    /\ step = "collecting"
    /\ collected = 0
    /\ localTriggerStep = 1
    /\ currentParamVersion = StartVersion
    /\ lastCkptVersion = StartVersion
    /\ ending = FALSE
    /\ updates = ResumedWeights
    /\ served = [weights |-> updates, version |-> StartVersion]
    /\ saved = updates

(* _get_samples_from_queue got a sample and needs more.                    *)
Collect ==
    /\ step = "collecting"
    /\ collected + 1 < RequiredSamples
    /\ collected' = collected + 1
    /\ UNCHANGED <<step, versionVars, lastCkptVersion, ending, updates, served, saved>>

(* Mutant: <= for < in _fit_update_local_step.                             *)
TrainOffByOne ==
    /\ step = "collecting"
    /\ collected + 1 = RequiredSamples
    /\ collected' = 0
    /\ updates' = updates + 1
    /\ IF localTriggerStep <= TriggerParameterSyncStep
       THEN /\ localTriggerStep' = localTriggerStep + 1
            /\ step' = "saving"
            /\ UNCHANGED currentParamVersion
       ELSE /\ localTriggerStep' = 1
            /\ currentParamVersion' = currentParamVersion + 1
            /\ step' = "syncing"
    /\ UNCHANGED <<lastCkptVersion, ending, served, saved>>

(* The batch is full: the actor is updated and _fit_update_local_step runs. *)
Train ==
    /\ step = "collecting"
    /\ collected + 1 = RequiredSamples
    /\ collected' = 0
    /\ updates' = updates + 1
    /\ IF localTriggerStep < TriggerParameterSyncStep
       THEN /\ localTriggerStep' = localTriggerStep + 1
            /\ step' = "saving"
            /\ UNCHANGED currentParamVersion
       ELSE /\ localTriggerStep' = 1
            /\ currentParamVersion' = currentParamVersion + 1
            /\ step' = "syncing"
    /\ UNCHANGED <<lastCkptVersion, ending, served, saved>>

(* Mutant: the guard at the top of _fit_update_weights is missing. *)
SeeEndAndSync ==
    /\ step = "collecting"
    /\ collected' = 0
    /\ ending' = TRUE
    /\ step' = IF currentParamVersion % TestFreq # 0 \/ localTriggerStep > 1
               THEN "syncing" ELSE "saving"
    /\ UNCHANGED <<versionVars, lastCkptVersion, updates, served, saved>>

(* The end marker was read: a partial batch is discarded and fit leaves    *)
(* its loop. _fit_update_weights and _fit_validate return at once unless   *)
(* localTriggerStep is 1.                                                  *)
SeeEnd ==
    /\ step = "collecting"
    /\ collected' = 0
    /\ ending' = TRUE
    /\ step' = IF /\ currentParamVersion % TestFreq # 0 \/ localTriggerStep > 1
                  /\ localTriggerStep = 1
               THEN "syncing" ELSE "saving"
    /\ UNCHANGED <<versionVars, lastCkptVersion, updates, served, saved>>

(* checkpoint_manager.update_weights(current_param_version)                *)
SendWeights ==
    /\ step = "syncing"
    /\ served' = [weights |-> updates, version |-> currentParamVersion]
    /\ step' = "calling"
    /\ UNCHANGED <<collected, versionVars, lastCkptVersion, ending, updates, saved>>

(* rollouter.reset_staleness.remote()                                      *)
CallReset ==
    /\ step = "calling"
    /\ step' = "resetting"
    /\ UNCHANGED <<collected, versionVars, lastCkptVersion, ending, updates, served, saved>>

(* ray.get(rollouter.reset_staleness.remote()) returned.                   *)
ResetDone ==
    /\ step = "resetting"
    /\ step' = "saving"
    /\ UNCHANGED <<collected, versionVars, lastCkptVersion, ending, updates, served, saved>>

ShouldSave(esi) ==
    /\ currentParamVersion # lastCkptVersion
    /\ SaveFreq > 0
    /\ ending \/ currentParamVersion % SaveFreq = 0 \/ esi

(* Mutant: last_ckpt_version is not brought up to date. *)
SaveUnnoted ==
    /\ step = "saving"
    /\ step' = IF ending THEN "stopped" ELSE "collecting"
    /\ \E esi \in EsiAnswers :
          IF ShouldSave(esi) THEN saved' = updates ELSE UNCHANGED saved
    /\ UNCHANGED <<collected, versionVars, lastCkptVersion, ending, updates, served>>

(* _fit_save_checkpoint, forced after the loop.                            *)
SaveCheckpoint ==
    /\ step = "saving"
    /\ step' = IF ending THEN "stopped" ELSE "collecting"
    /\ \E esi \in EsiAnswers :
          IF ShouldSave(esi)
          THEN saved' = updates /\ lastCkptVersion' = currentParamVersion
          ELSE UNCHANGED <<saved, lastCkptVersion>>
    /\ UNCHANGED <<collected, versionVars, ending, updates, served>>

-----------------------------------------------------------------------------
(* The type invariant: a local step stays within a version and a batch     *)
(* being collected is never complete (lines 244, 503-507).                 *)
TTypeOK ==
    /\ step \in StepState
    /\ collected \in 0 .. RequiredSamples - 1
    /\ localTriggerStep \in 1 .. TriggerParameterSyncStep
    /\ currentParamVersion \in Nat
    /\ lastCkptVersion \in Nat
    /\ ending \in BOOLEAN
    /\ updates \in Nat
    /\ served \in [weights : Nat, version : Nat]
    /\ saved \in Nat

(* Two samples stamped with one version were made by the same weights, and *)
(* two versions are TriggerParameterSyncStep updates apart: after the      *)
(* first send no local update between two versions is ever published,      *)
(* whatever the resumed checkpoint contained (lines 495-514, 729-731).     *)
ServedMatchesVersion ==
    served.weights = served.version * TriggerParameterSyncStep + Surplus

(* A checkpoint contains every update of the version it is filed under and *)
(* never one of a whole further version: a save between two versions, when *)
(* the instance expires or at the end (lines 599-624), files the local     *)
(* updates made so far under the older one.                                *)
CheckpointMatchesVersion ==
    saved - Surplus - lastCkptVersion * TriggerParameterSyncStep
        \in 0 .. TriggerParameterSyncStep - 1
=============================================================================
