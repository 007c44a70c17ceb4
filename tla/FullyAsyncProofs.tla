-------------------------- MODULE FullyAsyncProofs --------------------------
(***************************************************************************)
(* The fully asynchronous pipeline for every number of samples and every   *)
(* value of its limits: what the servers run and the checkpoints hold,     *)
(* where the end marker may be, what becomes of every sample, how many     *)
(* samples are under way, and how old they are when they are trained on.   *)
(***************************************************************************)
EXTENDS FullyAsync, RollouterProofs

-----------------------------------------------------------------------------
(* Arithmetic the provers do not find by themselves.                       *)

LEMMA TimesSucc ==
    \A a, b \in Int : a * b \in Int /\ (a + 1) * b = a * b + b /\ (a - 1) * b = a * b - b
  OBVIOUS

LEMMA LastOrBefore == \A n \in Nat : \A i \in 1 .. n : i = n \/ i \in 1 .. n - 1
  OBVIOUS

LEMMA Params ==
    /\ RequiredSamples \in Nat \ {0} /\ TriggerParameterSyncStep \in Nat \ {0}
    /\ TestFreq \in Nat \ {0} /\ StartVersion \in Nat /\ Surplus \in Nat
    /\ MaxRequiredSamples \in Nat \ {0}
    /\ StartVersion * TriggerParameterSyncStep \in Nat
    /\ ResumedWeights \in Nat
  BY TrainerAssumption, LimitsAssumption DEF ResumedWeights

-----------------------------------------------------------------------------
(* The trainer by itself, with any queue and any rollouter.                *)

TNext ==
    \/ Collect \/ Train \/ SeeEnd \/ SendWeights \/ CallReset \/ ResetDone
    \/ SaveCheckpoint

(* What makes the two properties inductive: the weights are the version's, *)
(* what the resumed checkpoint had beyond its own, and the local updates   *)
(* made since, and a version is published only when there are none.        *)
VersionOK ==
    /\ updates = currentParamVersion * TriggerParameterSyncStep + Surplus + (localTriggerStep - 1)
    /\ step \in {"syncing", "calling", "resetting"} => localTriggerStep = 1
    /\ step # "collecting" => collected = 0
    /\ ending => step # "collecting"
    /\ step = "stopped" => ending

TInv == TTypeOK /\ VersionOK /\ ServedMatchesVersion /\ CheckpointMatchesVersion

LEMMA InitTInv == TInit => TInv
  <1> SUFFICES ASSUME TInit PROVE TInv
    OBVIOUS
  <1>1. updates \in Nat /\ updates = StartVersion * TriggerParameterSyncStep + Surplus
    BY Params DEF TInit, ResumedWeights
  <1>2. TTypeOK
    <2>1. /\ step \in StepState /\ collected \in 0 .. RequiredSamples - 1
          /\ localTriggerStep \in 1 .. TriggerParameterSyncStep
          /\ currentParamVersion \in Nat /\ lastCkptVersion \in Nat /\ ending \in BOOLEAN
      <3>1. /\ step = "collecting" /\ collected = 0 /\ localTriggerStep = 1
            /\ currentParamVersion = StartVersion /\ lastCkptVersion = StartVersion
        BY DEF TInit
      <3>2. ending \in BOOLEAN
        BY DEF TInit
      <3> QED
        BY <3>1, <3>2, Params DEF StepState
    <2>2. served \in [weights : Nat, version : Nat] /\ saved \in Nat
      BY <1>1, Params DEF TInit
    <2> QED
      BY <1>1, <2>1, <2>2 DEF TTypeOK
  <1>3. VersionOK
    BY <1>1, Params DEF TInit, VersionOK
  <1>4. ServedMatchesVersion
    BY <1>1, Params DEF TInit, ServedMatchesVersion
  <1>5. CheckpointMatchesVersion
    BY <1>1, Params DEF TInit, CheckpointMatchesVersion
  <1> QED
    BY <1>2, <1>3, <1>4, <1>5 DEF TInv

LEMMA TrainerStep ==
    ASSUME TInv, [TNext]_trainerVars
    PROVE  TInv'
  <1> USE Params DEF TInv, versionVars
  <1>1. /\ step \in StepState /\ collected \in 0 .. RequiredSamples - 1
        /\ localTriggerStep \in 1 .. TriggerParameterSyncStep
        /\ currentParamVersion \in Nat /\ lastCkptVersion \in Nat /\ ending \in BOOLEAN
        /\ updates \in Nat /\ served \in [weights : Nat, version : Nat] /\ saved \in Nat
    BY DEF TTypeOK
  <1>2. CASE Collect
    <2>1. TTypeOK'
      BY <1>1, <1>2 DEF Collect, TTypeOK
    <2>2. VersionOK'
      BY <1>1, <1>2 DEF Collect, VersionOK
    <2> QED
      BY <1>2, <2>1, <2>2 DEF Collect, ServedMatchesVersion, CheckpointMatchesVersion
  <1>3. CASE Train
    <2>1. TTypeOK'
      BY <1>1, <1>3 DEF Train, TTypeOK, StepState
    <2>2. VersionOK'
      <3>1. CASE localTriggerStep < TriggerParameterSyncStep
        BY <1>1, <1>3, <3>1 DEF Train, VersionOK
      <3>2. CASE localTriggerStep = TriggerParameterSyncStep
        <4>1. currentParamVersion' * TriggerParameterSyncStep
                 = currentParamVersion * TriggerParameterSyncStep + TriggerParameterSyncStep
          BY <1>1, <1>3, <3>2, TimesSucc DEF Train
        <4>2. currentParamVersion * TriggerParameterSyncStep \in Int
          BY <1>1, TimesSucc
        <4> QED
          BY <1>1, <1>3, <3>2, <4>1, <4>2 DEF Train, VersionOK
      <3> QED
        BY <1>1, <3>1, <3>2
    <2> QED
      BY <1>3, <2>1, <2>2 DEF Train, ServedMatchesVersion, CheckpointMatchesVersion
  <1>4. CASE SeeEnd
    <2>1. TTypeOK'
      BY <1>1, <1>4 DEF SeeEnd, TTypeOK, StepState
    <2>2. VersionOK'
      BY <1>1, <1>4 DEF SeeEnd, VersionOK
    <2> QED
      BY <1>4, <2>1, <2>2 DEF SeeEnd, ServedMatchesVersion, CheckpointMatchesVersion
  <1>5. CASE SendWeights
    <2>1. TTypeOK'
      BY <1>1, <1>5 DEF SendWeights, TTypeOK, StepState
    <2>2. VersionOK'
      BY <1>1, <1>5 DEF SendWeights, VersionOK
    <2>3. ServedMatchesVersion'
      BY <1>1, <1>5 DEF SendWeights, VersionOK, ServedMatchesVersion
    <2> QED
      BY <1>5, <2>1, <2>2, <2>3 DEF SendWeights, CheckpointMatchesVersion
  <1>6. CASE CallReset \/ ResetDone
    <2>1. TTypeOK'
      BY <1>1, <1>6 DEF CallReset, ResetDone, TTypeOK, StepState
    <2>2. VersionOK'
      BY <1>1, <1>6 DEF CallReset, ResetDone, VersionOK
    <2> QED
      BY <1>6, <2>1, <2>2
      DEF CallReset, ResetDone, ServedMatchesVersion, CheckpointMatchesVersion
  <1>7. CASE SaveCheckpoint
    <2>1. TTypeOK'
      BY <1>1, <1>7 DEF SaveCheckpoint, TTypeOK, StepState
    <2>2. VersionOK'
      BY <1>1, <1>7 DEF SaveCheckpoint, VersionOK
    <2>3. CheckpointMatchesVersion'
      BY <1>1, <1>7 DEF SaveCheckpoint, VersionOK, CheckpointMatchesVersion
    <2> QED
      BY <1>7, <2>1, <2>2, <2>3 DEF SaveCheckpoint, ServedMatchesVersion
  <1>8. CASE UNCHANGED trainerVars
    BY <1>8 DEF trainerVars, TTypeOK, VersionOK, ServedMatchesVersion, CheckpointMatchesVersion
  <1> QED
    BY <1>2, <1>3, <1>4, <1>5, <1>6, <1>7, <1>8 DEF TNext

-----------------------------------------------------------------------------
(* The queue: what each of its methods does to its types.                  *)

Entries == Samples \union {None}

LEMMA QueueFacts ==
    ASSUME MQ!TypeOK
    PROVE  /\ queue \in Seq(Entries) /\ Len(queue) \in Nat /\ Len(queue) <= MaxRequiredSamples
           /\ DOMAIN queue = 1 .. Len(queue) /\ queue = << >> <=> Len(queue) = 0
           /\ droppedSamples \in Nat
           /\ QueueSize \in 0 .. MaxRequiredSamples
  BY Params DEF MQ!TypeOK, Entries, QueueSize

LEMMA PutTypes ==
    ASSUME MQ!TypeOK, NEW v \in Entries, MQ!PutSample(v)
    PROVE  MQ!TypeOK'
  <1>1. /\ queue \in Seq(Entries) /\ Len(queue) \in Nat /\ Len(queue) <= MaxRequiredSamples
        /\ MaxRequiredSamples \in Nat \ {0}
    BY QueueFacts, Params
  <1>2. queue' \in Seq(Entries) /\ Len(queue') <= MaxRequiredSamples
    <2>1. CASE Len(queue) >= MaxRequiredSamples
      <3>1. queue # << >> /\ queue' = Append(Tail(queue), v)
        BY <1>1, <2>1 DEF MQ!PutSample, MQ!Full
      <3>2. Tail(queue) \in Seq(Entries) /\ Len(Tail(queue)) = Len(queue) - 1
        BY <1>1, <3>1
      <3> QED
        BY <1>1, <3>1, <3>2
    <2>2. CASE ~(Len(queue) >= MaxRequiredSamples)
      <3>1. queue' = Append(queue, v)
        BY <2>2 DEF MQ!PutSample, MQ!Full
      <3> QED
        BY <1>1, <2>2, <3>1
    <2> QED
      BY <2>1, <2>2
  <1>3. /\ running' \in BOOLEAN /\ totalProduced' \in Nat /\ totalConsumed' \in Nat
        /\ droppedSamples' \in Nat /\ valQueue' \in Seq({})
    BY DEF MQ!TypeOK, MQ!PutSample
  <1>4. getter' \in [{TheTrainer} -> {"idle", "waiting", "notified"}]
    BY DEF MQ!TypeOK, MQ!PutSample, MQ!NotifyAll, MQ!GetterState
  <1> QED
    BY <1>2, <1>3, <1>4 DEF MQ!TypeOK, MQ!GetterState, Entries

LEMMA GetTypes ==
    ASSUME MQ!TypeOK, MQ!GetSample(TheTrainer)
    PROVE  /\ MQ!TypeOK' /\ queue # << >> /\ queue' = Tail(queue)
           /\ UNCHANGED droppedSamples
  <1>1. /\ queue \in Seq(Entries) /\ Len(queue) \in Nat /\ Len(queue) <= MaxRequiredSamples
        /\ MaxRequiredSamples \in Nat \ {0}
        /\ queue # << >> /\ queue' = Tail(queue)
    BY QueueFacts, Params DEF MQ!GetSample
  <1>2. queue' \in Seq(Entries) /\ Len(queue') <= MaxRequiredSamples
    BY <1>1
  <1>3. /\ running' \in BOOLEAN /\ totalProduced' \in Nat /\ totalConsumed' \in Nat
        /\ droppedSamples' \in Nat /\ valQueue' \in Seq({})
    BY DEF MQ!TypeOK, MQ!GetSample
  <1>4. getter' \in [{TheTrainer} -> {"idle", "waiting", "notified"}]
    BY DEF MQ!TypeOK, MQ!GetSample, MQ!GetterState
  <1> QED
    BY <1>1, <1>2, <1>3, <1>4 DEF MQ!TypeOK, MQ!GetterState, Entries, MQ!GetSample

LEMMA QuietQueueTypes ==
    ASSUME MQ!TypeOK,
           MQ!GetWaits(TheTrainer) \/ MQ!ClearQueue \/ UNCHANGED queueVars
    PROVE  MQ!TypeOK'
  <1>1. CASE MQ!GetWaits(TheTrainer)
    <2>1. getter' \in [{TheTrainer} -> {"idle", "waiting", "notified"}]
      BY <1>1 DEF MQ!TypeOK, MQ!GetWaits, MQ!GetterState
    <2> QED
      BY <1>1, <2>1 DEF MQ!TypeOK, MQ!GetWaits, MQ!GetterState, MQ!counters
  <1>2. CASE MQ!ClearQueue
    <2>1. queue' \in Seq(Entries) /\ Len(queue') <= MaxRequiredSamples
      BY <1>2, Params DEF MQ!ClearQueue
    <2> QED
      BY <1>2, <2>1 DEF MQ!TypeOK, MQ!ClearQueue, MQ!counters, Entries
  <1>3. CASE UNCHANGED queueVars
    BY <1>3 DEF MQ!TypeOK, queueVars
  <1> QED
    BY <1>1, <1>2, <1>3

-----------------------------------------------------------------------------
(* The composition: each of its steps is a step or a stutter of each actor *)
(* alone, so what was proved of an actor in any surroundings holds in      *)
(* these.                                                                  *)

GInv ==
    /\ RInv /\ FeedShape /\ TInv /\ MQ!TypeOK
    /\ bornIn \in [Samples -> Nat \union {Unstamped}]
    /\ runner \in {"waiting", "ended"}
    /\ keepsUp \in Timings

LEMMA RolloutSteps ==
    ASSUME MQ!TypeOK, [Next]_vars
    PROVE  [RNext]_rolloutVars
  <1>1. QueueSize \in 0 .. MaxRequiredSamples
    BY QueueFacts
  <1>2. CASE RolloutAlone
    BY <1>2, Zenon DEF RolloutAlone, RNext
  <1>3. CASE RolloutReads
    BY <1>1, <1>3, Zenon DEF RolloutReads, RNext
  <1>4. CASE EndArrives
    BY <1>4, Zenon DEF EndArrives, RNext
  <1>5. ASSUME NEW s \in Samples, SampleArrives(s)
        PROVE  RNext
    <2>1. MQ!PutSucceeds \in BOOLEAN
      BY DEF MQ!PutSucceeds, MQ!Full
    <2>2. TaskPut(s, MQ!PutSucceeds)
      BY <1>5 DEF SampleArrives
    <2> QED
      BY <2>1, <2>2, Zenon DEF RNext
  <1>6. CASE Trainer
    <2>1. CASE Take \/ Wait \/ Send \/ Answered \/ Save
      BY <2>1, Zenon DEF Take, Wait, Send, Answered, Save
    <2>2. CASE Call
      BY <2>2, Zenon DEF Call, RNext
    <2> QED
      BY <1>6, <2>1, <2>2 DEF Trainer
  <1>7. CASE RunnerEnds \/ Ended \/ UNCHANGED vars
    BY <1>7 DEF RunnerEnds, Ended, vars
  <1>8. ASSUME NEW s \in Samples, Stamp(s)
        PROVE  UNCHANGED rolloutVars
    BY <1>8 DEF Stamp
  <1> QED
    BY <1>2, <1>3, <1>4, <1>5, <1>6, <1>7, <1>8 DEF Next, Rollout

LEMMA TrainerSteps ==
    ASSUME [Next]_vars
    PROVE  [TNext]_trainerVars
  <1>1. CASE Rollout
    BY <1>1, Zenon DEF Rollout, RolloutAlone, RolloutReads, EndArrives, Stamp, SampleArrives, sysVars
  <1>2. CASE Take
    <2>1. Collect \/ Train \/ SeeEnd
      BY <1>2 DEF Take
    <2> QED
      BY <2>1 DEF TNext
  <1>3. CASE Wait
    BY <1>3 DEF Wait
  <1>4. CASE Send \/ Call \/ Answered \/ Save
    BY <1>4 DEF Send, Call, Answered, Save, TNext
  <1>5. CASE RunnerEnds \/ Ended \/ UNCHANGED vars
    BY <1>5 DEF RunnerEnds, Ended, vars, sysVars
  <1> QED
    BY <1>1, <1>2, <1>3, <1>4, <1>5 DEF Next, Trainer

LEMMA QueueSteps ==
    ASSUME MQ!TypeOK, [Next]_vars
    PROVE  MQ!TypeOK'
  <1>1. CASE RolloutAlone \/ RolloutReads
    BY <1>1, QuietQueueTypes DEF RolloutAlone, RolloutReads, sysVars
  <1>2. CASE EndArrives
    BY <1>2, PutTypes DEF EndArrives, Entries
  <1>3. ASSUME NEW s \in Samples, SampleArrives(s)
        PROVE  MQ!TypeOK'
    BY <1>3, PutTypes DEF SampleArrives, Entries
  <1>4. CASE Take
    BY <1>4, GetTypes DEF Take
  <1>5. CASE Wait
    BY <1>5, QuietQueueTypes DEF Wait
  <1>6. CASE Send \/ Call \/ Answered \/ Save
    BY <1>6, QuietQueueTypes DEF Send, Call, Answered, Save
  <1>7. CASE RunnerEnds
    BY <1>7, QuietQueueTypes DEF RunnerEnds
  <1>8. CASE Ended \/ UNCHANGED vars
    BY <1>8, QuietQueueTypes DEF Ended, vars, sysVars
  <1>9. ASSUME NEW s \in Samples, Stamp(s)
        PROVE  MQ!TypeOK'
    BY <1>9, QuietQueueTypes DEF Stamp
  <1> QED
    BY <1>1, <1>2, <1>3, <1>4, <1>5, <1>6, <1>7, <1>8, <1>9 DEF Next, Rollout, Trainer

LEMMA RestSteps ==
    ASSUME GInv, [Next]_vars
    PROVE  /\ (bornIn \in [Samples -> Nat \union {Unstamped}])'
           /\ (runner \in {"waiting", "ended"})'
           /\ UNCHANGED keepsUp
  <1>1. bornIn \in [Samples -> Nat \union {Unstamped}] /\ runner \in {"waiting", "ended"}
    BY DEF GInv
  <1>2. ASSUME NEW s \in Samples, Stamp(s) \/ SampleArrives(s)
        PROVE  bornIn' \in [Samples -> Nat \union {Unstamped}] /\ UNCHANGED runnerVars
    <2>1. served.version \in Nat
      BY DEF GInv, TInv, TTypeOK
    <2> QED
      BY <1>1, <1>2, <2>1 DEF Stamp, SampleArrives
  <1>3. CASE RolloutAlone \/ RolloutReads \/ EndArrives
    BY <1>1, <1>3 DEF RolloutAlone, RolloutReads, EndArrives, sysVars, runnerVars
  <1>4. CASE Trainer
    BY <1>1, <1>4 DEF Trainer, Take, Wait, Send, Call, Answered, Save, runnerVars
  <1>5. CASE RunnerEnds \/ Ended \/ UNCHANGED vars
    BY <1>1, <1>5 DEF RunnerEnds, Ended, vars, sysVars, runnerVars
  <1> QED
    BY <1>1, <1>2, <1>3, <1>4, <1>5 DEF Next, Rollout, runnerVars

LEMMA InitGInv == Init => GInv
  <1> SUFFICES ASSUME Init PROVE GInv
    OBVIOUS
  <1>1. RInv /\ FeedShape /\ TInv
    BY InitRInv, FeedShapeInit, InitTInv DEF Init
  <1>2. MQ!TypeOK
    BY Params DEF Init, MQ!Init, MQ!TypeOK, MQ!GetterState
  <1> QED
    BY <1>1, <1>2, Params DEF GInv, Init

LEMMA GStep == GInv /\ [Next]_vars => GInv'
  <1> SUFFICES ASSUME GInv, [Next]_vars PROVE GInv'
    OBVIOUS
  <1>1. MQ!TypeOK /\ RInv /\ FeedShape /\ TInv /\ keepsUp \in Timings
    BY DEF GInv
  <1>2. RInv'
    BY <1>1, RolloutSteps, RStepInv
  <1>3. FeedShape'
    BY <1>1, <1>2, RolloutSteps, FeedShapeStep
  <1>4. TInv'
    BY <1>1, TrainerSteps, TrainerStep
  <1>5. MQ!TypeOK'
    BY <1>1, QueueSteps
  <1> QED
    BY <1>1, <1>2, <1>3, <1>4, <1>5, RestSteps DEF GInv

LEMMA GInvariance == Spec => []GInv
  <1>1. Init => GInv
    BY InitGInv
  <1>2. GInv /\ [Next]_vars => GInv'
    BY GStep
  <1> QED
    BY <1>1, <1>2, PTL DEF Spec

(* The pipeline's state keeps its types, and the queue its bound           *)
(* (message_queue.py:68).                                                  *)
THEOREM PipelineTypeCorrect == Spec => []TypeOK
  <1>1. GInv => TypeOK
    BY DEF GInv, RInv, TInv, TypeOK
  <1> QED
    BY <1>1, GInvariance, PTL

(* One version is always the same weights, and two versions are a whole    *)
(* number of versions' updates apart: what the servers hold beyond the     *)
(* version they stamp is what the checkpoint the run was resumed from had  *)
(* beyond its own, however much (lines 495-514, 729-731).                  *)
THEOREM VersionsNameWeights == Spec => []ServedMatchesVersion
  <1>1. GInv => ServedMatchesVersion
    BY DEF GInv, TInv
  <1> QED
    BY <1>1, GInvariance, PTL

(* Beyond what the run was resumed from, a checkpoint contains every       *)
(* update of the version it is filed under and less than one version more, *)
(* for every save and test frequency and every answer about the instance's *)
(* expiration (lines 599-624).                                             *)
THEOREM CheckpointsNameWeights == Spec => []CheckpointMatchesVersion
  <1>1. GInv => CheckpointMatchesVersion
    BY DEF GInv, TInv
  <1> QED
    BY <1>1, GInvariance, PTL

(* What was proved of the rollouter in any surroundings holds in the       *)
(* pipeline: its lock, its concurrency limit, one task per sample.         *)
THEOREM RollouterInPipeline ==
    Spec => [](RTypeOK /\ LockDiscipline /\ HandNeverPaused /\ ConcurrencyLimit /\ EachSampleOnce)
  <1>1. GInv => RTypeOK /\ LockDiscipline /\ HandNeverPaused /\ ConcurrencyLimit /\ EachSampleOnce
    BY ShapeGivesOnce DEF GInv, RInv
  <1> QED
    BY <1>1, GInvariance, PTL

-----------------------------------------------------------------------------
(* The end of the stream. The processor ends when it has taken the end     *)
(* marker of the feed and no task is left; it dies of a failed task, and   *)
(* only then are tasks left that it does not know.                         *)

TasksOK ==
    /\ proc = "ended" => activeTasks = {}
    /\ proc # "dead" => \A s \in Samples : task[s] \in {"generating", "failed"} => s \in activeTasks
    /\ proc = "dead" => \E s \in Samples : task[s] = "failed"
    /\ \A s \in activeTasks : task[s] # "none"

FeedOver == proc \in {"finishing", "ended"} => Taken = FeedLength

MainOK ==
    /\ main # "streaming" => proc \in {"ended", "dead"}
    /\ main \in {"stopping", "stopped"} => proc = "ended"
    /\ main = "failed" => proc = "dead"

StreamOK == TasksOK /\ FeedOver /\ MainOK

LEMMA TasksStep ==
    ASSUME RInv, FeedShape, TasksOK, RNext
    PROVE  TasksOK'
  <1> USE DEF TasksOK, GoTo, GoLocking, GoReleasing, GoRelocking, NotifyAll,
              feedVars, procVars, taskVars, resetVars, pauseVars, endVars
  <1>1. /\ task \in [Samples -> TaskState] /\ activeTasks \subseteq Samples
        /\ proc \in {"finishing", "loop", "fetching"} => hand = None
    BY DEF RInv, RTypeOK, HandOK
  <1>2. CASE Feed \/ MonitorExits \/ MainWaited \/ MainSignals \/ MainStops
             \/ ResetCalled \/ ResetEnds
    BY <1>2 DEF Feed, MonitorExits, MainWaited, MainSignals, MainStops, ResetCalled, ResetEnds
  <1>3. CASE ResetBegins \/ MonitorResumes
    BY <1>3 DEF ResetBegins, MonitorResumes
  <1>4. ASSUME NEW s \in Samples,
               TaskFails(s) \/ TaskEnds(s) \/ \E ok \in BOOLEAN : TaskPut(s, ok)
        PROVE  TasksOK'
    <2>1. /\ UNCHANGED <<proc, activeTasks>>
          /\ task[s] \in {"generating", "stored", "displaced"}
          /\ task' = [task EXCEPT ![s] = task'[s]]
          /\ task'[s] \in {"failed", "stored", "displaced", "done"}
          /\ task'[s] = "failed" => task[s] = "generating"
      BY <1>1, <1>4 DEF TaskFails, TaskEnds, TaskPut
    <2>2. \A r \in Samples : r # s => task'[r] = task[r]
      BY <1>1, <2>1
    <2> QED
      BY <1>1, <2>1, <2>2
  <1>5. CASE ProcSetPaused \/ ProcPark \/ ProcContinue \/ ProcWake
    BY <1>5 DEF ProcSetPaused, ProcPark, ProcContinue, ProcWake
  <1>6. CASE ProcSubmit
    <2>1. /\ proc' = "loop" /\ activeTasks' = activeTasks \union {hand} /\ hand \in Samples
          /\ task' = [task EXCEPT ![hand] = "generating"] /\ proc = "submitting"
      BY <1>6 DEF ProcSubmit, RInv, HandOK
    <2> QED
      BY <1>1, <2>1
  <1>7. CASE ProcReap
    <2>1. /\ proc \in {"draining", "limiting", "finishing"} /\ UNCHANGED task
          /\ activeTasks' = activeTasks \ Finished
      BY <1>7 DEF ProcReap
    <2>2. CASE \E s \in Finished : task[s] = "failed"
      BY <1>1, <1>7, <2>1, <2>2 DEF ProcReap, Finished
    <2>3. CASE ~ \E s \in Finished : task[s] = "failed"
      <3>1. proc' # "dead" /\ (proc' = "ended" => activeTasks' = {})
        BY <1>7, <2>1, <2>3 DEF ProcReap
      <3>2. \A s \in Finished : task[s] = "done"
        BY <2>3 DEF Finished
      <3> QED
        BY <2>1, <3>1, <3>2
    <2> QED
      BY <2>2, <2>3
  <1>8. ASSUME NEW q \in 0 .. MaxRequiredSamples,
               ProcPause(q) \/ ProcFetch(q) \/ ResetAnswered(q) \/ MonitorDecides(q)
        PROVE  TasksOK'
    BY <1>8 DEF ProcPause, ProcFetch, ResetAnswered, MonitorDecides
  <1>9. ASSUME NEW q \in 0 .. MaxRequiredSamples, ProcTake(q)
        PROVE  TasksOK'
    BY <1>9 DEF ProcTake
  <1> QED
    BY <1>2, <1>3, <1>4, <1>5, <1>6, <1>7, <1>8, <1>9 DEF RNext

(* The processor takes the end marker only when nothing follows it.        *)
LEMMA FeedOverStep ==
    ASSUME RInv, FeedShape, FeedOver, RNext
    PROVE  FeedOver'
  <1>1. /\ fed \in Nat /\ fed <= FeedLength /\ FeedLength \in Nat
        /\ pending \in Seq(Samples \union {None}) /\ Len(pending) \in Nat /\ Taken \in Nat
    <2>1. /\ fed \in Nat /\ fed <= FeedLength /\ FeedLength \in Nat
          /\ pending \in Seq(Samples \union {None})
      BY Steps DEF RInv, RTypeOK
    <2> QED
      BY <2>1 DEF FeedShape, Taken
  <1>2. CASE Feed
    <2>1. Taken # FeedLength
      BY <1>1, <1>2 DEF Feed, Taken
    <2> QED
      BY <1>2, <2>1 DEF Feed, procVars, FeedOver
  <1>3. ASSUME NEW q \in 0 .. MaxRequiredSamples, ProcTake(q)
        PROVE  FeedOver'
    <2>1. /\ pending # << >> /\ pending' = Tail(pending) /\ UNCHANGED fed
          /\ proc' \in {"finishing", "ended"} => Head(pending) = None
      BY <1>3 DEF ProcTake, GoTo, GoLocking
    <2>2. Len(pending') = Len(pending) - 1 /\ Head(pending) = pending[1] /\ Len(pending) >= 1
      BY <1>1, <2>1
    <2>3. Taken' = Taken + 1 /\ Taken + 1 <= FeedLength
      BY <1>1, <2>1, <2>2 DEF Taken
    <2>4. Head(pending) = Entry(Taken + 1)
      BY <1>1, <2>2 DEF FeedShape
    <2>5. Entry(Taken + 1) = None => Taken + 1 = FeedLength
      BY <1>1, <2>3, Steps, NoneAssumption DEF Entry, FeedLength, Samples
    <2> QED
      BY <2>1, <2>3, <2>4, <2>5 DEF FeedOver
  <1>4. ASSUME ~Feed, \A q \in 0 .. MaxRequiredSamples : ~ProcTake(q)
        PROVE  /\ UNCHANGED <<fed, pending>>
               /\ proc' \in {"finishing", "ended"} => proc \in {"finishing", "ended"}
    BY <1>4 DEF RNext, ProcSetPaused, ProcReap, ProcPark, ProcWake, ProcContinue, ProcSubmit,
                ResetCalled, ResetBegins, ResetEnds, MonitorResumes, MonitorExits,
                MainWaited, MainSignals, MainStops, ProcPause, ProcFetch, ResetAnswered,
                MonitorDecides, TaskFails, TaskEnds, TaskPut, NotifyAll, GoTo, GoLocking,
                GoReleasing, GoRelocking, feedVars, procVars
  <1>5. CASE /\ UNCHANGED <<fed, pending>>
             /\ proc' \in {"finishing", "ended"} => proc \in {"finishing", "ended"}
    BY <1>5 DEF FeedOver, Taken
  <1> QED
    BY <1>2, <1>3, <1>4, <1>5

LEMMA MainStep ==
    ASSUME RInv, MainOK, RNext
    PROVE  MainOK'
  <1> USE DEF MainOK, GoTo, GoLocking, GoReleasing, GoRelocking, NotifyAll,
              feedVars, procVars, taskVars, resetVars, pauseVars, endVars
  <1>1. CASE MainWaited \/ MainSignals \/ MainStops
    BY <1>1 DEF MainWaited, MainSignals, MainStops
  <1>2. ASSUME ~(MainWaited \/ MainSignals \/ MainStops)
        PROVE  UNCHANGED main /\ (proc \in {"ended", "dead"} => UNCHANGED proc)
    BY <1>2 DEF RNext, Feed, ProcSetPaused, ProcReap, ProcPark, ProcWake, ProcContinue,
                ProcSubmit, ResetCalled, ResetBegins, ResetEnds, MonitorResumes, MonitorExits,
                ProcPause, ProcFetch, ProcTake, ResetAnswered,
                MonitorDecides, TaskFails, TaskEnds, TaskPut
  <1>3. CASE UNCHANGED main /\ (proc \in {"ended", "dead"} => UNCHANGED proc)
    BY <1>3
  <1> QED
    BY <1>1, <1>2, <1>3

LEMMA StreamStep ==
    ASSUME RInv, FeedShape, StreamOK, [RNext]_rolloutVars
    PROVE  StreamOK'
  <1>1. CASE RNext
    BY <1>1, TasksStep, FeedOverStep, MainStep DEF StreamOK
  <1>2. CASE UNCHANGED rolloutVars
    BY <1>2 DEF StreamOK, TasksOK, FeedOver, MainOK, Taken, rolloutVars, feedVars, procVars,
                taskVars, endVars
  <1> QED
    BY <1>1, <1>2

LEMMA StreamInit == RInit => StreamOK
  BY DEF RInit, StreamOK, TasksOK, FeedOver, MainOK

(* Once the processor has ended every sample has been delivered.           *)
LEMMA AllDelivered ==
    ASSUME RInv, FeedShape, StreamOK, proc = "ended"
    PROVE  \A s \in Samples : task[s] \in {"stored", "displaced", "done"}
  <1> SUFFICES ASSUME NEW s \in Samples
               PROVE  task[s] \in {"stored", "displaced", "done"}
    OBVIOUS
  <1>1. Taken = FeedLength /\ hand = None /\ activeTasks = {}
    BY DEF StreamOK, TasksOK, FeedOver, RInv, HandOK
  <1>2. s \in Nat /\ s <= LastStep /\ s # None
    BY Steps, NoneAssumption DEF Samples
  <1>3. ~(s >= FirstStep + FeedLength)
    BY <1>2, Steps DEF FeedLength
  <1>4. task[s] # "none"
    BY <1>1, <1>2, <1>3 DEF FeedShape
  <1>5. task[s] \notin {"generating", "failed"}
    BY <1>1 DEF StreamOK, TasksOK
  <1>6. task[s] \in TaskState
    BY DEF RInv, RTypeOK
  <1> QED
    BY <1>4, <1>5, <1>6 DEF TaskState

(* What put and get do to the entries of the queue.                        *)
LEMMA PutEntries ==
    ASSUME MQ!TypeOK, NEW v \in Entries, MQ!PutSample(v)
    PROVE  /\ droppedSamples' = IF Len(queue) >= MaxRequiredSamples
                                THEN droppedSamples + 1 ELSE droppedSamples
           /\ Len(queue') = Len(queue) + 1 - (droppedSamples' - droppedSamples)
           /\ Len(queue') \in Nat /\ DOMAIN queue' = 1 .. Len(queue')
           /\ queue' # << >> /\ queue'[Len(queue')] = v
           /\ \A i \in 1 .. Len(queue') - 1 :
                 /\ i + (droppedSamples' - droppedSamples) \in DOMAIN queue
                 /\ queue'[i] = queue[i + (droppedSamples' - droppedSamples)]
  <1>1. /\ queue \in Seq(Entries) /\ Len(queue) \in Nat /\ droppedSamples \in Nat
        /\ MaxRequiredSamples \in Nat \ {0} /\ DOMAIN queue = 1 .. Len(queue)
    BY QueueFacts, Params
  <1>2. CASE Len(queue) >= MaxRequiredSamples
    <2>1. /\ queue' = Append(Tail(queue), v) /\ droppedSamples' = droppedSamples + 1
          /\ queue # << >>
      BY <1>1, <1>2 DEF MQ!PutSample, MQ!Full
    <2>2. /\ Tail(queue) \in Seq(Entries) /\ Len(Tail(queue)) = Len(queue) - 1
          /\ \A i \in 1 .. Len(queue) - 1 : Tail(queue)[i] = queue[i + 1]
      BY <1>1, <2>1
    <2>3. /\ Len(queue') = Len(queue) /\ queue' \in Seq(Entries)
          /\ queue'[Len(queue)] = v
          /\ \A i \in 1 .. Len(queue) - 1 : queue'[i] = Tail(queue)[i]
      BY <1>1, <2>1, <2>2
    <2>4. \A i \in 1 .. Len(queue) - 1 : queue'[i] = queue[i + 1] /\ i + 1 \in DOMAIN queue
      BY <1>1, <2>2, <2>3
    <2>5. droppedSamples' - droppedSamples = 1
      BY <1>1, <2>1
    <2>6. DOMAIN queue' = 1 .. Len(queue') /\ queue' # << >>
      BY <1>1, <1>2, <2>3
    <2> QED
      BY <1>1, <1>2, <2>1, <2>3, <2>4, <2>5, <2>6
  <1>3. CASE ~(Len(queue) >= MaxRequiredSamples)
    <2>1. queue' = Append(queue, v) /\ droppedSamples' = droppedSamples
      BY <1>3 DEF MQ!PutSample, MQ!Full
    <2>2. /\ Len(queue') = Len(queue) + 1 /\ queue' \in Seq(Entries)
          /\ queue'[Len(queue) + 1] = v
          /\ \A i \in 1 .. Len(queue) : queue'[i] = queue[i]
      BY <1>1, <2>1
    <2>3. DOMAIN queue' = 1 .. Len(queue') /\ queue' # << >>
      BY <1>1, <2>2
    <2>4. droppedSamples' - droppedSamples = 0
      BY <1>1, <2>1
    <2> QED
      BY <1>1, <1>3, <2>1, <2>2, <2>3, <2>4
  <1> QED
    BY <1>2, <1>3

LEMMA GetEntries ==
    ASSUME MQ!TypeOK, queue # << >>, queue' = Tail(queue)
    PROVE  /\ Len(queue) >= 1 /\ Len(queue') = Len(queue) - 1 /\ Head(queue) = queue[1]
           /\ DOMAIN queue' = 1 .. Len(queue) - 1
           /\ \A i \in 1 .. Len(queue) - 1 :
                 i + 1 \in DOMAIN queue /\ queue'[i] = queue[i + 1]
  <1>1. queue \in Seq(Entries) /\ Len(queue) \in Nat /\ DOMAIN queue = 1 .. Len(queue)
    BY QueueFacts
  <1> QED
    BY <1>1

(* The end marker: not in the queue before the stream is over, then its    *)
(* last entry until the trainer has read it, and nothing else after that.  *)
NoMarker == \A i \in DOMAIN queue : queue[i] # None

EndOK ==
    /\ main \in {"streaming", "signalling"} => NoMarker /\ ~ending
    /\ main \in {"stopping", "stopped"} =>
          /\ \A i \in DOMAIN queue : queue[i] = None => i = Len(queue)
          /\ IF ending THEN queue = << >> ELSE queue # << >> /\ queue[Len(queue)] = None

EInv == GInv /\ StreamOK /\ EndOK

LEMMA EInvParts ==
    ASSUME EInv
    PROVE  /\ RInv /\ FeedShape /\ StreamOK /\ TInv /\ MQ!TypeOK
           /\ task \in [Samples -> TaskState] /\ activeTasks \subseteq Samples
  BY DEF EInv, GInv, RInv, RTypeOK

LEMMA EndKept ==
    ASSUME EndOK, UNCHANGED <<queue, ending>>,
           \/ UNCHANGED main
           \/ main = "streaming" /\ main' = "signalling"
           \/ main = "stopping" /\ main' = "stopped"
    PROVE  EndOK'
  BY DEF EndOK, NoMarker

LEMMA EndTake ==
    ASSUME EInv, Take
    PROVE  EndOK'
  <1>1. MQ!TypeOK /\ queue # << >> /\ queue' = Tail(queue) /\ UNCHANGED main
    BY EInvParts DEF Take, MQ!GetSample, rolloutVars, endVars
  <1>2. /\ Len(queue) >= 1 /\ Len(queue') = Len(queue) - 1 /\ Head(queue) = queue[1]
        /\ DOMAIN queue' = 1 .. Len(queue) - 1
        /\ \A i \in 1 .. Len(queue) - 1 :
              i + 1 \in DOMAIN queue /\ queue'[i] = queue[i + 1]
    BY <1>1, GetEntries
  <1>3. Len(queue) \in Nat /\ DOMAIN queue = 1 .. Len(queue)
    BY <1>1, QueueFacts
  <1>4. ~ending
    BY EInvParts DEF Take, SeeEnd, Collect, Train, TInv, VersionOK
  <1>5. CASE main \in {"streaming", "signalling"}
    <2>1. Head(queue) # None
      BY <1>2, <1>3, <1>5 DEF EInv, EndOK, NoMarker
    <2>2. UNCHANGED ending
      BY <2>1 DEF Take, Collect, Train
    <2>3. NoMarker'
      BY <1>2, <1>5 DEF EInv, EndOK, NoMarker
    <2> QED
      BY <1>1, <1>4, <1>5, <2>2, <2>3 DEF EndOK
  <1>6. CASE main \in {"stopping", "stopped"}
    <2>1. /\ \A i \in DOMAIN queue : queue[i] = None => i = Len(queue)
          /\ queue[Len(queue)] = None
      BY <1>4, <1>6 DEF EInv, EndOK
    <2>2. \A i \in DOMAIN queue' : queue'[i] = None => i = Len(queue')
      BY <1>2, <1>3, <2>1
    <2>3. CASE Head(queue) = None
      <3>1. Len(queue) = 1
        BY <1>2, <1>3, <2>1, <2>3
      <3>2. queue' = << >>
        BY <1>1, <1>3, <3>1, QueueFacts
      <3>3. ending' = TRUE
        BY <2>3 DEF Take, SeeEnd
      <3> QED
        BY <1>1, <1>6, <2>2, <3>2, <3>3 DEF EndOK
    <2>4. CASE Head(queue) # None
      <3>1. Len(queue) > 1
        BY <1>2, <1>3, <2>1, <2>4
      <3>2. queue'[Len(queue')] = None /\ queue' # << >>
        BY <1>2, <1>3, <2>1, <3>1
      <3>3. UNCHANGED ending
        BY <2>4 DEF Take, Collect, Train
      <3> QED
        BY <1>1, <1>4, <1>6, <2>2, <3>2, <3>3 DEF EndOK
    <2> QED
      BY <2>3, <2>4
  <1> QED
    BY <1>1, <1>5, <1>6 DEF EndOK

LEMMA EndStep ==
    ASSUME EInv, [Next]_vars
    PROVE  EndOK'
  <1> USE EInvParts DEF EInv
  <1>1. CASE RolloutAlone
    <2>1. UNCHANGED <<queue, ending>>
      BY <1>1 DEF RolloutAlone, sysVars, queueVars, trainerVars
    <2>2. \/ UNCHANGED main
          \/ main = "streaming" /\ main' = "signalling"
          \/ main = "stopping" /\ main' = "stopped"
      BY <1>1 DEF RolloutAlone, Feed, ProcSetPaused, ProcReap, ProcPark, ProcWake,
                  ProcContinue, ProcSubmit, ResetBegins, ResetEnds, MonitorResumes,
                  MonitorExits, MainWaited, MainStops, TaskFails, TaskEnds, endVars
    <2> QED
      BY <2>1, <2>2, EndKept
  <1>2. CASE RolloutReads
    <2>1. UNCHANGED <<queue, ending, main>>
      BY <1>2 DEF RolloutReads, ProcPause, ProcFetch, ProcTake, ResetAnswered, MonitorDecides,
                  endVars, sysVars, queueVars, trainerVars
    <2> QED
      BY <2>1, EndKept
  <1>3. ASSUME NEW s \in Samples, SampleArrives(s)
        PROVE  EndOK'
    <2>1. task[s] = "generating" /\ MQ!PutSample(s) /\ UNCHANGED <<main, ending>>
      BY <1>3 DEF SampleArrives, TaskPut, trainerVars, endVars
    <2>2. main \notin {"stopping", "stopped"}
      BY <2>1 DEF StreamOK, MainOK, TasksOK
    <2>3. s \in Entries /\ s # None
      BY NoneAssumption DEF Entries
    <2>4. NoMarker => NoMarker'
      <3>1. /\ Len(queue') \in Nat /\ DOMAIN queue' = 1 .. Len(queue')
            /\ queue'[Len(queue')] = s
            /\ \A i \in 1 .. Len(queue') - 1 : \E j \in DOMAIN queue : queue'[i] = queue[j]
        BY <2>1, <2>3, PutEntries
      <3>2. \A i \in 1 .. Len(queue') : i = Len(queue') \/ i \in 1 .. Len(queue') - 1
        BY <3>1, LastOrBefore
      <3> QED
        BY <2>3, <3>1, <3>2 DEF NoMarker
    <2> QED
      BY <2>1, <2>2, <2>4 DEF EndOK
  <1>4. CASE EndArrives
    <2>1. /\ main = "signalling" /\ MQ!PutSample(None) /\ UNCHANGED ending
          /\ main' \in {"failed", "stopping"}
      BY <1>4 DEF EndArrives, MainSignals, trainerVars
    <2>2. NoMarker /\ ~ending /\ None \in Entries
      BY <2>1 DEF EndOK, Entries
    <2>3. /\ Len(queue') \in Nat /\ DOMAIN queue' = 1 .. Len(queue') /\ queue' # << >>
          /\ queue'[Len(queue')] = None
          /\ \A i \in 1 .. Len(queue') - 1 : \E j \in DOMAIN queue : queue'[i] = queue[j]
      BY <2>1, <2>2, PutEntries
    <2>4. \A i \in 1 .. Len(queue') : i = Len(queue') \/ i \in 1 .. Len(queue') - 1
      BY <2>3, LastOrBefore
    <2>5. \A i \in DOMAIN queue' : queue'[i] = None => i = Len(queue')
      BY <2>2, <2>3, <2>4 DEF NoMarker
    <2> QED
      BY <2>1, <2>2, <2>3, <2>5 DEF EndOK
  <1>5. CASE Take
    BY <1>5, EndTake
  <1>6. CASE Wait \/ Send \/ Call \/ Answered \/ Save
    <2>1. UNCHANGED <<queue, ending, main>>
      BY <1>6 DEF Wait, Send, Call, Answered, Save, MQ!GetWaits, SendWeights, CallReset,
                  ResetCalled, ResetDone, SaveCheckpoint, queueVars, trainerVars, rolloutVars,
                  endVars
    <2> QED
      BY <2>1, EndKept
  <1>7. CASE RunnerEnds
    <2>1. /\ queue' = << >> /\ UNCHANGED <<ending, main>> /\ step = "stopped"
          /\ main \in {"stopped", "failed"}
      BY <1>7 DEF RunnerEnds, FitReturned, MQ!ClearQueue, trainerVars, rolloutVars, endVars
    <2>2. ending
      BY <2>1 DEF TInv, VersionOK
    <2> QED
      BY <2>1, <2>2 DEF EndOK
  <1>8. CASE Ended \/ UNCHANGED vars \/ \E s \in Samples : Stamp(s)
    <2>1. UNCHANGED <<queue, ending, main>>
      BY <1>8 DEF Ended, Stamp, vars, sysVars, queueVars, trainerVars, rolloutVars, endVars
    <2> QED
      BY <2>1, EndKept
  <1> QED
    BY <1>1, <1>2, <1>3, <1>4, <1>5, <1>6, <1>7, <1>8 DEF Next, Rollout, Trainer

LEMMA EInvariance == Spec => []EInv
  <1>1. Init => EInv
    <2> SUFFICES ASSUME Init PROVE EInv
      OBVIOUS
    <2>1. EndOK
      BY DEF Init, RInit, TInit, MQ!Init, EndOK, NoMarker
    <2>2. StreamOK
      BY StreamInit DEF Init
    <2> QED
      BY <2>1, <2>2, InitGInv DEF EInv
  <1>2. EInv /\ [Next]_vars => EInv'
    <2> SUFFICES ASSUME EInv, [Next]_vars PROVE EInv'
      OBVIOUS
    <2>1. GInv' /\ EndOK'
      BY GStep, EndStep DEF EInv
    <2>2. StreamOK'
      BY EInvParts, RolloutSteps, StreamStep
    <2> QED
      BY <2>1, <2>2 DEF EInv
  <1> QED
    BY <1>1, <1>2, PTL DEF Spec

(* After a failure: the tasks that survive the processor are fewer than    *)
(* the concurrency limit, so together with what they have put behind the   *)
(* end marker they do not fill the queue.                                  *)
DeadOK == proc = "dead" => Cardinality(InFlight) < MaxConcurrentSamples

MarkerAt(i) ==
    /\ i \in DOMAIN queue /\ queue[i] = None
    /\ Len(queue) - i + Cardinality(InFlight) < MaxConcurrentSamples

MarkerOK == main = "failed" /\ ~ending => \E i \in 1 .. Len(queue) : MarkerAt(i)

LEMMA InFlightTypes ==
    /\ IsFiniteSet(InFlight) /\ Cardinality(InFlight) \in Nat
    /\ MaxConcurrentSamples \in Nat /\ MaxConcurrentSamples <= MaxRequiredSamples
  <1>1. InFlight \subseteq Samples
    BY DEF InFlight
  <1> QED
    BY <1>1, SamplesFinite, LimitsAssumption

LEMMA FewerInFlight ==
    ASSUME InFlight' \subseteq InFlight
    PROVE  /\ Cardinality(InFlight') \in Nat /\ Cardinality(InFlight') <= Cardinality(InFlight)
           /\ InFlight' # InFlight => Cardinality(InFlight') < Cardinality(InFlight)
  BY InFlightTypes, FS_Subset, FS_CardinalityType

LEMMA DeadStep ==
    ASSUME EInv, DeadOK, [RNext]_rolloutVars
    PROVE  DeadOK'
  <1>1. /\ task \in [Samples -> TaskState] /\ activeTasks \subseteq Samples
        /\ Cardinality(activeTasks) <= MaxConcurrentSamples
    BY EInvParts DEF RInv, ConcurrencyLimit
  <1>2. CASE ProcReap
    <2>1. Finished # {} /\ UNCHANGED task /\ proc # "dead"
      BY <1>2 DEF ProcReap, taskVars
    <2>2. InFlight' = InFlight
      BY <2>1 DEF InFlight
    <2>3. InFlight \subseteq activeTasks /\ InFlight # activeTasks
      BY <2>1, EInvParts DEF InFlight, Finished, StreamOK, TasksOK
    <2>4. IsFiniteSet(activeTasks) /\ Cardinality(activeTasks) \in Nat
      BY <1>1, SamplesFinite
    <2>5. Cardinality(InFlight) < Cardinality(activeTasks)
      BY <2>3, <2>4, InFlightTypes, FS_Subset
    <2> QED
      BY <1>1, <2>2, <2>4, <2>5, InFlightTypes DEF DeadOK
  <1>3. ASSUME NEW s \in Samples,
               TaskFails(s) \/ TaskEnds(s) \/ \E ok \in BOOLEAN : TaskPut(s, ok)
        PROVE  DeadOK'
    <2>1. InFlight' \subseteq InFlight /\ UNCHANGED proc
      BY <1>1, <1>3 DEF TaskFails, TaskEnds, TaskPut, InFlight, procVars
    <2>2. Cardinality(InFlight') \in Nat /\ Cardinality(InFlight') <= Cardinality(InFlight)
      BY <2>1, FewerInFlight
    <2> QED
      BY <2>1, <2>2, InFlightTypes DEF DeadOK
  <1>4. CASE ProcSubmit
    BY <1>4 DEF ProcSubmit, GoReleasing, DeadOK
  <1>5. ASSUME UNCHANGED task, proc' = "dead" => proc = "dead"
        PROVE  DeadOK'
    <2>1. InFlight' = InFlight
      BY <1>5 DEF InFlight
    <2> QED
      BY <1>5, <2>1 DEF DeadOK
  <1>6. ASSUME ~ProcReap, ~ProcSubmit, ~UNCHANGED rolloutVars,
               \A s \in Samples :
                  ~(TaskFails(s) \/ TaskEnds(s) \/ \E ok \in BOOLEAN : TaskPut(s, ok))
        PROVE  UNCHANGED task /\ (proc' = "dead" => proc = "dead")
    BY <1>6
    DEF RNext, Feed, ProcSetPaused, ProcPark, ProcWake, ProcContinue, ResetCalled,
        ResetBegins, ResetEnds, MonitorResumes, MonitorExits, MainWaited, MainSignals, MainStops,
        ProcPause, ProcFetch, ProcTake, ResetAnswered, MonitorDecides, NotifyAll, GoTo,
        GoLocking, GoReleasing, GoRelocking, procVars, taskVars
  <1>7. CASE UNCHANGED rolloutVars
    BY <1>5, <1>7 DEF rolloutVars, procVars, taskVars
  <1> QED
    BY <1>2, <1>3, <1>4, <1>5, <1>6, <1>7

LEMMA MarkerKept ==
    ASSUME MarkerOK, UNCHANGED <<queue, main>>, ending' = ending, InFlight' \subseteq InFlight
    PROVE  MarkerOK'
  <1>1. Cardinality(InFlight') \in Nat /\ Cardinality(InFlight') <= Cardinality(InFlight)
    BY FewerInFlight
  <1> SUFFICES ASSUME main = "failed", ~ending PROVE \E i \in 1 .. Len(queue) : MarkerAt(i)'
    BY DEF MarkerOK
  <1>2. PICK i \in 1 .. Len(queue) : MarkerAt(i)
    BY DEF MarkerOK
  <1>3. Len(queue) - i \in Int
    BY <1>2
  <1>4. MarkerAt(i)'
    BY <1>1, <1>2, <1>3, InFlightTypes DEF MarkerAt
  <1> QED
    BY <1>2, <1>4

(* The entries behind the marker and the tasks still running leave it room *)
(* in the queue: a put that finds the queue full drops another entry.      *)
LEMMA MarkerSurvivesPut ==
    ASSUME EInv, MarkerOK, NEW s \in Samples, SampleArrives(s)
    PROVE  MarkerOK'
  <1>1. /\ MQ!TypeOK /\ MQ!PutSample(s) /\ UNCHANGED <<main, ending>> /\ s \in InFlight
        /\ InFlight' = InFlight \ {s} /\ s \in Entries
    <2>1. task \in [Samples -> TaskState]
      BY EInvParts
    <2> QED
      BY <2>1, EInvParts DEF SampleArrives, TaskPut, InFlight, trainerVars, endVars, Entries
  <1>2. Cardinality(InFlight') \in Nat /\ Cardinality(InFlight') < Cardinality(InFlight)
    BY <1>1, FewerInFlight
  <1> SUFFICES ASSUME main = "failed", ~ending
               PROVE  \E i \in 1 .. Len(queue') : MarkerAt(i)'
    BY <1>1 DEF MarkerOK
  <1>3. PICK i \in 1 .. Len(queue) : MarkerAt(i)
    BY DEF MarkerOK
  <1> DEFINE d == droppedSamples' - droppedSamples
  <1>4. /\ Len(queue) \in Nat /\ MaxRequiredSamples \in Nat
        /\ d = IF Len(queue) >= MaxRequiredSamples THEN 1 ELSE 0
        /\ Len(queue') = Len(queue) + 1 - d /\ DOMAIN queue' = 1 .. Len(queue')
        /\ \A k \in 1 .. Len(queue') - 1 : queue'[k] = queue[k + d]
    BY <1>1, PutEntries, QueueFacts, Params
  <1> HIDE DEF d
  <1>5. i > d
    BY <1>2, <1>3, <1>4, InFlightTypes DEF MarkerAt
  <1>6. i - d \in 1 .. Len(queue') - 1 /\ (i - d) + d = i
    BY <1>3, <1>4, <1>5
  <1>7. queue'[i - d] = None /\ i - d \in DOMAIN queue'
    BY <1>3, <1>4, <1>6 DEF MarkerAt
  <1>8. Len(queue') - (i - d) + Cardinality(InFlight') < MaxConcurrentSamples
    <2>1. Len(queue) - i + Cardinality(InFlight) < MaxConcurrentSamples /\ i \in Int
      BY <1>3 DEF MarkerAt
    <2>2. Len(queue') = Len(queue) + 1 - d /\ d \in Int /\ Len(queue) \in Int
      BY <1>4
    <2>3. Cardinality(InFlight) \in Int /\ MaxConcurrentSamples \in Int
      BY InFlightTypes
    <2>4. Len(queue') - (i - d) = Len(queue) + 1 - i
      BY <2>1, <2>2
    <2>5. Cardinality(InFlight') \in Int /\ Cardinality(InFlight') + 1 <= Cardinality(InFlight)
      BY <1>2, <2>3
    <2>6. Len(queue) + 1 - i + Cardinality(InFlight') < MaxConcurrentSamples
      BY <2>1, <2>2, <2>3, <2>5
    <2> QED
      BY <2>4, <2>6
  <1> QED
    BY <1>6, <1>7, <1>8 DEF MarkerAt

LEMMA MarkerPut ==
    ASSUME EInv, DeadOK, EndArrives
    PROVE  MarkerOK'
  <1> SUFFICES ASSUME main' = "failed" PROVE \E i \in 1 .. Len(queue') : MarkerAt(i)'
    BY DEF MarkerOK
  <1>1. proc = "dead" /\ MQ!PutSample(None) /\ UNCHANGED task
    BY DEF EndArrives, MainSignals, taskVars
  <1>2. /\ Len(queue') \in Nat /\ DOMAIN queue' = 1 .. Len(queue') /\ queue' # << >>
        /\ queue'[Len(queue')] = None
    BY <1>1, EInvParts, PutEntries DEF Entries
  <1>3. Len(queue') \in 1 .. Len(queue')
    <2>1. MQ!TypeOK'
      BY <1>1, EInvParts, PutTypes DEF Entries
    <2>2. queue' \in Seq(Entries)
      BY <2>1 DEF MQ!TypeOK, Entries
    <2> QED
      BY <1>2, <2>2
  <1>4. InFlight' = InFlight /\ Cardinality(InFlight) < MaxConcurrentSamples
    BY <1>1 DEF InFlight, DeadOK
  <1>5. Len(queue') - Len(queue') + Cardinality(InFlight') < MaxConcurrentSamples
    BY <1>2, <1>4, InFlightTypes
  <1> QED
    BY <1>2, <1>3, <1>5 DEF MarkerAt

LEMMA MarkerTaken ==
    ASSUME EInv, MarkerOK, Take
    PROVE  MarkerOK'
  <1>1. /\ MQ!TypeOK /\ queue # << >> /\ queue' = Tail(queue) /\ UNCHANGED <<main, task>>
        /\ step = "collecting"
    BY EInvParts
    DEF Take, MQ!GetSample, rolloutVars, endVars, taskVars, Collect, Train, SeeEnd
  <1> SUFFICES ASSUME main = "failed", ~ending'
               PROVE  \E i \in 1 .. Len(queue') : MarkerAt(i)'
    BY <1>1 DEF MarkerOK
  <1>2. Head(queue) # None /\ ~ending
    BY <1>1, EInvParts DEF Take, SeeEnd, TInv, VersionOK
  <1>3. PICK i \in 1 .. Len(queue) : MarkerAt(i)
    BY <1>2 DEF MarkerOK
  <1>4. /\ Len(queue) \in Nat /\ Len(queue') = Len(queue) - 1 /\ Head(queue) = queue[1]
        /\ DOMAIN queue' = 1 .. Len(queue) - 1
        /\ \A k \in 1 .. Len(queue) - 1 : queue'[k] = queue[k + 1]
    BY <1>1, GetEntries, QueueFacts
  <1>5. i - 1 \in 1 .. Len(queue) - 1 /\ (i - 1) + 1 = i
    BY <1>2, <1>3, <1>4 DEF MarkerAt
  <1>6. InFlight' = InFlight
    BY <1>1 DEF InFlight
  <1>7. queue'[i - 1] = None
    BY <1>3, <1>4, <1>5 DEF MarkerAt
  <1>8. Len(queue') - (i - 1) + Cardinality(InFlight') < MaxConcurrentSamples
    BY <1>3, <1>4, <1>6, InFlightTypes DEF MarkerAt
  <1> QED
    BY <1>4, <1>5, <1>7, <1>8 DEF MarkerAt

LEMMA MarkerStep ==
    ASSUME EInv, DeadOK, MarkerOK, [Next]_vars
    PROVE  MarkerOK'
  <1>1. CASE RolloutAlone
    <2>1. UNCHANGED <<queue, ending>> /\ (main' # "failed" \/ UNCHANGED main)
      BY <1>1 DEF RolloutAlone, Feed, ProcSetPaused, ProcReap, ProcPark, ProcWake,
                  ProcContinue, ProcSubmit, ResetBegins, ResetEnds, MonitorResumes,
                  MonitorExits, MainWaited, MainStops, TaskFails, TaskEnds, endVars, sysVars,
                  queueVars, trainerVars
    <2>2. CASE main' # "failed"
      BY <2>2 DEF MarkerOK
    <2>3. CASE main = "failed" /\ UNCHANGED <<queue, ending, main>>
      <3>1. ~ProcSubmit
        BY <2>3, EInvParts DEF ProcSubmit, StreamOK, MainOK
      <3>2. InFlight' \subseteq InFlight
        BY <1>1, <3>1, EInvParts
        DEF RolloutAlone, Feed, ProcSetPaused, ProcReap, ProcPark, ProcWake, ProcContinue,
            ResetBegins, ResetEnds, MonitorResumes, MonitorExits, MainWaited, MainStops,
            TaskFails, TaskEnds, taskVars, InFlight
      <3> QED
        BY <2>3, <3>2, MarkerKept
    <2> QED
      BY <2>1, <2>2, <2>3
  <1>2. CASE RolloutReads
    <2>1. UNCHANGED <<queue, ending, main, task>>
      BY <1>2 DEF RolloutReads, ProcPause, ProcFetch, ProcTake, ResetAnswered, MonitorDecides,
                  endVars, taskVars, sysVars, queueVars, trainerVars
    <2> QED
      BY <2>1, MarkerKept DEF InFlight
  <1>3. ASSUME NEW s \in Samples, SampleArrives(s)
        PROVE  MarkerOK'
    BY <1>3, MarkerSurvivesPut
  <1>4. CASE EndArrives
    BY <1>4, MarkerPut
  <1>5. CASE Take
    BY <1>5, MarkerTaken
  <1>6. CASE Wait \/ Send \/ Call \/ Answered \/ Save \/ Ended \/ UNCHANGED vars
            \/ \E s \in Samples : Stamp(s)
    <2>1. UNCHANGED <<queue, ending, main, task>>
      BY <1>6 DEF Wait, Send, Call, Answered, Save, Ended, Stamp, MQ!GetWaits, SendWeights,
                  CallReset, ResetCalled, ResetDone, SaveCheckpoint, queueVars, trainerVars,
                  rolloutVars, endVars, taskVars, vars, sysVars
    <2> QED
      BY <2>1, MarkerKept DEF InFlight
  <1>7. CASE RunnerEnds
    <2>1. step = "stopped" /\ UNCHANGED ending
      BY <1>7 DEF RunnerEnds, trainerVars
    <2>2. ending'
      BY <2>1, EInvParts DEF TInv, VersionOK
    <2> QED
      BY <2>2 DEF MarkerOK
  <1> QED
    BY <1>1, <1>2, <1>3, <1>4, <1>5, <1>6, <1>7 DEF Next, Rollout, Trainer

LEMMA MarkerInvariance == Spec => [](DeadOK /\ MarkerOK)
  <1>1. Init => DeadOK /\ MarkerOK
    BY DEF Init, RInit, DeadOK, MarkerOK
  <1>2. EInv /\ DeadOK /\ MarkerOK /\ [Next]_vars => DeadOK' /\ MarkerOK'
    BY EInvParts, RolloutSteps, DeadStep, MarkerStep
  <1> QED
    BY <1>1, <1>2, EInvariance, PTL DEF Spec

(* The end marker is the last entry the trainer can read, and no sample is *)
(* being generated once it is in the queue, for every interleaving of the  *)
(* processor, its tasks and the generation main. After a failure samples   *)
(* may follow it, but none pushes it out before the trainer has read it.   *)
THEOREM MarkerComesLast == Spec => []EndMarkerLast
  <1>1. EInv /\ MarkerOK => EndMarkerLast
    <2> SUFFICES ASSUME EInv, MarkerOK PROVE EndMarkerLast
      OBVIOUS
    <2>1. ASSUME main \in {"stopping", "stopped"}
          PROVE  /\ InFlight = {}
                 /\ \A i \in DOMAIN queue : queue[i] = None => i = Len(queue)
                 /\ ending \/ \E i \in DOMAIN queue : queue[i] = None
      <3>1. InFlight = {}
        BY <2>1, EInvParts DEF StreamOK, MainOK, TasksOK, InFlight
      <3>2. queue # << >> => Len(queue) \in DOMAIN queue
        BY EInvParts, QueueFacts
      <3> QED
        BY <2>1, <3>1, <3>2 DEF EInv, EndOK
    <2>2. ASSUME main = "failed"
          PROVE  ending \/ \E i \in DOMAIN queue : queue[i] = None
      BY <2>2 DEF MarkerOK, MarkerAt
    <2> QED
      BY <2>1, <2>2 DEF EndMarkerLast
  <1> QED
    BY <1>1, EInvariance, MarkerInvariance, PTL

-----------------------------------------------------------------------------
(* What becomes of every sample: each one delivered has been trained on,   *)
(* is in the batch being collected, is queued, or was dropped and counted. *)

Delivered == {s \in Samples : task[s] \in {"stored", "displaced", "done"}}
Trained == (updates - ResumedWeights) * RequiredSamples

AccountOK ==
    /\ main \in {"streaming", "signalling"} =>
          Cardinality(Delivered) = Trained + collected + Len(queue) + droppedSamples
    /\ main \in {"stopping", "stopped"} /\ ~ending =>
          Cardinality(Delivered) = Trained + collected + Len(queue) - 1 + droppedSamples
    /\ main \in {"stopping", "stopped"} /\ ending =>
          Trained + droppedSamples
              \in Cardinality(Samples) - RequiredSamples + 1 .. Cardinality(Samples)

LEMMA UpdatesTypes ==
    ASSUME EInv
    PROVE  /\ updates \in Nat /\ ResumedWeights \in Nat
           /\ updates - ResumedWeights \in Int
  <1>1. updates \in Nat
    BY EInvParts, Params DEF TInv, TTypeOK
  <1> QED
    BY <1>1, Params

LEMMA AccountTypes ==
    ASSUME EInv
    PROVE  /\ Cardinality(Delivered) \in Nat /\ Trained \in Int /\ collected \in Nat
           /\ collected < RequiredSamples /\ RequiredSamples \in Nat
           /\ Len(queue) \in Nat /\ droppedSamples \in Nat
  <1>1. Cardinality(Delivered) \in Nat
    BY SamplesFinite DEF Delivered
  <1>2. collected \in Nat /\ collected < RequiredSamples
    BY EInvParts, Params DEF TInv, TTypeOK
  <1>3. updates - ResumedWeights \in Int
    BY UpdatesTypes
  <1>4. Trained \in Int
    BY <1>3, Params, TimesSucc DEF Trained
  <1>5. Len(queue) \in Nat /\ droppedSamples \in Nat
    BY EInvParts, QueueFacts
  <1> QED
    BY <1>1, <1>2, <1>3, <1>4, <1>5, Params

LEMMA PutBalance ==
    ASSUME MQ!TypeOK, NEW v \in Entries, MQ!PutSample(v)
    PROVE  /\ Len(queue') \in Nat /\ droppedSamples' \in Nat
           /\ Len(queue') + droppedSamples' = Len(queue) + droppedSamples + 1
  <1>1. Len(queue) \in Nat /\ droppedSamples \in Nat
    BY QueueFacts
  <1>2. /\ Len(queue') = Len(queue) + 1 - (droppedSamples' - droppedSamples)
        /\ Len(queue') \in Nat /\ droppedSamples' \in {droppedSamples, droppedSamples + 1}
    BY PutEntries
  <1> QED
    BY <1>1, <1>2

(* Reading a sample makes the collected batch one larger, or trains on it. *)
LEMMA TrainedOneMore ==
    ASSUME EInv, Collect \/ Train
    PROVE  Trained' + collected' = Trained + collected + 1
  <1>0. /\ Cardinality(Delivered) \in Nat /\ Trained \in Int /\ collected \in Nat
        /\ collected < RequiredSamples /\ RequiredSamples \in Nat
        /\ Len(queue) \in Nat /\ droppedSamples \in Nat
    BY AccountTypes
  <1> USE <1>0
  <1>1. CASE Collect
    BY <1>1 DEF Collect, Trained
  <1>2. CASE Train
    <2> DEFINE n == updates - ResumedWeights
    <2>1. collected' = 0 /\ collected + 1 = RequiredSamples /\ updates' = updates + 1
      BY <1>2 DEF Train
    <2>2. updates' - ResumedWeights = n + 1
      <3> DEFINE a == ResumedWeights
      <3>1. a \in Int /\ updates \in Int
        BY UpdatesTypes
      <3> HIDE DEF a
      <3>2. updates' - a = (updates - a) + 1
        BY <2>1, <3>1
      <3> QED
        BY <3>2 DEF a
    <2>3. Trained' = (n + 1) * RequiredSamples
      BY <2>2 DEF Trained
    <2>4. (n + 1) * RequiredSamples = n * RequiredSamples + RequiredSamples
      <3>1. n \in Int /\ RequiredSamples \in Int
        BY UpdatesTypes
      <3> QED
        BY <3>1, TimesSucc
    <2>5. Trained' = Trained + RequiredSamples
      BY <2>3, <2>4 DEF Trained
    <2> QED
      BY <2>1, <2>5
  <1> QED
    BY <1>1, <1>2

LEMMA AccountKept ==
    ASSUME AccountOK, Delivered' = Delivered,
           UNCHANGED <<updates, collected, queue, droppedSamples, ending>>,
           \/ UNCHANGED main
           \/ main = "streaming" /\ main' = "signalling"
           \/ main = "stopping" /\ main' = "stopped"
    PROVE  AccountOK'
  <1>1. Trained' = Trained /\ Cardinality(Delivered') = Cardinality(Delivered)
    BY DEF Trained
  <1> QED
    BY <1>1 DEF AccountOK

LEMMA AccountTake ==
    ASSUME EInv, AccountOK, Take
    PROVE  AccountOK'
  <1>0. /\ Cardinality(Delivered) \in Nat /\ Trained \in Int /\ collected \in Nat
        /\ collected < RequiredSamples /\ RequiredSamples \in Nat
        /\ Len(queue) \in Nat /\ droppedSamples \in Nat
    BY AccountTypes
  <1> USE <1>0
  <1>1. /\ Len(queue') = Len(queue) - 1 /\ UNCHANGED <<droppedSamples, main, task>>
        /\ Head(queue) = queue[1] /\ DOMAIN queue = 1 .. Len(queue) /\ Len(queue) >= 1
    <2>1. MQ!TypeOK /\ queue # << >> /\ queue' = Tail(queue)
      BY EInvParts DEF Take, MQ!GetSample
    <2>2. UNCHANGED <<droppedSamples, main, task>>
      BY DEF Take, MQ!GetSample, rolloutVars, endVars, taskVars
    <2> QED
      BY <2>1, <2>2, GetEntries, QueueFacts
  <1>2. Delivered' = Delivered
    BY <1>1 DEF Delivered
  <1>3. ~ending
    BY EInvParts DEF Take, SeeEnd, Collect, Train, TInv, VersionOK
  <1>4. CASE Head(queue) # None
    <2>1. Collect \/ Train
      BY <1>4 DEF Take
    <2>2. UNCHANGED ending
      BY <2>1 DEF Collect, Train
    <2>3. Trained' + collected' = Trained + collected + 1
      BY <2>1, TrainedOneMore
    <2>4. Len(queue') = Len(queue) - 1
      BY <1>1
    <2>5. main \in {"streaming", "signalling"} =>
             Cardinality(Delivered) = Trained' + collected' + Len(queue') + droppedSamples
      <3>1. main \in {"streaming", "signalling"} =>
               Cardinality(Delivered) = Trained + collected + Len(queue) + droppedSamples
        BY DEF AccountOK
      <3>2. Trained' + collected' + Len(queue') + droppedSamples
               = Trained + collected + Len(queue) + droppedSamples
        <4>1. Trained' + collected' + Len(queue') + droppedSamples
                 = (Trained + collected + 1) + (Len(queue) - 1) + droppedSamples
          BY <2>3, <2>4, Zenon
        <4> QED
          BY <4>1
      <3> QED
        BY <3>1, <3>2, Zenon
    <2>6. main \in {"stopping", "stopped"} =>
             Cardinality(Delivered) = Trained' + collected' + Len(queue') - 1 + droppedSamples
      <3>1. main \in {"stopping", "stopped"} =>
               Cardinality(Delivered) = Trained + collected + Len(queue) - 1 + droppedSamples
        BY <1>3 DEF AccountOK
      <3>2. Trained' + collected' + Len(queue') - 1 + droppedSamples
               = Trained + collected + Len(queue) - 1 + droppedSamples
        <4>1. Trained' + collected' + Len(queue') - 1 + droppedSamples
                 = (Trained + collected + 1) + (Len(queue) - 1) - 1 + droppedSamples
          BY <2>3, <2>4, Zenon
        <4> QED
          BY <4>1
      <3> QED
        BY <3>1, <3>2, Zenon
    <2> QED
      BY <1>1, <1>2, <1>3, <2>2, <2>5, <2>6 DEF AccountOK
  <1>5. CASE Head(queue) = None
    <2>1. ending' = TRUE /\ UNCHANGED updates
      BY <1>5 DEF Take, SeeEnd
    <2>2. main \notin {"streaming", "signalling"}
      BY <1>1, <1>5 DEF EInv, EndOK, NoMarker
    <2>3. Trained' = Trained
      BY <2>1 DEF Trained
    <2>4. ASSUME main \in {"stopping", "stopped"}
          PROVE  Trained + droppedSamples
                    \in Cardinality(Samples) - RequiredSamples + 1 .. Cardinality(Samples)
      <3>1. \A i \in DOMAIN queue : queue[i] = None => i = Len(queue)
        BY <2>4 DEF EInv, EndOK
      <3>2. Len(queue) = 1
        BY <1>1, <1>5, <3>1
      <3>3. proc = "ended"
        BY <2>4, EInvParts DEF StreamOK, MainOK
      <3>4. Delivered = Samples
        BY <3>3, EInvParts, AllDelivered DEF Delivered
      <3>5. Cardinality(Samples) = Trained + collected + droppedSamples
        <4>1. Cardinality(Delivered) = Trained + collected + Len(queue) - 1 + droppedSamples
          BY <1>3, <2>4 DEF AccountOK
        <4> QED
          BY <3>2, <3>4, <4>1
      <3> QED
        BY <3>5
    <2> QED
      BY <1>1, <2>1, <2>2, <2>3, <2>4 DEF AccountOK
  <1> QED
    BY <1>4, <1>5

LEMMA AccountStep ==
    ASSUME EInv, AccountOK, [Next]_vars
    PROVE  AccountOK'
  <1>0. /\ Cardinality(Delivered) \in Nat /\ Trained \in Int /\ collected \in Nat
        /\ collected < RequiredSamples /\ RequiredSamples \in Nat
        /\ Len(queue) \in Nat /\ droppedSamples \in Nat
    BY AccountTypes
  <1> USE <1>0
  <1>1. CASE RolloutAlone
    <2>1. UNCHANGED <<updates, collected, queue, droppedSamples, ending>>
      BY <1>1 DEF RolloutAlone, sysVars, queueVars, trainerVars
    <2>2. \/ UNCHANGED main
          \/ main = "streaming" /\ main' = "signalling"
          \/ main = "stopping" /\ main' = "stopped"
      BY <1>1 DEF RolloutAlone, Feed, ProcSetPaused, ProcReap, ProcPark, ProcWake,
                  ProcContinue, ProcSubmit, ResetBegins, ResetEnds, MonitorResumes,
                  MonitorExits, MainWaited, MainStops, TaskFails, TaskEnds, endVars
    <2>3. CASE ProcSubmit
      <3>1. hand \in Samples /\ task' = [task EXCEPT ![hand] = "generating"]
        BY <2>3, EInvParts DEF ProcSubmit, RInv, HandOK
      <3>2. task[hand] = "none"
        BY <3>1, EInvParts DEF FeedShape
      <3>3. Delivered' = Delivered
        BY <3>1, <3>2, EInvParts DEF Delivered
      <3> QED
        BY <2>1, <2>2, <3>3, AccountKept
    <2>4. ASSUME NEW s \in Samples, TaskFails(s) \/ TaskEnds(s)
          PROVE  AccountOK'
      <3>1. \/ task[s] = "generating" /\ task' = [task EXCEPT ![s] = "failed"]
            \/ task[s] \in {"stored", "displaced"} /\ task' = [task EXCEPT ![s] = "done"]
        BY <2>4 DEF TaskFails, TaskEnds
      <3>2. Delivered' = Delivered
        BY <3>1, EInvParts DEF Delivered
      <3> QED
        BY <2>1, <2>2, <3>2, AccountKept
    <2>5. CASE UNCHANGED task
      <3>1. Delivered' = Delivered
        BY <2>5 DEF Delivered
      <3> QED
        BY <2>1, <2>2, <3>1, AccountKept
    <2> QED
      BY <1>1, <2>3, <2>4, <2>5
      DEF RolloutAlone, Feed, ProcSetPaused, ProcReap, ProcPark, ProcWake, ProcContinue,
          ResetBegins, ResetEnds, MonitorResumes, MonitorExits, MainWaited, MainStops, taskVars
  <1>2. CASE RolloutReads
    <2>1. UNCHANGED <<updates, collected, queue, droppedSamples, ending, main, task>>
      BY <1>2 DEF RolloutReads, ProcPause, ProcFetch, ProcTake, ResetAnswered, MonitorDecides,
                  endVars, taskVars, sysVars, queueVars, trainerVars
    <2> QED
      BY <2>1, AccountKept DEF Delivered
  <1>3. ASSUME NEW s \in Samples, SampleArrives(s)
        PROVE  AccountOK'
    <2>1. /\ task[s] = "generating" /\ MQ!PutSample(s)
          /\ UNCHANGED <<main, ending, updates, collected>>
          /\ \E t \in {"stored", "displaced"} : task' = [task EXCEPT ![s] = t]
      BY <1>3 DEF SampleArrives, TaskPut, trainerVars, endVars
    <2>2. main \notin {"stopping", "stopped"}
      BY <2>1, EInvParts DEF StreamOK, MainOK, TasksOK
    <2>3. Delivered' = Delivered \union {s} /\ s \notin Delivered
      BY <2>1, EInvParts DEF Delivered
    <2>4. IsFiniteSet(Delivered)
      BY SamplesFinite DEF Delivered
    <2>5. Cardinality(Delivered') = Cardinality(Delivered) + 1
      BY <2>3, <2>4, FS_AddElement
    <2>6. Len(queue') \in Nat /\ droppedSamples' \in Nat
          /\ Len(queue') + droppedSamples' = Len(queue) + droppedSamples + 1
      BY <2>1, EInvParts, PutBalance DEF Entries
    <2>7. Trained' = Trained
      BY <2>1 DEF Trained
    <2>8. main \in {"streaming", "signalling"} =>
             Cardinality(Delivered') = Trained + collected + Len(queue') + droppedSamples'
      <3>1. main \in {"streaming", "signalling"} =>
               Cardinality(Delivered) = Trained + collected + Len(queue) + droppedSamples
        BY DEF AccountOK
      <3>2. Trained + collected + Len(queue') + droppedSamples'
               = Trained + collected + Len(queue) + droppedSamples + 1
        BY <2>6
      <3>3. CASE main \in {"streaming", "signalling"}
        <4>1. Cardinality(Delivered) = Trained + collected + Len(queue) + droppedSamples
          BY <3>1, <3>3
        <4> QED
          BY <2>5, <3>2, <4>1
      <3> QED
        BY <3>3
    <2> QED
      BY <2>1, <2>2, <2>7, <2>8 DEF AccountOK
  <1>4. CASE EndArrives
    <2>1. /\ main = "signalling" /\ MQ!PutSample(None)
          /\ UNCHANGED <<ending, updates, collected, task>>
          /\ main' \in {"failed", "stopping"}
      BY <1>4 DEF EndArrives, MainSignals, trainerVars, taskVars
    <2>2. ~ending
      BY <2>1 DEF EInv, EndOK
    <2>3. Len(queue') \in Nat /\ droppedSamples' \in Nat
          /\ Len(queue') + droppedSamples' = Len(queue) + droppedSamples + 1
      BY <2>1, EInvParts, PutBalance DEF Entries
    <2>4. Trained' = Trained /\ Delivered' = Delivered
      BY <2>1 DEF Trained, Delivered
    <2>5. Cardinality(Delivered) = Trained + collected + Len(queue') - 1 + droppedSamples'
      <3>1. Cardinality(Delivered) = Trained + collected + Len(queue) + droppedSamples
        BY <2>1 DEF AccountOK
      <3>2. Trained + collected + Len(queue') - 1 + droppedSamples'
               = Trained + collected + Len(queue) + droppedSamples
        BY <2>3
      <3> QED
        BY <3>1, <3>2
    <2> QED
      BY <2>1, <2>2, <2>4, <2>5 DEF AccountOK
  <1>5. CASE Take
    BY <1>5, AccountTake
  <1>6. CASE Wait \/ Send \/ Call \/ Answered \/ Save
    <2>1. UNCHANGED <<updates, collected, queue, droppedSamples, ending, main, task>>
      BY <1>6 DEF Wait, Send, Call, Answered, Save, MQ!GetWaits, MQ!counters, SendWeights,
                  CallReset, ResetCalled, ResetDone, SaveCheckpoint, queueVars, trainerVars,
                  rolloutVars, endVars, taskVars
    <2> QED
      BY <2>1, AccountKept DEF Delivered
  <1>7. CASE RunnerEnds
    <2>1. /\ UNCHANGED <<updates, collected, droppedSamples, ending, main, task>>
          /\ step = "stopped" /\ main \in {"stopped", "failed"}
      BY <1>7 DEF RunnerEnds, FitReturned, MQ!ClearQueue, MQ!counters, trainerVars,
                  rolloutVars, endVars, taskVars
    <2>2. ending
      BY <2>1, EInvParts DEF TInv, VersionOK
    <2>3. Trained' = Trained
      BY <2>1 DEF Trained
    <2> QED
      BY <2>1, <2>2, <2>3 DEF AccountOK
  <1>8. CASE Ended \/ UNCHANGED vars \/ \E s \in Samples : Stamp(s)
    <2>1. UNCHANGED <<updates, collected, queue, droppedSamples, ending, main, task>>
      BY <1>8 DEF Ended, Stamp, vars, sysVars, queueVars, trainerVars, rolloutVars, endVars, taskVars
    <2> QED
      BY <2>1, AccountKept DEF Delivered
  <1> QED
    BY <1>1, <1>2, <1>3, <1>4, <1>5, <1>6, <1>7, <1>8 DEF Next, Rollout, Trainer

LEMMA AccountInit == Init => AccountOK
  <1> SUFFICES ASSUME Init PROVE AccountOK
    OBVIOUS
  <1>1. Delivered = {}
    BY DEF Init, RInit, Delivered
  <1>2. Trained = 0
    BY Params DEF Init, TInit, Trained
  <1>3. Cardinality(Delivered) = 0
    BY <1>1, FS_EmptySet
  <1> QED
    BY <1>2, <1>3 DEF Init, RInit, TInit, MQ!Init, AccountOK

(* The trainer trains on every sample except those the queue counts as     *)
(* dropped and the incomplete last batch, unless a generation failed: for  *)
(* every limit, every batch size and every timing of the sync.             *)
THEOREM NoSampleLost == Spec => []EverythingTrained
  <1>1. Init => AccountOK
    BY AccountInit
  <1>2. EInv /\ AccountOK /\ [Next]_vars => AccountOK'
    BY AccountStep
  <1>3. EInv /\ AccountOK => EverythingTrained
    <2> SUFFICES ASSUME EInv, AccountOK, step = "stopped", proc # "dead"
                 PROVE  Trained + droppedSamples
                           \in Cardinality(Samples) - RequiredSamples + 1 .. Cardinality(Samples)
      BY DEF EverythingTrained, Trained
    <2>1. ending
      BY EInvParts DEF TInv, VersionOK
    <2>2. main \in {"stopping", "stopped"}
      BY <2>1, EInvParts DEF EInv, EndOK, StreamOK, MainOK, RInv, RTypeOK
    <2> QED
      BY <2>1, <2>2 DEF AccountOK
  <1> QED
    BY <1>1, <1>2, <1>3, EInvariance, PTL DEF Spec

-----------------------------------------------------------------------------
(* The load of the pipeline: the samples generated or queued, and the one  *)
(* the processor has counted and not yet submitted. A failed task and the  *)
(* end marker of the feed hold the place of the end marker in the queue.   *)

Reserved == {s \in Samples : task[s] = "generating" \/ (task[s] = "failed" /\ main # "failed")}
Work == Cardinality(Reserved) + Len(queue)

HasHand ==
    \/ proc \in {"limiting", "submitting"}
    \/ proc \in {"finishing", "ended"} /\ main \in {"streaming", "signalling"}
InHand == IF HasHand THEN 1 ELSE 0

Load == Work + InHand

LEMMA WorkTypes ==
    ASSUME EInv
    PROVE  /\ Reserved \in SUBSET Samples /\ IsFiniteSet(Reserved)
           /\ Cardinality(Reserved) \in Nat /\ Len(queue) \in Nat
           /\ Work \in Nat /\ InHand \in 0 .. 1 /\ Load \in Nat
           /\ Load = Work + InHand /\ Work = Cardinality(Reserved) + Len(queue)
  <1>1. Reserved \in SUBSET Samples
    BY DEF Reserved
  <1>2. IsFiniteSet(Reserved) /\ Cardinality(Reserved) \in Nat
    BY <1>1, SamplesFinite
  <1>3. Len(queue) \in Nat
    BY EInvParts, QueueFacts
  <1>4. InHand \in 0 .. 1
    BY DEF InHand
  <1>5. Work \in Nat /\ Work = Cardinality(Reserved) + Len(queue)
    BY <1>2, <1>3 DEF Work
  <1> QED
    BY <1>1, <1>2, <1>3, <1>4, <1>5 DEF Load

(* Only a take gives the processor a sample in hand.                       *)
LEMMA HandSteps ==
    ASSUME RInv, StreamOK, RNext
    PROVE  /\ HasHand' => HasHand \/ \E q \in 0 .. MaxRequiredSamples : ProcTake(q)
           /\ ProcSubmit => HasHand /\ ~HasHand'
           /\ MainSignals /\ proc # "dead" => HasHand /\ ~HasHand'
           /\ \A q \in 0 .. MaxRequiredSamples : ProcTake(q) => ~HasHand
  <1> USE DEF HasHand, GoTo, GoLocking, GoReleasing, GoRelocking, NotifyAll,
              feedVars, procVars, taskVars, resetVars, pauseVars, endVars
  <1>1. /\ main # "streaming" => proc \in {"ended", "dead"}
        /\ proc = "woken" => hand = None
        /\ main \in {"stopping", "stopped"} => proc = "ended"
    BY DEF StreamOK, MainOK, RInv, HandOK
  <1>2. ASSUME \A q \in 0 .. MaxRequiredSamples : ~ProcTake(q)
        PROVE  HasHand' => HasHand
    <2>1. CASE Feed \/ MonitorExits \/ MainWaited \/ MainSignals \/ MainStops
               \/ ResetCalled \/ ResetEnds \/ ResetBegins \/ MonitorResumes
      BY <2>1 DEF Feed, MonitorExits, MainWaited, MainSignals, MainStops, ResetCalled,
                  ResetEnds, ResetBegins, MonitorResumes
    <2>2. ASSUME NEW s \in Samples,
                 TaskFails(s) \/ TaskEnds(s) \/ \E ok \in BOOLEAN : TaskPut(s, ok)
          PROVE  HasHand' => HasHand
      BY <2>2 DEF TaskFails, TaskEnds, TaskPut
    <2>3. CASE ProcSetPaused \/ ProcContinue \/ ProcSubmit \/ ProcPark
      BY <2>3 DEF ProcSetPaused, ProcContinue, ProcSubmit, ProcPark
    <2>4. CASE ProcWake
      BY <1>1, <2>4 DEF ProcWake
    <2>5. CASE ProcReap
      BY <1>1, <2>5 DEF ProcReap
    <2>6. ASSUME NEW q \in 0 .. MaxRequiredSamples,
                 ProcPause(q) \/ ProcFetch(q) \/ ResetAnswered(q) \/ MonitorDecides(q)
          PROVE  HasHand' => HasHand
      BY <2>6 DEF ProcPause, ProcFetch, ResetAnswered, MonitorDecides
    <2> QED
      BY <1>2, <2>1, <2>2, <2>3, <2>4, <2>5, <2>6 DEF RNext
  <1>3. ProcSubmit => HasHand /\ ~HasHand'
    BY DEF ProcSubmit
  <1>4. MainSignals /\ proc # "dead" => HasHand /\ ~HasHand'
    BY <1>1 DEF MainSignals
  <1>5. \A q \in 0 .. MaxRequiredSamples : ProcTake(q) => ~HasHand
    BY DEF ProcTake
  <1> QED
    BY <1>2, <1>3, <1>4, <1>5

Taking == \E q \in 0 .. MaxRequiredSamples : ProcTake(q)

LEMMA PutBounds ==
    ASSUME MQ!TypeOK, NEW v \in Entries, MQ!PutSample(v)
    PROVE  Len(queue') \in Nat /\ Len(queue') <= Len(queue) + 1
  <1>1. Len(queue) \in Nat /\ droppedSamples \in Nat
    BY QueueFacts
  <1>2. /\ Len(queue') = Len(queue) + 1 - (droppedSamples' - droppedSamples)
        /\ Len(queue') \in Nat /\ droppedSamples' \in {droppedSamples, droppedSamples + 1}
    BY PutEntries
  <1> QED
    BY <1>1, <1>2

(* What a step does to the work: a submit adds to it, so does the end      *)
(* marker, a read takes from it, and nothing else makes it larger.         *)
LEMMA SameReserved ==
    ASSUME UNCHANGED task, main' = "failed" <=> main = "failed"
    PROVE  Reserved' = Reserved
  BY DEF Reserved

LEMMA FewerReserved ==
    ASSUME EInv, Reserved' \subseteq Reserved
    PROVE  /\ IsFiniteSet(Reserved') /\ Cardinality(Reserved') \in Nat
           /\ Cardinality(Reserved') <= Cardinality(Reserved)
           /\ Reserved' # Reserved => Cardinality(Reserved') < Cardinality(Reserved)
  BY WorkTypes, FS_Subset, FS_CardinalityType

WorkStep ==
    /\ Work' \in Nat
    /\ Work' <= Work + 1
    /\ Work' <= Work \/ ProcSubmit \/ (EndArrives /\ proc # "dead")
    /\ Take => Work' + 1 <= Work

LEMMA WorkSteps ==
    ASSUME EInv, [Next]_vars
    PROVE  WorkStep
  <1>0. /\ Cardinality(Reserved) \in Nat /\ Len(queue) \in Nat /\ Work \in Nat
        /\ Work = Cardinality(Reserved) + Len(queue) /\ IsFiniteSet(Reserved)
        /\ task \in [Samples -> TaskState] /\ MQ!TypeOK
    BY WorkTypes, EInvParts
  <1>1. ASSUME Reserved' \subseteq Reserved, UNCHANGED queue, ~Take
        PROVE  WorkStep
    <2>1. Cardinality(Reserved') \in Nat /\ Cardinality(Reserved') <= Cardinality(Reserved)
      BY <1>1, FewerReserved
    <2>2. Work' \in Nat /\ Work' <= Work
      BY <1>0, <1>1, <2>1 DEF Work
    <2> QED
      BY <1>0, <1>1, <2>2 DEF WorkStep
  <1>2. CASE RolloutAlone
    <2>1. UNCHANGED queue /\ UNCHANGED step /\ ~Take
      BY <1>2 DEF RolloutAlone, sysVars, queueVars, trainerVars, Take, MQ!GetSample
    <2>2. CASE ProcSubmit
      <3>1. hand \in Samples /\ task' = [task EXCEPT ![hand] = "generating"] /\ UNCHANGED main
        BY <2>2, EInvParts DEF ProcSubmit, RInv, HandOK, endVars
      <3>2. task[hand] = "none"
        BY <3>1, EInvParts DEF FeedShape
      <3>3. Reserved' = Reserved \union {hand} /\ hand \notin Reserved
        BY <1>0, <3>1, <3>2 DEF Reserved
      <3>4. Cardinality(Reserved') = Cardinality(Reserved) + 1
        BY <1>0, <3>3, FS_AddElement
      <3>5. Work' = Work + 1
        BY <1>0, <2>1, <3>4 DEF Work
      <3> QED
        BY <1>0, <2>1, <2>2, <3>5 DEF WorkStep
    <2>3. ASSUME NEW s \in Samples, TaskFails(s) \/ TaskEnds(s)
          PROVE  WorkStep
      <3>1. /\ UNCHANGED main
            /\ \/ task[s] = "generating" /\ task' = [task EXCEPT ![s] = "failed"]
               \/ task[s] \in {"stored", "displaced"} /\ task' = [task EXCEPT ![s] = "done"]
        BY <2>3 DEF TaskFails, TaskEnds, endVars
      <3>2. Reserved' \subseteq Reserved
        BY <1>0, <3>1 DEF Reserved
      <3> QED
        BY <1>1, <2>1, <3>2
    <2>4. CASE UNCHANGED task /\ (main' = "failed" <=> main = "failed")
      BY <1>1, <2>1, <2>4, SameReserved
    <2> QED
      BY <1>2, <2>2, <2>3, <2>4
      DEF RolloutAlone, Feed, ProcSetPaused, ProcReap, ProcPark, ProcWake, ProcContinue,
          ResetBegins, ResetEnds, MonitorResumes, MonitorExits, MainWaited, MainStops, taskVars,
          endVars
  <1>3. CASE RolloutReads
    <2>1. UNCHANGED <<queue, main, task>> /\ ~Take
      BY <1>3 DEF RolloutReads, ProcPause, ProcFetch, ProcTake, ResetAnswered, MonitorDecides,
                  endVars, taskVars, sysVars, queueVars, trainerVars, Take, MQ!GetSample
    <2> QED
      BY <1>1, <2>1, SameReserved
  <1>4. ASSUME NEW s \in Samples, SampleArrives(s)
        PROVE  WorkStep
    <2>1. /\ task[s] = "generating" /\ MQ!PutSample(s) /\ UNCHANGED <<main, step>>
          /\ \E t \in {"stored", "displaced"} : task' = [task EXCEPT ![s] = t]
      BY <1>4 DEF SampleArrives, TaskPut, trainerVars, endVars
    <2>2. Reserved' \subseteq Reserved /\ Reserved' # Reserved
      BY <1>0, <2>1 DEF Reserved
    <2>3. Cardinality(Reserved') \in Nat /\ Cardinality(Reserved') < Cardinality(Reserved)
      BY <2>2, FewerReserved
    <2>4. Len(queue') \in Nat /\ Len(queue') <= Len(queue) + 1
      BY <1>0, <2>1, PutBounds DEF Entries
    <2>5. Work' \in Nat /\ Work' <= Work
      BY <1>0, <2>3, <2>4 DEF Work
    <2>6. ~Take
      <3>1. task' # task
        BY <1>0, <2>1
      <3> QED
        BY <3>1 DEF Take, rolloutVars, taskVars
    <2> QED
      BY <1>0, <2>5, <2>6 DEF WorkStep
  <1>5. CASE EndArrives
    <2>1. /\ main = "signalling" /\ MQ!PutSample(None) /\ UNCHANGED <<task, step>>
          /\ IF proc = "dead" THEN main' = "failed" ELSE main' = "stopping"
      BY <1>5 DEF EndArrives, MainSignals, trainerVars, taskVars
    <2>2. Len(queue') \in Nat /\ Len(queue') <= Len(queue) + 1
      BY <1>0, <2>1, PutBounds DEF Entries
    <2>3. ~Take
      BY <2>1 DEF Take, rolloutVars, endVars
    <2>4. CASE proc = "dead"
      <3>1. \E s \in Samples : task[s] = "failed"
        BY <2>4, EInvParts DEF StreamOK, TasksOK
      <3>2. Reserved' \subseteq Reserved /\ Reserved' # Reserved
        BY <2>1, <2>4, <3>1 DEF Reserved
      <3>3. Cardinality(Reserved') \in Nat /\ Cardinality(Reserved') < Cardinality(Reserved)
        BY <3>2, FewerReserved
      <3>4. Work' \in Nat /\ Work' <= Work
        BY <1>0, <2>2, <3>3 DEF Work
      <3> QED
        BY <1>0, <2>3, <3>4 DEF WorkStep
    <2>5. CASE proc # "dead"
      <3>1. Reserved' = Reserved
        BY <2>1, <2>5, SameReserved
      <3>2. Work' \in Nat /\ Work' <= Work + 1
        BY <1>0, <2>2, <3>1 DEF Work
      <3> QED
        BY <1>5, <2>3, <2>5, <3>2 DEF WorkStep
    <2> QED
      BY <2>4, <2>5
  <1>6. CASE Take
    <2>1. UNCHANGED <<task, main>> /\ queue # << >> /\ queue' = Tail(queue)
      BY <1>6 DEF Take, MQ!GetSample, rolloutVars, taskVars, endVars
    <2>2. Reserved' = Reserved
      BY <2>1, SameReserved
    <2>3. Len(queue') \in Nat /\ Len(queue') = Len(queue) - 1
      BY <1>0, <2>1, GetEntries
    <2>4. Work' \in Nat /\ Work' + 1 = Work
      BY <1>0, <2>2, <2>3 DEF Work
    <2> QED
      BY <1>0, <2>4 DEF WorkStep
  <1>7. CASE Wait \/ Send \/ Call \/ Answered \/ Save \/ Ended \/ UNCHANGED vars
            \/ \E s \in Samples : Stamp(s)
    <2>1. UNCHANGED <<queue, main, task>>
      BY <1>7 DEF Wait, Send, Call, Answered, Save, Ended, Stamp, MQ!GetWaits, ResetCalled, queueVars,
                  rolloutVars, endVars, taskVars, vars, sysVars
    <2>2. ~Take
      BY <1>0, <2>1, QueueFacts, GetEntries DEF Take, MQ!GetSample
    <2> QED
      BY <1>1, <2>1, <2>2, SameReserved
  <1>8. CASE RunnerEnds
    <2>1. UNCHANGED <<main, task>> /\ queue' = << >> /\ step = "stopped"
      BY <1>8 DEF RunnerEnds, MQ!ClearQueue, rolloutVars, endVars, taskVars
    <2>2. Reserved' = Reserved
      BY <2>1, SameReserved
    <2>3. Work' \in Nat /\ Work' <= Work
      BY <1>0, <2>1, <2>2 DEF Work
    <2>4. ~Take
      BY <2>1 DEF Take, SeeEnd, Collect, Train
    <2> QED
      BY <1>0, <2>3, <2>4 DEF WorkStep
  <1> QED
    BY <1>2, <1>3, <1>4, <1>5, <1>6, <1>7, <1>8 DEF Next, Rollout, Trainer

(* The load never exceeds the budget by more than one: the processor looks *)
(* at staleness_samples before it takes a sample, and reset_staleness      *)
(* counts everything but the one in its hand.                              *)
LoadOK ==
    /\ Load <= MaxRequiredSamples + 1
    /\ proc \notin {"ended", "dead"} => Load <= stalenessSamples + 1
    /\ proc = "fetching" => Load <= MaxRequiredSamples
    /\ reset = "asking" => resetSum = Cardinality(activeTasks)
    /\ reset = "storing" /\ proc \notin {"ended", "dead"} => Work <= resetSum

LEMMA LoadTypes ==
    ASSUME EInv
    PROVE  /\ MaxRequiredSamples \in Nat /\ stalenessSamples \in Nat /\ resetSum \in Nat
           /\ Work \in Nat /\ InHand \in 0 .. 1 /\ Load \in Nat /\ Load = Work + InHand
  <1>1. stalenessSamples \in Nat /\ resetSum \in Nat
    BY EInvParts DEF RInv, RTypeOK
  <1> QED
    BY <1>1, WorkTypes, Params

LEMMA Sums ==
    \A a, b, c, d \in Int :
       /\ a + 1 <= c => a <= c
       /\ a <= c /\ b <= d => a + b <= c + d
       /\ a + 1 <= c /\ b <= d => a + b + 1 <= c + d
       /\ a <= c /\ b <= d + 1 => a + b <= c + d + 1
       /\ a <= c + 1 /\ b + 1 <= d => a + b <= c + d
  OBVIOUS

(* Every step but a take leaves the load as it is or lowers it.            *)
LEMMA LoadSteps ==
    ASSUME EInv, [Next]_vars
    PROVE  /\ Load' \in Nat
           /\ Taking => Work' <= Work /\ Load' <= Load + 1 /\ InHand = 0
           /\ ~Taking => Load' <= Load
           /\ Take => Load' + 1 <= Load
  <1>1. /\ Work \in Nat /\ InHand \in 0 .. 1 /\ Load = Work + InHand
        /\ Work \in Int /\ InHand \in Int
    BY LoadTypes
  <1>2. InHand' \in 0 .. 1 /\ InHand' \in Int /\ Load' = Work' + InHand'
    BY DEF InHand, Load
  <1>3. Work' \in Nat /\ Work' \in Int /\ Work' <= Work + 1
    BY WorkSteps DEF WorkStep
  <1>4. Work' <= Work \/ ProcSubmit \/ (EndArrives /\ proc # "dead")
    BY WorkSteps DEF WorkStep
  <1>5. /\ ~Taking => (HasHand' => HasHand)
        /\ ProcSubmit => HasHand /\ ~HasHand'
        /\ EndArrives /\ proc # "dead" => HasHand /\ ~HasHand'
        /\ Taking => ~HasHand
    <2>1. [RNext]_rolloutVars
      BY EInvParts, RolloutSteps
    <2>2. CASE RNext
      BY <2>2, EInvParts, HandSteps DEF Taking, EndArrives
    <2>3. CASE UNCHANGED rolloutVars
      <3>1. UNCHANGED <<proc, main, hand>>
        BY <2>3 DEF rolloutVars, procVars, endVars
      <3>2. ~ProcSubmit /\ ~MainSignals /\ ~Taking
        BY <3>1 DEF ProcSubmit, MainSignals, Taking, ProcTake, GoTo, GoLocking, GoReleasing
      <3> QED
        BY <3>1, <3>2 DEF HasHand, EndArrives
    <2> QED
      BY <2>1, <2>2, <2>3
  <1>6. ProcSubmit \/ EndArrives => ~Taking
    BY DEF ProcSubmit, EndArrives, MainSignals, Taking, ProcTake, GoTo, GoLocking, GoReleasing,
           procVars
  <1>7. Load' \in Nat
    <2>1. \A w \in Nat, h \in 0 .. 1 : w + h \in Nat
      OBVIOUS
    <2> QED
      BY <1>2, <1>3, <2>1, Zenon
  <1>8. CASE Taking
    <2>1. InHand = 0 /\ Work' <= Work
      BY <1>4, <1>5, <1>6, <1>8 DEF InHand
    <2>2. ~Take
      BY <1>8 DEF Take, Taking, ProcTake, GoTo, GoLocking, rolloutVars, procVars
    <2>3. InHand' <= InHand + 1
      BY <1>2, <2>1
    <2>4. Load' <= Load + 1
      BY <1>1, <1>2, <1>3, <2>1, <2>3, Sums, Zenon
    <2> QED
      BY <1>8, <1>7, <2>1, <2>2, <2>4
  <1>9. CASE Take
    <2>1. ~Taking
      BY <1>9 DEF Take, Taking, ProcTake, GoTo, GoLocking, rolloutVars, procVars
    <2>2. InHand' <= InHand
      BY <1>5, <2>1 DEF InHand
    <2>3. Work' + 1 <= Work
      BY <1>9, WorkSteps DEF WorkStep
    <2>4. Load' + 1 <= Load
      BY <1>1, <1>2, <1>3, <2>2, <2>3, Sums, Zenon
    <2>5. Work' <= Work
      BY <1>1, <1>3, <2>3, Sums, Zenon
    <2>6. Load' <= Load
      BY <1>1, <1>2, <1>3, <2>2, <2>5, Sums, Zenon
    <2> QED
      BY <1>7, <2>1, <2>4, <2>6
  <1>10. CASE ~Taking /\ ~Take /\ Work' <= Work
    <2>1. InHand' <= InHand
      BY <1>5, <1>10 DEF InHand
    <2>2. Work' <= Work
      BY <1>10
    <2>3. Load' <= Load
      BY <1>1, <1>2, <1>3, <2>1, <2>2, Sums, Zenon
    <2> QED
      BY <1>10, <1>7, <2>3
  <1>11. CASE ~Taking /\ ~Take /\ ~(Work' <= Work)
    <2>1. InHand = 1 /\ InHand' = 0
      BY <1>4, <1>5, <1>11 DEF InHand
    <2>2. InHand' + 1 <= InHand
      BY <2>1
    <2>3. Load' <= Load
      BY <1>1, <1>2, <1>3, <2>2, Sums, Zenon
    <2> QED
      BY <1>11, <1>7, <2>3
  <1> QED
    BY <1>8, <1>9, <1>10, <1>11

(* The counter the processor looks at.                                     *)
LEMMA StalenessSteps ==
    ASSUME [RNext]_rolloutVars
    PROVE  /\ Taking => stalenessSamples' = stalenessSamples + 1
           /\ ResetEnds => stalenessSamples' = resetSum
           /\ ~Taking /\ ~ResetEnds => UNCHANGED stalenessSamples
  <1>1. Taking => stalenessSamples' = stalenessSamples + 1
    BY DEF Taking, ProcTake
  <1>2. ResetEnds => stalenessSamples' = resetSum
    BY DEF ResetEnds
  <1>3. ~Taking /\ ~ResetEnds => UNCHANGED stalenessSamples
    BY DEF RNext, Feed, ProcSetPaused, ProcReap, ProcPark, ProcWake, ProcContinue, ProcSubmit,
           ResetCalled, ResetBegins, MonitorResumes, MonitorExits, Taking,
           MainWaited, MainSignals, MainStops, ProcPause, ProcFetch, ResetAnswered,
           MonitorDecides, TaskFails, TaskEnds, TaskPut, pauseVars, rolloutVars
  <1> QED
    BY <1>1, <1>2, <1>3

(* While reset_staleness computes its sum it holds the lock, so no task is *)
(* added or removed.                                                       *)
LEMMA ResetHoldsTasks ==
    ASSUME RInv, [RNext]_rolloutVars, reset \in {"asking", "storing"}
    PROVE  UNCHANGED activeTasks /\ ~ProcSubmit
  <1>1. Holds("reset")
    BY DEF RInv, LockDiscipline
  <1>2. ~Holds("proc")
    BY <1>1 DEF Holds
  <1>3. ~ProcSubmit /\ ~ProcReap
    BY <1>2 DEF ProcSubmit, ProcReap
  <1>4. UNCHANGED activeTasks
    BY <1>3 DEF RNext, Feed, ProcSetPaused, ProcPark, ProcWake, ProcContinue,
           ResetCalled, ResetBegins, ResetEnds, MonitorResumes, MonitorExits, ProcTake,
           MainWaited, MainSignals, MainStops, ProcPause, ProcFetch, ResetAnswered,
           MonitorDecides, TaskFails, TaskEnds, TaskPut, procVars, rolloutVars
  <1> QED
    BY <1>3, <1>4

(* How the call of reset_staleness moves on in the pipeline.               *)
LEMMA ResetSteps ==
    ASSUME [Next]_vars
    PROVE  \/ UNCHANGED resetVars
           \/ Call /\ reset = "none" /\ reset' = "locking" /\ UNCHANGED resetSum
           \/ ResetBegins
           \/ ResetAnswered(QueueSize) /\ UNCHANGED queue
           \/ ResetEnds
  <1>1. CASE RolloutAlone
    BY <1>1, Zenon
    DEF RolloutAlone, Feed, ProcSetPaused, ProcReap, ProcPark, ProcWake, ProcContinue,
        ProcSubmit, MonitorResumes, MonitorExits, MainWaited, MainStops, TaskFails, TaskEnds
  <1>2. CASE RolloutReads
    <2>1. UNCHANGED queue
      BY <1>2 DEF RolloutReads, sysVars, queueVars
    <2>2. CASE ResetAnswered(QueueSize)
      BY <2>1, <2>2
    <2>3. CASE ~ResetAnswered(QueueSize)
      BY <1>2, <2>3 DEF RolloutReads, ProcPause, ProcFetch, ProcTake, MonitorDecides
    <2> QED
      BY <2>2, <2>3
  <1>3. CASE EndArrives
    BY <1>3 DEF EndArrives, MainSignals
  <1>4. ASSUME NEW s \in Samples, SampleArrives(s)
        PROVE  UNCHANGED resetVars
    BY <1>4 DEF SampleArrives, TaskPut
  <1>5. CASE Call
    BY <1>5 DEF Call, ResetCalled
  <1>6. CASE Take \/ Wait \/ Send \/ Answered \/ Save \/ RunnerEnds \/ Ended \/ UNCHANGED vars
            \/ \E s \in Samples : Stamp(s)
    BY <1>6 DEF Take, Wait, Send, Answered, Save, RunnerEnds, Ended, Stamp, vars, rolloutVars
  <1> QED
    BY <1>1, <1>2, <1>3, <1>4, <1>5, <1>6 DEF Next, Rollout, Trainer

(* The processor is at the top of its loop below the limit when it waits   *)
(* for an entry or takes one.                                              *)
LEMMA TakesBelowLimit ==
    ASSUME EInv, LoadOK, [Next]_vars
    PROVE  /\ Taking => Load <= MaxRequiredSamples
           /\ proc' = "fetching" => Load <= MaxRequiredSamples /\ ~Taking
  <1>1. /\ MaxRequiredSamples \in Nat /\ stalenessSamples \in Nat /\ Load \in Nat
    BY LoadTypes
  <1>2. ASSUME proc = "loop", NEW q \in 0 .. MaxRequiredSamples, ~ShouldPause(q)
        PROVE  Load <= MaxRequiredSamples
    <2>1. Load <= stalenessSamples + 1
      BY <1>2 DEF LoadOK
    <2>2. ~(stalenessSamples >= MaxRequiredSamples)
      BY <1>2 DEF ShouldPause
    <2> QED
      BY <1>1, <2>1, <2>2
  <1>3. Taking => Load <= MaxRequiredSamples
    BY <1>2 DEF Taking, ProcTake, LoadOK
  <1>4. ASSUME proc' = "fetching" PROVE Load <= MaxRequiredSamples /\ ~Taking
    <2>1. [RNext]_rolloutVars
      BY EInvParts, RolloutSteps
    <2>2. ~Taking
      BY <1>4 DEF Taking, ProcTake, GoTo, GoLocking
    <2>3. proc = "fetching" \/ \E q \in 0 .. MaxRequiredSamples : ProcFetch(q)
      BY <1>4, <2>1, <2>2
      DEF RNext, Feed, ProcSetPaused, ProcReap, ProcPark, ProcWake, ProcContinue, ProcSubmit,
          ResetCalled, ResetBegins, ResetEnds, MonitorResumes, MonitorExits, MainWaited,
          MainSignals, MainStops, ProcPause, ResetAnswered, MonitorDecides, TaskFails,
          TaskEnds, TaskPut, Taking, NotifyAll, GoTo, GoLocking, GoReleasing, GoRelocking,
          procVars, rolloutVars
    <2> QED
      BY <1>2, <2>2, <2>3 DEF ProcFetch, LoadOK
  <1> QED
    BY <1>3, <1>4

LEMMA LoadStep ==
    ASSUME EInv, LoadOK, [Next]_vars
    PROVE  LoadOK'
  <1>0. /\ MaxRequiredSamples \in Nat /\ stalenessSamples \in Nat /\ resetSum \in Nat
        /\ Work \in Nat /\ InHand \in 0 .. 1 /\ Load \in Nat /\ Load = Work + InHand
    BY LoadTypes
  <1>1. /\ Load' \in Nat
        /\ Taking => Work' <= Work /\ Load' <= Load + 1 /\ InHand = 0
        /\ ~Taking => Load' <= Load
    BY LoadSteps
  <1>2. [RNext]_rolloutVars
    BY EInvParts, RolloutSteps
  <1>3. /\ Taking => stalenessSamples' = stalenessSamples + 1
        /\ ResetEnds => stalenessSamples' = resetSum
        /\ ~Taking /\ ~ResetEnds => UNCHANGED stalenessSamples
    BY <1>2, StalenessSteps
  <1>4. /\ Taking => Load <= MaxRequiredSamples
        /\ proc' = "fetching" => Load <= MaxRequiredSamples /\ ~Taking
    BY TakesBelowLimit
  <1>5. proc' \notin {"ended", "dead"} => proc \notin {"ended", "dead"}
    BY <1>2
    DEF RNext, Feed, ProcSetPaused, ProcReap, ProcPark, ProcWake, ProcContinue, ProcSubmit,
        ResetCalled, ResetBegins, ResetEnds, MonitorResumes, MonitorExits, MainWaited,
        MainSignals, MainStops, ProcPause, ProcFetch, ProcTake, ResetAnswered, MonitorDecides,
        TaskFails, TaskEnds, TaskPut, NotifyAll, procVars, rolloutVars
  <1>6. Load' <= MaxRequiredSamples + 1
    <2>1. CASE Taking
      <3>1. Load' <= Load + 1 /\ Load <= MaxRequiredSamples
        BY <1>1, <1>4, <2>1
      <3> QED
        BY <1>0, <1>1, <3>1
    <2>2. CASE ~Taking
      <3>1. Load' <= Load /\ Load <= MaxRequiredSamples + 1
        BY <1>1, <2>2 DEF LoadOK
      <3> QED
        BY <1>0, <1>1, <3>1
    <2> QED
      BY <2>1, <2>2
  <1>7. ASSUME proc' \notin {"ended", "dead"}
        PROVE  Load' <= stalenessSamples' + 1
    <2>1. Load <= stalenessSamples + 1 /\ proc \notin {"ended", "dead"}
      BY <1>5, <1>7 DEF LoadOK
    <2>2. CASE Taking
      <3>1. Load' <= Load + 1 /\ stalenessSamples' = stalenessSamples + 1
        BY <1>1, <1>3, <2>2
      <3>2. Load + 1 <= stalenessSamples + 1 + 1
        BY <1>0, <2>1
      <3> QED
        BY <1>0, <1>1, <3>1, <3>2
    <2>3. CASE ResetEnds
      <3>1. ~Taking /\ stalenessSamples' = resetSum
        BY <1>3, <2>3 DEF ResetEnds, Taking, ProcTake, resetVars
      <3>2. Load' <= Load
        BY <1>1, <3>1
      <3>3. Work <= resetSum
        BY <2>1, <2>3 DEF ResetEnds, LoadOK
      <3>4. Load <= resetSum + 1
        BY <1>0, <3>3
      <3> QED
        BY <1>0, <1>1, <3>1, <3>2, <3>4
    <2>4. CASE ~Taking /\ ~ResetEnds
      <3>1. Load' <= Load /\ stalenessSamples' = stalenessSamples
        BY <1>1, <1>3, <2>4
      <3> QED
        BY <1>0, <1>1, <2>1, <3>1
    <2> QED
      BY <2>2, <2>3, <2>4
  <1>8. ASSUME proc' = "fetching" PROVE Load' <= MaxRequiredSamples
    <2>1. Load' <= Load /\ Load <= MaxRequiredSamples
      BY <1>1, <1>4, <1>8
    <2> QED
      BY <1>0, <1>1, <2>1
  <1>9. ASSUME reset' = "asking" PROVE resetSum' = Cardinality(activeTasks')
    <2>1. CASE UNCHANGED resetVars
      <3>1. reset = "asking" /\ resetSum' = resetSum
        BY <1>9, <2>1 DEF resetVars
      <3>2. UNCHANGED activeTasks
        BY <1>2, <3>1, EInvParts, ResetHoldsTasks
      <3> QED
        BY <3>1, <3>2 DEF LoadOK
    <2>2. CASE ResetBegins
      BY <2>2 DEF ResetBegins
    <2> QED
      BY <1>9, <2>1, <2>2, ResetSteps DEF ResetAnswered, ResetEnds
  <1>10. ASSUME reset' = "storing", proc' \notin {"ended", "dead"}
         PROVE  Work' <= resetSum'
    <2>1. proc \notin {"ended", "dead"}
      BY <1>5, <1>10
    <2>2. CASE UNCHANGED resetVars
      <3>1. reset = "storing" /\ resetSum' = resetSum
        BY <1>10, <2>2 DEF resetVars
      <3>2. Work <= resetSum
        BY <2>1, <3>1 DEF LoadOK
      <3>3. ~ProcSubmit
        BY <1>2, <3>1, EInvParts, ResetHoldsTasks
      <3>4. ~EndArrives
        BY <2>1, EInvParts DEF EndArrives, MainSignals, StreamOK, MainOK
      <3>5. Work' \in Nat /\ Work' <= Work
        BY <3>3, <3>4, WorkSteps DEF WorkStep
      <3> QED
        BY <1>0, <3>1, <3>2, <3>5
    <2>3. CASE ResetAnswered(QueueSize) /\ UNCHANGED queue
      <3>1. /\ resetSum' = resetSum + Len(queue) /\ resetSum = Cardinality(activeTasks)
            /\ UNCHANGED <<task, main>>
        BY <2>3 DEF ResetAnswered, QueueSize, LoadOK, taskVars, endVars
      <3>2. Reserved \subseteq activeTasks
        BY <2>1, EInvParts DEF Reserved, StreamOK, TasksOK
      <3>3. Cardinality(Reserved) <= Cardinality(activeTasks)
        BY <3>2, EInvParts, SamplesFinite, FS_Subset
      <3>4. Cardinality(activeTasks) \in Nat
        BY EInvParts, SamplesFinite
      <3>5. Cardinality(Reserved) \in Nat /\ Len(queue) \in Nat
            /\ Work = Cardinality(Reserved) + Len(queue)
        BY WorkTypes
      <3>6. Work <= Cardinality(activeTasks) + Len(queue)
        BY <3>3, <3>4, <3>5
      <3>7. Work' = Work
        BY <2>3, <3>1 DEF Work, Reserved
      <3> QED
        BY <3>1, <3>6, <3>7
    <2> QED
      BY <1>10, <2>2, <2>3, ResetSteps DEF ResetBegins, ResetEnds
  <1> QED
    BY <1>6, <1>7, <1>8, <1>9, <1>10 DEF LoadOK

LEMMA LoadInit == Init => LoadOK
  <1> SUFFICES ASSUME Init PROVE LoadOK
    OBVIOUS
  <1>1. Reserved = {}
    BY DEF Init, RInit, Reserved
  <1>2. Cardinality(Reserved) = 0 /\ Len(queue) = 0
    BY <1>1, FS_EmptySet DEF Init, MQ!Init
  <1>3. InHand = 0 /\ proc = "loop" /\ stalenessSamples = 0 /\ reset = "none"
    BY DEF Init, RInit, InHand, HasHand
  <1>4. Load = 0
    BY <1>2, <1>3 DEF Load, Work
  <1> QED
    BY <1>3, <1>4, Params DEF LoadOK

LEMMA LoadInvariance == Spec => []LoadOK
  <1>1. Init => LoadOK
    BY LoadInit
  <1>2. EInv /\ LoadOK /\ [Next]_vars => LoadOK'
    BY LoadStep
  <1> QED
    BY <1>1, <1>2, EInvariance, PTL DEF Spec

(* What is queued, without the end marker.                                 *)
LEMMA QueuedBound ==
    ASSUME EInv
    PROVE  /\ IsFiniteSet(Queued) /\ Cardinality(Queued) \in Nat
           /\ Cardinality(Queued) <= Len(queue)
  <1> DEFINE all == {queue[i] : i \in DOMAIN queue}
  <1>0. Len(queue) \in Nat
    BY WorkTypes
  <1>1. DOMAIN queue = 1 .. Len(queue)
    BY EInvParts, QueueFacts
  <1>2. IsFiniteSet(1 .. Len(queue)) /\ Cardinality(1 .. Len(queue)) = Len(queue)
    <2> DEFINE n == Len(queue)
    <2>1. 1 \in Int /\ n \in Int /\ n >= 0
      BY <1>0
    <2> HIDE DEF n
    <2>2. /\ IsFiniteSet(1 .. n)
          /\ Cardinality(1 .. n) = IF 1 > n THEN 0 ELSE n - 1 + 1
      BY <2>1, FS_Interval
    <2>3. Cardinality(1 .. n) = n
      BY <2>1, <2>2
    <2> QED
      BY <2>2, <2>3 DEF n
  <1>3. IsFiniteSet(all) /\ Cardinality(all) <= Len(queue)
    <2> DEFINE f == [i \in DOMAIN queue |-> queue[i]]
    <2>1. f \in Surjection(DOMAIN queue, all)
      BY DEF Surjection
    <2> QED
      BY <1>1, <1>2, <2>1, FS_Surjection
  <1>4. Queued \subseteq all
    BY DEF Queued
  <1>5. IsFiniteSet(Queued) /\ Cardinality(Queued) <= Cardinality(all)
    BY <1>3, <1>4, FS_Subset
  <1>6. Cardinality(Queued) \in Nat /\ Cardinality(all) \in Nat
    BY <1>3, <1>5, FS_CardinalityType
  <1> HIDE DEF all
  <1> QED
    BY <1>0, <1>3, <1>5, <1>6

(* What is generated or queued is part of the load.                        *)
LEMMA OutstandingInLoad ==
    ASSUME EInv
    PROVE  Outstanding \in Nat /\ Outstanding <= Load
  <1>1. /\ Cardinality(Reserved) \in Nat /\ Len(queue) \in Nat /\ InHand \in 0 .. 1
        /\ Load = Cardinality(Reserved) + Len(queue) + InHand /\ IsFiniteSet(Reserved)
    BY WorkTypes
  <1>2. InFlight \subseteq Reserved
    BY DEF InFlight, Reserved
  <1>3. Cardinality(InFlight) \in Nat /\ Cardinality(InFlight) <= Cardinality(Reserved)
    BY <1>1, <1>2, FS_Subset, FS_CardinalityType
  <1>4. Cardinality(Queued) \in Nat /\ Cardinality(Queued) <= Len(queue)
    BY QueuedBound
  <1> QED
    BY <1>1, <1>3, <1>4 DEF Outstanding

(* Never more than one sample over the documented budget is generated or   *)
(* queued, for every limit and every interleaving: reset_staleness misses  *)
(* at most the one the processor has in hand (rollouter:246 and 462).      *)
THEOREM BudgetMissedByOne == Spec => []AtMostOneOver
  <1>1. EInv /\ LoadOK => AtMostOneOver
    <2> SUFFICES ASSUME EInv, LoadOK PROVE Outstanding <= MaxRequiredSamples + 1
      BY DEF AtMostOneOver
    <2>1. Outstanding \in Nat /\ Outstanding <= Load
      BY OutstandingInLoad
    <2>2. Load \in Nat /\ MaxRequiredSamples \in Nat /\ Load <= MaxRequiredSamples + 1
      BY LoadTypes DEF LoadOK
    <2> QED
      BY <2>1, <2>2
  <1> QED
    BY <1>1, EInvariance, LoadInvariance, PTL

-----------------------------------------------------------------------------
(* The budget where the event loop keeps up and the processor is never     *)
(* throttled across a reset. The invariant adds to the load the samples    *)
(* the trainer has consumed since the version the rollouter last counted   *)
(* its staleness for: together they stay within the budget, and within     *)
(* the counter the processor looks at.                                     *)

Consumed ==
    IF ending THEN 0
    ELSE IF step \in {"syncing", "calling"} \/ reset = "locking" THEN OneVersion
    ELSE Local

(* What holds in every timing: the trainer waits for its reset call, only  *)
(* a full set of tasks throttles the processor, and the servers run the    *)
(* current version except while it is being sent.                          *)
ResetWaited == reset # "none" => step = "resetting"
ThrottledOK == proc = "limiting" => Cardinality(activeTasks) >= MaxConcurrentSamples
StampOK ==
    ~ending => served.version = IF step = "syncing" THEN currentParamVersion - 1
                                                    ELSE currentParamVersion
SideOK == ResetWaited /\ ThrottledOK /\ StampOK

LEMMA ProductNat == \A a, b \in Nat : a * b \in Nat
  OBVIOUS

LEMMA ProductPos == \A a, b \in Nat \ {0} : a * b \in Nat \ {0}
  OBVIOUS

LEMMA LocalTypes ==
    ASSUME EInv
    PROVE  /\ OneVersion \in Nat \ {0} /\ Local \in Nat /\ Consumed \in Nat
           /\ localTriggerStep \in 1 .. TriggerParameterSyncStep
           /\ collected \in 0 .. RequiredSamples - 1
           /\ currentParamVersion \in Nat
           /\ step \in {"syncing", "calling", "resetting"} => Local = 0
           /\ step = "collecting" => ~ending
           /\ step \in StepState /\ ending \in BOOLEAN
  <1>1. /\ localTriggerStep \in 1 .. TriggerParameterSyncStep
        /\ collected \in 0 .. RequiredSamples - 1 /\ currentParamVersion \in Nat
        /\ step \in StepState
    BY EInvParts DEF TInv, TTypeOK
  <1>2. ending \in BOOLEAN
    BY EInvParts DEF TInv, TTypeOK
  <1>3. OneVersion \in Nat \ {0}
    BY Params, ProductPos DEF OneVersion
  <1>4. (localTriggerStep - 1) * RequiredSamples \in Nat
    <2>1. localTriggerStep - 1 \in Nat /\ RequiredSamples \in Nat
      BY <1>1, Params
    <2> QED
      BY <2>1, ProductNat
  <1>5. Local \in Nat
    BY <1>1, <1>4, Params DEF Local
  <1>6. Consumed \in Nat
    BY <1>3, <1>5 DEF Consumed
  <1>7. ASSUME step \in {"syncing", "calling", "resetting"} PROVE Local = 0
    <2>1. localTriggerStep = 1 /\ collected = 0
      BY <1>7, EInvParts DEF TInv, VersionOK
    <2> QED
      BY <2>1, Params DEF Local
  <1>8. step = "collecting" => ~ending
    BY EInvParts DEF TInv, VersionOK
  <1> QED
    BY <1>1, <1>2, <1>3, <1>5, <1>6, <1>7, <1>8

(* The steps of the pipeline that move the trainer.                        *)
LEMMA TrainerMoves ==
    ASSUME EInv, SideOK, [Next]_vars
    PROVE  \/ UNCHANGED trainerVars /\ ~Take /\ (reset' = "locking" => reset = "locking")
           \/ Take /\ Collect /\ UNCHANGED <<reset, stalenessSamples, bornIn>>
           \/ Take /\ Train /\ UNCHANGED <<reset, stalenessSamples, bornIn>>
           \/ Take /\ SeeEnd /\ UNCHANGED <<reset, stalenessSamples, bornIn>>
           \/ Send /\ ~Take
           \/ Call /\ ~Take
           \/ Answered /\ ~Take
           \/ Save /\ ~Take
  <1>1. CASE Rollout
    <2>1. UNCHANGED trainerVars
      BY <1>1, Zenon DEF Rollout, RolloutAlone, RolloutReads, EndArrives, Stamp, SampleArrives, sysVars
    <2>2. ~Take
      BY <2>1, LocalTypes DEF Take, Collect, Train, SeeEnd, trainerVars, versionVars
    <2>3. reset' = "locking" => reset = "locking"
      <3>1. ~Call
        BY <2>1 DEF Call, CallReset, trainerVars
      <3> QED
        BY <3>1, ResetSteps DEF ResetBegins, ResetAnswered, ResetEnds, resetVars
    <2> QED
      BY <2>1, <2>2, <2>3
  <1>2. CASE Take
    BY <1>2 DEF Take, rolloutVars, resetVars, pauseVars
  <1>3. CASE Send \/ Call \/ Answered \/ Save
    BY <1>3 DEF Take, Send, Call, Answered, Save, Collect, Train, SeeEnd, SendWeights, CallReset,
       ResetDone, SaveCheckpoint
  <1>4. CASE Wait \/ RunnerEnds \/ Ended \/ UNCHANGED vars
    <2>1. UNCHANGED trainerVars /\ UNCHANGED reset
      BY <1>4 DEF Wait, RunnerEnds, Ended, vars, sysVars, rolloutVars, resetVars
    <2>2. ~Take
      BY <2>1, LocalTypes DEF Take, Collect, Train, SeeEnd, trainerVars, versionVars
    <2> QED
      BY <2>1, <2>2
  <1> QED
    BY <1>1, <1>2, <1>3, <1>4 DEF Next, Trainer

LEMMA SideStep ==
    ASSUME EInv, SideOK, [Next]_vars
    PROVE  SideOK'
  <1>1. ResetWaited'
    <2>1. CASE UNCHANGED resetVars
      BY <2>1, TrainerMoves
      DEF SideOK, ResetWaited, resetVars, trainerVars, Collect, Train, SeeEnd, Send, SendWeights,
          Call, ResetCalled, Answered, ResetDone, Save, SaveCheckpoint
    <2>2. CASE Call
      BY <2>2 DEF Call, CallReset, ResetWaited
    <2>3. ASSUME ~Call, ~UNCHANGED resetVars
          PROVE  ResetWaited'
      <3>1. ResetBegins \/ ResetAnswered(QueueSize) \/ ResetEnds
        BY <2>3, ResetSteps
      <3>2. reset \in {"locking", "asking", "storing"} /\ step = "resetting"
        BY <3>1 DEF ResetBegins, ResetAnswered, ResetEnds, SideOK, ResetWaited
      <3>3. UNCHANGED step \/ Answered
        BY <2>3, <3>2, TrainerMoves
        DEF trainerVars, Collect, Train, SeeEnd, Send, SendWeights, Save, SaveCheckpoint
      <3>4. ~Answered
        BY <3>2 DEF Answered
      <3> QED
        BY <3>2, <3>3, <3>4 DEF ResetWaited
    <2> QED
      BY <2>1, <2>2, <2>3
  <1>2. ThrottledOK'
    <2>1. [RNext]_rolloutVars
      BY EInvParts, RolloutSteps
    <2>2. CASE ProcReap
      <3>1. activeTasks' \subseteq Samples
        BY <2>2, EInvParts DEF ProcReap
      <3>2. Cardinality(activeTasks') \in Nat /\ MaxConcurrentSamples \in Nat
        BY <3>1, SamplesFinite, LimitsAssumption
      <3>3. proc' = "limiting" => ~(Cardinality(activeTasks') < MaxConcurrentSamples)
        BY <2>2 DEF ProcReap, GoReleasing, GoRelocking
      <3> QED
        BY <3>2, <3>3 DEF ThrottledOK
    <2>3. CASE Taking
      BY <2>3 DEF Taking, ProcTake, ThrottledOK, GoTo, GoLocking
    <2>4. CASE ProcSubmit
      BY <2>4 DEF ProcSubmit, ThrottledOK, GoReleasing
    <2>5. ASSUME ~ProcReap, ~Taking, ~ProcSubmit
          PROVE  UNCHANGED activeTasks /\ (proc' = "limiting" => proc = "limiting")
      BY <2>1, <2>5
      DEF RNext, Feed, ProcSetPaused, ProcPark, ProcWake, ProcContinue,
          ResetCalled, ResetBegins, ResetEnds, MonitorResumes, MonitorExits, MainWaited,
          MainSignals, MainStops, ProcPause, ProcFetch, Taking, ResetAnswered, MonitorDecides,
          TaskFails, TaskEnds, TaskPut, NotifyAll, GoTo, GoLocking, GoReleasing, GoRelocking,
          procVars, rolloutVars
    <2>6. CASE UNCHANGED activeTasks /\ (proc' = "limiting" => proc = "limiting")
      BY <2>6 DEF SideOK, ThrottledOK
    <2> QED
      BY <2>2, <2>3, <2>4, <2>5, <2>6
  <1>3. StampOK'
    <2>1. currentParamVersion \in Nat /\ (step = "collecting" => ~ending)
      BY LocalTypes
    <2>2. CASE UNCHANGED trainerVars
      BY <2>2 DEF SideOK, StampOK, trainerVars, versionVars
    <2>3. CASE Collect \/ Train \/ SeeEnd
      BY <2>1, <2>3 DEF SideOK, StampOK, Collect, Train, SeeEnd, versionVars
    <2>4. CASE Send \/ Call \/ Answered \/ Save
      BY <2>4 DEF SideOK, StampOK, Send, SendWeights, Call, CallReset, Answered, ResetDone, Save,
                  SaveCheckpoint, versionVars
    <2> QED
      BY <2>2, <2>3, <2>4, TrainerMoves
  <1> QED
    BY <1>1, <1>2, <1>3 DEF SideOK

LEMMA SideInit == Init => SideOK
  BY Params DEF Init, RInit, TInit, SideOK, ResetWaited, ThrottledOK, StampOK

LEMMA SideInvariance == Spec => []SideOK
  <1>1. EInv /\ SideOK /\ [Next]_vars => SideOK'
    BY SideStep
  <1> QED
    BY <1>1, SideInit, EInvariance, PTL DEF Spec

(* A read moves the trainer on by one sample.                              *)
LEMMA LocalSteps ==
    ASSUME EInv
    PROVE  /\ Collect => Local' = Local + 1 /\ UNCHANGED currentParamVersion
           /\ Train => \/ /\ Local' = Local + 1 /\ UNCHANGED currentParamVersion
                          /\ step' = "saving"
                       \/ /\ Local + 1 = OneVersion /\ Local' = 0
                          /\ currentParamVersion' = currentParamVersion + 1
                          /\ step' = "syncing"
  <1>1. /\ localTriggerStep \in Int /\ RequiredSamples \in Int /\ collected \in Int
        /\ localTriggerStep \in 1 .. TriggerParameterSyncStep
        /\ TriggerParameterSyncStep \in Int
        /\ (localTriggerStep - 1) * RequiredSamples
              = localTriggerStep * RequiredSamples - RequiredSamples
        /\ localTriggerStep * RequiredSamples \in Int
        /\ (localTriggerStep - 1) * RequiredSamples \in Int
    BY LocalTypes, Params, TimesSucc
  <1>2. Local' = (localTriggerStep' - 1) * RequiredSamples + collected'
    BY DEF Local
  <1>3. ASSUME Collect PROVE Local' = Local + 1 /\ UNCHANGED currentParamVersion
    <2>1. /\ collected' = collected + 1 /\ localTriggerStep' = localTriggerStep
          /\ UNCHANGED currentParamVersion
      BY <1>3 DEF Collect, versionVars
    <2>2. Local' = (localTriggerStep - 1) * RequiredSamples + (collected + 1)
      BY <2>1 DEF Local
    <2>3. Local' = Local + 1
      BY <1>1, <2>2 DEF Local
    <2> QED
      BY <2>1, <2>3
  <1>4. ASSUME Train
        PROVE  \/ /\ Local' = Local + 1 /\ UNCHANGED currentParamVersion
                  /\ step' = "saving"
               \/ /\ Local + 1 = OneVersion /\ Local' = 0
                  /\ currentParamVersion' = currentParamVersion + 1
                  /\ step' = "syncing"
    <2>1. collected + 1 = RequiredSamples /\ collected' = 0
      BY <1>4 DEF Train
    <2>2. Local + 1 = localTriggerStep * RequiredSamples
      BY <1>1, <2>1 DEF Local
    <2>3. CASE localTriggerStep < TriggerParameterSyncStep
      <3>1. /\ step' = "saving" /\ localTriggerStep' = localTriggerStep + 1
            /\ UNCHANGED currentParamVersion
        BY <1>4, <2>3 DEF Train
      <3>2. \A x, y \in Int : x = localTriggerStep + 1 /\ y = 0 =>
               (x - 1) * RequiredSamples + y = localTriggerStep * RequiredSamples
        BY <1>1
      <3>3. localTriggerStep' \in Int /\ collected' \in Int
        BY <1>1, <2>1, <3>1
      <3>4. Local' = localTriggerStep * RequiredSamples
        BY <1>2, <2>1, <3>1, <3>2, <3>3, Zenon
      <3> QED
        BY <2>2, <3>1, <3>4
    <2>4. CASE ~(localTriggerStep < TriggerParameterSyncStep)
      <3>1. /\ step' = "syncing" /\ localTriggerStep = TriggerParameterSyncStep
            /\ localTriggerStep' = 1 /\ currentParamVersion' = currentParamVersion + 1
        BY <1>1, <1>4, <2>4 DEF Train
      <3>2. OneVersion = localTriggerStep * RequiredSamples
        BY <1>1, <3>1 DEF OneVersion
      <3>3. Local' = 0
        <4>1. \A x, y \in Int : x = 1 /\ y = 0 => (x - 1) * RequiredSamples + y = 0
          BY <1>1
        <4>2. localTriggerStep' \in Int /\ collected' \in Int
          BY <2>1, <3>1
        <4> QED
          BY <1>2, <2>1, <3>1, <4>1, <4>2, Zenon
      <3> QED
        BY <2>2, <3>1, <3>2, <3>3
    <2> QED
      BY <2>3, <2>4
  <1> QED
    BY <1>3, <1>4

(* A read consumes one sample; no other step makes Consumed larger.        *)
LEMMA ConsumedSteps ==
    ASSUME EInv, SideOK, [Next]_vars
    PROVE  /\ Consumed' \in Nat
           /\ Take => Consumed' <= Consumed + 1
           /\ ~Take => Consumed' <= Consumed
           /\ reset' \in {"none", "asking", "storing"} /\ step' = "resetting" => Consumed' = 0
  <1>0. /\ OneVersion \in Nat \ {0} /\ Local \in Nat /\ Consumed \in Nat
        /\ step \in {"syncing", "calling", "resetting"} => Local = 0
        /\ step = "collecting" => ~ending
        /\ step \in StepState /\ ending \in BOOLEAN
        /\ reset # "none" => step = "resetting"
    BY LocalTypes DEF SideOK, ResetWaited
  <1>1. CASE UNCHANGED trainerVars /\ ~Take /\ (reset' = "locking" => reset = "locking")
    <2>1. Local' = Local /\ step' = step /\ ending' = ending
      BY <1>1 DEF Local, trainerVars, versionVars
    <2>2. Consumed' = Consumed \/ Consumed' = 0
      BY <1>0, <1>1, <2>1 DEF Consumed
    <2>3. reset' \in {"none", "asking", "storing"} /\ step' = "resetting" => Consumed' = 0
      BY <1>0, <2>1 DEF Consumed
    <2> QED
      BY <1>0, <1>1, <2>2, <2>3
  <1>2. CASE Take /\ Collect /\ UNCHANGED <<reset, stalenessSamples, bornIn>>
    <2>1. /\ step = "collecting" /\ step' = step /\ ending' = ending /\ reset' = reset
          /\ ~ending /\ reset # "locking"
      BY <1>0, <1>2 DEF Collect
    <2>2. Consumed' = Local' /\ Consumed = Local
      BY <2>1 DEF Consumed
    <2>3. Local' = Local + 1
      BY <1>2, LocalSteps
    <2> QED
      BY <1>0, <1>2, <2>1, <2>2, <2>3
  <1>3. CASE Take /\ Train /\ UNCHANGED <<reset, stalenessSamples, bornIn>>
    <2>1. /\ step = "collecting" /\ ending' = ending /\ reset' = reset
          /\ ~ending /\ reset # "locking"
      BY <1>0, <1>3 DEF Train
    <2>2. Consumed = Local
      BY <2>1 DEF Consumed
    <2>3. \/ Local' = Local + 1 /\ step' = "saving"
          \/ Local + 1 = OneVersion /\ step' = "syncing"
      BY <1>3, LocalSteps
    <2>4. Consumed' = Local + 1
      BY <2>1, <2>3 DEF Consumed, OneVersion
    <2> QED
      BY <1>0, <1>3, <2>2, <2>3, <2>4
  <1>4. CASE Take /\ SeeEnd /\ UNCHANGED <<reset, stalenessSamples, bornIn>>
    <2>1. Consumed' = 0
      BY <1>4 DEF SeeEnd, Consumed
    <2> QED
      BY <1>0, <1>4, <2>1
  <1>5. CASE Send /\ ~Take
    <2>1. step = "syncing" /\ step' = "calling" /\ UNCHANGED <<ending, reset>>
      BY <1>5 DEF Send, SendWeights, rolloutVars, resetVars
    <2>2. Consumed' = Consumed
      BY <2>1 DEF Consumed, OneVersion
    <2> QED
      BY <1>0, <1>5, <2>1, <2>2
  <1>6. CASE Call /\ ~Take
    <2>1. step = "calling" /\ step' = "resetting" /\ UNCHANGED ending /\ reset' = "locking"
      BY <1>6 DEF Call, CallReset, ResetCalled
    <2>2. Consumed' = Consumed
      BY <2>1 DEF Consumed, OneVersion
    <2> QED
      BY <1>0, <1>6, <2>1, <2>2
  <1>7. CASE (Answered \/ Save) /\ ~Take
    <2>1. /\ step \in {"resetting", "saving"} /\ step' \in {"saving", "collecting", "stopped"}
          /\ UNCHANGED <<ending, reset, collected, localTriggerStep>> /\ reset # "locking"
      BY <1>0, <1>7 DEF Answered, ResetDone, Save, SaveCheckpoint, rolloutVars, resetVars, versionVars
    <2>2. Local' = Local
      BY <2>1 DEF Local
    <2>3. Consumed' = Consumed
      BY <2>1, <2>2 DEF Consumed
    <2> QED
      BY <1>0, <1>7, <2>1, <2>3
  <1> QED
    BY <1>1, <1>2, <1>3, <1>4, <1>5, <1>6, <1>7, TrainerMoves

Committed == Load + Consumed

LEMMA CommittedTypes ==
    ASSUME EInv
    PROVE  /\ Committed \in Nat /\ Load \in Nat /\ Consumed \in Nat
           /\ Committed = Load + Consumed /\ Load <= Committed
           /\ MaxRequiredSamples \in Nat /\ stalenessSamples \in Nat
           /\ InHand \in 0 .. 1 /\ Work \in Nat /\ Load = Work + InHand
           /\ Cardinality(Reserved) \in Nat /\ Len(queue) \in Nat
           /\ Work = Cardinality(Reserved) + Len(queue)
  <1>1. Load \in Nat /\ Consumed \in Nat
    BY LoadTypes, LocalTypes
  <1>2. Committed = Load + Consumed
    BY DEF Committed
  <1>3. Committed \in Nat /\ Load <= Committed
    BY <1>1, <1>2
  <1> QED
    BY <1>1, <1>2, <1>3, LoadTypes, WorkTypes

LEMMA CommittedSteps ==
    ASSUME EInv, SideOK, [Next]_vars
    PROVE  /\ Committed' \in Nat
           /\ Taking => Committed' <= Committed + 1
           /\ ~Taking => Committed' <= Committed
  <1>1. /\ Load \in Nat /\ Consumed \in Nat /\ Committed = Load + Consumed
        /\ Load \in Int /\ Consumed \in Int
    BY CommittedTypes
  <1>2. /\ Load' \in Nat
        /\ Taking => Load' <= Load + 1
        /\ ~Taking => Load' <= Load
        /\ Take => Load' + 1 <= Load
    BY LoadSteps
  <1>3. /\ Consumed' \in Nat
        /\ Take => Consumed' <= Consumed + 1
        /\ ~Take => Consumed' <= Consumed
    BY ConsumedSteps
  <1>4. Load' \in Int /\ Consumed' \in Int /\ Committed' = Load' + Consumed'
    BY <1>2, <1>3 DEF Committed
  <1>5. Committed' \in Nat
    <2>1. \A a, b \in Nat : a + b \in Nat
      OBVIOUS
    <2> QED
      BY <1>2, <1>3, <1>4, <2>1, Zenon
  <1>6. Taking => ~Take
    BY DEF Take, Taking, ProcTake, GoTo, GoLocking, rolloutVars, procVars
  <1>7. CASE Taking
    <2>1. Load' <= Load + 1 /\ Consumed' <= Consumed
      BY <1>2, <1>3, <1>6, <1>7
    <2>2. \A a, b, c, d \in Int : a <= c + 1 /\ b <= d => a + b <= c + d + 1
      OBVIOUS
    <2>3. Load' + Consumed' <= Load + Consumed + 1
      BY <1>1, <1>4, <2>1, <2>2, Zenon
    <2> QED
      BY <1>1, <1>4, <1>5, <1>7, <2>3, Zenon
  <1>8. CASE Take
    <2>1. Load' + 1 <= Load /\ Consumed' <= Consumed + 1
      BY <1>2, <1>3, <1>8
    <2>2. \A a, b, c, d \in Int : a + 1 <= c /\ b <= d + 1 => a + b <= c + d
      OBVIOUS
    <2>3. Load' + Consumed' <= Load + Consumed
      BY <1>1, <1>4, <2>1, <2>2, Zenon
    <2> QED
      BY <1>1, <1>4, <1>5, <1>6, <1>8, <2>3, Zenon
  <1>9. CASE ~Taking /\ ~Take
    <2>1. Load' <= Load /\ Consumed' <= Consumed
      BY <1>2, <1>3, <1>9
    <2>3. Load' + Consumed' <= Load + Consumed
      BY <1>1, <1>4, <2>1, Sums, Zenon
    <2> QED
      BY <1>1, <1>4, <1>5, <1>9, <2>3, Zenon
  <1> QED
    BY <1>7, <1>8, <1>9

(* Where the processor may stand during a reset, what a pause means, and   *)
(* the two bounds.                                                         *)
Idle == {"draining", "sleeping", "parked", "woken", "finishing", "ended", "dead"}
Over == {"finishing", "ended", "dead"}

PlaceOK ==
    /\ reset # "none" => proc \in Idle
    /\ reset = "locking" => proc # "woken" /\ (proc = "sleeping" => Holds("reset"))
PauseOK ==
    /\ paused \/ proc = "pausing" => stalenessSamples >= MaxRequiredSamples
    /\ reset \in {"asking", "storing"} => ~paused
    /\ monitor # "resuming"
CountOK ==
    /\ Committed <= MaxRequiredSamples
    /\ proc \notin Over /\ reset \in {"none", "locking"} => Committed <= stalenessSamples
    /\ proc = "fetching" => stalenessSamples + 1 <= MaxRequiredSamples

BudgetOK == PlaceOK /\ PauseOK /\ CountOK

(* The trainer calls when the event loop has caught up, so the tasks of a  *)
(* throttled processor all generate: with the sample in hand and a version *)
(* consumed they would exceed the budget.                                  *)
LEMMA CallPlace ==
    ASSUME EInv, SideOK, CountOK, NeverThrottled, keepsUp, Call
    PROVE  proc \in {"draining", "parked", "finishing", "ended", "dead"}
  <1>1. CaughtUp /\ step = "calling"
    BY DEF Call, CallReset
  <1>2. SUFFICES ASSUME proc = "limiting" PROVE FALSE
    BY <1>1 DEF CaughtUp
  <1>3. ~ending
    <2>1. main = "streaming" \/ main \in {"signalling", "stopping", "stopped", "failed"}
      BY EInvParts DEF RInv, RTypeOK
    <2>2. main = "streaming"
      BY <1>2, <2>1, EInvParts DEF StreamOK, MainOK
    <2> QED
      BY <2>2 DEF EInv, EndOK
  <1>4. Consumed = OneVersion
    BY <1>1, <1>3 DEF Consumed
  <1>5. activeTasks \subseteq Reserved
    <2> SUFFICES ASSUME NEW s \in activeTasks PROVE s \in Reserved
      OBVIOUS
    <2>1. s \in Samples /\ task[s] \in TaskState /\ task[s] # "none"
      BY EInvParts DEF StreamOK, TasksOK
    <2>2. task[s] \notin {"stored", "displaced"}
      BY <1>1, <2>1 DEF CaughtUp
    <2>3. task[s] \notin {"done", "failed"}
      BY <1>1, <1>2 DEF CaughtUp, Finished
    <2>4. task[s] = "generating"
      BY <2>1, <2>2, <2>3 DEF TaskState
    <2> QED
      BY <2>1, <2>4 DEF Reserved
  <1>6. Cardinality(activeTasks) \in Nat /\ Cardinality(activeTasks) <= Cardinality(Reserved)
    BY <1>5, WorkTypes, EInvParts, SamplesFinite, FS_Subset
  <1>7. InHand = 1
    BY <1>2 DEF InHand, HasHand
  <1>8. MaxConcurrentSamples \in Nat /\ OneVersion \in Nat
    BY LimitsAssumption, LocalTypes
  <1>9. Cardinality(activeTasks) >= MaxConcurrentSamples
    BY <1>2 DEF SideOK, ThrottledOK
  <1>10. MaxConcurrentSamples + OneVersion >= MaxRequiredSamples
    BY <1>8, Params DEF NeverThrottled
  <1>11. Committed <= MaxRequiredSamples
    BY DEF CountOK
  <1>12. Committed = Cardinality(Reserved) + Len(queue) + 1 + OneVersion
    BY <1>4, <1>7, CommittedTypes
  <1>13. Cardinality(Reserved) \in Nat /\ Len(queue) \in Nat /\ MaxRequiredSamples \in Nat
    BY CommittedTypes
  <1>14. Cardinality(Reserved) >= MaxConcurrentSamples
    BY <1>6, <1>8, <1>9, <1>13
  <1>15. Cardinality(Reserved) + OneVersion >= MaxRequiredSamples
    BY <1>8, <1>10, <1>13, <1>14
  <1> QED
    BY <1>8, <1>11, <1>12, <1>13, <1>15

LEMMA TailFacts ==
    ASSUME NEW S, NEW t \in Seq(S), Len(t) >= 2
    PROVE  Tail(t) \in Seq(S) /\ Len(Tail(t)) = Len(t) - 1 /\ Tail(t) # << >> /\ Tail(t)[1] = t[2]
  <1>1. Tail(t) \in Seq(S) /\ Len(Tail(t)) = Len(t) - 1 /\ Len(t) \in Nat
    OBVIOUS
  <1>2. Tail(t)[1] = t[2]
    OBVIOUS
  <1>3. \A r \in Seq(S) : r = << >> => Len(r) = 0
    OBVIOUS
  <1>4. Tail(t) # << >>
    <2>1. \A k, n \in Int : n >= 2 /\ k = n - 1 => k # 0
      OBVIOUS
    <2>2. Len(Tail(t)) \in Int /\ Len(t) \in Int
      BY <1>1
    <2>3. Len(Tail(t)) # 0
      BY <1>1, <2>1, <2>2, Zenon
    <2> QED
      BY <1>1, <1>3, <2>3, Zenon
  <1> QED
    BY <1>1, <1>2, <1>4, Zenon

(* With the reset call behind it, the processor gives the lock to it.      *)
LEMMA ResetIsNext ==
    ASSUME RInv, MainOK, monitor # "resuming", reset = "locking", proc = "draining",
           Holds("proc")
    PROVE  Append(Tail(lock), "proc") # << >> /\ Head(Append(Tail(lock), "proc")) = "reset"
  <1>1. lock \in Seq({"proc", "reset", "monitor", "main"}) /\ lock # << >> /\ lock[1] = "proc"
    BY DEF RInv, RTypeOK, Holds
  <1>2. PICK i \in DOMAIN lock : lock[i] = "reset"
    BY DEF RInv, LockDiscipline, InLock
  <1>3. Len(lock) >= 2 /\ 1 \in DOMAIN lock /\ 2 \in DOMAIN lock
    BY <1>1, <1>2
  <1>4. lock[2] # "proc"
    BY <1>1, <1>3 DEF RInv, LockDiscipline
  <1>5. lock[2] # "monitor"
    BY <1>3 DEF RInv, LockDiscipline, InLock
  <1>6. lock[2] # "main"
    BY <1>3 DEF RInv, LockDiscipline, InLock, MainOK
  <1>7. lock[2] = "reset"
    BY <1>1, <1>3, <1>4, <1>5, <1>6
  <1> DEFINE rest == Tail(lock)
  <1>8. rest \in Seq({"proc", "reset", "monitor", "main"}) /\ rest # << >> /\ rest[1] = lock[2]
    BY <1>1, <1>3, TailFacts
  <1> HIDE DEF rest
  <1>9. Append(rest, "proc") # << >> /\ Head(Append(rest, "proc")) = rest[1]
    BY <1>8
  <1> QED
    BY <1>7, <1>8, <1>9 DEF rest

LEMMA PlaceStep ==
    ASSUME EInv, SideOK, BudgetOK, NeverThrottled, keepsUp, [Next]_vars
    PROVE  PlaceOK'
  <1>1. CASE Call
    <2>1. proc' = proc /\ reset' = "locking"
      BY <1>1 DEF Call, ResetCalled, procVars
    <2>2. proc \in {"draining", "parked", "finishing", "ended", "dead"}
      BY <1>1, CallPlace DEF BudgetOK
    <2> QED
      BY <2>1, <2>2 DEF PlaceOK, Idle
  <1>2. CASE ~Call
    <2>1. [RNext]_rolloutVars
      BY EInvParts, RolloutSteps
    <2>2. /\ reset' # "none" => reset # "none"
          /\ reset' = "locking" => reset = "locking"
      BY <1>2, ResetSteps DEF ResetBegins, ResetAnswered, ResetEnds, resetVars
    <2>3. /\ reset \in {"none", "locking", "asking", "storing"}
          /\ reset \in {"asking", "storing"} => Holds("reset")
          /\ proc = "woken" => hand = None
          /\ lock \in Seq({"proc", "reset", "monitor", "main"})
      BY EInvParts DEF RInv, RTypeOK, LockDiscipline, HandOK
    <2>4. ASSUME reset' # "none" PROVE proc' \in Idle
      <3>1. proc \in Idle /\ reset # "none"
        BY <2>2, <2>4 DEF BudgetOK, PlaceOK
      <3>2. ~ProcContinue
        BY <2>3, <3>1 DEF ProcContinue, BudgetOK, PlaceOK, Holds
      <3> QED
        BY <2>1, <2>3, <3>1, <3>2
        DEF Idle, RNext, Feed, ProcSetPaused, ProcReap, ProcPark, ProcWake, ProcSubmit,
            ResetCalled, ResetBegins, ResetEnds, MonitorResumes, MonitorExits, MainWaited,
            MainSignals, MainStops, ProcPause, ProcFetch, ProcTake, ResetAnswered,
            MonitorDecides, TaskFails, TaskEnds, TaskPut, NotifyAll, GoTo, GoLocking,
            GoReleasing, GoRelocking, procVars, rolloutVars
    <2>5. ASSUME reset' = "locking"
          PROVE  proc' # "woken" /\ (proc' = "sleeping" => Holds("reset")')
      <3>1. /\ reset = "locking" /\ proc \in Idle /\ proc # "woken"
            /\ proc = "sleeping" => Holds("reset")
            /\ monitor # "resuming"
        BY <2>2, <2>5 DEF BudgetOK, PlaceOK, PauseOK
      <3>2. ~ResetBegins /\ ~MonitorResumes /\ ~ResetEnds
        BY <2>5, <3>1 DEF ResetBegins, MonitorResumes, ResetEnds
      <3>3. proc' # "woken"
        BY <2>1, <3>1, <3>2
        DEF RNext, Feed, ProcSetPaused, ProcReap, ProcPark, ProcWake, ProcContinue, ProcSubmit,
            ResetCalled, MonitorExits, MainWaited,
            MainSignals, MainStops, ProcPause, ProcFetch, ProcTake, ResetAnswered,
            MonitorDecides, TaskFails, TaskEnds, TaskPut, GoTo, GoLocking,
            GoReleasing, GoRelocking, procVars, rolloutVars
      <3>4. ASSUME proc' = "sleeping" PROVE Holds("reset")'
        <4>1. CASE ProcReap
          <5>1. proc = "draining" /\ Holds("proc") /\ lock' = Append(Tail(lock), "proc")
            BY <3>4, <4>1 DEF ProcReap, GoReleasing, GoRelocking
          <5>2. lock' # << >> /\ Head(lock') = "reset"
            BY <2>3, <3>1, <5>1, ResetIsNext, EInvParts DEF StreamOK, Holds
          <5> QED
            BY <5>2 DEF Holds
        <4>2. ASSUME ~ProcReap
              PROVE  proc = "sleeping" /\ (lock' = lock \/ \E p : lock' = Append(lock, p)
                                           \/ (lock' = Tail(lock) /\ ~Holds("reset")))
          BY <2>1, <3>1, <3>2, <3>4, <4>2
          DEF Idle, RNext, Feed, ProcSetPaused, ProcPark, ProcWake, ProcContinue, ProcSubmit,
              ResetCalled, MonitorExits, MainWaited,
              MainSignals, MainStops, ProcPause, ProcFetch, ProcTake, ResetAnswered,
              MonitorDecides, TaskFails, TaskEnds, TaskPut, GoTo, GoLocking,
              GoReleasing, GoRelocking, Acquire, Release, Holds, procVars, rolloutVars
        <4>3. CASE ~ProcReap
          <5>1. Holds("reset") /\ (lock' = lock \/ \E p : lock' = Append(lock, p))
            BY <3>1, <4>2, <4>3
          <5>2. CASE lock' = lock
            BY <5>1, <5>2 DEF Holds
          <5>3. ASSUME NEW p, lock' = Append(lock, p) PROVE Holds("reset")'
            BY <2>3, <5>1, <5>3 DEF Holds
          <5> QED
            BY <5>1, <5>2, <5>3
        <4> QED
          BY <4>1, <4>3
      <3> QED
        BY <3>3, <3>4
    <2> QED
      BY <2>4, <2>5 DEF PlaceOK
  <1> QED
    BY <1>1, <1>2

(* A pause begins where the processor saw the budget used up.              *)
LEMMA PauseBegins ==
    ASSUME [Next]_vars, proc' = "pausing"
    PROVE  proc = "pausing" \/ ProcPause(QueueSize)
  <1> USE DEF GoTo, GoLocking, GoReleasing, GoRelocking, NotifyAll, procVars
  <1>1. CASE RolloutAlone
    BY <1>1 DEF RolloutAlone, Feed, ProcSetPaused, ProcReap, ProcPark, ProcWake, ProcContinue,
                ProcSubmit, ResetBegins, ResetEnds, MonitorResumes, MonitorExits, MainWaited,
                MainStops, TaskFails, TaskEnds
  <1>2. CASE RolloutReads
    BY <1>2 DEF RolloutReads, ProcFetch, ProcTake, ResetAnswered, MonitorDecides
  <1>3. CASE EndArrives
    BY <1>3 DEF EndArrives, MainSignals
  <1>4. ASSUME NEW s \in Samples, SampleArrives(s)
        PROVE  UNCHANGED proc
    BY <1>4 DEF SampleArrives, TaskPut
  <1>5. CASE Take \/ Wait \/ Send \/ Call \/ Answered \/ Save \/ RunnerEnds \/ Ended
             \/ UNCHANGED vars \/ \E s \in Samples : Stamp(s)
    BY <1>5 DEF Take, Wait, Send, Call, ResetCalled, Answered, Save, RunnerEnds, Ended, Stamp, vars,
                rolloutVars
  <1> QED
    BY <1>1, <1>2, <1>3, <1>4, <1>5 DEF Next, Rollout, Trainer

LEMMA PauseStep ==
    ASSUME EInv, SideOK, BudgetOK, [Next]_vars
    PROVE  PauseOK'
  <1>0. /\ stalenessSamples \in Nat /\ MaxRequiredSamples \in Nat /\ resetSum \in Nat
        /\ reset \in {"none", "locking", "asking", "storing"}
        /\ reset \in {"asking", "storing"} => Holds("reset")
        /\ paused \in BOOLEAN
    BY LoadTypes, EInvParts DEF RInv, RTypeOK, LockDiscipline
  <1>1. [RNext]_rolloutVars
    BY EInvParts, RolloutSteps
  <1>2. ASSUME reset' \in {"asking", "storing"} PROVE ~paused'
    <2>1. CASE ResetBegins
      BY <2>1 DEF ResetBegins
    <2>2. CASE ~ResetBegins
      <3>1. reset \in {"asking", "storing"}
        BY <1>2, <2>2, ResetSteps DEF ResetAnswered, ResetEnds, resetVars
      <3>2. ~paused /\ Holds("reset")
        BY <1>0, <3>1 DEF BudgetOK, PauseOK
      <3>3. ~ProcSetPaused
        BY <3>2 DEF ProcSetPaused, Holds
      <3>4. paused' = FALSE \/ paused' = paused
        BY <1>1, <3>3
        DEF RNext, Feed, ProcReap, ProcPark, ProcWake, ProcContinue, ProcSubmit,
            ResetCalled, ResetBegins, ResetEnds, MonitorResumes, MonitorExits, MainWaited,
            MainSignals, MainStops, ProcPause, ProcFetch, ProcTake, ResetAnswered,
            MonitorDecides, TaskFails, TaskEnds, TaskPut, pauseVars, rolloutVars
      <3> QED
        BY <3>2, <3>4
    <2> QED
      BY <2>1, <2>2
  <1>3. monitor' # "resuming"
    <2>1. ASSUME NEW q \in 0 .. MaxRequiredSamples PROVE ~MonitorDecides(q)
      BY <1>0 DEF MonitorDecides, ShouldPause, BudgetOK, PauseOK
    <2>2. monitor # "resuming"
      BY DEF BudgetOK, PauseOK
    <2> QED
      BY <1>1, <2>1, <2>2
      DEF RNext, Feed, ProcSetPaused, ProcReap, ProcPark, ProcWake, ProcContinue, ProcSubmit,
          ResetCalled, ResetBegins, ResetEnds, MonitorResumes, MonitorExits, MainWaited,
          MainSignals, MainStops, ProcPause, ProcFetch, ProcTake, ResetAnswered,
          TaskFails, TaskEnds, TaskPut, rolloutVars
  <1>4. ASSUME paused' \/ proc' = "pausing"
        PROVE  stalenessSamples' >= MaxRequiredSamples
    <2>1. paused' => paused \/ proc = "pausing"
      BY <1>1
      DEF RNext, Feed, ProcSetPaused, ProcReap, ProcPark, ProcWake, ProcContinue, ProcSubmit,
          ResetCalled, ResetBegins, ResetEnds, MonitorResumes, MonitorExits, MainWaited,
          MainSignals, MainStops, ProcPause, ProcFetch, ProcTake, ResetAnswered,
          MonitorDecides, TaskFails, TaskEnds, TaskPut, pauseVars, rolloutVars
    <2>2. stalenessSamples >= MaxRequiredSamples
      <3>1. CASE paused \/ proc = "pausing"
        BY <3>1 DEF BudgetOK, PauseOK
      <3>2. CASE ~paused /\ ProcPause(QueueSize)
        <4>1. CASE stalenessSamples >= MaxRequiredSamples
          BY <4>1
        <4>2. CASE QueueSize >= MaxRequiredSamples
          <5>1. proc = "loop" /\ reset = "none"
            BY <1>0, <3>2 DEF ProcPause, BudgetOK, PlaceOK, Idle
          <5>2. Committed <= stalenessSamples
            BY <5>1 DEF BudgetOK, CountOK, Over
          <5>3. Len(queue) <= Committed
            BY CommittedTypes
          <5>4. Len(queue) >= MaxRequiredSamples
            BY <4>2 DEF QueueSize
          <5> QED
            BY <1>0, <5>2, <5>3, <5>4, CommittedTypes
        <4> QED
          BY <3>2, <4>1, <4>2 DEF ProcPause, ShouldPause
      <3> QED
        BY <1>4, <2>1, <3>1, <3>2, PauseBegins
    <2>3. CASE ResetEnds
      <3>1. reset = "storing" /\ paused' = paused /\ proc' = proc
        BY <2>3 DEF ResetEnds, procVars
      <3>2. ~paused /\ proc \in Idle
        BY <3>1 DEF BudgetOK, PauseOK, PlaceOK
      <3> QED
        BY <1>4, <3>1, <3>2 DEF Idle
    <2>4. CASE ~ResetEnds
      <3>1. stalenessSamples' = stalenessSamples \/ stalenessSamples' = stalenessSamples + 1
        BY <1>1, <2>4, StalenessSteps
      <3> QED
        BY <1>0, <2>2, <3>1
    <2> QED
      BY <2>3, <2>4
  <1> QED
    BY <1>2, <1>3, <1>4 DEF PauseOK

(* The processor takes only below the budget.                              *)
LEMMA TakesWithinBudget ==
    ASSUME EInv, BudgetOK, Taking
    PROVE  Committed + 1 <= MaxRequiredSamples
  <1>0. Committed \in Nat /\ stalenessSamples \in Nat /\ MaxRequiredSamples \in Nat
    BY CommittedTypes
  <1>1. PICK q \in 0 .. MaxRequiredSamples : ProcTake(q)
    BY DEF Taking
  <1>2. proc \in {"loop", "fetching"} /\ (proc = "loop" => ~ShouldPause(q))
    BY <1>1 DEF ProcTake
  <1>3. reset = "none"
    BY <1>2 DEF BudgetOK, PlaceOK, Idle
  <1>4. Committed <= stalenessSamples
    BY <1>2, <1>3 DEF BudgetOK, CountOK, Over
  <1>5. stalenessSamples + 1 <= MaxRequiredSamples
    <2>1. CASE proc = "fetching"
      BY <2>1 DEF BudgetOK, CountOK
    <2>2. CASE proc = "loop"
      <3>1. ~(stalenessSamples >= MaxRequiredSamples)
        BY <1>2, <2>2 DEF ShouldPause
      <3> QED
        BY <1>0, <3>1
    <2> QED
      BY <1>2, <2>1, <2>2
  <1> QED
    BY <1>0, <1>4, <1>5

LEMMA CountStep ==
    ASSUME EInv, LoadOK, SideOK, BudgetOK, [Next]_vars
    PROVE  CountOK'
  <1>0. /\ Committed \in Nat /\ stalenessSamples \in Nat /\ MaxRequiredSamples \in Nat
        /\ resetSum \in Nat
        /\ reset \in {"none", "locking", "asking", "storing"}
    BY CommittedTypes, LoadTypes, EInvParts DEF RInv, RTypeOK
  <1>1. [RNext]_rolloutVars
    BY EInvParts, RolloutSteps
  <1>2. /\ Committed' \in Nat
        /\ Taking => Committed' <= Committed + 1
        /\ ~Taking => Committed' <= Committed
    BY CommittedSteps
  <1>3. /\ Taking => stalenessSamples' = stalenessSamples + 1
        /\ ResetEnds => stalenessSamples' = resetSum
        /\ ~Taking /\ ~ResetEnds => UNCHANGED stalenessSamples
    BY <1>1, StalenessSteps
  <1>4. Committed <= MaxRequiredSamples
    BY DEF BudgetOK, CountOK
  <1>5. Committed' <= MaxRequiredSamples
    <2>1. CASE Taking
      <3>1. Committed + 1 <= MaxRequiredSamples
        BY <2>1, TakesWithinBudget
      <3>2. Committed' <= Committed + 1
        BY <1>2, <2>1
      <3> QED
        BY <1>0, <1>2, <3>1, <3>2
    <2>2. CASE ~Taking
      <3>1. Committed' <= Committed
        BY <1>2, <2>2
      <3> QED
        BY <1>0, <1>2, <1>4, <3>1
    <2> QED
      BY <2>1, <2>2
  <1>6. ASSUME proc' \notin Over, reset' \in {"none", "locking"}
        PROVE  Committed' <= stalenessSamples'
    <2>1. proc \notin Over
      BY <1>1, <1>6
      DEF Over, RNext, Feed, ProcSetPaused, ProcReap, ProcPark, ProcWake, ProcContinue,
          ProcSubmit, ResetCalled, ResetBegins, ResetEnds, MonitorResumes, MonitorExits,
          MainWaited, MainSignals, MainStops, ProcPause, ProcFetch, ProcTake, ResetAnswered,
          MonitorDecides, TaskFails, TaskEnds, TaskPut, NotifyAll, GoTo, GoLocking, GoReleasing,
          GoRelocking, procVars, rolloutVars
    <2>2. CASE ResetEnds
      <3>1. /\ reset = "storing" /\ proc' = proc /\ reset' = "none" /\ ~Taking
            /\ stalenessSamples' = resetSum
        BY <1>3, <2>2 DEF ResetEnds, procVars, Taking, ProcTake, resetVars
      <3>2. Work <= resetSum
        BY <2>1, <3>1 DEF LoadOK, Over
      <3>3. InHand = 0
        BY <2>1, <3>1 DEF BudgetOK, PlaceOK, Idle, Over, InHand, HasHand
      <3>4. Load <= resetSum
        BY <3>2, <3>3, CommittedTypes
      <3>5. Load' \in Nat /\ Load' <= Load
        BY <3>1, LoadSteps
      <3>6. Consumed' = 0
        <4>1. step = "resetting"
          BY <3>1 DEF SideOK, ResetWaited
        <4>2. step' = step
          BY <3>1, <4>1, TrainerMoves
          DEF trainerVars, Collect, Train, SeeEnd, Send, SendWeights, Call, CallReset, Answered,
              Save, SaveCheckpoint
        <4> QED
          BY <3>1, <4>1, <4>2, ConsumedSteps
      <3>7. Committed' = Load' + Consumed'
        BY DEF Committed
      <3>8. \A a, b, c \in Int : b = 0 /\ c = a + b => c = a
        OBVIOUS
      <3>9. Committed' = Load'
        <4>1. Committed' \in Int /\ Load' \in Int /\ Consumed' \in Int
          BY <1>2, <3>5, <3>6
        <4> QED
          BY <3>6, <3>7, <3>8, <4>1, Zenon
      <3>10. Load \in Nat
        BY CommittedTypes
      <3>11. Load' <= resetSum
        BY <1>0, <3>4, <3>5, <3>10
      <3> QED
        BY <3>1, <3>9, <3>11, Zenon
    <2>3. ASSUME ~ResetEnds PROVE Committed <= stalenessSamples
      <3>1. reset \in {"none", "locking"}
        BY <1>0, <1>6, <2>3, ResetSteps DEF ResetBegins, ResetAnswered, resetVars
      <3> QED
        BY <2>1, <3>1 DEF BudgetOK, CountOK
    <2>4. CASE Taking
      <3>1. ~ResetEnds
        BY <2>4 DEF Taking, ProcTake, ResetEnds, resetVars
      <3>2. Committed <= stalenessSamples
        BY <2>3, <3>1
      <3>3. Committed' <= Committed + 1 /\ stalenessSamples' = stalenessSamples + 1
        BY <1>2, <1>3, <2>4
      <3>4. Committed + 1 <= stalenessSamples + 1
        BY <1>0, <3>2
      <3> QED
        BY <1>0, <1>2, <3>3, <3>4
    <2>5. CASE ~Taking /\ ~ResetEnds
      <3>1. Committed <= stalenessSamples
        BY <2>3, <2>5
      <3>2. Committed' <= Committed /\ stalenessSamples' = stalenessSamples
        BY <1>2, <1>3, <2>5
      <3> QED
        BY <1>0, <1>2, <3>1, <3>2
    <2> QED
      BY <2>2, <2>4, <2>5
  <1>7. ASSUME proc' = "fetching" PROVE stalenessSamples' + 1 <= MaxRequiredSamples
    <2>1. ~Taking
      BY <1>7 DEF Taking, ProcTake, GoTo, GoLocking
    <2>2. proc = "fetching" \/ \E q \in 0 .. MaxRequiredSamples : ProcFetch(q)
      BY <1>1, <1>7, <2>1
      DEF RNext, Feed, ProcSetPaused, ProcReap, ProcPark, ProcWake, ProcContinue, ProcSubmit,
          ResetCalled, ResetBegins, ResetEnds, MonitorResumes, MonitorExits, MainWaited,
          MainSignals, MainStops, ProcPause, ResetAnswered, MonitorDecides, TaskFails,
          TaskEnds, TaskPut, Taking, NotifyAll, GoTo, GoLocking, GoReleasing, GoRelocking,
          procVars, rolloutVars
    <2>3. ~ResetEnds
      <3>1. proc # "fetching" \/ reset = "none"
        BY DEF BudgetOK, PlaceOK, Idle
      <3> QED
        BY <2>2, <3>1 DEF ResetEnds, ProcFetch, resetVars
    <2>4. stalenessSamples' = stalenessSamples
      BY <1>3, <2>1, <2>3
    <2>5. CASE proc = "fetching"
      BY <2>4, <2>5 DEF BudgetOK, CountOK
    <2>6. ASSUME NEW q \in 0 .. MaxRequiredSamples, ProcFetch(q)
          PROVE  stalenessSamples' + 1 <= MaxRequiredSamples
      <3>1. ~(stalenessSamples >= MaxRequiredSamples)
        BY <2>6 DEF ProcFetch, ShouldPause
      <3> QED
        BY <1>0, <2>4, <3>1
    <2> QED
      BY <2>2, <2>5, <2>6
  <1> QED
    BY <1>5, <1>6, <1>7 DEF CountOK

LEMMA BudgetInit == Init => BudgetOK
  <1> SUFFICES ASSUME Init PROVE BudgetOK
    OBVIOUS
  <1>1. /\ proc = "loop" /\ reset = "none" /\ ~paused /\ monitor = "sleeping"
        /\ stalenessSamples = 0 /\ main = "streaming" /\ queue = << >>
        /\ task = [s \in Samples |-> "none"]
        /\ step = "collecting" /\ collected = 0 /\ localTriggerStep = 1
    BY DEF Init, RInit, TInit, MQ!Init
  <1>2. Cardinality(Reserved) = 0 /\ Len(queue) = 0 /\ InHand = 0
    <2>1. Reserved = {}
      BY <1>1 DEF Reserved
    <2> QED
      BY <1>1, <2>1, FS_EmptySet DEF InHand, HasHand
  <1>3. Consumed = 0
    <2>1. Local = 0
      BY <1>1, Params DEF Local
    <2> QED
      BY <1>1, <2>1 DEF Consumed
  <1>4. Committed = 0
    BY <1>2, <1>3 DEF Committed, Load, Work
  <1> QED
    BY <1>1, <1>4, Params DEF BudgetOK, PlaceOK, PauseOK, CountOK

LEMMA BudgetInvariance ==
    ASSUME NeverThrottled
    PROVE  Spec => [](keepsUp => BudgetOK)
  <1>1. Init => (keepsUp => BudgetOK)
    BY BudgetInit
  <1>2. EInv /\ LoadOK /\ SideOK /\ (keepsUp => BudgetOK) /\ [Next]_vars
            => (keepsUp => BudgetOK)'
    <2> SUFFICES ASSUME EInv, LoadOK, SideOK, keepsUp => BudgetOK, [Next]_vars, keepsUp'
                 PROVE  BudgetOK'
      OBVIOUS
    <2>1. UNCHANGED keepsUp
      BY RestSteps DEF EInv
    <2>2. keepsUp /\ BudgetOK
      BY <2>1
    <2> QED
      BY <2>2, PlaceStep, PauseStep, CountStep DEF BudgetOK
  <1> QED
    BY <1>1, <1>2, EInvariance, LoadInvariance, SideInvariance, PTL DEF Spec

(* The documented budget holds at every moment, for every limit and every  *)
(* interleaving in which the event loop keeps up and the concurrency limit *)
(* never holds the processor back across a reset: reset_staleness then     *)
(* counts everything that was taken (rollouter:200-204, 242-246).          *)
THEOREM BudgetKept == NeverThrottled => (Spec => []WithinBudget)
  <1> SUFFICES ASSUME NeverThrottled PROVE Spec => []WithinBudget
    OBVIOUS
  <1>1. EInv /\ (keepsUp => BudgetOK) => WithinBudget
    <2> SUFFICES ASSUME EInv, BudgetOK PROVE Outstanding <= MaxRequiredSamples
      BY DEF WithinBudget
    <2>1. Outstanding \in Nat /\ Outstanding <= Load
      BY OutstandingInLoad
    <2>2. Committed <= MaxRequiredSamples
      BY DEF BudgetOK, CountOK
    <2> QED
      BY <2>1, <2>2, CommittedTypes
  <1> QED
    BY <1>1, EInvariance, BudgetInvariance, PTL

(* A put finds room: what is put was counted in the load.                  *)
LEMMA RoomToPut ==
    ASSUME EInv, CountOK, EndArrives \/ \E s \in Samples : SampleArrives(s)
    PROVE  Len(queue) + 1 + Consumed <= MaxRequiredSamples
  <1>1. Committed <= MaxRequiredSamples
    BY DEF CountOK
  <1>2. Cardinality(Reserved) >= 1 \/ InHand = 1
    <2>1. ASSUME NEW s \in Samples, s \in Reserved PROVE Cardinality(Reserved) >= 1
      <3>1. Cardinality(Reserved) # 0
        BY <2>1, WorkTypes, FS_EmptySet
      <3> QED
        BY <3>1, WorkTypes
    <2>2. ASSUME NEW s \in Samples, SampleArrives(s) PROVE s \in Reserved
      BY <2>2 DEF SampleArrives, TaskPut, Reserved
    <2>3. CASE EndArrives
      <3>1. main = "signalling" /\ proc \in {"ended", "dead"}
        BY <2>3, EInvParts DEF EndArrives, MainSignals, StreamOK, MainOK
      <3>2. CASE proc = "ended"
        BY <3>1, <3>2 DEF InHand, HasHand
      <3>3. CASE proc = "dead"
        <4>1. PICK s \in Samples : task[s] = "failed"
          BY <3>3, EInvParts DEF StreamOK, TasksOK
        <4> QED
          BY <2>1, <3>1, <4>1 DEF Reserved
      <3> QED
        BY <3>1, <3>2, <3>3
    <2> QED
      BY <2>1, <2>2, <2>3
  <1> QED
    BY <1>1, <1>2, CommittedTypes

LEMMA DropsStep ==
    ASSUME EInv, CountOK, [Next]_vars
    PROVE  UNCHANGED droppedSamples
  <1>1. ASSUME NEW v \in Entries, MQ!PutSample(v),
               EndArrives \/ \E s \in Samples : SampleArrives(s)
        PROVE  UNCHANGED droppedSamples
    <2>1. Len(queue) + 1 + Consumed <= MaxRequiredSamples
      BY <1>1, RoomToPut
    <2>2. ~(Len(queue) >= MaxRequiredSamples)
      BY <2>1, CommittedTypes
    <2> QED
      BY <1>1, <2>2 DEF MQ!PutSample, MQ!Full
  <1>2. ASSUME NEW s \in Samples, SampleArrives(s)
        PROVE  UNCHANGED droppedSamples
    BY <1>1, <1>2 DEF SampleArrives, Entries
  <1>3. CASE EndArrives
    BY <1>1, <1>3 DEF EndArrives, Entries
  <1>4. CASE RolloutAlone \/ RolloutReads
    BY <1>4 DEF RolloutAlone, RolloutReads, sysVars, queueVars
  <1>5. CASE Take \/ Wait \/ Send \/ Call \/ Answered \/ Save \/ RunnerEnds \/ Ended
             \/ UNCHANGED vars \/ \E s \in Samples : Stamp(s)
    BY <1>5 DEF Take, MQ!GetSample, Wait, MQ!GetWaits, Send, Call, Answered, Save, RunnerEnds,
                MQ!ClearQueue, Ended, Stamp, vars, sysVars, queueVars, MQ!counters
  <1> QED
    BY <1>2, <1>3, <1>4, <1>5 DEF Next, Rollout, Trainer

(* The queue is never full when something is put into it: no sample is     *)
(* lost, and the end marker pushes none out (message_queue.py:68-74).      *)
THEOREM NothingIsDropped == NeverThrottled => (Spec => []NothingDropped)
  <1> SUFFICES ASSUME NeverThrottled PROVE Spec => []NothingDropped
    OBVIOUS
  <1>1. Init => NothingDropped
    BY DEF Init, MQ!Init, NothingDropped
  <1>2. EInv /\ (keepsUp => BudgetOK) /\ NothingDropped /\ [Next]_vars => NothingDropped'
    <2> SUFFICES ASSUME EInv, keepsUp => BudgetOK, NothingDropped, [Next]_vars, keepsUp'
                 PROVE  droppedSamples' = 0
      BY DEF NothingDropped
    <2>1. UNCHANGED keepsUp
      BY RestSteps DEF EInv
    <2>2. CountOK /\ droppedSamples = 0
      BY <2>1 DEF BudgetOK, NothingDropped
    <2> QED
      BY <2>2, DropsStep
  <1> QED
    BY <1>1, <1>2, EInvariance, BudgetInvariance, PTL DEF Spec

-----------------------------------------------------------------------------
(* The age of the samples, in samples the trainer has consumed. An entry   *)
(* of the queue has waited for those in front of it to be read, and all of *)
(* them were under way when it was stamped. A sample that is still scored  *)
(* when a reset passes over it keeps the processor waiting for it: nothing *)
(* is taken, and what is under way with it can only be read.               *)

Position == currentParamVersion * OneVersion + Local

AgeOK ==
    ~ending => \A i \in DOMAIN queue : queue[i] # None =>
        Position + i <= bornIn[queue[i]] * OneVersion + MaxRequiredSamples

UnderwayOK ==
    ~ending => \A s \in Samples : task[s] = "generating" /\ bornIn[s] # Unstamped =>
        \/ bornIn[s] = served.version
        \/ bornIn[s] = served.version - 1 /\ (step = "calling" \/ reset = "locking")
        \/ /\ proc \in {"draining", "finishing", "dead"}
           /\ Position + Load <= bornIn[s] * OneVersion + MaxRequiredSamples

(* Only what was generated is stamped, and only that is put.               *)
StampsOK ==
    /\ \A s \in Samples : task[s] = "none" => bornIn[s] = Unstamped
    /\ \A i \in DOMAIN queue : queue[i] # None => bornIn[queue[i]] # Unstamped

(* A processor that sleeps has no task, and only a trainer that collects   *)
(* waits for the queue.                                                    *)
RestOK ==
    /\ proc \in {"sleeping", "parked", "woken", "ended"} => activeTasks = {}
    /\ getter[TheTrainer] # "idle" => step = "collecting"

LEMMA RestStep ==
    ASSUME EInv, RestOK, [Next]_vars
    PROVE  RestOK'
  <1>1. [RNext]_rolloutVars
    BY EInvParts, RolloutSteps
  <1>2. /\ proc = "woken" => hand = None
        /\ proc = "submitting" => ~paused
        /\ getter \in [{TheTrainer} -> MQ!GetterState]
    BY EInvParts DEF RInv, HandOK, HandNeverPaused, MQ!TypeOK
  <1>3. proc' \in {"sleeping", "parked", "woken", "ended"} => activeTasks' = {}
    BY <1>1, <1>2
    DEF RestOK, RNext, Feed, ProcSetPaused, ProcReap, ProcPark, ProcWake, ProcContinue,
        ProcSubmit, ResetCalled, ResetBegins, ResetEnds, MonitorResumes, MonitorExits,
        MainWaited, MainSignals, MainStops, ProcPause, ProcFetch, ProcTake, ResetAnswered,
        MonitorDecides, TaskFails, TaskEnds, TaskPut, NotifyAll, GoTo, GoLocking, GoReleasing,
        GoRelocking, procVars, rolloutVars
  <1>4. ASSUME getter'[TheTrainer] # "idle" PROVE step' = "collecting"
    <2>1. CASE RolloutAlone \/ RolloutReads \/ Ended \/ UNCHANGED vars
               \/ \E s \in Samples : Stamp(s)
      BY <1>4, <2>1 DEF RolloutAlone, RolloutReads, Ended, Stamp, vars, sysVars, queueVars, trainerVars,
                        RestOK
    <2>2. ASSUME NEW v, MQ!PutSample(v), UNCHANGED trainerVars
          PROVE  step' = "collecting"
      BY <1>2, <1>4, <2>2 DEF MQ!PutSample, MQ!NotifyAll, trainerVars, RestOK
    <2>3. CASE EndArrives \/ \E s \in Samples : SampleArrives(s)
      BY <2>2, <2>3 DEF EndArrives, SampleArrives
    <2>4. CASE Take
      BY <1>2, <1>4, <2>4 DEF Take, MQ!GetSample
    <2>5. CASE Wait
      BY <2>5 DEF Wait, trainerVars
    <2>6. CASE Send \/ Call \/ Answered \/ Save \/ RunnerEnds
      <3>1. UNCHANGED getter
        BY <2>6 DEF Send, Call, Answered, Save, RunnerEnds, MQ!ClearQueue, queueVars
      <3> QED
        BY <1>4, <2>6, <3>1 DEF RestOK, Send, SendWeights, Call, CallReset, Answered, ResetDone,
           Save, SaveCheckpoint, RunnerEnds, trainerVars
    <2> QED
      BY <2>1, <2>3, <2>4, <2>5, <2>6 DEF Next, Rollout, Trainer
  <1> QED
    BY <1>3, <1>4 DEF RestOK

LEMMA RestInvariance == Spec => []RestOK
  <1>1. Init => RestOK
    BY DEF Init, RInit, MQ!Init, RestOK
  <1>2. EInv /\ RestOK /\ [Next]_vars => RestOK'
    BY RestStep
  <1> QED
    BY <1>1, <1>2, EInvariance, PTL DEF Spec

LEMMA UnstampedFact == Unstamped \notin Nat
  BY DEF Unstamped

LEMMA StampsStep ==
    ASSUME EInv, StampsOK, [Next]_vars
    PROVE  StampsOK'
  <1>0. /\ MQ!TypeOK /\ queue \in Seq(Entries) /\ DOMAIN queue = 1 .. Len(queue)
        /\ task \in [Samples -> TaskState] /\ served.version \in Nat
        /\ bornIn \in [Samples -> Nat \union {Unstamped}]
        /\ \A i \in DOMAIN queue : queue[i] \in Entries
    <2>1. queue \in Seq(Entries)
      BY EInvParts, QueueFacts
    <2> QED
      BY <2>1, EInvParts, QueueFacts DEF EInv, GInv, TInv, TTypeOK
  <1>1. \A s \in Samples : task'[s] = "none" => task[s] = "none"
    <2>1. [RNext]_rolloutVars
      BY EInvParts, RolloutSteps
    <2>2. CASE ProcSubmit
      <3>1. hand \in Samples /\ task' = [task EXCEPT ![hand] = "generating"]
        BY <2>2, EInvParts DEF ProcSubmit, RInv, HandOK
      <3> QED
        BY <1>0, <3>1
    <2>3. ASSUME NEW s \in Samples,
                 TaskFails(s) \/ TaskEnds(s) \/ \E ok \in BOOLEAN : TaskPut(s, ok)
          PROVE  \A r \in Samples : task'[r] = "none" => task[r] = "none"
      BY <1>0, <2>3 DEF TaskFails, TaskEnds, TaskPut
    <2>4. CASE UNCHANGED task
      BY <2>4
    <2> QED
      BY <2>1, <2>2, <2>3, <2>4
      DEF RNext, Feed, ProcSetPaused, ProcReap, ProcPark, ProcWake, ProcContinue, ResetCalled,
          ResetBegins, ResetEnds, MonitorResumes, MonitorExits, MainWaited, MainSignals,
          MainStops, ProcPause, ProcFetch, ProcTake, ResetAnswered, MonitorDecides, taskVars,
          rolloutVars
  <1>2. ASSUME UNCHANGED bornIn, NEW v \in Entries, MQ!PutSample(v),
               v # None => bornIn[v] # Unstamped
        PROVE  StampsOK'
    <2> DEFINE d == droppedSamples' - droppedSamples
    <2>1. /\ Len(queue') \in Nat /\ DOMAIN queue' = 1 .. Len(queue') /\ queue'[Len(queue')] = v
          /\ \A i \in 1 .. Len(queue') - 1 : i + d \in DOMAIN queue /\ queue'[i] = queue[i + d]
      BY <1>0, <1>2, PutEntries
    <2> HIDE DEF d
    <2>2. \A i \in 1 .. Len(queue') : i = Len(queue') \/ i \in 1 .. Len(queue') - 1
      BY <2>1, LastOrBefore
    <2> QED
      BY <1>1, <1>2, <2>1, <2>2 DEF StampsOK
  <1>3. ASSUME NEW s \in Samples, SampleArrives(s)
        PROVE  StampsOK'
    BY <1>2, <1>3 DEF SampleArrives, Entries
  <1>4. CASE EndArrives
    BY <1>2, <1>4 DEF EndArrives, Entries
  <1>5. ASSUME NEW s \in Samples, Stamp(s)
        PROVE  StampsOK'
    <2>1. /\ task[s] = "generating" /\ bornIn' = [bornIn EXCEPT ![s] = served.version]
          /\ UNCHANGED <<task, queue>>
      BY <1>5 DEF Stamp, rolloutVars, taskVars, queueVars
    <2>2. \A r \in Samples : task[r] = "none" => bornIn'[r] = Unstamped
      BY <1>0, <2>1 DEF StampsOK
    <2>3. ASSUME NEW i \in DOMAIN queue, queue[i] # None
          PROVE  bornIn'[queue[i]] # Unstamped
      <3>1. queue[i] \in Samples /\ bornIn[queue[i]] # Unstamped
        BY <1>0, <2>3 DEF StampsOK, Entries
      <3> QED
        BY <1>0, <2>1, <3>1, UnstampedFact
    <2> QED
      BY <2>1, <2>2, <2>3 DEF StampsOK
  <1>6. CASE Take
    <2>1. queue # << >> /\ queue' = Tail(queue) /\ UNCHANGED bornIn
      BY <1>6 DEF Take, MQ!GetSample
    <2>2. /\ DOMAIN queue' = 1 .. Len(queue) - 1
          /\ \A i \in 1 .. Len(queue) - 1 :
                i + 1 \in DOMAIN queue /\ queue'[i] = queue[i + 1]
      BY <1>0, <2>1, GetEntries
    <2> QED
      BY <1>1, <2>1, <2>2 DEF StampsOK
  <1>7. CASE RunnerEnds
    BY <1>1, <1>7 DEF RunnerEnds, MQ!ClearQueue, StampsOK
  <1>8. CASE UNCHANGED <<queue, bornIn>>
    BY <1>1, <1>8 DEF StampsOK
  <1> QED
    BY <1>3, <1>4, <1>5, <1>6, <1>7, <1>8
    DEF Next, Rollout, Trainer, RolloutAlone, RolloutReads, Wait, MQ!GetWaits, Send, Call,
        Answered, Save, Ended, vars, sysVars, queueVars

LEMMA StampsInvariance == Spec => []StampsOK
  <1>1. Init => StampsOK
    BY DEF Init, MQ!Init, StampsOK
  <1>2. EInv /\ StampsOK /\ [Next]_vars => StampsOK'
    BY StampsStep
  <1> QED
    BY <1>1, <1>2, EInvariance, PTL DEF Spec

LEMMA PositionTypes ==
    ASSUME EInv
    PROVE  /\ Position \in Nat /\ currentParamVersion * OneVersion \in Nat
           /\ currentParamVersion * OneVersion <= Position
           /\ Position = currentParamVersion * OneVersion + Local
           /\ \A s \in Samples : bornIn[s] # Unstamped =>
                 bornIn[s] \in Nat /\ bornIn[s] * OneVersion \in Nat
  <1>1. currentParamVersion * OneVersion \in Nat /\ Local \in Nat
    BY LocalTypes, ProductNat
  <1>2. Position = currentParamVersion * OneVersion + Local
    BY DEF Position
  <1>3. ASSUME NEW s \in Samples, bornIn[s] # Unstamped
        PROVE  bornIn[s] \in Nat /\ bornIn[s] * OneVersion \in Nat
    <2>1. bornIn[s] \in Nat
      BY <1>3 DEF EInv, GInv
    <2> QED
      BY <2>1, LocalTypes, ProductNat
  <1> QED
    BY <1>1, <1>2, <1>3

(* What the place n stands at is still within the budget of a sample that  *)
(* is stamped with the current version, or with the one before while the   *)
(* call to reset_staleness is on its way.                                  *)
LEMMA PlaceAllowed ==
    ASSUME EInv, SideOK, ~ending, NEW n \in Nat, n + Consumed <= MaxRequiredSamples,
           NEW v \in Nat,
           \/ v = served.version
           \/ v = served.version - 1 /\ (step = "calling" \/ reset = "locking")
    PROVE  Position + n <= v * OneVersion + MaxRequiredSamples
  <1>1. /\ Position \in Nat /\ currentParamVersion * OneVersion \in Nat
        /\ Position = currentParamVersion * OneVersion + Local
        /\ Local \in Nat /\ Consumed \in Nat
        /\ MaxRequiredSamples \in Nat /\ OneVersion \in Nat /\ currentParamVersion \in Nat
    BY PositionTypes, LocalTypes, CommittedTypes
  <1>2. v = currentParamVersion \/ v = currentParamVersion - 1
    BY <1>1 DEF SideOK, StampOK, ResetWaited
  <1>3. CASE v = currentParamVersion - 1
    <2>1. step \in {"syncing", "calling"} \/ reset = "locking"
      BY <1>1, <1>3 DEF SideOK, StampOK
    <2>2. v * OneVersion = currentParamVersion * OneVersion - OneVersion
      BY <1>1, <1>3, TimesSucc
    <2>3. Consumed = OneVersion /\ Local = 0
      BY <2>1, LocalTypes DEF Consumed, SideOK, ResetWaited
    <2> QED
      BY <1>1, <2>2, <2>3
  <1>4. CASE v = currentParamVersion
    <2>1. Local <= Consumed
      <3>1. CASE step \in {"syncing", "calling"} \/ reset = "locking"
        BY <1>1, <3>1, LocalTypes DEF SideOK, ResetWaited
      <3>2. CASE ~(step \in {"syncing", "calling"} \/ reset = "locking")
        BY <1>1, <3>2 DEF Consumed
      <3> QED
        BY <3>1, <3>2
    <2> QED
      BY <1>1, <1>4, <2>1
  <1> QED
    BY <1>2, <1>3, <1>4

(* A sample is put at a place that its version allows.                     *)
LEMMA PutPosition ==
    ASSUME EInv, SideOK, CountOK, UnderwayOK, ~ending, NEW s \in Samples, SampleArrives(s)
    PROVE  Position + Len(queue) + 1 <= bornIn[s] * OneVersion + MaxRequiredSamples
  <1>1. Len(queue) + 1 + Consumed <= MaxRequiredSamples
    BY RoomToPut
  <1>2. /\ Position \in Nat /\ Consumed \in Nat /\ Len(queue) \in Nat /\ Load \in Nat
        /\ MaxRequiredSamples \in Nat
    BY PositionTypes, LocalTypes, CommittedTypes
  <1>3. task[s] = "generating" /\ bornIn[s] # Unstamped
    BY DEF SampleArrives, TaskPut
  <1>4. bornIn[s] \in Nat /\ bornIn[s] * OneVersion \in Nat
    BY <1>3, PositionTypes
  <1>5. CASE \/ bornIn[s] = served.version
             \/ bornIn[s] = served.version - 1 /\ (step = "calling" \/ reset = "locking")
    <2>1. PICK n \in Nat, v \in Nat : n = Len(queue) + 1 /\ v = bornIn[s]
      BY <1>2, <1>4
    <2>2. /\ n + Consumed <= MaxRequiredSamples
          /\ \/ v = served.version
             \/ v = served.version - 1 /\ (step = "calling" \/ reset = "locking")
      BY <1>1, <1>5, <2>1
    <2>3. Position + n <= v * OneVersion + MaxRequiredSamples
      BY <2>2, PlaceAllowed
    <2> QED
      BY <1>2, <1>4, <2>1, <2>3
  <1>6. CASE Position + Load <= bornIn[s] * OneVersion + MaxRequiredSamples
    <2>1. s \in Reserved
      BY <1>3 DEF Reserved
    <2>2. Cardinality(Reserved) >= 1
      BY <2>1, WorkTypes, FS_EmptySet
    <2>3. Len(queue) + 1 <= Load
      BY <2>2, CommittedTypes
    <2> QED
      BY <1>2, <1>4, <1>6, <2>3
  <1> QED
    BY <1>3, <1>5, <1>6 DEF UnderwayOK

LEMMA PositionSteps ==
    ASSUME EInv, SideOK, [Next]_vars
    PROVE  /\ Position' \in Int
           /\ ~Take => Position' = Position /\ UNCHANGED ending
           /\ Take /\ ~ending' => Position' = Position + 1
  <1>0. /\ currentParamVersion \in Nat /\ OneVersion \in Nat /\ Local \in Nat
        /\ currentParamVersion * OneVersion \in Nat
        /\ (currentParamVersion + 1) * OneVersion
               = currentParamVersion * OneVersion + OneVersion
        /\ Position = currentParamVersion * OneVersion + Local /\ Position \in Nat
    BY LocalTypes, PositionTypes, TimesSucc
  <1>1. Position' = currentParamVersion' * OneVersion + Local'
    BY DEF Position, OneVersion
  <1>2. CASE UNCHANGED <<Local, currentParamVersion, ending>> /\ ~Take
    <2>1. Position' = Position
      BY <1>2 DEF Position, OneVersion
    <2> QED
      BY <1>0, <1>2, <2>1
  <1>3. CASE Take /\ (Collect \/ Train)
    <2>1. Position' = Position + 1
      <3>1. CASE Local' = Local + 1 /\ currentParamVersion' = currentParamVersion
        <4>1. Position' = currentParamVersion * OneVersion + (Local + 1)
          BY <1>1, <3>1
        <4> QED
          BY <1>0, <4>1
      <3>2. CASE /\ Local + 1 = OneVersion /\ Local' = 0
                 /\ currentParamVersion' = currentParamVersion + 1
        <4>1. Position' = (currentParamVersion + 1) * OneVersion + 0
          <5>1. \A x, y \in Int : x = currentParamVersion + 1 /\ y = 0 =>
                   x * OneVersion + y = (currentParamVersion + 1) * OneVersion + 0
            BY <1>0
          <5>2. currentParamVersion' \in Int /\ Local' \in Int
            BY <1>0, <3>2
          <5> QED
            BY <1>1, <3>2, <5>1, <5>2, Zenon
        <4> QED
          BY <1>0, <3>2, <4>1
      <3> QED
        BY <1>3, <3>1, <3>2, LocalSteps
    <2> QED
      BY <1>0, <1>3, <2>1
  <1>4. CASE Take /\ SeeEnd
    <2>1. ending' /\ UNCHANGED <<currentParamVersion, localTriggerStep>> /\ collected' = 0
      BY <1>4 DEF SeeEnd, versionVars
    <2>2. Position' \in Int
      <3>1. Local' = (localTriggerStep - 1) * RequiredSamples + 0
        BY <2>1 DEF Local
      <3>2. (localTriggerStep - 1) * RequiredSamples \in Int
        BY LocalTypes, Params, TimesSucc
      <3>3. Local' \in Int /\ Position' = currentParamVersion * OneVersion + Local'
        BY <1>1, <2>1, <3>1, <3>2
      <3> QED
        BY <1>0, <3>3
    <2> QED
      BY <1>4, <2>1, <2>2
  <1>5. ASSUME ~Take
        PROVE  UNCHANGED <<Local, currentParamVersion, ending>>
    <2>1. UNCHANGED <<collected, localTriggerStep, currentParamVersion, ending>>
      BY <1>5, TrainerMoves
      DEF trainerVars, versionVars, Send, SendWeights, Call, CallReset, Answered, ResetDone,
          Save, SaveCheckpoint
    <2> QED
      BY <2>1 DEF Local
  <1> QED
    BY <1>2, <1>3, <1>4, <1>5, TrainerMoves

LEMMA AgeStep ==
    ASSUME EInv, SideOK, CountOK, AgeOK, UnderwayOK, StampsOK, [Next]_vars
    PROVE  AgeOK'
  <1>0. /\ MQ!TypeOK /\ queue \in Seq(Entries) /\ Len(queue) \in Nat
        /\ DOMAIN queue = 1 .. Len(queue)
        /\ Position \in Nat /\ MaxRequiredSamples \in Nat /\ OneVersion \in Nat
        /\ \A i \in DOMAIN queue : queue[i] \in Entries
        /\ \A s \in Samples : bornIn[s] # Unstamped => bornIn[s] * OneVersion \in Nat
        /\ Position' \in Int
    <2>1. MQ!TypeOK /\ queue \in Seq(Entries) /\ DOMAIN queue = 1 .. Len(queue)
      BY EInvParts, QueueFacts
    <2>2. \A i \in DOMAIN queue : queue[i] \in Entries
      BY <2>1
    <2>3. /\ Position \in Nat
          /\ \A s \in Samples : bornIn[s] # Unstamped => bornIn[s] * OneVersion \in Nat
      BY PositionTypes
    <2>4. Len(queue) \in Nat /\ MaxRequiredSamples \in Nat /\ OneVersion \in Nat
      BY CommittedTypes, LocalTypes
    <2>5. Position' \in Int
      BY PositionSteps
    <2> QED
      BY <2>1, <2>2, <2>3, <2>4, <2>5, Zenon
  <1>1. SUFFICES ASSUME ~ending', NEW i \in DOMAIN queue', queue'[i] # None
                 PROVE  Position' + i <= bornIn'[queue'[i]] * OneVersion + MaxRequiredSamples
    BY DEF AgeOK, OneVersion
  <1>2. CASE Take
    <2>1. /\ queue # << >> /\ queue' = Tail(queue) /\ UNCHANGED bornIn /\ step = "collecting"
      BY <1>2 DEF Take, MQ!GetSample, Collect, Train, SeeEnd
    <2>2. ~ending /\ Position' = Position + 1
      BY <1>1, <1>2, <2>1, LocalTypes, PositionSteps
    <2>3. i \in 1 .. Len(queue) - 1 /\ i + 1 \in DOMAIN queue /\ queue'[i] = queue[i + 1]
      BY <1>0, <1>1, <2>1, GetEntries
    <2>4. queue[i + 1] \in Samples /\ bornIn[queue[i + 1]] # Unstamped
      BY <1>0, <1>1, <2>3 DEF Entries, StampsOK
    <2>5. Position + (i + 1) <= bornIn[queue[i + 1]] * OneVersion + MaxRequiredSamples
      BY <1>1, <2>2, <2>3 DEF AgeOK
    <2>6. bornIn'[queue'[i]] = bornIn[queue[i + 1]]
      BY <2>1, <2>3
    <2>7. Position + 1 + i <= bornIn[queue[i + 1]] * OneVersion + MaxRequiredSamples
      BY <1>0, <2>3, <2>4, <2>5
    <2> QED
      BY <2>2, <2>6, <2>7, Zenon
  <1>3. CASE ~Take
    <2>1. Position' = Position /\ ~ending
      BY <1>1, <1>3, PositionSteps
    <2>2. ASSUME i \in DOMAIN queue, queue'[i] = queue[i], bornIn'[queue[i]] = bornIn[queue[i]]
          PROVE  Position' + i <= bornIn'[queue'[i]] * OneVersion + MaxRequiredSamples
      <3>1. Position + i <= bornIn[queue[i]] * OneVersion + MaxRequiredSamples
        BY <1>1, <2>1, <2>2 DEF AgeOK
      <3> QED
        BY <2>1, <2>2, <3>1, Zenon
    <2>3. ASSUME NEW s \in Samples, SampleArrives(s)
          PROVE  Position' + i <= bornIn'[queue'[i]] * OneVersion + MaxRequiredSamples
      <3>1. MQ!PutSample(s) /\ bornIn' = bornIn /\ bornIn[s] # Unstamped
        BY <2>3 DEF SampleArrives
      <3>2. droppedSamples' = droppedSamples /\ droppedSamples \in Nat
        BY <1>0, DropsStep, QueueFacts
      <3>3. Position + Len(queue) + 1 <= bornIn[s] * OneVersion + MaxRequiredSamples
        BY <2>1, <2>3, PutPosition
      <3>4. droppedSamples' - droppedSamples = 0
        BY <3>2
      <3>5. /\ Len(queue') = Len(queue) + 1 - 0 /\ DOMAIN queue' = 1 .. Len(queue')
            /\ queue'[Len(queue')] = s
            /\ \A k \in 1 .. Len(queue') - 1 : k + 0 \in DOMAIN queue /\ queue'[k] = queue[k + 0]
        BY <1>0, <3>1, <3>4, PutEntries DEF Entries
      <3>6. i \in 1 .. Len(queue) + 1 /\ queue'[Len(queue) + 1] = s
        BY <1>0, <1>1, <3>5
      <3>7. CASE queue'[i] = s
        <4>1. Position + i <= bornIn[s] * OneVersion + MaxRequiredSamples
          BY <1>0, <3>1, <3>3, <3>6
        <4> QED
          BY <2>1, <3>1, <3>7, <4>1, Zenon
      <3>8. CASE queue'[i] # s
        <4>1. i \in 1 .. Len(queue)
          BY <1>0, <3>6, <3>8
        <4>2. i \in 1 .. Len(queue') - 1 /\ i + 0 = i
          BY <1>0, <3>5, <4>1
        <4>3. i \in DOMAIN queue /\ queue'[i] = queue[i]
          BY <3>5, <4>2
        <4> QED
          BY <2>2, <3>1, <4>3
      <3> QED
        BY <3>7, <3>8
    <2>4. CASE EndArrives
      <3>1. MQ!PutSample(None) /\ UNCHANGED bornIn
        BY <2>4 DEF EndArrives
      <3>2. droppedSamples' = droppedSamples /\ droppedSamples \in Nat
        BY <1>0, DropsStep, QueueFacts
      <3>3. droppedSamples' - droppedSamples = 0
        BY <3>2
      <3>4. /\ Len(queue') = Len(queue) + 1 - 0 /\ DOMAIN queue' = 1 .. Len(queue')
            /\ queue'[Len(queue')] = None
            /\ \A k \in 1 .. Len(queue') - 1 : k + 0 \in DOMAIN queue /\ queue'[k] = queue[k + 0]
        BY <1>0, <3>1, <3>3, PutEntries DEF Entries
      <3>5. i \in 1 .. Len(queue') - 1 /\ i + 0 = i
        BY <1>0, <1>1, <3>4
      <3>6. i \in DOMAIN queue /\ queue'[i] = queue[i]
        BY <3>4, <3>5
      <3> QED
        BY <2>2, <3>1, <3>6
    <2>5. CASE queue' = << >>
      BY <1>1, <2>5
    <2>6. CASE UNCHANGED <<queue, bornIn>>
      BY <1>1, <2>2, <2>6
    <2>7. ASSUME NEW s \in Samples, Stamp(s)
          PROVE  Position' + i <= bornIn'[queue'[i]] * OneVersion + MaxRequiredSamples
      <3>1. /\ bornIn[s] = Unstamped /\ bornIn' = [bornIn EXCEPT ![s] = served.version]
            /\ bornIn \in [Samples -> Nat \union {Unstamped}] /\ queue' = queue
        BY <2>7 DEF Stamp, queueVars, EInv, GInv
      <3>2. queue[i] \in Samples /\ bornIn[queue[i]] # Unstamped
        BY <1>0, <1>1, <3>1 DEF Entries, StampsOK
      <3> QED
        BY <1>1, <2>2, <3>1, <3>2
    <2>8. \/ queue' = << >> \/ UNCHANGED <<queue, bornIn>> \/ EndArrives
          \/ \E s \in Samples : Stamp(s) \/ SampleArrives(s)
      BY <1>3
      DEF Next, Rollout, Trainer, RolloutAlone, RolloutReads, Wait, MQ!GetWaits, Send, Call,
          Answered, Save, RunnerEnds, MQ!ClearQueue, Ended, vars, sysVars, queueVars
    <2> QED
      BY <2>3, <2>4, <2>5, <2>6, <2>7, <2>8
  <1> QED
    BY <1>2, <1>3

(* What waits for the processor is what it may still have taken.           *)
LEMMA WaitedFor ==
    ASSUME EInv, RestOK, PlaceOK, reset = "locking", NEW s \in Samples,
           task[s] = "generating"
    PROVE  proc \in {"draining", "finishing", "dead"}
  <1>1. proc # "dead" => s \in activeTasks
    BY EInvParts DEF StreamOK, TasksOK
  <1>2. proc \notin {"sleeping", "parked", "woken", "ended"}
    BY <1>1 DEF RestOK
  <1> QED
    BY <1>2 DEF PlaceOK, Idle

(* A processor that waits for a running task goes on waiting, or dies.     *)
LEMMA StillWaiting ==
    ASSUME EInv, [RNext]_rolloutVars, proc \in {"draining", "finishing", "dead"},
           NEW s \in Samples, task[s] = "generating"
    PROVE  proc' \in {"draining", "finishing", "dead"} /\ ~Taking
  <1>1. proc # "dead" => s \in activeTasks /\ s \notin Finished
    BY EInvParts DEF StreamOK, TasksOK, Finished
  <1>2. ~Taking
    BY DEF Taking, ProcTake
  <1>3. CASE ProcReap
    <2>1. activeTasks' # {}
      BY <1>1, <1>3 DEF ProcReap
    <2> QED
      BY <1>3, <2>1, <1>2 DEF ProcReap, GoReleasing, GoRelocking
  <1>4. CASE ~ProcReap
    BY <1>2, <1>4
    DEF RNext, Feed, ProcSetPaused, ProcPark, ProcWake, ProcContinue, ProcSubmit,
        ResetCalled, ResetBegins, ResetEnds, MonitorResumes, MonitorExits, MainWaited,
        MainSignals, MainStops, ProcPause, ProcFetch, ResetAnswered, Taking,
        MonitorDecides, TaskFails, TaskEnds, TaskPut, NotifyAll, procVars, rolloutVars
  <1> QED
    BY <1>3, <1>4

LEMMA UnderwayStep ==
    ASSUME EInv, SideOK, BudgetOK, RestOK, StampsOK, UnderwayOK, [Next]_vars
    PROVE  UnderwayOK'
  <1>0. /\ task \in [Samples -> TaskState] /\ served.version \in Nat
        /\ bornIn \in [Samples -> Nat \union {Unstamped}] /\ [RNext]_rolloutVars
        /\ step = "collecting" => ~ending
    BY EInvParts, RolloutSteps, LocalTypes DEF EInv, GInv, TInv, TTypeOK
  <1> SUFFICES ASSUME ~ending', NEW s \in Samples, task'[s] = "generating",
                      bornIn'[s] # Unstamped
               PROVE  \/ bornIn'[s] = served'.version
                      \/ /\ bornIn'[s] = served'.version - 1
                         /\ step' = "calling" \/ reset' = "locking"
                      \/ /\ proc' \in {"draining", "finishing", "dead"}
                         /\ Position' + Load' <= bornIn'[s] * OneVersion + MaxRequiredSamples
    BY DEF UnderwayOK, OneVersion
  <1>1. ASSUME NEW r \in Samples, Stamp(r), r = s
        PROVE  bornIn'[s] = served'.version
    BY <1>0, <1>1 DEF Stamp, trainerVars
  <1>2. ASSUME bornIn[s] # Unstamped
        PROVE  task[s] = "generating"
    <2>1. CASE ProcSubmit
      <3>1. hand \in Samples /\ task' = [task EXCEPT ![hand] = "generating"]
        BY <2>1, EInvParts DEF ProcSubmit, RInv, HandOK
      <3>2. task[hand] = "none"
        BY <3>1, EInvParts DEF FeedShape
      <3> QED
        BY <1>0, <1>2, <3>1, <3>2 DEF StampsOK
    <2>2. ASSUME NEW r \in Samples,
                 TaskFails(r) \/ TaskEnds(r) \/ \E ok \in BOOLEAN : TaskPut(r, ok)
          PROVE  task[s] = "generating"
      BY <1>0, <2>2 DEF TaskFails, TaskEnds, TaskPut
    <2>3. CASE UNCHANGED task
      BY <2>3
    <2> QED
      BY <1>0, <2>1, <2>2, <2>3
      DEF RNext, Feed, ProcSetPaused, ProcReap, ProcPark, ProcWake, ProcContinue, ResetCalled,
          ResetBegins, ResetEnds, MonitorResumes, MonitorExits, MainWaited, MainSignals,
          MainStops, ProcPause, ProcFetch, ProcTake, ResetAnswered, MonitorDecides, taskVars,
          rolloutVars
  <1>3. bornIn'[s] = bornIn[s] \/ \E r \in Samples : Stamp(r) /\ r = s
    BY <1>0
    DEF Next, Rollout, Trainer, RolloutAlone, RolloutReads, EndArrives, Stamp, SampleArrives,
        Take, Wait, Send, Call, Answered, Save, RunnerEnds, Ended, vars, sysVars
  <1>4. ASSUME bornIn'[s] = bornIn[s]
        PROVE  \/ bornIn[s] = served'.version
               \/ bornIn[s] = served'.version - 1 /\ (step' = "calling" \/ reset' = "locking")
               \/ /\ proc' \in {"draining", "finishing", "dead"}
                  /\ Position' + Load' <= bornIn[s] * OneVersion + MaxRequiredSamples
    <2>0. /\ bornIn[s] # Unstamped /\ task[s] = "generating" /\ ~ending
          /\ bornIn[s] \in Nat /\ bornIn[s] * OneVersion \in Nat
      <3>1. bornIn[s] # Unstamped /\ task[s] = "generating"
        BY <1>2, <1>4
      <3>2. ~ending
        BY <1>0, PositionSteps DEF Take, Collect, Train, SeeEnd
      <3> QED
        BY <3>1, <3>2, PositionTypes
    <2>1. ASSUME ~Taking
          PROVE  Position' + Load' <= Position + Load
      <3>1. /\ Position' \in Int /\ Position \in Int /\ Load \in Int /\ Load' \in Int
            /\ Load' <= Load /\ (Take => Load' + 1 <= Load)
            /\ (~Take => Position' = Position) /\ (Take => Position' = Position + 1)
        BY <2>1, PositionSteps, PositionTypes, LoadSteps, LoadTypes
      <3>2. \A p, q, l, m \in Int :
               /\ q = p /\ m <= l => q + m <= p + l
               /\ q = p + 1 /\ m + 1 <= l => q + m <= p + l
        OBVIOUS
      <3> QED
        BY <3>1, <3>2, Zenon
    <2>2. ASSUME proc \in {"draining", "finishing", "dead"},
                 Position + Load <= bornIn[s] * OneVersion + MaxRequiredSamples
          PROVE  /\ proc' \in {"draining", "finishing", "dead"}
                 /\ Position' + Load' <= bornIn[s] * OneVersion + MaxRequiredSamples
      <3>1. proc' \in {"draining", "finishing", "dead"} /\ ~Taking
        BY <1>0, <2>0, <2>2, StillWaiting
      <3>2. Position' + Load' <= Position + Load
        BY <2>1, <3>1
      <3>3. /\ Position' + Load' \in Int /\ Position + Load \in Int
            /\ bornIn[s] * OneVersion + MaxRequiredSamples \in Int
        <4>1. Position' \in Int /\ Load' \in Int
          BY PositionSteps, LoadSteps
        <4>2. Position' + Load' \in Int
          BY <4>1
        <4> QED
          BY <2>0, <4>2, PositionTypes, LoadTypes
      <3>4. \A a, b, c \in Int : a <= b /\ b <= c => a <= c
        OBVIOUS
      <3> QED
        BY <2>2, <3>1, <3>2, <3>3, <3>4, Zenon
    <2>3. CASE Send
      <3>1. /\ step = "syncing" /\ step' = "calling" /\ served'.version = currentParamVersion
            /\ reset = "none"
        BY <2>3 DEF Send, SendWeights, SideOK, ResetWaited
      <3>2. served'.version = served.version + 1
        BY <2>0, <3>1, LocalTypes DEF SideOK, StampOK
      <3> QED
        BY <1>0, <2>0, <2>2, <3>1, <3>2 DEF UnderwayOK
    <2>4. CASE ~Send
      <3>1. served'.version = served.version
        BY <2>4, TrainerMoves
        DEF trainerVars, Collect, Train, SeeEnd, Call, CallReset, Answered, ResetDone, Save,
            SaveCheckpoint
      <3>2. CASE bornIn[s] = served.version
        BY <3>1, <3>2
      <3>3. CASE /\ proc \in {"draining", "finishing", "dead"}
                 /\ Position + Load <= bornIn[s] * OneVersion + MaxRequiredSamples
        BY <2>2, <3>3
      <3>4. CASE bornIn[s] = served.version - 1 /\ step = "calling"
        <4>1. step' = "calling" \/ reset' = "locking"
          BY <3>4, TrainerMoves
          DEF trainerVars, Collect, Train, SeeEnd, Call, ResetCalled, Answered, ResetDone, Save,
              SaveCheckpoint, Send, SendWeights
        <4> QED
          BY <3>1, <3>4, <4>1
      <3>5. CASE bornIn[s] = served.version - 1 /\ reset = "locking" /\ reset' # "locking"
        <4>1. proc \in {"draining", "finishing", "dead"}
          BY <2>0, <3>5, WaitedFor DEF BudgetOK
        <4>2. Position + Load <= bornIn[s] * OneVersion + MaxRequiredSamples
          <5>1. Load + Consumed <= MaxRequiredSamples /\ Load \in Nat
            BY CommittedTypes DEF BudgetOK, CountOK
          <5> QED
            BY <2>0, <3>5, <5>1, PlaceAllowed
        <4> QED
          BY <2>2, <4>1, <4>2
      <3>6. CASE bornIn[s] = served.version - 1 /\ reset' = "locking"
        BY <3>1, <3>6
      <3> QED
        BY <2>0, <3>2, <3>3, <3>4, <3>5, <3>6 DEF UnderwayOK
    <2> QED
      BY <2>3, <2>4
  <1>5. CASE bornIn'[s] = bornIn[s]
    BY <1>4, <1>5, Zenon
  <1> QED
    BY <1>1, <1>3, <1>5

LEMMA AgeInvariance ==
    ASSUME NeverThrottled
    PROVE  Spec => [](keepsUp => AgeOK)
  <1>1. Init => (keepsUp => AgeOK /\ UnderwayOK)
    BY DEF Init, MQ!Init, RInit, AgeOK, UnderwayOK
  <1>2. EInv /\ SideOK /\ RestOK /\ StampsOK /\ (keepsUp => BudgetOK)
            /\ (keepsUp => AgeOK /\ UnderwayOK) /\ [Next]_vars
            => (keepsUp => AgeOK /\ UnderwayOK)'
    <2> SUFFICES ASSUME EInv, SideOK, RestOK, StampsOK, keepsUp => BudgetOK,
                        keepsUp => AgeOK /\ UnderwayOK, [Next]_vars, keepsUp'
                 PROVE  AgeOK' /\ UnderwayOK'
      OBVIOUS
    <2>1. UNCHANGED keepsUp
      BY RestSteps DEF EInv
    <2> QED
      BY <2>1, AgeStep, UnderwayStep DEF BudgetOK
  <1> QED
    BY <1>1, <1>2, EInvariance, SideInvariance, RestInvariance, StampsInvariance,
       BudgetInvariance, PTL DEF Spec

LEMMA DivBound ==
    \A a \in Int, n \in Nat, b \in Nat \ {0} : a * b <= n => a <= n \div b
  OBVIOUS

LEMMA MinusTimes == \A a, c, b \in Int : (a - c) * b = a * b - c * b
  OBVIOUS

(* No sample is trained on more versions after the one that generated it   *)
(* than the budget has batches for, however long its reward, its other     *)
(* answers and its statistics are awaited after the stamp                  *)
(* (fully_async.md:135-142, rollouter:439-460).                            *)
THEOREM SamplesStayFresh == NeverThrottled => (Spec => []Fresh)
  <1> SUFFICES ASSUME NeverThrottled PROVE Spec => []Fresh
    OBVIOUS
  <1>1. EInv /\ StampsOK /\ (keepsUp => AgeOK) => Fresh
    <2> SUFFICES ASSUME EInv, StampsOK, AgeOK, step = "collecting", queue # << >>, Head(queue) # None
                 PROVE  currentParamVersion - bornIn[Head(queue)]
                            <= (MaxRequiredSamples - 1) \div OneVersion
      BY DEF Fresh
    <2>1. /\ queue \in Seq(Entries) /\ 1 \in DOMAIN queue /\ Head(queue) = queue[1]
      BY EInvParts, QueueFacts
    <2> DEFINE s == Head(queue)
    <2>2. s \in Samples /\ bornIn[s] # Unstamped
      BY <2>1 DEF Entries, StampsOK
    <2>3. Position + 1 <= bornIn[s] * OneVersion + MaxRequiredSamples
      BY <2>1, LocalTypes DEF AgeOK
    <2> HIDE DEF s
    <2>4. /\ bornIn[s] \in Nat /\ bornIn[s] * OneVersion \in Nat
          /\ currentParamVersion \in Nat /\ currentParamVersion * OneVersion \in Nat
          /\ currentParamVersion * OneVersion <= Position /\ Position \in Nat
          /\ OneVersion \in Nat \ {0} /\ MaxRequiredSamples \in Nat \ {0}
      BY <2>2, PositionTypes, LocalTypes, Params
    <2>5. (currentParamVersion - bornIn[s]) * OneVersion
             = currentParamVersion * OneVersion - bornIn[s] * OneVersion
      BY <2>4, MinusTimes
    <2>6. (currentParamVersion - bornIn[s]) * OneVersion <= MaxRequiredSamples - 1
      BY <2>3, <2>4, <2>5
    <2>7. currentParamVersion - bornIn[s] \in Int /\ MaxRequiredSamples - 1 \in Nat
      BY <2>4
    <2> QED
      BY <2>4, <2>6, <2>7, DivBound, Zenon DEF s
  <1> QED
    BY <1>1, EInvariance, StampsInvariance, AgeInvariance, PTL

-----------------------------------------------------------------------------
(* The end of the rollouter: it stops running, and its monitor exits, only *)
(* in the last step of a main that met no failure.                         *)

RunOver ==
    /\ active \in BOOLEAN /\ (active <=> main # "stopped")
    /\ monitor = "exited" => ~active

LEMMA RunOverStep == RunOver /\ [RNext]_rolloutVars => RunOver'
  <1> SUFFICES ASSUME RunOver, [RNext]_rolloutVars PROVE RunOver'
    OBVIOUS
  <1>1. CASE MainWaited \/ MainSignals \/ MainStops
    BY <1>1 DEF RunOver, MainWaited, MainSignals, MainStops
  <1>2. CASE MonitorExits \/ MonitorResumes \/ \E q \in 0 .. MaxRequiredSamples : MonitorDecides(q)
    BY <1>2 DEF RunOver, MonitorExits, MonitorResumes, MonitorDecides, endVars
  <1>3. CASE UNCHANGED <<endVars, monitor>>
    BY <1>3 DEF RunOver, endVars
  <1> QED
    BY <1>1, <1>2, <1>3
    DEF RNext, Feed, ProcSetPaused, ProcReap, ProcPark, ProcWake, ProcContinue, ProcSubmit,
        ResetCalled, ResetBegins, ResetEnds, ProcPause, ProcFetch, ProcTake, ResetAnswered,
        TaskFails, TaskEnds, TaskPut, rolloutVars

LEMMA RunOverInvariance == Spec => []RunOver
  <1>1. Init => RunOver
    BY DEF Init, RInit, RunOver
  <1>2. EInv /\ RunOver /\ [Next]_vars => RunOver'
    BY EInvParts, RolloutSteps, RunOverStep
  <1> QED
    BY <1>1, <1>2, EInvariance, PTL DEF Spec

(* After a generation task failed, fit never returns, for any limits and   *)
(* any interleaving: self.running stays true and the monitor loops on      *)
(* (rollouter:556-576, 624-627).                                           *)
THEOREM FailureNeverReturns == Spec => [](main = "failed" => ~FitReturned)
  <1>1. RunOver => (main = "failed" => ~FitReturned)
    BY DEF RunOver, FitReturned
  <1> QED
    BY <1>1, RunOverInvariance, PTL

-----------------------------------------------------------------------------
(* The pipeline implements its documentation: what is queued has been      *)
(* generated and is queued once, and the servers run the current version   *)
(* when training ends.                                                     *)

QueuedOnce ==
    /\ \A i \in DOMAIN queue : queue[i] # None => queue[i] \in Delivered
    /\ \A i, j \in DOMAIN queue : queue[i] = queue[j] /\ queue[i] # None => i = j

EndStamp == ending => served.version = currentParamVersion

LEMMA QueuedOnceKept ==
    ASSUME QueuedOnce, UNCHANGED queue, Delivered \subseteq Delivered'
    PROVE  QueuedOnce'
  BY DEF QueuedOnce

LEMMA DeliveredSteps ==
    ASSUME EInv, [RNext]_rolloutVars
    PROVE  Delivered \subseteq Delivered'
  <1>1. task \in [Samples -> TaskState]
    BY EInvParts
  <1>2. CASE ProcSubmit
    <2>1. hand \in Samples /\ task' = [task EXCEPT ![hand] = "generating"]
      BY <1>2, EInvParts DEF ProcSubmit, RInv, HandOK
    <2>2. task[hand] = "none"
      BY <2>1, EInvParts DEF FeedShape
    <2> QED
      BY <1>1, <2>1, <2>2 DEF Delivered
  <1>3. ASSUME NEW s \in Samples,
               TaskFails(s) \/ TaskEnds(s) \/ \E ok \in BOOLEAN : TaskPut(s, ok)
        PROVE  Delivered \subseteq Delivered'
    BY <1>1, <1>3 DEF TaskFails, TaskEnds, TaskPut, Delivered
  <1>4. CASE UNCHANGED task
    BY <1>4 DEF Delivered
  <1> QED
    BY <1>2, <1>3, <1>4
    DEF RNext, Feed, ProcSetPaused, ProcReap, ProcPark, ProcWake, ProcContinue, ResetCalled,
        ResetBegins, ResetEnds, MonitorResumes, MonitorExits, MainWaited, MainSignals, MainStops,
        ProcPause, ProcFetch, ProcTake, ResetAnswered, MonitorDecides, taskVars, rolloutVars

LEMMA QueuedOnceStep ==
    ASSUME EInv, QueuedOnce, [Next]_vars
    PROVE  QueuedOnce'
  <1>0. /\ MQ!TypeOK /\ DOMAIN queue = 1 .. Len(queue) /\ Len(queue) \in Nat
        /\ task \in [Samples -> TaskState] /\ droppedSamples \in Nat
    BY EInvParts, QueueFacts
  <1>1. Delivered \subseteq Delivered'
    BY EInvParts, RolloutSteps, DeliveredSteps
  <1>2. ASSUME NEW v \in Entries, MQ!PutSample(v), v # None => v \in Delivered' \ Delivered
        PROVE  QueuedOnce'
    <2> DEFINE d == droppedSamples' - droppedSamples
    <2>1. /\ d \in {0, 1} /\ Len(queue') \in Nat /\ DOMAIN queue' = 1 .. Len(queue')
          /\ queue'[Len(queue')] = v
          /\ \A i \in 1 .. Len(queue') - 1 : i + d \in DOMAIN queue /\ queue'[i] = queue[i + d]
      BY <1>0, <1>2, PutEntries
    <2> HIDE DEF d
    <2>2. \A i \in 1 .. Len(queue') : i = Len(queue') \/ i \in 1 .. Len(queue') - 1
      BY <2>1, LastOrBefore
    <2>3. \A i \in 1 .. Len(queue') - 1 : queue'[i] # None => queue'[i] \in Delivered
      BY <2>1 DEF QueuedOnce
    <2>4. \A i \in DOMAIN queue' : queue'[i] # None => queue'[i] \in Delivered'
      BY <1>1, <1>2, <2>1, <2>2, <2>3
    <2>5. ASSUME NEW i \in DOMAIN queue', NEW j \in DOMAIN queue',
                 queue'[i] = queue'[j], queue'[i] # None
          PROVE  i = j
      <3>1. CASE i = Len(queue') \/ j = Len(queue')
        BY <1>2, <2>1, <2>2, <2>3, <2>5, <3>1
      <3>2. CASE i # Len(queue') /\ j # Len(queue')
        <4>1. i \in 1 .. Len(queue') - 1 /\ j \in 1 .. Len(queue') - 1
          BY <2>1, <2>2, <3>2
        <4>2. /\ i + d \in DOMAIN queue /\ j + d \in DOMAIN queue
              /\ queue[i + d] = queue[j + d] /\ queue[i + d] # None
          BY <2>1, <2>5, <4>1
        <4>3. i + d = j + d
          BY <4>2 DEF QueuedOnce
        <4> QED
          BY <2>1, <4>1, <4>3
      <3> QED
        BY <3>1, <3>2
    <2> QED
      BY <2>4, <2>5 DEF QueuedOnce
  <1>3. ASSUME NEW s \in Samples, SampleArrives(s)
        PROVE  QueuedOnce'
    <2>1. s \in Delivered' \ Delivered
      BY <1>0, <1>3 DEF SampleArrives, TaskPut, Delivered
    <2> QED
      BY <1>2, <1>3, <2>1 DEF SampleArrives, Entries
  <1>4. CASE EndArrives
    BY <1>2, <1>4 DEF EndArrives, Entries
  <1>5. CASE Take
    <2>1. queue # << >> /\ queue' = Tail(queue)
      BY <1>5 DEF Take, MQ!GetSample
    <2>2. /\ DOMAIN queue' = 1 .. Len(queue) - 1
          /\ \A i \in 1 .. Len(queue) - 1 :
                i + 1 \in DOMAIN queue /\ queue'[i] = queue[i + 1]
      BY <1>0, <2>1, GetEntries
    <2>3. \A i \in DOMAIN queue' : queue'[i] # None => queue'[i] \in Delivered'
      BY <1>1, <2>2 DEF QueuedOnce
    <2>4. ASSUME NEW i \in DOMAIN queue', NEW j \in DOMAIN queue',
                 queue'[i] = queue'[j], queue'[i] # None
          PROVE  i = j
      <3>1. i + 1 = j + 1 /\ i \in Int /\ j \in Int
        BY <1>0, <2>2, <2>4 DEF QueuedOnce
      <3> QED
        BY <3>1
    <2> QED
      BY <2>3, <2>4 DEF QueuedOnce
  <1>6. CASE RunnerEnds
    BY <1>6 DEF RunnerEnds, MQ!ClearQueue, QueuedOnce
  <1>7. CASE UNCHANGED queue
    BY <1>1, <1>7, QueuedOnceKept
  <1> QED
    BY <1>3, <1>4, <1>5, <1>6, <1>7
    DEF Next, Rollout, Trainer, RolloutAlone, RolloutReads, Wait, MQ!GetWaits, Send, Call,
        Answered, Save, Ended, Stamp, vars, sysVars, queueVars

LEMMA ShownInvariance == Spec => [](QueuedOnce /\ EndStamp)
  <1>1. Init => QueuedOnce /\ EndStamp
    BY DEF Init, MQ!Init, TInit, QueuedOnce, EndStamp
  <1>2. EInv /\ SideOK /\ EndStamp /\ [Next]_vars => EndStamp'
    <2> SUFFICES ASSUME EInv, SideOK, EndStamp, [Next]_vars PROVE EndStamp'
      OBVIOUS
    <2>1. CASE UNCHANGED trainerVars
      BY <2>1 DEF EndStamp, trainerVars, versionVars
    <2>2. CASE Collect \/ Train \/ SeeEnd
      <3>1. step = "collecting" /\ ~ending /\ served' = served
        BY <2>2, LocalTypes DEF Collect, Train, SeeEnd
      <3>2. served.version = currentParamVersion
        BY <3>1 DEF SideOK, StampOK
      <3>3. ending' => UNCHANGED currentParamVersion
        BY <2>2, <3>1 DEF Collect, Train, SeeEnd, versionVars
      <3> QED
        BY <3>1, <3>2, <3>3 DEF EndStamp
    <2>3. CASE Send
      BY <2>3 DEF EndStamp, Send, SendWeights, versionVars
    <2>4. CASE Call \/ Answered \/ Save
      <3>1. UNCHANGED <<ending, served, currentParamVersion>>
        BY <2>4 DEF Call, CallReset, Answered, ResetDone, Save, SaveCheckpoint, versionVars
      <3> QED
        BY <3>1 DEF EndStamp
    <2> QED
      BY <2>1, <2>2, <2>3, <2>4, TrainerMoves
  <1>3. EInv /\ QueuedOnce /\ [Next]_vars => QueuedOnce'
    BY QueuedOnceStep
  <1> QED
    BY <1>1, <1>2, <1>3, EInvariance, SideInvariance, PTL DEF Spec

LEMMA BecomesOne ==
    ASSUME NEW s \in Samples, NEW from, NEW to, Fate(s) = from, Fate(s)' = to,
           \A t \in Samples : t # s => Fate(t)' = Fate(t)
    PROVE  Ideal!Becomes(s, from, to)
  BY DEF Ideal!Becomes

LEMMA FatesKept ==
    ASSUME UNCHANGED <<task, Queued>>
    PROVE  \A s \in Samples : Fate(s)' = Fate(s)
  BY DEF Fate

LEMMA QueuedKept == UNCHANGED queue => UNCHANGED Queued
  BY DEF Queued

(* What is consumed since the served version counts against the budget.    *)
LEMMA UsedBelow ==
    ASSUME EInv, SideOK
    PROVE  UsedNow \in Nat /\ UsedNow <= Consumed
  <1>1. /\ OneVersion \in Nat /\ Local \in Nat
        /\ step \in {"syncing", "calling", "resetting"} => Local = 0
    BY LocalTypes
  <1> QED
    BY <1>1 DEF UsedNow, Consumed, SideOK, ResetWaited

LEMMA HeldOutstanding ==
    ASSUME EInv, QueuedOnce
    PROVE  /\ Ideal!Held \in SUBSET Samples /\ Cardinality(Ideal!Held) \in Nat
           /\ Cardinality(Ideal!Held) <= Work
  <1>1. Ideal!Held \subseteq InFlight \union Queued
    <2> SUFFICES ASSUME NEW s \in Samples, Fate(s) \in {"underway", "ready"}
                 PROVE  s \in InFlight \union Queued
      BY DEF Ideal!Held
    <2> QED
      BY DEF Fate, InFlight
  <1>2. InFlight \subseteq Reserved
    BY DEF InFlight, Reserved
  <1>3. Cardinality(Reserved) \in Nat /\ Len(queue) \in Nat
        /\ Work = Cardinality(Reserved) + Len(queue) /\ IsFiniteSet(Reserved)
    BY WorkTypes
  <1>4. /\ IsFiniteSet(InFlight) /\ Cardinality(InFlight) \in Nat
        /\ Cardinality(InFlight) <= Cardinality(Reserved)
    BY <1>2, <1>3, FS_Subset, FS_CardinalityType
  <1>5. /\ IsFiniteSet(Queued) /\ Cardinality(Queued) \in Nat
        /\ Cardinality(Queued) <= Len(queue)
    BY QueuedBound
  <1>6. /\ IsFiniteSet(InFlight \union Queued)
        /\ Cardinality(InFlight \union Queued)
              = Cardinality(InFlight) + Cardinality(Queued) - Cardinality(InFlight \cap Queued)
    BY <1>4, <1>5, FS_Union
  <1>7. IsFiniteSet(InFlight \cap Queued) /\ Cardinality(InFlight \cap Queued) \in Nat
    <2>1. InFlight \cap Queued \subseteq InFlight
      OBVIOUS
    <2> QED
      BY <1>4, <2>1, FS_Subset, FS_CardinalityType
  <1>8. /\ Cardinality(Ideal!Held) \in Nat
        /\ Cardinality(Ideal!Held) <= Cardinality(InFlight \union Queued)
    BY <1>1, <1>6, FS_Subset, FS_CardinalityType
  <1>9. Ideal!Held \in SUBSET Samples
    BY DEF Ideal!Held
  <1> QED
    BY <1>3, <1>4, <1>5, <1>6, <1>7, <1>8, <1>9

LEMMA SameCardinality == \A S : Ideal!Cardinality(S) = Cardinality(S)
  BY Zenon DEF Ideal!Cardinality, Cardinality

(* A submit starts a generation for which the budget has room.             *)
LEMMA SubmitStarts ==
    ASSUME EInv, SideOK, CountOK, QueuedOnce, ProcSubmit, UNCHANGED sysVars
    PROVE  \E s \in Samples : Ideal!Start(s)
  <1>1. PICK s \in Samples : s = hand /\ task' = [task EXCEPT ![s] = "generating"]
    BY EInvParts DEF ProcSubmit, RInv, HandOK
  <1>2. task[s] = "none" /\ task \in [Samples -> TaskState]
    BY <1>1, EInvParts DEF FeedShape
  <1>3. UNCHANGED <<queue, bornIn, served, ending, UsedNow>>
    BY DEF sysVars, queueVars, trainerVars, versionVars, UsedNow, Local, OneVersion
  <1>4. Ideal!Becomes(s, "waiting", "underway")
    <2>1. Fate(s) = "waiting" /\ Fate(s)' = "underway"
      BY <1>1, <1>2 DEF Fate
    <2>2. \A t \in Samples : t # s => Fate(t)' = Fate(t)
      BY <1>1, <1>2, <1>3, QueuedKept DEF Fate
    <2> QED
      BY <1>1, <2>1, <2>2, BecomesOne
  <1>5. Cardinality(Ideal!Held) + UsedNow < MaxRequiredSamples
    <2>1. InHand = 1
      BY DEF ProcSubmit, InHand, HasHand
    <2>2. Committed <= MaxRequiredSamples
      BY DEF CountOK
    <2>3. Cardinality(Ideal!Held) \in Nat /\ Cardinality(Ideal!Held) <= Work
      BY HeldOutstanding
    <2> QED
      BY <2>1, <2>2, <2>3, UsedBelow, CommittedTypes
  <1>6. Ideal!Start(s)
    BY <1>3, <1>4, <1>5, SameCardinality DEF Ideal!Start
  <1> QED
    BY <1>1, <1>6

(* What put and get do to the samples in the queue.                        *)
LEMMA PutQueued ==
    ASSUME MQ!TypeOK, NEW v \in Entries, MQ!PutSample(v), UNCHANGED droppedSamples
    PROVE  Queued' = (Queued \union {v}) \ {None}
  <1>1. droppedSamples' - droppedSamples = 0 /\ Len(queue) \in Nat /\ DOMAIN queue = 1 .. Len(queue)
    BY QueueFacts
  <1>2. /\ Len(queue') = Len(queue) + 1 - 0 /\ DOMAIN queue' = 1 .. Len(queue')
        /\ queue'[Len(queue')] = v
        /\ \A i \in 1 .. Len(queue') - 1 : i + 0 \in DOMAIN queue /\ queue'[i] = queue[i + 0]
    BY <1>1, PutEntries
  <1>3. /\ DOMAIN queue' = DOMAIN queue \union {Len(queue) + 1}
        /\ queue'[Len(queue) + 1] = v
        /\ \A i \in DOMAIN queue : queue'[i] = queue[i]
    BY <1>1, <1>2
  <1>4. {queue'[i] : i \in DOMAIN queue'} = {queue[i] : i \in DOMAIN queue} \union {v}
    BY <1>3
  <1> QED
    BY <1>4 DEF Queued

LEMMA TakeQueued ==
    ASSUME MQ!TypeOK, QueuedOnce, queue # << >>, queue' = Tail(queue)
    PROVE  Queued' = Queued \ {Head(queue)}
  <1>1. /\ DOMAIN queue = 1 .. Len(queue) /\ Len(queue) \in Nat /\ Len(queue) >= 1
        /\ Head(queue) = queue[1] /\ DOMAIN queue' = 1 .. Len(queue) - 1
        /\ \A i \in 1 .. Len(queue) - 1 :
              i + 1 \in DOMAIN queue /\ queue'[i] = queue[i + 1]
    BY QueueFacts, GetEntries
  <1>2. ASSUME NEW s, s \in Queued' PROVE s \in Queued \ {Head(queue)}
    <2>1. PICK i \in DOMAIN queue' : queue'[i] = s /\ s # None
      BY <1>2 DEF Queued
    <2>2. i + 1 \in DOMAIN queue /\ queue[i + 1] = s /\ i + 1 # 1 /\ 1 \in DOMAIN queue
      BY <1>1, <2>1
    <2>3. queue[i + 1] # queue[1]
      BY <2>1, <2>2 DEF QueuedOnce
    <2> QED
      BY <1>1, <2>1, <2>2, <2>3 DEF Queued
  <1>3. ASSUME NEW s, s \in Queued, s # Head(queue) PROVE s \in Queued'
    <2>1. PICK i \in DOMAIN queue : queue[i] = s /\ s # None
      BY <1>3 DEF Queued
    <2>2. i # 1 /\ i - 1 \in 1 .. Len(queue) - 1 /\ (i - 1) + 1 = i
      BY <1>1, <1>3, <2>1
    <2>3. i - 1 \in DOMAIN queue' /\ queue'[i - 1] = s
      BY <1>1, <2>1, <2>2
    <2> QED
      BY <2>1, <2>3 DEF Queued
  <1> QED
    BY <1>2, <1>3

(* A put finishes one: nothing is dropped for it.                          *)
LEMMA ArrivalFinishes ==
    ASSUME EInv, CountOK, QueuedOnce, NEW s \in Samples, SampleArrives(s),
           UNCHANGED droppedSamples
    PROVE  Ideal!Finish(s)
  <1>1. /\ task[s] = "generating" /\ task \in [Samples -> TaskState]
        /\ \E t \in {"stored", "displaced"} : task' = [task EXCEPT ![s] = t]
        /\ bornIn[s] # Unstamped /\ UNCHANGED bornIn
        /\ UNCHANGED <<served, ending, UsedNow>>
    BY EInvParts DEF SampleArrives, TaskPut, trainerVars, versionVars, UsedNow, Local, OneVersion
  <1>2. Queued' = Queued \union {s}
    <2>1. MQ!TypeOK /\ MQ!PutSample(s) /\ s \in Entries /\ None \notin Queued /\ s # None
      BY EInvParts, NoneAssumption DEF SampleArrives, Entries, Queued
    <2>2. Queued' = (Queued \union {s}) \ {None}
      BY <2>1, PutQueued
    <2> QED
      BY <2>1, <2>2
  <1>3. Ideal!Becomes(s, "underway", "ready")
    <2>1. Fate(s) = "underway"
      BY <1>1 DEF Fate
    <2>2. Fate(s)' = "ready"
      BY <1>1, <1>2 DEF Fate
    <2>3. \A t \in Samples : t # s => Fate(t)' = Fate(t)
      BY <1>1, <1>2 DEF Fate
    <2> QED
      BY <2>1, <2>2, <2>3, BecomesOne
  <1> QED
    BY <1>1, <1>3 DEF Ideal!Finish, Ideal!Unstamped, Unstamped

LEMMA StampShows ==
    ASSUME EInv, NEW s \in Samples, Stamp(s)
    PROVE  Ideal!Stamp(s)
  <1>1. /\ task[s] = "generating" /\ bornIn[s] = Unstamped
        /\ bornIn' = [bornIn EXCEPT ![s] = served.version]
        /\ UNCHANGED <<task, queue, served, ending, UsedNow>>
    BY DEF Stamp, rolloutVars, taskVars, queueVars, trainerVars, versionVars, UsedNow, Local,
           OneVersion
  <1>2. Fate(s) = "underway" /\ \A r \in Samples : Fate(r)' = Fate(r)
    BY <1>1, QueuedKept, FatesKept DEF Fate
  <1> QED
    BY <1>1, <1>2 DEF Ideal!Stamp, Ideal!Unstamped, Unstamped

LEMMA LocalBelow ==
    ASSUME EInv, step = "collecting"
    PROVE  Local < OneVersion
  <1>1. /\ localTriggerStep \in Nat /\ RequiredSamples \in Nat /\ collected \in Nat
        /\ localTriggerStep <= TriggerParameterSyncStep /\ TriggerParameterSyncStep \in Nat
        /\ collected < RequiredSamples
    BY LocalTypes, Params
  <1>2. /\ (localTriggerStep - 1) * RequiredSamples
              = localTriggerStep * RequiredSamples - RequiredSamples
        /\ localTriggerStep * RequiredSamples \in Int
        /\ RequiredSamples * TriggerParameterSyncStep \in Int
    BY <1>1, TimesSucc
  <1>3. \A a, b, r \in Nat : a <= b => a * r <= r * b
    OBVIOUS
  <1>4. localTriggerStep * RequiredSamples <= RequiredSamples * TriggerParameterSyncStep
    BY <1>1, <1>3
  <1> QED
    BY <1>1, <1>2, <1>4 DEF Local, OneVersion

(* Nothing that the description names changes.                             *)
LEMMA NothingShows ==
    ASSUME \A s \in Samples : Fate(s)' = Fate(s),
           UNCHANGED <<bornIn, served.version, UsedNow, ending>>
    PROVE  UNCHANGED Ideal!vars
  BY DEF Ideal!vars

(* A read by the trainer uses the sample, or ends the training.            *)
LEMMA ReadUses ==
    ASSUME EInv, SideOK, QueuedOnce, Fresh, keepsUp, Take, Head(queue) # None
    PROVE  \E s \in Samples : Ideal!Use(s)
  <1>1. /\ MQ!TypeOK /\ queue # << >> /\ queue' = Tail(queue)
        /\ step = "collecting" /\ (Collect \/ Train)
        /\ UNCHANGED <<bornIn, task, served, ending>>
    BY EInvParts DEF Take, MQ!GetSample, Collect, Train, SeeEnd, rolloutVars, taskVars
  <1>2. ~ending /\ served.version = currentParamVersion
    BY <1>1, LocalTypes DEF SideOK, StampOK
  <1>3. /\ DOMAIN queue = 1 .. Len(queue) /\ queue \in Seq(Entries) /\ 1 \in DOMAIN queue
        /\ Head(queue) = queue[1]
    BY <1>1, QueueFacts
  <1>4. PICK s \in Samples : s = Head(queue) /\ s \in Queued /\ s \in Delivered
    BY <1>3 DEF Entries, Queued, QueuedOnce
  <1>5. Queued' = Queued \ {s}
    BY <1>1, <1>4, TakeQueued
  <1>6. served.version - bornIn[s] <= (MaxRequiredSamples - 1) \div OneVersion
    BY <1>1, <1>2, <1>4 DEF Fresh
  <1>7. Ideal!Becomes(s, "ready", "used")
    <2>1. Fate(s) = "ready" /\ Fate(s)' = "used"
      BY <1>1, <1>4, <1>5 DEF Fate, Delivered
    <2>2. \A t \in Samples : t # s => Fate(t)' = Fate(t)
      BY <1>1, <1>5 DEF Fate
    <2> QED
      BY <1>4, <2>1, <2>2, BecomesOne
  <1>8. UsedNow < OneVersion /\ UsedNow' = UsedNow + 1
    <2>1. UsedNow = Local /\ Local < OneVersion
      BY <1>1, <1>2, LocalBelow DEF UsedNow
    <2>2. UsedNow' = Local + 1
      <3>1. CASE Collect
        <4>1. UsedNow' = Local'
          BY <1>1, <1>2, <3>1 DEF UsedNow, Collect
        <4> QED
          BY <3>1, <4>1, LocalSteps
      <3>2. CASE Train
        <4>1. UsedNow' = IF step' = "syncing" THEN OneVersion ELSE Local'
          BY <1>1, <1>2 DEF UsedNow, OneVersion
        <4> QED
          BY <3>2, <4>1, LocalSteps
      <3> QED
        BY <1>1, <3>1, <3>2
    <2> QED
      BY <2>1, <2>2
  <1>9. Ideal!Use(s)
    BY <1>1, <1>2, <1>6, <1>7, <1>8 DEF Ideal!Use
  <1> QED
    BY <1>9

LEMMA MarkerEnds ==
    ASSUME EInv, QueuedOnce, Take, Head(queue) = None
    PROVE  Ideal!End
  <1>1. /\ MQ!TypeOK /\ queue # << >> /\ queue' = Tail(queue)
        /\ step = "collecting" /\ ending' = TRUE
        /\ UNCHANGED <<bornIn, task, served>>
    BY EInvParts DEF Take, MQ!GetSample, SeeEnd, rolloutVars, taskVars
  <1>2. ~ending
    BY <1>1, LocalTypes
  <1>3. /\ DOMAIN queue = 1 .. Len(queue) /\ Len(queue) \in Nat /\ 1 \in DOMAIN queue
        /\ queue[1] = None
    BY <1>1, QueueFacts
  <1>4. \A s \in Samples : Fate(s)' = Fate(s)
    <2>1. Queued' = Queued
      BY <1>1, TakeQueued DEF Queued
    <2> QED
      BY <1>1, <2>1, FatesKept
  <1>5. (\A s \in Samples : Fate(s) = "used") \/ (\E s \in Samples : Fate(s) = "failed")
    <2>1. main \in {"stopping", "stopped"} \/ main = "failed"
      BY <1>3, EInvParts DEF EInv, EndOK, NoMarker, RInv, RTypeOK
    <2>2. CASE main = "failed"
      <3>1. PICK s \in Samples : task[s] = "failed"
        BY <2>2, EInvParts DEF StreamOK, TasksOK, MainOK
      <3> QED
        BY <3>1 DEF Fate
    <2>3. CASE main \in {"stopping", "stopped"}
      <3>1. Len(queue) = 1
        BY <1>3, <2>3 DEF EInv, EndOK
      <3>2. Queued = {}
        BY <1>3, <3>1 DEF Queued
      <3>3. \A s \in Samples : task[s] \in {"stored", "displaced", "done"}
        BY <2>3, AllDelivered, EInvParts DEF StreamOK, MainOK
      <3> QED
        BY <3>2, <3>3 DEF Fate
    <2> QED
      BY <2>1, <2>2, <2>3
  <1>6. UsedNow' = 0
    BY <1>1 DEF UsedNow
  <1> QED
    BY <1>1, <1>2, <1>4, <1>5, <1>6 DEF Ideal!End

LEMMA SendPublishes ==
    ASSUME EInv, SideOK, EndStamp, Send
    PROVE  Ideal!Publish \/ UNCHANGED Ideal!vars
  <1>1. /\ step = "syncing" /\ step' = "calling" /\ served'.version = currentParamVersion
        /\ UNCHANGED <<bornIn, task, queue, ending, Local>>
    BY DEF Send, SendWeights, rolloutVars, taskVars, queueVars, Local, versionVars
  <1>2. \A s \in Samples : Fate(s)' = Fate(s)
    BY <1>1, QueuedKept, FatesKept
  <1>3. Local = 0
    BY <1>1, LocalTypes
  <1>4. CASE ending
    <2>1. UNCHANGED <<served.version, UsedNow>>
      BY <1>1, <1>4 DEF EndStamp, UsedNow
    <2> QED
      BY <1>1, <1>2, <2>1, NothingShows
  <1>5. CASE ~ending
    <2>1. served.version = currentParamVersion - 1 /\ currentParamVersion \in Nat
      BY <1>1, <1>5, LocalTypes DEF SideOK, StampOK
    <2>2. UsedNow = OneVersion /\ UsedNow' = 0
      BY <1>1, <1>3, <1>5 DEF UsedNow
    <2>3. served'.version = served.version + 1
      BY <1>1, <2>1
    <2> QED
      BY <1>1, <1>2, <1>5, <2>2, <2>3 DEF Ideal!Publish
  <1> QED
    BY <1>4, <1>5

(* A rollouter step that leaves tasks and queue alone, and every other     *)
(* step of the trainer, does not show.                                     *)
LEMMA RestHidden ==
    ASSUME EInv, SideOK, UNCHANGED <<task, queue, bornIn, runnerVars>>,
           \/ UNCHANGED trainerVars \/ Wait \/ Call \/ Answered \/ Save
    PROVE  UNCHANGED Ideal!vars
  <1>1. \A s \in Samples : Fate(s)' = Fate(s)
    BY QueuedKept, FatesKept
  <1>2. UNCHANGED <<Local, served, ending>> /\ (step = "syncing" <=> step' = "syncing")
    BY DEF Wait, Call, CallReset, Answered, ResetDone, Save, SaveCheckpoint, trainerVars,
           versionVars, Local
  <1>3. UNCHANGED UsedNow
    BY <1>2 DEF UsedNow, OneVersion
  <1> QED
    BY <1>1, <1>2, <1>3, NothingShows

LEMMA TasksShow ==
    ASSUME EInv, UNCHANGED sysVars, NEW s \in Samples, TaskFails(s) \/ TaskEnds(s)
    PROVE  Ideal!Fail(s) \/ UNCHANGED Ideal!vars
  <1>1. UNCHANGED <<queue, bornIn, served, ending, UsedNow>>
    BY DEF sysVars, queueVars, trainerVars, versionVars, UsedNow, Local, OneVersion
  <1>2. task \in [Samples -> TaskState]
    BY EInvParts
  <1>3. CASE TaskFails(s)
    <2>1. Fate(s) = "underway" /\ Fate(s)' = "failed"
      BY <1>2, <1>3 DEF TaskFails, Fate
    <2>2. \A t \in Samples : t # s => Fate(t)' = Fate(t)
      BY <1>1, <1>2, <1>3, QueuedKept DEF TaskFails, Fate
    <2>3. Ideal!Becomes(s, "underway", "failed")
      BY <2>1, <2>2, BecomesOne
    <2> QED
      BY <1>1, <2>3 DEF Ideal!Fail
  <1>4. CASE TaskEnds(s)
    <2>1. \A t \in Samples : Fate(t)' = Fate(t)
      BY <1>1, <1>2, <1>4, QueuedKept DEF TaskEnds, Fate
    <2> QED
      BY <1>1, <2>1, NothingShows
  <1> QED
    BY <1>3, <1>4

LEMMA MarkerHidden ==
    ASSUME EInv, EndArrives, UNCHANGED droppedSamples
    PROVE  UNCHANGED Ideal!vars
  <1>1. /\ MQ!TypeOK /\ MQ!PutSample(None)
        /\ UNCHANGED <<task, bornIn, served, ending, UsedNow>>
    BY EInvParts
    DEF EndArrives, MainSignals, taskVars, trainerVars, versionVars, UsedNow, Local, OneVersion
  <1>2. Queued' = Queued
    BY <1>1, PutQueued DEF Entries, Queued
  <1>3. \A s \in Samples : Fate(s)' = Fate(s)
    BY <1>1, <1>2, FatesKept
  <1> QED
    BY <1>1, <1>3, NothingShows

LEMMA ClearHidden ==
    ASSUME EInv, RunOver, RunnerEnds
    PROVE  UNCHANGED Ideal!vars
  <1>1. /\ step = "stopped" /\ FitReturned /\ queue' = << >>
        /\ UNCHANGED <<task, bornIn, served, ending, UsedNow>>
    BY DEF RunnerEnds, MQ!ClearQueue, rolloutVars, taskVars, trainerVars, versionVars, UsedNow,
           Local, OneVersion
  <1>2. ending /\ main = "stopped"
    BY <1>1, EInvParts DEF TInv, VersionOK, FitReturned, RunOver
  <1>3. queue = << >>
    BY <1>2 DEF EInv, EndOK
  <1>4. \A s \in Samples : Fate(s)' = Fate(s)
    BY <1>1, <1>3, QueuedKept, FatesKept
  <1> QED
    BY <1>1, <1>4, NothingShows

LEMMA StepShows ==
    ASSUME EInv, SideOK, CountOK, QueuedOnce, EndStamp, RunOver, Fresh, keepsUp, [Next]_vars
    PROVE  [Ideal!Next]_(Ideal!vars)
  <1>1. UNCHANGED droppedSamples
    BY DropsStep
  <1>2. ASSUME ProcSubmit, UNCHANGED sysVars PROVE Ideal!Next
    BY <1>2, SubmitStarts DEF Ideal!Next
  <1>3. ASSUME NEW s \in Samples, TaskFails(s) \/ TaskEnds(s), UNCHANGED sysVars
        PROVE  [Ideal!Next]_(Ideal!vars)
    BY <1>3, TasksShow DEF Ideal!Next
  <1>4. ASSUME NEW s \in Samples, SampleArrives(s) PROVE Ideal!Next
    BY <1>1, <1>4, ArrivalFinishes DEF Ideal!Next
  <1>5. CASE EndArrives
    BY <1>1, <1>5, MarkerHidden
  <1>6. ASSUME UNCHANGED task, UNCHANGED sysVars
        PROVE  UNCHANGED Ideal!vars
    BY <1>6, RestHidden DEF sysVars, queueVars
  <1>7. CASE Take
    <2>1. CASE Head(queue) # None
      BY <1>7, <2>1, ReadUses DEF Ideal!Next
    <2>2. CASE Head(queue) = None
      BY <1>7, <2>2, MarkerEnds DEF Ideal!Next
    <2> QED
      BY <2>1, <2>2
  <1>8. CASE Send
    BY <1>8, SendPublishes DEF Ideal!Next
  <1>9. CASE Wait \/ Call \/ Answered \/ Save
    <2>1. UNCHANGED <<task, queue, bornIn, runnerVars>>
      BY <1>9 DEF Wait, MQ!GetWaits, Call, ResetCalled, Answered, Save, rolloutVars, taskVars,
                  queueVars
    <2> QED
      BY <1>9, <2>1, RestHidden
  <1>10. CASE RunnerEnds
    BY <1>10, ClearHidden
  <1>11. CASE Ended \/ UNCHANGED vars
    BY <1>6, <1>11 DEF Ended, vars, rolloutVars, taskVars
  <1>12. CASE RolloutAlone \/ RolloutReads
    <2>1. UNCHANGED sysVars
      BY <1>12 DEF RolloutAlone, RolloutReads
    <2>2. ProcSubmit \/ UNCHANGED task \/ \E s \in Samples : TaskFails(s) \/ TaskEnds(s)
      BY <1>12
      DEF RolloutAlone, RolloutReads, Feed, ProcSetPaused, ProcReap, ProcPark, ProcWake,
          ProcContinue, ResetBegins, ResetEnds, MonitorResumes, MonitorExits, MainWaited,
          MainStops, ProcPause, ProcFetch, ProcTake, ResetAnswered, MonitorDecides, taskVars
    <2> QED
      BY <1>2, <1>3, <1>6, <2>1, <2>2
  <1>13. ASSUME NEW s \in Samples, Stamp(s) PROVE Ideal!Next
    BY <1>13, StampShows DEF Ideal!Next
  <1> QED
    BY <1>4, <1>5, <1>7, <1>8, <1>9, <1>10, <1>11, <1>12, <1>13 DEF Next, Rollout, Trainer

LEMMA InitShows == Init => Ideal!Init
  <1> SUFFICES ASSUME Init PROVE Ideal!Init
    OBVIOUS
  <1>1. \A s \in Samples : Fate(s) = "waiting"
    BY DEF Init, RInit, Fate
  <1>2. UsedNow = 0
    BY Params DEF Init, TInit, UsedNow, Local
  <1> QED
    BY <1>1, <1>2 DEF Init, TInit, Ideal!Init, Ideal!Unstamped, Unstamped

(* The documented staleness control (fully_async.md:135-142), for any      *)
(* number of samples and any limits: three actors that read each other's   *)
(* state late implement the program that starts, stamps and uses samples   *)
(* within the budget and publishes a version after OneVersion of them.     *)
THEOREM PipelineBoundsStaleness == NeverThrottled => (Spec => BoundsStaleness)
  <1> SUFFICES ASSUME NeverThrottled PROVE Spec => BoundsStaleness
    OBVIOUS
  <1>1. EInv /\ SideOK /\ (keepsUp => BudgetOK) /\ QueuedOnce /\ EndStamp /\ RunOver /\ Fresh
            /\ [Next]_vars => [keepsUp => Ideal!Next]_(Ideal!vars)
    <2> SUFFICES ASSUME EInv, SideOK, keepsUp => BudgetOK, QueuedOnce, EndStamp, RunOver, Fresh,
                        [Next]_vars, keepsUp
                 PROVE  [Ideal!Next]_(Ideal!vars)
      BY Zenon
    <2> QED
      BY StepShows DEF BudgetOK
  <1>2. Spec => []Fresh
    BY SamplesStayFresh
  <1> QED
    BY <1>1, <1>2, InitShows, EInvariance, SideInvariance, BudgetInvariance, ShownInvariance,
       RunOverInvariance, PTL DEF Spec, BoundsStaleness

-----------------------------------------------------------------------------
(* The pipeline does not starve: what staleness_samples counts beyond what *)
(* is committed is at most what is left of the budget after one version,   *)
(* so a trainer that is short of samples finds the processor below the     *)
(* limit. The bounds are exact until the processor dies or training ends.  *)

SlackOK ==
    ~ending /\ proc # "dead" =>
        /\ reset \in {"none", "locking"} =>
              stalenessSamples + OneVersion <= Committed + MaxRequiredSamples
        /\ reset \in {"locking", "asking"} =>
              Cardinality(activeTasks) + OneVersion <= MaxRequiredSamples
        /\ reset = "storing" => resetSum + OneVersion <= Committed + MaxRequiredSamples

LEMMA SameLoad ==
    ASSUME EInv, UNCHANGED <<task, queue>>, main' = "failed" <=> main = "failed",
           HasHand' <=> HasHand
    PROVE  Load' = Load
  <1>1. Reserved' = Reserved
    BY SameReserved
  <1> QED
    BY <1>1 DEF Load, Work, InHand

(* Until then no step loses any load: a submit, a put and the end marker   *)
(* move it on, and only a read takes one from it.                          *)
LEMMA SubmitKeepsLoad ==
    ASSUME EInv, ProcSubmit, UNCHANGED queue
    PROVE  Load' = Load
  <1>1. PICK s \in Samples : s = hand /\ task' = [task EXCEPT ![s] = "generating"]
    BY EInvParts DEF ProcSubmit, RInv, HandOK
  <1>2. task[s] = "none" /\ task \in [Samples -> TaskState] /\ UNCHANGED main
    BY <1>1, EInvParts DEF FeedShape, ProcSubmit, endVars
  <1>3. Reserved' = Reserved \union {s} /\ s \notin Reserved
    BY <1>1, <1>2 DEF Reserved
  <1>4. Cardinality(Reserved') = Cardinality(Reserved) + 1
    BY <1>3, WorkTypes, FS_AddElement
  <1>5. InHand = 1 /\ InHand' = 0
    BY DEF ProcSubmit, GoReleasing, InHand, HasHand
  <1>6. Load' = Cardinality(Reserved') + Len(queue) + 0
    BY <1>5 DEF Load, Work
  <1> QED
    BY <1>4, <1>5, <1>6, WorkTypes

LEMMA PutKeepsLoad ==
    ASSUME EInv, NEW s \in Samples, SampleArrives(s), UNCHANGED droppedSamples
    PROVE  Load' = Load
  <1>1. /\ MQ!TypeOK /\ MQ!PutSample(s) /\ s \in Entries /\ droppedSamples \in Nat
        /\ task \in [Samples -> TaskState] /\ task[s] = "generating"
        /\ \E t \in {"stored", "displaced"} : task' = [task EXCEPT ![s] = t]
        /\ UNCHANGED <<main, proc>>
    BY EInvParts, QueueFacts DEF SampleArrives, TaskPut, endVars, procVars, Entries
  <1>2. Reserved' = Reserved \ {s} /\ s \in Reserved
    BY <1>1 DEF Reserved
  <1>3. Cardinality(Reserved') = Cardinality(Reserved) - 1
    BY <1>2, WorkTypes, FS_RemoveElement
  <1>4. Len(queue') = Len(queue) + 1
    <2>1. Len(queue') = Len(queue) + 1 - (droppedSamples' - droppedSamples)
      BY <1>1, PutEntries
    <2> QED
      BY <1>1, <2>1, WorkTypes
  <1>5. InHand' = InHand
    BY <1>1 DEF InHand, HasHand
  <1>6. Load' = (Cardinality(Reserved) - 1) + (Len(queue) + 1) + InHand
    BY <1>3, <1>4, <1>5 DEF Load, Work
  <1> QED
    BY <1>6, WorkTypes

LEMMA MarkerKeepsLoad ==
    ASSUME EInv, EndArrives, proc # "dead", UNCHANGED droppedSamples
    PROVE  Load' = Load
  <1>1. /\ MQ!TypeOK /\ MQ!PutSample(None) /\ None \in Entries /\ droppedSamples \in Nat
        /\ UNCHANGED <<task, proc>> /\ main = "signalling" /\ main' = "stopping"
    BY EInvParts, QueueFacts DEF EndArrives, MainSignals, taskVars, procVars, Entries
  <1>2. Reserved' = Reserved
    BY <1>1, SameReserved
  <1>3. Len(queue') = Len(queue) + 1
    <2>1. Len(queue') = Len(queue) + 1 - (droppedSamples' - droppedSamples)
      BY <1>1, PutEntries
    <2> QED
      BY <1>1, <2>1, WorkTypes
  <1>4. InHand = 1 /\ InHand' = 0
    <2>1. proc = "ended"
      BY <1>1, EInvParts DEF StreamOK, MainOK
    <2> QED
      BY <1>1, <2>1 DEF InHand, HasHand
  <1>5. Load' = Cardinality(Reserved) + (Len(queue) + 1) + 0
    BY <1>2, <1>3, <1>4 DEF Load, Work
  <1> QED
    BY <1>4, <1>5, WorkTypes

(* A processor that is over does not come back.                            *)
LEMMA DeathIsFinal ==
    ASSUME [RNext]_rolloutVars, proc' # "dead"
    PROVE  proc # "dead"
  BY DEF RNext, Feed, ProcSetPaused, ProcReap, ProcPark, ProcWake, ProcContinue, ProcSubmit,
         ResetCalled, ResetBegins, ResetEnds, MonitorResumes, MonitorExits, MainWaited,
         MainSignals, MainStops, ProcPause, ProcFetch, ProcTake, ResetAnswered, MonitorDecides,
         TaskFails, TaskEnds, TaskPut, NotifyAll, procVars, rolloutVars

LEMMA RolloutKeepsLoad ==
    ASSUME EInv, RolloutAlone \/ RolloutReads, proc' # "dead", [Next]_vars
    PROVE  /\ Taking => Load' = Load + 1
           /\ ~Taking => Load' = Load
  <1> USE DEF GoTo, GoLocking, GoReleasing, GoRelocking, NotifyAll,
              feedVars, procVars, taskVars, resetVars, pauseVars, endVars
  <1>1. /\ main # "streaming" => proc \in {"ended", "dead"}
        /\ proc = "woken" => hand = None
        /\ proc \in {"limiting", "submitting"} => ~paused
        /\ task \in [Samples -> TaskState]
        /\ UNCHANGED queue
    BY EInvParts DEF StreamOK, MainOK, RInv, HandOK, HandNeverPaused, RolloutAlone, RolloutReads,
                     sysVars, queueVars
  <1>2. proc # "dead"
    BY EInvParts, RolloutSteps, DeathIsFinal
  <1>3. CASE Taking
    <2>1. PICK q \in 0 .. MaxRequiredSamples : ProcTake(q)
      BY <1>3 DEF Taking
    <2>2. UNCHANGED <<task, main>> /\ main = "streaming" /\ ~HasHand /\ HasHand'
      BY <1>1, <2>1 DEF ProcTake, HasHand
    <2>3. Reserved' = Reserved
      BY <2>2, SameReserved
    <2>4. Load' = Work + 1 /\ InHand = 0
      BY <1>1, <2>2, <2>3 DEF Load, Work, InHand
    <2> QED
      BY <1>3, <2>4, WorkTypes
  <1>4. CASE ProcSubmit
    <2>1. ~Taking
      BY <1>4 DEF Taking, ProcTake, ProcSubmit
    <2> QED
      BY <1>1, <1>4, <2>1, SubmitKeepsLoad
  <1>5. ASSUME NEW s \in Samples, TaskFails(s) \/ TaskEnds(s)
        PROVE  Load' = Load
    <2>1. main # "failed"
      BY <1>2, EInvParts DEF StreamOK, MainOK
    <2>2. Reserved' = Reserved
      BY <1>1, <1>5, <2>1 DEF TaskFails, TaskEnds, Reserved
    <2>3. InHand' = InHand
      BY <1>5 DEF TaskFails, TaskEnds, InHand, HasHand
    <2> QED
      BY <1>1, <2>2, <2>3 DEF Load, Work
  <1>6. CASE ~Taking /\ UNCHANGED task
    <2>1. main' = "failed" <=> main = "failed"
      BY <1>6 DEF RolloutAlone, RolloutReads, Feed, ProcSetPaused, ProcReap, ProcPark, ProcWake,
             ProcContinue, ProcSubmit, ResetBegins, ResetEnds, MonitorResumes, MonitorExits,
             MainWaited, MainStops, ProcPause, ProcFetch, ProcTake, ResetAnswered, MonitorDecides,
             TaskFails, TaskEnds
    <2>2. HasHand' <=> HasHand
      <3>1. CASE Feed \/ MonitorExits \/ MainWaited \/ MainStops \/ ResetEnds \/ ResetBegins
                 \/ MonitorResumes
        BY <1>1, <3>1 DEF Feed, MonitorExits, MainWaited, MainStops, ResetEnds, ResetBegins,
                          MonitorResumes, HasHand
      <3>2. CASE ProcSetPaused \/ ProcContinue \/ ProcPark \/ ProcWake
        BY <1>1, <3>2 DEF ProcSetPaused, ProcContinue, ProcPark, ProcWake, HasHand
      <3>3. CASE ProcReap
        BY <1>1, <1>2, <3>3 DEF ProcReap, HasHand
      <3>4. CASE ProcPause(QueueSize) \/ ProcFetch(QueueSize) \/ ResetAnswered(QueueSize)
                 \/ MonitorDecides(QueueSize)
        BY <3>4 DEF ProcPause, ProcFetch, ResetAnswered, MonitorDecides, HasHand
      <3>5. ~ProcTake(QueueSize)
        BY <1>6, EInvParts, QueueFacts DEF Taking
      <3>6. ASSUME NEW s \in Samples, TaskFails(s) \/ TaskEnds(s)
            PROVE  HasHand' <=> HasHand
        BY <3>6 DEF TaskFails, TaskEnds, HasHand
      <3>7. ~ProcSubmit
        BY <1>1, <1>6, EInvParts DEF ProcSubmit, RInv, HandOK, FeedShape
      <3> QED
        BY <3>1, <3>2, <3>3, <3>4, <3>5, <3>6, <3>7 DEF RolloutAlone, RolloutReads
    <2> QED
      BY <1>1, <1>6, <2>1, <2>2, SameLoad
  <1>7. Taking \/ ProcSubmit \/ UNCHANGED task \/ \E s \in Samples : TaskFails(s) \/ TaskEnds(s)
    BY DEF RolloutAlone, RolloutReads, Feed, ProcSetPaused, ProcReap, ProcPark, ProcWake,
           ProcContinue, ResetBegins, ResetEnds, MonitorResumes, MonitorExits, MainWaited,
           MainStops, ProcPause, ProcFetch, ProcTake, ResetAnswered, MonitorDecides
  <1>8. ASSUME NEW s \in Samples, TaskFails(s) \/ TaskEnds(s)
        PROVE  ~Taking
    BY <1>8 DEF TaskFails, TaskEnds, Taking, ProcTake
  <1> QED
    BY <1>3, <1>4, <1>5, <1>6, <1>7, <1>8

LEMMA LoadKept ==
    ASSUME EInv, CountOK, [Next]_vars, proc' # "dead", ~ending'
    PROVE  /\ Taking => Load' = Load + 1
           /\ Take => Load' + 1 = Load
           /\ ~Taking /\ ~Take => Load' = Load
  <1>1. UNCHANGED droppedSamples
    BY DropsStep
  <1>2. proc # "dead"
    BY EInvParts, RolloutSteps, DeathIsFinal
  <1>3. CASE RolloutAlone \/ RolloutReads
    <2>1. ~Take
      <3>1. UNCHANGED trainerVars
        BY <1>3 DEF RolloutAlone, RolloutReads, sysVars
      <3> QED
        BY <3>1, LocalTypes DEF Take, Collect, Train, SeeEnd, trainerVars, versionVars
    <2> QED
      BY <1>3, <2>1, RolloutKeepsLoad
  <1>4. ASSUME EndArrives \/ \E s \in Samples : SampleArrives(s)
        PROVE  Load' = Load /\ ~Taking /\ ~Take
    <2>1. ~Taking
      BY <1>4 DEF EndArrives, MainSignals, SampleArrives, TaskPut, Taking, ProcTake,
                  GoTo, GoLocking, procVars
    <2>2. UNCHANGED trainerVars
      BY <1>4 DEF EndArrives, SampleArrives
    <2>3. ~Take
      BY <2>2, LocalTypes DEF Take, Collect, Train, SeeEnd, trainerVars, versionVars
    <2> QED
      BY <1>1, <1>2, <1>4, <2>1, <2>3, PutKeepsLoad, MarkerKeepsLoad
  <1>5. CASE Take
    <2>1. /\ MQ!TypeOK /\ UNCHANGED <<task, main, proc>> /\ queue # << >> /\ queue' = Tail(queue)
      BY <1>5, EInvParts DEF Take, MQ!GetSample, rolloutVars, taskVars, endVars, procVars
    <2>2. Reserved' = Reserved /\ InHand' = InHand
      BY <2>1, SameReserved DEF InHand, HasHand
    <2>3. Len(queue') = Len(queue) - 1
      BY <2>1, GetEntries
    <2>4. Load' = Cardinality(Reserved) + (Len(queue) - 1) + InHand
      BY <2>2, <2>3 DEF Load, Work
    <2>5. ~Taking
      BY <1>5 DEF Take, Taking, ProcTake, GoTo, GoLocking, rolloutVars, procVars
    <2> QED
      BY <1>5, <2>4, <2>5, WorkTypes
  <1>6. ASSUME \/ Wait \/ Send \/ Call \/ Answered \/ Save \/ Ended \/ UNCHANGED vars
               \/ \E s \in Samples : Stamp(s)
        PROVE  Load' = Load /\ ~Taking /\ ~Take
    <2>1. UNCHANGED <<queue, main, task, proc>>
      BY <1>6 DEF Wait, Send, Call, Answered, Save, Ended, Stamp, MQ!GetWaits, ResetCalled, queueVars,
                  rolloutVars, endVars, taskVars, procVars, vars, sysVars
    <2>2. Load' = Load
      BY <2>1, SameLoad DEF HasHand
    <2>3. ~Taking
      BY <2>1 DEF Taking, ProcTake, GoTo, GoLocking
    <2>4. ~Take
      BY <2>1, EInvParts, QueueFacts, GetEntries DEF Take, MQ!GetSample
    <2> QED
      BY <2>2, <2>3, <2>4
  <1>7. ~RunnerEnds
    BY EInvParts DEF RunnerEnds, TInv, VersionOK, trainerVars
  <1> QED
    BY <1>3, <1>4, <1>5, <1>6, <1>7 DEF Next, Rollout, Trainer

(* What a version has consumed is forgotten only when a reset begins.      *)
LEMMA ConsumedKept ==
    ASSUME EInv, SideOK, [Next]_vars, ~ending'
    PROVE  /\ Take => Consumed' = Consumed + 1
           /\ ~Take /\ ~ResetBegins => Consumed' = Consumed
           /\ ~ending
  <1>0. /\ OneVersion \in Nat \ {0} /\ Local \in Nat /\ Consumed \in Nat
        /\ step \in {"syncing", "calling", "resetting"} => Local = 0
        /\ step = "collecting" => ~ending
        /\ step \in StepState /\ ending \in BOOLEAN
        /\ reset # "none" => step = "resetting"
    BY LocalTypes DEF SideOK, ResetWaited
  <1>1. CASE UNCHANGED trainerVars /\ ~Take /\ (reset' = "locking" => reset = "locking")
    <2>1. Local' = Local /\ step' = step /\ ending' = ending
      BY <1>1 DEF Local, trainerVars, versionVars
    <2>2. ~ResetBegins => (reset = "locking" <=> reset' = "locking")
      BY <1>1, ResetSteps DEF ResetAnswered, ResetEnds, resetVars
    <2> QED
      BY <1>1, <2>1, <2>2 DEF Consumed, OneVersion
  <1>2. CASE Take /\ Collect /\ UNCHANGED <<reset, stalenessSamples, bornIn>>
    <2>1. /\ step = "collecting" /\ step' = step /\ ending' = ending /\ reset' = reset
          /\ ~ending /\ reset # "locking"
      BY <1>0, <1>2 DEF Collect
    <2>2. Consumed' = Local' /\ Consumed = Local
      BY <2>1 DEF Consumed
    <2>3. Local' = Local + 1
      BY <1>2, LocalSteps
    <2> QED
      BY <1>2, <2>1, <2>2, <2>3
  <1>3. CASE Take /\ Train /\ UNCHANGED <<reset, stalenessSamples, bornIn>>
    <2>1. /\ step = "collecting" /\ ending' = ending /\ reset' = reset
          /\ ~ending /\ reset # "locking"
      BY <1>0, <1>3 DEF Train
    <2>2. Consumed = Local
      BY <2>1 DEF Consumed
    <2>3. \/ Local' = Local + 1 /\ step' = "saving"
          \/ Local + 1 = OneVersion /\ step' = "syncing"
      BY <1>3, LocalSteps
    <2>4. Consumed' = Local + 1
      BY <2>1, <2>3 DEF Consumed, OneVersion
    <2> QED
      BY <1>3, <2>1, <2>2, <2>4
  <1>4. ~SeeEnd
    BY DEF SeeEnd
  <1>5. CASE Send /\ ~Take
    <2>1. step = "syncing" /\ step' = "calling" /\ UNCHANGED <<ending, reset>>
      BY <1>5 DEF Send, SendWeights, rolloutVars, resetVars
    <2>2. Consumed' = Consumed
      BY <2>1 DEF Consumed, OneVersion
    <2> QED
      BY <1>5, <2>1, <2>2
  <1>6. CASE Call /\ ~Take
    <2>1. step = "calling" /\ step' = "resetting" /\ UNCHANGED ending /\ reset' = "locking"
      BY <1>6 DEF Call, CallReset, ResetCalled
    <2>2. Consumed' = Consumed
      BY <2>1 DEF Consumed, OneVersion
    <2> QED
      BY <1>6, <2>1, <2>2
  <1>7. CASE (Answered \/ Save) /\ ~Take
    <2>1. /\ step \in {"resetting", "saving"} /\ step' \in {"saving", "collecting", "stopped"}
          /\ UNCHANGED <<ending, reset, collected, localTriggerStep>> /\ reset # "locking"
      BY <1>0, <1>7 DEF Answered, ResetDone, Save, SaveCheckpoint, rolloutVars, resetVars, versionVars
    <2>2. Local' = Local
      BY <2>1 DEF Local
    <2>3. Consumed' = Consumed
      BY <2>1, <2>2 DEF Consumed
    <2> QED
      BY <1>7, <2>1, <2>3
  <1> QED
    BY <1>1, <1>2, <1>3, <1>4, <1>5, <1>6, <1>7, TrainerMoves

LEMMA CommittedKept ==
    ASSUME EInv, SideOK, CountOK, [Next]_vars, proc' # "dead", ~ending'
    PROVE  /\ Taking => Committed' = Committed + 1
           /\ ~Taking /\ ~ResetBegins => Committed' = Committed
  <1>1. Load \in Nat /\ Consumed \in Nat /\ Committed = Load + Consumed
    BY CommittedTypes
  <1>2. Load' \in Nat /\ Consumed' \in Nat /\ Committed' = Load' + Consumed'
    BY LoadSteps, ConsumedSteps DEF Committed
  <1>3. Taking => ~Take /\ ~ResetBegins
    BY DEF Take, Taking, ProcTake, ResetBegins, GoTo, GoLocking, rolloutVars, procVars, resetVars
  <1>4. Take => ~ResetBegins
    BY DEF Take, ResetBegins, rolloutVars, resetVars
  <1>5. CASE Taking
    <2>1. Load' = Load + 1 /\ Consumed' = Consumed
      BY <1>3, <1>5, LoadKept, ConsumedKept
    <2> QED
      BY <1>1, <1>2, <1>5, <2>1
  <1>6. CASE Take
    <2>1. Load' + 1 = Load /\ Consumed' = Consumed + 1
      BY <1>6, LoadKept, ConsumedKept
    <2>2. \A a, d \in Int : a + (d + 1) = (a + 1) + d
      OBVIOUS
    <2>3. Load' \in Int /\ Consumed' \in Int /\ Load \in Int /\ Consumed \in Int
      BY <1>1, <1>2
    <2>4. Load' + Consumed' = Load + Consumed
      BY <2>1, <2>2, <2>3, Zenon
    <2> QED
      BY <1>1, <1>2, <1>3, <1>6, <2>4, Zenon
  <1>7. CASE ~Taking /\ ~Take /\ ~ResetBegins
    <2>1. Load' = Load /\ Consumed' = Consumed
      BY <1>7, LoadKept, ConsumedKept
    <2> QED
      BY <1>1, <1>2, <1>7, <2>1
  <1> QED
    BY <1>3, <1>4, <1>5, <1>6, <1>7

(* When the event loop has caught up, no task of a processor that waits    *)
(* for one is done: its tasks all generate and are part of the load.       *)
LEMMA CallLeavesRoom ==
    ASSUME EInv, SideOK, CountOK, RestOK, NeverThrottled, keepsUp, ~ending, proc # "dead", Call
    PROVE  Cardinality(activeTasks) + OneVersion <= MaxRequiredSamples
  <1>1. CaughtUp /\ step = "calling"
    BY DEF Call, CallReset
  <1>2. proc \in {"draining", "parked", "finishing", "ended"}
    BY CallPlace
  <1>3. activeTasks \subseteq Reserved
    <2> SUFFICES ASSUME NEW s \in activeTasks PROVE s \in Reserved
      OBVIOUS
    <2>1. proc \in {"draining", "finishing"}
      BY <1>2 DEF RestOK
    <2>2. s \in Samples /\ task[s] \in TaskState /\ task[s] # "none"
      BY EInvParts DEF StreamOK, TasksOK
    <2>3. task[s] \notin {"stored", "displaced"}
      BY <1>1, <2>2 DEF CaughtUp
    <2>4. task[s] \notin {"done", "failed"}
      BY <1>1, <2>1 DEF CaughtUp, Finished
    <2> QED
      BY <2>2, <2>3, <2>4 DEF Reserved, TaskState
  <1>4. Cardinality(activeTasks) \in Nat /\ Cardinality(activeTasks) <= Cardinality(Reserved)
    BY <1>3, WorkTypes, EInvParts, SamplesFinite, FS_Subset
  <1>5. Consumed = OneVersion /\ OneVersion \in Nat
    BY <1>1, LocalTypes DEF Consumed
  <1>6. Committed <= MaxRequiredSamples
    BY DEF CountOK
  <1> QED
    BY <1>4, <1>5, <1>6, CommittedTypes

LEMMA SlackStep ==
    ASSUME EInv, LoadOK, SideOK, BudgetOK, RestOK, SlackOK, NeverThrottled, keepsUp, [Next]_vars
    PROVE  SlackOK'
  <1> SUFFICES ASSUME ~ending', proc' # "dead"
               PROVE  /\ reset' \in {"none", "locking"} =>
                            stalenessSamples' + OneVersion <= Committed' + MaxRequiredSamples
                      /\ reset' \in {"locking", "asking"} =>
                            Cardinality(activeTasks') + OneVersion <= MaxRequiredSamples
                      /\ reset' = "storing" =>
                            resetSum' + OneVersion <= Committed' + MaxRequiredSamples
    BY DEF SlackOK, OneVersion
  <1>0. /\ Committed \in Nat /\ stalenessSamples \in Nat /\ MaxRequiredSamples \in Nat
        /\ resetSum \in Nat /\ OneVersion \in Nat /\ Len(queue) \in Nat
        /\ reset \in {"none", "locking", "asking", "storing"}
        /\ Cardinality(activeTasks) \in Nat /\ activeTasks \in SUBSET Samples
    BY CommittedTypes, LoadTypes, LocalTypes, EInvParts, SamplesFinite DEF RInv, RTypeOK
  <1>1. [RNext]_rolloutVars
    BY EInvParts, RolloutSteps
  <1>2. ~ending /\ proc # "dead"
    BY <1>1, ConsumedKept, DeathIsFinal
  <1>3. /\ Committed' \in Nat
        /\ Taking => Committed' = Committed + 1
        /\ ~Taking /\ ~ResetBegins => Committed' = Committed
    BY CommittedSteps, CommittedKept DEF BudgetOK
  <1>4. /\ Taking => stalenessSamples' = stalenessSamples + 1
        /\ ResetEnds => stalenessSamples' = resetSum
        /\ ~Taking /\ ~ResetEnds => UNCHANGED stalenessSamples
    BY <1>1, StalenessSteps
  <1>5. Taking => ~ResetBegins /\ ~ResetEnds /\ UNCHANGED resetVars
    BY DEF Taking, ProcTake, ResetBegins, ResetEnds, resetVars
  <1>6. ASSUME reset' \in {"none", "locking"}
        PROVE  stalenessSamples' + OneVersion <= Committed' + MaxRequiredSamples
    <2>1. ~ResetBegins
      BY <1>6 DEF ResetBegins
    <2>2. CASE ResetEnds
      <3>1. reset = "storing" /\ stalenessSamples' = resetSum /\ ~Taking
        BY <1>4, <1>5, <2>2 DEF ResetEnds
      <3>2. resetSum + OneVersion <= Committed + MaxRequiredSamples
        BY <1>2, <3>1 DEF SlackOK
      <3>3. Committed' = Committed
        BY <1>3, <2>1, <3>1
      <3> QED
        BY <3>1, <3>2, <3>3
    <2>3. CASE ~ResetEnds
      <3>1. reset \in {"none", "locking"}
        BY <1>0, <1>6, <2>3, ResetSteps DEF ResetBegins, ResetAnswered, resetVars
      <3>2. stalenessSamples + OneVersion <= Committed + MaxRequiredSamples
        BY <1>2, <3>1 DEF SlackOK
      <3>3. CASE Taking
        <4>1. Committed' = Committed + 1 /\ stalenessSamples' = stalenessSamples + 1
          BY <1>3, <1>4, <3>3
        <4> QED
          BY <1>0, <3>2, <4>1
      <3>4. CASE ~Taking
        <4>1. Committed' = Committed /\ stalenessSamples' = stalenessSamples
          BY <1>3, <1>4, <2>1, <2>3, <3>4
        <4> QED
          BY <3>2, <4>1
      <3> QED
        BY <3>3, <3>4
    <2> QED
      BY <2>2, <2>3
  <1>7. ASSUME reset' \in {"locking", "asking"}
        PROVE  Cardinality(activeTasks') + OneVersion <= MaxRequiredSamples
    <2>1. CASE Call
      <3>1. UNCHANGED activeTasks
        BY <2>1 DEF Call, ResetCalled, procVars
      <3> QED
        BY <1>2, <2>1, <3>1, CallLeavesRoom DEF BudgetOK
    <2>2. CASE ~Call
      <3>1. reset \in {"locking", "asking"}
        BY <1>7, <2>2, ResetSteps DEF ResetBegins, ResetAnswered, ResetEnds, resetVars
      <3>2. Cardinality(activeTasks) + OneVersion <= MaxRequiredSamples
        BY <1>2, <3>1 DEF SlackOK
      <3>3. proc \in Idle
        BY <3>1 DEF BudgetOK, PlaceOK
      <3>4. activeTasks' \subseteq activeTasks
        BY <1>1, <3>3
        DEF Idle, RNext, Feed, ProcSetPaused, ProcReap, ProcPark, ProcWake, ProcContinue,
            ProcSubmit, ResetCalled, ResetBegins, ResetEnds, MonitorResumes, MonitorExits,
            MainWaited, MainSignals, MainStops, ProcPause, ProcFetch, ProcTake, ResetAnswered,
            MonitorDecides, TaskFails, TaskEnds, TaskPut, procVars, rolloutVars
      <3>5. IsFiniteSet(activeTasks)
        BY <1>0, SamplesFinite
      <3>6. /\ Cardinality(activeTasks') \in Nat
            /\ Cardinality(activeTasks') <= Cardinality(activeTasks)
        BY <3>4, <3>5, FS_Subset, FS_CardinalityType
      <3> QED
        BY <1>0, <3>2, <3>6
    <2> QED
      BY <2>1, <2>2
  <1>8. ASSUME reset' = "storing"
        PROVE  resetSum' + OneVersion <= Committed' + MaxRequiredSamples
    <2>1. CASE UNCHANGED resetVars
      <3>1. reset = "storing" /\ resetSum' = resetSum
        BY <1>8, <2>1 DEF resetVars
      <3>2. resetSum + OneVersion <= Committed + MaxRequiredSamples
        BY <1>2, <3>1 DEF SlackOK
      <3>3. Committed <= Committed'
        BY <1>0, <1>3, <3>1 DEF ResetBegins
      <3>4. Committed' \in Int
        BY <1>3
      <3>5. \A a, b, c, d \in Int : a <= b + c /\ b <= d => a <= d + c
        OBVIOUS
      <3>6. resetSum + OneVersion <= Committed' + MaxRequiredSamples
        <4>1. /\ resetSum + OneVersion \in Int /\ Committed \in Int
              /\ MaxRequiredSamples \in Int
          BY <1>0
        <4> QED
          BY <3>2, <3>3, <3>4, <3>5, <4>1, Zenon
      <3> QED
        BY <3>1, <3>6
    <2>2. CASE ResetAnswered(QueueSize)
      <3>1. reset = "asking" /\ resetSum' = Cardinality(activeTasks) + Len(queue)
        BY <2>2 DEF ResetAnswered, QueueSize, LoadOK
      <3>2. Cardinality(activeTasks) + OneVersion <= MaxRequiredSamples
        BY <1>2, <3>1 DEF SlackOK
      <3>3. Committed' = Committed
        BY <1>3, <1>5, <2>2, <3>1 DEF ResetAnswered, ResetBegins, resetVars
      <3>4. Len(queue) <= Committed
        BY CommittedTypes
      <3> QED
        BY <1>0, <3>1, <3>2, <3>3, <3>4
    <2> QED
      BY <1>8, <2>1, <2>2, ResetSteps DEF ResetBegins, ResetEnds
  <1> QED
    BY <1>6, <1>7, <1>8

LEMMA SlackInvariance ==
    ASSUME NeverThrottled
    PROVE  Spec => [](keepsUp => SlackOK)
  <1>1. Init => SlackOK
    <2> SUFFICES ASSUME Init PROVE SlackOK
      OBVIOUS
    <2>2. reset = "none" /\ stalenessSamples = 0
      BY DEF Init, RInit
    <2>3. OneVersion <= MaxRequiredSamples
      BY QueueHoldsOneVersion DEF OneVersion
    <2>4. EInv /\ OneVersion \in Nat /\ MaxRequiredSamples \in Nat /\ Committed \in Nat
      <3>1. EInv
        BY InitGInv, StreamInit DEF Init, RInit, TInit, MQ!Init, EInv, EndOK, NoMarker
      <3> QED
        BY <3>1, LocalTypes, CommittedTypes
    <2> QED
      BY <2>2, <2>3, <2>4 DEF SlackOK
  <1>2. EInv /\ LoadOK /\ SideOK /\ RestOK /\ (keepsUp => BudgetOK) /\ (keepsUp => SlackOK)
            /\ [Next]_vars => (keepsUp => SlackOK)'
    <2> SUFFICES ASSUME EInv, LoadOK, SideOK, RestOK, keepsUp => BudgetOK, keepsUp => SlackOK,
                        [Next]_vars, keepsUp'
                 PROVE  SlackOK'
      OBVIOUS
    <2>1. UNCHANGED keepsUp
      BY RestSteps DEF EInv
    <2> QED
      BY <2>1, SlackStep
  <1> QED
    BY <1>1, <1>2, EInvariance, LoadInvariance, SideInvariance, RestInvariance,
       BudgetInvariance, PTL DEF Spec

(* The trainer is never left waiting on an empty queue by a processor that *)
(* is throttled for good, for any limits, where the event loop keeps up    *)
(* and the concurrency limit never holds the processor back across a       *)
(* reset: what staleness_samples still counts after reset_staleness leaves *)
(* room for the rest of the version (rollouter:242-246, 462-468).          *)
THEOREM NeverStarvedInTime == NeverThrottled => (Spec => []NotStarvedInTime)
  <1> SUFFICES ASSUME NeverThrottled PROVE Spec => []NotStarvedInTime
    OBVIOUS
  <1>1. EInv /\ RestOK /\ (keepsUp => SlackOK) => NotStarvedInTime
    <2> SUFFICES ASSUME EInv, RestOK, SlackOK, Starved PROVE FALSE
      BY DEF NotStarvedInTime, NeverStarved
    <2>1. /\ getter[TheTrainer] = "waiting" /\ queue = << >> /\ proc = "parked"
          /\ lock = << >> /\ InFlight = {} /\ ShouldPause(QueueSize)
      BY DEF Starved
    <2>2. step = "collecting" /\ activeTasks = {}
      BY <2>1 DEF RestOK
    <2>3. reset = "none"
      BY <2>1, EInvParts DEF RInv, LockDiscipline, InLock
    <2>4. ~ending /\ Local < OneVersion /\ OneVersion \in Nat /\ Local \in Nat
      BY <2>2, LocalTypes, LocalBelow
    <2>5. Reserved = {}
      BY <2>1, <2>2, EInvParts DEF Reserved, InFlight, StreamOK, TasksOK
    <2>6. Load = 0
      <3>1. Cardinality(Reserved) = 0 /\ Len(queue) = 0 /\ InHand = 0
        BY <2>1, <2>5, FS_EmptySet DEF InHand, HasHand
      <3> QED
        BY <3>1 DEF Load, Work
    <2>7. Consumed = Local
      BY <2>2, <2>3, <2>4 DEF Consumed
    <2>8. stalenessSamples + OneVersion <= Committed + MaxRequiredSamples
      BY <2>1, <2>3, <2>4 DEF SlackOK
    <2>9. stalenessSamples < MaxRequiredSamples
      BY <2>4, <2>6, <2>7, <2>8, CommittedTypes
    <2>10. QueueSize < MaxRequiredSamples
      BY <2>1, Params DEF QueueSize
    <2> QED
      BY <2>1, <2>9, <2>10, CommittedTypes, EInvParts, QueueFacts DEF ShouldPause
  <1> QED
    BY <1>1, EInvariance, RestInvariance, SlackInvariance, PTL
=============================================================================
