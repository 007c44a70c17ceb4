----------------------------- MODULE FullyAsync -----------------------------
(***************************************************************************)
(* The fully asynchronous pipeline: the rollouter generates samples and    *)
(* puts them into the message queue, the trainer takes them out, updates   *)
(* the model, sends new weights and calls back into the rollouter. Three   *)
(* Ray actors: a call between two of them is a step of its own, and what   *)
(* one actor read of another may be old when it uses it.                   *)
(***************************************************************************)
EXTENDS Rollouter, AsyncTrainer

CONSTANTS
    TheTrainer,    \* the one caller of get_sample
    Timings        \* what keepsUp may be

ASSUME QueueHoldsOneVersion ==
    RequiredSamples * TriggerParameterSyncStep <= MaxRequiredSamples
ASSUME ResumeAssumption ==
    FirstStep = StartVersion * RequiredSamples * TriggerParameterSyncStep + 1
ASSUME TimingsAssumption == Timings \subseteq BOOLEAN

(* min_global_steps and max_global_steps are None.                         *)
Unstamped == -1

VARIABLES
    queue, running, totalProduced, totalConsumed, droppedSamples, valQueue, getter,
    bornIn,           \* the server version each sample carries, or Unstamped
    runner,           \* where FullyAsyncTaskRunner._run_training_loop stands
    keepsUp           \* the rollouter's event loop has no backlog at a sync (fixed)

MQ == INSTANCE MessageQueue WITH
    Samples <- Samples \union {None}, Validations <- {}, Consumers <- {TheTrainer},
    MaxQueueSize <- MaxRequiredSamples

queueVars == <<queue, running, totalProduced, totalConsumed, droppedSamples,
               valQueue, getter>>
runnerVars == <<runner, keepsUp>>
sysVars == <<queueVars, trainerVars, bornIn, runnerVars>>
vars == <<rolloutVars, sysVars>>

Init ==
    /\ RInit
    /\ MQ!Init
    /\ TInit
    /\ bornIn = [s \in Samples |-> Unstamped]
    /\ runner = "waiting"
    /\ keepsUp \in Timings

Queued == {queue[i] : i \in DOMAIN queue} \ {None}
QueueSize == Len(queue)

-----------------------------------------------------------------------------
(* Steps of the rollouter, alone or with one call to the queue.            *)

RolloutAlone ==
    /\ \/ Feed \/ ProcSetPaused \/ ProcReap \/ ProcPark \/ ProcWake
       \/ ProcContinue \/ ProcSubmit
       \/ ResetBegins \/ ResetEnds \/ MonitorResumes \/ MonitorExits
       \/ MainWaited \/ MainStops
       \/ \E s \in Samples : TaskFails(s) \/ TaskEnds(s)
    /\ UNCHANGED sysVars

RolloutReads ==
    /\ \/ ProcPause(QueueSize) \/ ProcFetch(QueueSize) \/ ProcTake(QueueSize)
       \/ ResetAnswered(QueueSize) \/ MonitorDecides(QueueSize)
    /\ UNCHANGED sysVars

(* The server stamps its version on the output of a generation that has    *)
(* ended. The sample is still "generating": its score, the other answers   *)
(* to its prompt and the statistics are awaited before it is put.          *)
Stamp(s) ==
    /\ task[s] = "generating"
    /\ bornIn[s] = Unstamped
    /\ bornIn' = [bornIn EXCEPT ![s] = served.version]
    /\ UNCHANGED <<rolloutVars, queueVars, trainerVars, runnerVars>>

SampleArrives(s) ==
    /\ bornIn[s] # Unstamped
    /\ TaskPut(s, MQ!PutSucceeds)
    /\ MQ!PutSample(s)
    /\ UNCHANGED <<trainerVars, bornIn, runnerVars>>

EndArrives ==
    /\ MainSignals
    /\ MQ!PutSample(None)
    /\ UNCHANGED <<trainerVars, bornIn, runnerVars>>

Rollout ==
    RolloutAlone \/ RolloutReads \/ EndArrives
    \/ \E s \in Samples : Stamp(s) \/ SampleArrives(s)

-----------------------------------------------------------------------------
(* Steps of the trainer.                                                   *)

Take ==
    /\ MQ!GetSample(TheTrainer)
    /\ IF Head(queue) = None THEN SeeEnd ELSE Collect \/ Train
    /\ UNCHANGED <<rolloutVars, bornIn, runnerVars>>

Wait ==
    /\ step = "collecting"
    /\ MQ!GetWaits(TheTrainer)
    /\ UNCHANGED <<rolloutVars, trainerVars, bornIn, runnerVars>>

(* Nothing that could run on the rollouter's event loop is left over: its  *)
(* coroutines wait for tasks that are not done, the trainer or a wake-up.  *)
CaughtUp ==
    /\ \A s \in Samples : task[s] \notin {"stored", "displaced"}
    /\ \/ proc \in {"parked", "ended", "dead"}
       \/ proc \in {"draining", "limiting", "finishing"} /\ Finished = {}

Send == SendWeights /\ UNCHANGED <<rolloutVars, queueVars, bornIn, runnerVars>>

Call ==
    /\ keepsUp => CaughtUp
    /\ CallReset
    /\ ResetCalled
    /\ UNCHANGED <<queueVars, bornIn, runnerVars>>

Answered ==
    /\ reset = "none"
    /\ ResetDone
    /\ UNCHANGED <<rolloutVars, queueVars, bornIn, runnerVars>>

Save == SaveCheckpoint /\ UNCHANGED <<rolloutVars, queueVars, bornIn, runnerVars>>

Trainer == Take \/ Wait \/ Send \/ Call \/ Answered \/ Save

-----------------------------------------------------------------------------
(* Both futures are done: the finally block clears the queue.              *)
RunnerEnds ==
    /\ runner = "waiting"
    /\ FitReturned
    /\ step = "stopped"
    /\ MQ!ClearQueue
    /\ runner' = "ended"
    /\ UNCHANGED <<rolloutVars, trainerVars, bornIn, keepsUp>>

Ended == runner = "ended" /\ UNCHANGED vars

Next == Rollout \/ Trainer \/ RunnerEnds \/ Ended

Spec == Init /\ [][Next]_vars

(* Ready coroutines run, generation ends, Ray delivers calls.              *)
FairSpec == Spec /\ WF_vars(Rollout) /\ WF_vars(Trainer) /\ WF_vars(RunnerEnds)

-----------------------------------------------------------------------------
(* The type invariant of the composition: those of its three actors, and   *)
(* the bound of the message queue (message_queue.py:68).                   *)
TypeOK ==
    /\ RTypeOK
    /\ TTypeOK
    /\ MQ!TypeOK
    /\ bornIn \in [Samples -> Nat \union {Unstamped}]
    /\ runner \in {"waiting", "ended"}
    /\ keepsUp \in Timings

InFlight == {s \in Samples : task[s] = "generating"}
Outstanding == Cardinality(InFlight) + Cardinality(Queued)

(* The freshness budget of the documentation (fully_async.md:135-142).     *)
(* Between two updates at most (1 + staleness_threshold) * OneVersion      *)
(* samples are generated, the stale ones left over from before included;   *)
(* MaxRequiredSamples is that product (rollouter:200-204). Every sample    *)
(* being generated or queued is one of the two, so more of them than the   *)
(* product break the documented bound. It holds where the event loop keeps *)
(* up and the concurrency limit never holds the processor back across a    *)
(* reset (NeverThrottled); AtMostOneOver says what is left otherwise.      *)
WithinBudget == keepsUp => Outstanding <= MaxRequiredSamples

OneVersion == RequiredSamples * TriggerParameterSyncStep
NeverThrottled == MaxConcurrentSamples >= MaxRequiredSamples - OneVersion

(* reset_staleness may miss the one sample the processor holds between     *)
(* taking and submitting it; it never misses more, whatever the            *)
(* interleaving and the limits (lines 246 and 462).                        *)
AtMostOneOver == Outstanding <= MaxRequiredSamples + 1

(* What the budget is for: a sample is trained on at most so many versions *)
(* after the one that generated it, none at all with threshold 0, however  *)
(* long it is scored between its stamp and its put. The budget alone would *)
(* let later samples overtake it version after version; but a processor    *)
(* that has used the budget up pauses, and waits for every running task    *)
(* before it takes another sample (rollouter:439-460).                     *)
Fresh ==
    keepsUp /\ step = "collecting" /\ queue # << >> /\ Head(queue) # None =>
        currentParamVersion - bornIn[Head(queue)] <= (MaxRequiredSamples - 1) \div OneVersion

(* The queue is as long as the budget, so its overflow branch never drops  *)
(* a sample, not even for the end marker.                                  *)
NothingDropped == keepsUp => droppedSamples = 0

(* The end marker is the last entry the trainer can read: no sample is     *)
(* being generated or put once it is in the queue. After a failure tasks   *)
(* that survive the processor may put behind it, but never push it out of  *)
(* the queue before the trainer has read it (rollouter:542-573).           *)
EndMarkerLast ==
    /\ main \in {"stopping", "stopped"} =>
          /\ InFlight = {}
          /\ \A i \in DOMAIN queue : queue[i] = None => i = Len(queue)
    /\ main \in {"stopping", "stopped", "failed"} =>
          ending \/ \E i \in DOMAIN queue : queue[i] = None

(* The pipeline trains on everything it was asked to generate, except what *)
(* the queue counts as dropped and the incomplete last batch, unless a     *)
(* generation failed.                                                      *)
EverythingTrained ==
    step = "stopped" /\ proc # "dead" =>
        (updates - ResumedWeights) * RequiredSamples + droppedSamples
            \in Cardinality(Samples) - RequiredSamples + 1 .. Cardinality(Samples)

(* The rollouter is never throttled for good while the trainer waits.      *)
Starved ==
    /\ getter[TheTrainer] = "waiting"
    /\ queue = << >> /\ InFlight = {}
    /\ proc = "parked" /\ lock = << >>
    /\ ShouldPause(QueueSize)

NeverStarved == ~Starved

(* Nor is it where the event loop keeps up: what a reset leaves counted as *)
(* stale is being generated, queued or part of a batch, and leaves room    *)
(* for the rest of the batch (lines 242-246). Run starved shows what a     *)
(* backlog does to that.                                                   *)
NotStarvedInTime == keepsUp => NeverStarved

(* The trainer stops, even when a sample cannot be generated, and without  *)
(* such a failure the run ends; after one fit of the rollouter hangs.      *)
Terminates == keepsUp => <>(step = "stopped" /\ (runner = "ended" \/ main = "failed"))

-----------------------------------------------------------------------------
(* The pipeline as its documentation describes it.                         *)

Fate(s) ==
    CASE task[s] = "none" -> "waiting"
      [] task[s] = "generating" -> "underway"
      [] task[s] = "failed" -> "failed"
      [] OTHER -> IF s \in Queued THEN "ready" ELSE "used"

(* Samples the trainer has consumed since it last started a version, and   *)
(* since it last published one.                                            *)
Local == (localTriggerStep - 1) * RequiredSamples + collected
UsedNow == IF ending THEN 0 ELSE IF step = "syncing" THEN OneVersion ELSE Local

Ideal == INSTANCE BoundedStaleness WITH
    PerVersion <- OneVersion,
    Budget <- MaxRequiredSamples,
    fate <- [s \in Samples |-> Fate(s)],
    born <- bornIn,
    version <- served.version,
    used <- UsedNow,
    ended <- ending

(* Staleness control: three actors that read each other's state late start *)
(* and train on samples as one program would that knows everything: a      *)
(* generation starts only where the samples under way, queued and consumed *)
(* since the served version leave room for it, and no sample trained on is *)
(* older than that allows, none is lost and none is used twice.            *)
BoundsStaleness == Ideal!Init /\ [][keepsUp => Ideal!Next]_(Ideal!vars)

=============================================================================
