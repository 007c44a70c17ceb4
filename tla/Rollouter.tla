----------------------------- MODULE Rollouter ------------------------------
(***************************************************************************)
(* The Ray actor FullyAsyncRollouter                                       *)
(* (experimental/fully_async_policy/fully_async_rollouter.py): a feeder, a *)
(* processor, one task per sample, a monitor, the generation main and the  *)
(* trainer's reset_staleness call, all coroutines of ONE event loop that   *)
(* share a FIFO asyncio.Lock with its condition.                           *)
(*                                                                         *)
(* A step is what a coroutine runs between two awaits that really suspend. *)
(* The lock is the sequence of coroutines that hold it (the head) or wait  *)
(* for it: asyncio.Lock serves waiters first come first served, and an     *)
(* acquire with nobody ahead does not suspend. While the processor is at   *)
(* the top of its loop it is RUNNING: no other coroutine of this actor may *)
(* step (yielded). The message queue is another actor; q is its length     *)
(* when a step asks for it.                                                *)
(***************************************************************************)
EXTENDS Integers, Sequences, FiniteSets

CONSTANTS
    FirstStep,            \* self.global_steps when the feed starts
    TotalRolloutSteps,    \* self.total_rollout_steps
    PendingCapacity,      \* maxsize of self.pending_queue (128)
    MaxRequiredSamples,   \* self.max_required_samples = self.max_queue_size
    MaxConcurrentSamples, \* self.max_concurrent_samples
    MayFail,              \* samples whose generation may raise
    None                  \* the end marker, and "no sample in hand"

(* The feed puts one sample before it first looks at the limit (line 419). *)
LastStep == IF FirstStep > TotalRolloutSteps THEN FirstStep ELSE TotalRolloutSteps
Samples == FirstStep .. LastStep
FeedLength == LastStep - FirstStep + 2

ASSUME StepsAssumption ==
    /\ FirstStep \in Nat \ {0}
    /\ TotalRolloutSteps \in Nat
ASSUME LimitsAssumption ==
    /\ PendingCapacity \in Nat \ {0}
    /\ MaxRequiredSamples \in Nat \ {0}
    /\ MaxConcurrentSamples \in 1 .. MaxRequiredSamples
ASSUME NoneAssumption == None \notin Samples

VARIABLES
    fed,              \* entries the feed has put, the end marker included
    pending,          \* self.pending_queue
    proc,             \* where _processor_worker stands
    yielded,          \* the processor has suspended: other coroutines may run
    hand,             \* the sample it took and has not submitted
    activeTasks,      \* self.active_tasks
    task,             \* what became of the task of each sample
    lock,             \* self.lock: the holder, then the waiters in order
    paused,           \* self.paused
    stalenessSamples, \* self.staleness_samples
    reset,            \* where the reset_staleness call stands
    resetSum,         \* the part of its sum that it has computed
    monitor,          \* where _async_monitor_loop stands
    main,             \* where _streaming_generation_main stands
    active,           \* self.running
    totalGenerated,   \* self.total_generated_samples
    droppedStale      \* self.dropped_stale_samples

feedVars == <<fed, pending>>
procVars == <<proc, yielded, hand, activeTasks>>
taskVars == <<task, totalGenerated, droppedStale>>
resetVars == <<reset, resetSum>>
pauseVars == <<paused, stalenessSamples>>
endVars == <<main, active>>
rolloutVars == <<feedVars, procVars, taskVars, lock, pauseVars, resetVars,
                 monitor, endVars>>

ProcState == {"loop", "fetching", "pausing", "draining", "sleeping", "parked",
              "woken", "limiting", "submitting", "finishing", "ended", "dead"}
TaskState == {"none", "generating", "stored", "displaced", "done", "failed"}

Entry(i) == IF i = FeedLength THEN None ELSE FirstStep + i - 1

FewerOf(m, n) == IF m <= n THEN m ELSE n

(* feed_task is created before processor_task and runs first: it fills     *)
(* the pending queue before the processor takes its first step.            *)
RInit ==
    /\ fed = FewerOf(PendingCapacity, FeedLength)
    /\ pending = [i \in 1 .. fed |-> Entry(i)]
    /\ proc = "loop"
    /\ yielded = FALSE
    /\ hand = None
    /\ activeTasks = {}
    /\ task = [s \in Samples |-> "none"]
    /\ lock = << >>
    /\ paused = FALSE
    /\ stalenessSamples = 0
    /\ reset = "none"
    /\ resetSum = 0
    /\ monitor = "sleeping"
    /\ main = "streaming"
    /\ active = TRUE
    /\ totalGenerated = 0
    /\ droppedStale = 0

Holds(p) == lock # << >> /\ Head(lock) = p
Acquire(p) == lock' = Append(lock, p)
Release == lock' = Tail(lock)

(* The processor moves on to pc. It suspends where it awaits tasks, an     *)
(* entry or the condition, and on the lock only when it is not free.       *)
Suspending == {"fetching", "draining", "limiting", "finishing", "parked", "ended", "dead"}

GoTo(pc) ==
    proc' = pc /\ yielded' = (pc \in Suspending) /\ UNCHANGED lock
GoLocking(pc) ==
    proc' = pc /\ yielded' = (pc \in Suspending \/ lock # << >>) /\ Acquire("proc")
GoReleasing(pc) ==
    proc' = pc /\ yielded' = (pc \in Suspending) /\ Release
GoRelocking(pc) ==
    /\ proc' = pc
    /\ yielded' = (pc \in Suspending \/ Len(lock) > 1)
    /\ lock' = Append(Tail(lock), "proc")

ShouldPause(q) ==
    q >= MaxRequiredSamples \/ stalenessSamples >= MaxRequiredSamples

NotifyAll ==
    proc' = (IF proc = "parked" THEN "woken" ELSE proc) /\ UNCHANGED yielded

-----------------------------------------------------------------------------
(* _feed_samples: a put into a queue with room does not suspend, and the   *)
(* data loader is synchronous, so the feed runs until the queue is full.   *)
Feed ==
    /\ yielded
    /\ main = "streaming"
    /\ fed < FeedLength
    /\ Len(pending) < PendingCapacity
    /\ LET n == FewerOf(PendingCapacity - Len(pending), FeedLength - fed) IN
       /\ pending' = pending \o [i \in 1 .. n |-> Entry(fed + i)]
       /\ fed' = fed + n
    /\ UNCHANGED <<procVars, taskVars, lock, pauseVars, resetVars, monitor, endVars>>

-----------------------------------------------------------------------------
(* _processor_worker *)

ProcPause(q) ==
    /\ proc = "loop"
    /\ paused \/ ShouldPause(q)
    /\ GoLocking("pausing")
    /\ UNCHANGED <<feedVars, hand, activeTasks, taskVars, pauseVars, resetVars, monitor, endVars>>

ProcFetch(q) ==
    /\ proc = "loop"
    /\ ~(paused \/ ShouldPause(q))
    /\ pending = << >>
    /\ GoTo("fetching")
    /\ UNCHANGED <<feedVars, hand, activeTasks, taskVars, pauseVars, resetVars, monitor, endVars>>

(* Mutants of the rest of the loop body: > for >= in the concurrency test; *)
(* the end marker does not wait for the running tasks; the sample is not   *)
(* counted; the entry is read and left in the queue.                       *)
TakeOffByOne(q) ==
    /\ \/ proc = "loop" /\ ~(paused \/ ShouldPause(q))
       \/ proc = "fetching"
    /\ pending # << >>
    /\ pending' = Tail(pending)
    /\ stalenessSamples' = stalenessSamples + 1
    /\ hand' = Head(pending)
    /\ IF Head(pending) = None
       THEN IF activeTasks = {} THEN GoTo("ended") ELSE GoLocking("finishing")
       ELSE GoLocking(IF Cardinality(activeTasks) > MaxConcurrentSamples
                      THEN "limiting" ELSE "submitting")
    /\ UNCHANGED <<fed, activeTasks, taskVars, paused, resetVars, monitor, endVars>>

TakeEndsAtOnce(q) ==
    /\ \/ proc = "loop" /\ ~(paused \/ ShouldPause(q))
       \/ proc = "fetching"
    /\ pending # << >>
    /\ pending' = Tail(pending)
    /\ stalenessSamples' = stalenessSamples + 1
    /\ hand' = Head(pending)
    /\ IF Head(pending) = None
       THEN GoTo("ended")
       ELSE GoLocking(IF Cardinality(activeTasks) >= MaxConcurrentSamples
                      THEN "limiting" ELSE "submitting")
    /\ UNCHANGED <<fed, activeTasks, taskVars, paused, resetVars, monitor, endVars>>

TakeUncounted(q) ==
    /\ \/ proc = "loop" /\ ~(paused \/ ShouldPause(q))
       \/ proc = "fetching"
    /\ pending # << >>
    /\ pending' = Tail(pending)
    /\ hand' = Head(pending)
    /\ IF Head(pending) = None
       THEN IF activeTasks = {} THEN GoTo("ended") ELSE GoLocking("finishing")
       ELSE GoLocking(IF Cardinality(activeTasks) >= MaxConcurrentSamples
                      THEN "limiting" ELSE "submitting")
    /\ UNCHANGED <<fed, activeTasks, taskVars, pauseVars, resetVars, monitor, endVars>>

TakeLeavesEntry(q) ==
    /\ \/ proc = "loop" /\ ~(paused \/ ShouldPause(q))
       \/ proc = "fetching"
    /\ pending # << >>
    /\ stalenessSamples' = stalenessSamples + 1
    /\ hand' = Head(pending)
    /\ IF Head(pending) = None
       THEN IF activeTasks = {} THEN GoTo("ended") ELSE GoLocking("finishing")
       ELSE GoLocking(IF Cardinality(activeTasks) >= MaxConcurrentSamples
                      THEN "limiting" ELSE "submitting")
    /\ UNCHANGED <<feedVars, activeTasks, taskVars, paused, resetVars, monitor, endVars>>

(* Takes the next entry; staleness_samples is counted outside the lock,    *)
(* and for the end marker too.                                             *)
ProcTake(q) ==
    /\ \/ proc = "loop" /\ ~(paused \/ ShouldPause(q))
       \/ proc = "fetching"
    /\ pending # << >>
    /\ pending' = Tail(pending)
    /\ stalenessSamples' = stalenessSamples + 1
    /\ hand' = Head(pending)
    /\ IF Head(pending) = None
       THEN IF activeTasks = {} THEN GoTo("ended") ELSE GoLocking("finishing")
       ELSE GoLocking(IF Cardinality(activeTasks) >= MaxConcurrentSamples
                      THEN "limiting" ELSE "submitting")
    /\ UNCHANGED <<fed, activeTasks, taskVars, paused, resetVars, monitor, endVars>>

(* Mutant: the running tasks are not waited for.                           *)
SetPausedUndrained ==
    /\ proc = "pausing" /\ Holds("proc")
    /\ paused' = TRUE
    /\ GoRelocking("sleeping")
    /\ UNCHANGED <<feedVars, hand, activeTasks, taskVars, stalenessSamples, resetVars, monitor, endVars>>

(* paused is set; the running tasks are waited for before the condition.   *)
ProcSetPaused ==
    /\ proc = "pausing" /\ Holds("proc")
    /\ paused' = TRUE
    /\ GoRelocking(IF activeTasks # {} THEN "draining" ELSE "sleeping")
    /\ UNCHANGED <<feedVars, hand, activeTasks, taskVars, stalenessSamples, resetVars, monitor, endVars>>

Finished == {s \in activeTasks : task[s] \in {"done", "failed"}}

(* asyncio.wait(FIRST_COMPLETED) returns under the lock with every task    *)
(* that is done by then; awaiting one that failed raises in the processor. *)
ProcReap ==
    /\ proc \in {"draining", "limiting", "finishing"} /\ Holds("proc")
    /\ Finished # {}
    /\ activeTasks' = activeTasks \ Finished
    /\ IF \E s \in Finished : task[s] = "failed"
       THEN GoReleasing("dead")
       ELSE IF proc = "finishing" /\ activeTasks' = {}
       THEN GoReleasing("ended")
       ELSE GoRelocking(IF proc = "draining" /\ activeTasks' = {} THEN "sleeping"
                        ELSE IF /\ proc = "limiting"
                                /\ Cardinality(activeTasks') < MaxConcurrentSamples
                        THEN "submitting" ELSE proc)
    /\ UNCHANGED <<feedVars, hand, taskVars, pauseVars, resetVars, monitor, endVars>>

(* condition.wait while paused, in the pause branch and before a submit.   *)
ProcPark ==
    /\ proc \in {"sleeping", "submitting"} /\ Holds("proc")
    /\ paused
    /\ GoReleasing("parked")
    /\ UNCHANGED <<feedVars, hand, activeTasks, taskVars, pauseVars, resetVars, monitor, endVars>>

ProcWake ==
    /\ proc = "woken"
    /\ GoLocking(IF hand = None THEN "sleeping" ELSE "submitting")
    /\ UNCHANGED <<feedVars, hand, activeTasks, taskVars, pauseVars, resetVars, monitor, endVars>>

ProcContinue ==
    /\ proc = "sleeping" /\ Holds("proc")
    /\ ~paused
    /\ GoReleasing("loop")
    /\ UNCHANGED <<feedVars, hand, activeTasks, taskVars, pauseVars, resetVars, monitor, endVars>>

ProcSubmit ==
    /\ proc = "submitting" /\ Holds("proc")
    /\ ~paused
    /\ activeTasks' = activeTasks \union {hand}
    /\ task' = [task EXCEPT ![hand] = "generating"]
    /\ hand' = None
    /\ GoReleasing("loop")
    /\ UNCHANGED <<feedVars, totalGenerated, droppedStale, pauseVars, resetVars, monitor, endVars>>

-----------------------------------------------------------------------------
(* _process_single_sample_streaming *)

(* The put of a generated sample reaches the queue, which answers ok.      *)
(* "generating" covers all the coroutine awaits until then, in other       *)
(* actors, without touching this one's state: the answers to the prompt,   *)
(* their scores, the statistics of the sample, and the put itself.         *)
TaskPut(s, ok) ==
    /\ task[s] = "generating"
    /\ task' = [task EXCEPT ![s] = IF ok THEN "stored" ELSE "displaced"]
    /\ UNCHANGED <<feedVars, procVars, totalGenerated, droppedStale, lock, pauseVars,
                   resetVars, monitor, endVars>>

TaskFails(s) ==
    /\ s \in MayFail
    /\ yielded
    /\ task[s] = "generating"
    /\ task' = [task EXCEPT ![s] = "failed"]
    /\ UNCHANGED <<feedVars, procVars, totalGenerated, droppedStale, lock, pauseVars,
                   resetVars, monitor, endVars>>

(* The answer of put arrives and the coroutine ends. The task stays in     *)
(* active_tasks until the processor reaps it.                              *)
TaskEnds(s) ==
    /\ yielded
    /\ task[s] \in {"stored", "displaced"}
    /\ task' = [task EXCEPT ![s] = "done"]
    /\ IF task[s] = "stored"
       THEN totalGenerated' = totalGenerated + 1 /\ UNCHANGED droppedStale
       ELSE droppedStale' = droppedStale + 1 /\ UNCHANGED totalGenerated
    /\ UNCHANGED <<feedVars, procVars, lock, pauseVars, resetVars, monitor, endVars>>

-----------------------------------------------------------------------------
(* reset_staleness, called by the trainer after a weight update *)

ResetCalled ==
    /\ yielded
    /\ reset = "none"
    /\ reset' = "locking"
    /\ Acquire("reset")
    /\ UNCHANGED <<feedVars, procVars, taskVars, pauseVars, resetSum, monitor, endVars>>

(* Mutants: the waiters are not notified; the lock is given up before the  *)
(* queue is asked.                                                         *)
ResetWithoutNotify ==
    /\ yielded
    /\ reset = "locking" /\ Holds("reset")
    /\ paused' = FALSE
    /\ resetSum' = Cardinality(activeTasks)
    /\ reset' = "asking"
    /\ UNCHANGED <<feedVars, procVars, taskVars, lock, stalenessSamples, monitor, endVars>>

ResetReleasesEarly ==
    /\ yielded
    /\ reset = "locking" /\ Holds("reset")
    /\ paused' = FALSE
    /\ NotifyAll
    /\ resetSum' = Cardinality(activeTasks)
    /\ reset' = "asking"
    /\ Release
    /\ UNCHANGED <<feedVars, hand, activeTasks, taskVars, stalenessSamples, monitor, endVars>>

(* len(active_tasks) is read before the call to the queue is awaited.      *)
ResetBegins ==
    /\ yielded
    /\ reset = "locking" /\ Holds("reset")
    /\ paused' = FALSE
    /\ NotifyAll
    /\ resetSum' = Cardinality(activeTasks)
    /\ reset' = "asking"
    /\ UNCHANGED <<feedVars, hand, activeTasks, taskVars, lock, stalenessSamples, monitor, endVars>>

(* Mutant: only the active tasks are counted. *)
ResetForgetsQueue(q) ==
    /\ reset = "asking"
    /\ reset' = "storing"
    /\ UNCHANGED <<feedVars, procVars, taskVars, lock, pauseVars, resetSum, monitor, endVars>>

(* The queue actor answers get_queue_size. *)
ResetAnswered(q) ==
    /\ reset = "asking"
    /\ resetSum' = resetSum + q
    /\ reset' = "storing"
    /\ UNCHANGED <<feedVars, procVars, taskVars, lock, pauseVars, monitor, endVars>>

(* Mutant: the sum is added to the counter. *)
ResetAdds ==
    /\ yielded
    /\ reset = "storing"
    /\ stalenessSamples' = stalenessSamples + resetSum
    /\ resetSum' = 0
    /\ reset' = "none"
    /\ Release
    /\ UNCHANGED <<feedVars, procVars, taskVars, paused, monitor, endVars>>

ResetEnds ==
    /\ yielded
    /\ reset = "storing"
    /\ stalenessSamples' = resetSum
    /\ resetSum' = 0
    /\ reset' = "none"
    /\ Release
    /\ UNCHANGED <<feedVars, procVars, taskVars, paused, monitor, endVars>>

-----------------------------------------------------------------------------
(* _async_monitor_loop: every check_interval it lifts a pause that is no   *)
(* longer needed, and ends once the actor has stopped running. Its other   *)
(* locked section only reads self.running.                                 *)

MonitorDecides(q) ==
    /\ yielded
    /\ monitor = "sleeping"
    /\ paused /\ ~ShouldPause(q)
    /\ monitor' = "resuming"
    /\ Acquire("monitor")
    /\ UNCHANGED <<feedVars, procVars, taskVars, pauseVars, resetVars, endVars>>

MonitorResumes ==
    /\ yielded
    /\ monitor = "resuming" /\ Holds("monitor")
    /\ paused' = FALSE
    /\ NotifyAll
    /\ monitor' = "sleeping"
    /\ Release
    /\ UNCHANGED <<feedVars, hand, activeTasks, taskVars, stalenessSamples, resetVars, endVars>>

MonitorExits ==
    /\ yielded
    /\ monitor = "sleeping"
    /\ ~active
    /\ lock = << >>
    /\ monitor' = "exited"
    /\ UNCHANGED <<feedVars, procVars, taskVars, lock, pauseVars, resetVars, endVars>>

-----------------------------------------------------------------------------
(* _streaming_generation_main *)

(* Mutant: the end of the feed is taken for the end of the stream. *)
MainWaitsForFeed ==
    /\ yielded
    /\ main = "streaming"
    /\ fed = FeedLength \/ proc = "dead"
    /\ main' = "signalling"
    /\ UNCHANGED <<feedVars, procVars, taskVars, lock, pauseVars, resetVars, monitor, active>>

(* Feed and processor are over, or the processor raised: the feed is       *)
(* cancelled.                                                              *)
MainWaited ==
    /\ yielded
    /\ main = "streaming"
    /\ (proc = "ended" /\ fed = FeedLength) \/ proc = "dead"
    /\ main' = "signalling"
    /\ UNCHANGED <<feedVars, procVars, taskVars, lock, pauseVars, resetVars, monitor, active>>

(* put_sample(None) in the finally block; after an exception the method    *)
(* ends there and self.running keeps its value.                            *)
MainSignals ==
    /\ yielded
    /\ main = "signalling"
    /\ IF proc = "dead"
       THEN main' = "failed" /\ UNCHANGED lock
       ELSE main' = "stopping" /\ Acquire("main")
    /\ UNCHANGED <<feedVars, procVars, taskVars, pauseVars, resetVars, monitor, active>>

MainStops ==
    /\ yielded
    /\ main = "stopping" /\ Holds("main")
    /\ active' = FALSE
    /\ main' = "stopped"
    /\ Release
    /\ UNCHANGED <<feedVars, procVars, taskVars, pauseVars, resetVars, monitor>>

(* fit returns when both gathered tasks have ended. *)
FitReturned == main \in {"stopped", "failed"} /\ monitor = "exited"

-----------------------------------------------------------------------------
(* The rollouter with any queue and any trainer: what it reads of the      *)
(* queue, what put answers and when reset_staleness is called are free.    *)
RNext ==
    \/ Feed \/ ProcSetPaused \/ ProcReap \/ ProcPark \/ ProcWake
    \/ ProcContinue \/ ProcSubmit
    \/ ResetCalled \/ ResetBegins \/ ResetEnds
    \/ MonitorResumes \/ MonitorExits
    \/ MainWaited \/ MainSignals \/ MainStops
    \/ \E q \in 0 .. MaxRequiredSamples :
          ProcPause(q) \/ ProcFetch(q) \/ ProcTake(q) \/ ResetAnswered(q) \/ MonitorDecides(q)
    \/ \E s \in Samples :
          TaskFails(s) \/ TaskEnds(s) \/ \E ok \in BOOLEAN : TaskPut(s, ok)

RSpec == RInit /\ [][RNext]_rolloutVars

-----------------------------------------------------------------------------
(* The type invariant. The bound on the pending queue is asyncio.Queue's   *)
(* maxsize; fed never passes the end marker of the feed (lines 400-431).   *)
RTypeOK ==
    /\ fed \in 0 .. FeedLength
    /\ pending \in Seq(Samples \union {None})
    /\ Len(pending) <= PendingCapacity
    /\ proc \in ProcState
    /\ yielded \in BOOLEAN
    /\ hand \in Samples \union {None}
    /\ activeTasks \subseteq Samples
    /\ task \in [Samples -> TaskState]
    /\ lock \in Seq({"proc", "reset", "monitor", "main"})
    /\ paused \in BOOLEAN
    /\ stalenessSamples \in Nat
    /\ reset \in {"none", "locking", "asking", "storing"}
    /\ resetSum \in Nat
    /\ monitor \in {"sleeping", "resuming", "exited"}
    /\ main \in {"streaming", "signalling", "stopping", "stopped", "failed"}
    /\ active \in BOOLEAN
    /\ totalGenerated \in Nat
    /\ droppedStale \in Nat

InLock(p) == \E i \in DOMAIN lock : lock[i] = p

(* Where the processor holds the lock or waits for it.                     *)
LockingStates == {"pausing", "draining", "sleeping", "limiting", "submitting", "finishing"}

(* The lock is never left held, taken twice or asked for twice: a          *)
(* coroutine is in its queue exactly while it stands inside a locked       *)
(* section, and reset_staleness keeps it across its await, so nobody       *)
(* submits a task or pauses between its two reads (rollouter:242-246).     *)
LockDiscipline ==
    /\ \A i, j \in DOMAIN lock : lock[i] = lock[j] => i = j
    /\ InLock("proc") <=> proc \in LockingStates
    /\ InLock("reset") <=> reset # "none"
    /\ InLock("monitor") <=> monitor = "resuming"
    /\ InLock("main") <=> main = "stopping"
    /\ reset \in {"asking", "storing"} => Holds("reset")

(* A sample in hand is never held back by a pause: only the processor      *)
(* pauses, at the top of its loop, so the wait before a submit (lines      *)
(* 490-493) never sleeps.                                                  *)
HandNeverPaused ==
    proc \in {"fetching", "limiting", "submitting", "finishing"} => ~paused

(* The concurrency limit: checked, slept on and acted upon in three        *)
(* different steps (lines 479-498), and still never exceeded.              *)
ConcurrencyLimit == Cardinality(activeTasks) <= MaxConcurrentSamples

(* Every sample the feed handed out is pending, in hand, or has a task,    *)
(* and never two of them.                                                  *)
Pending == {pending[i] : i \in DOMAIN pending}
EachSampleOnce ==
    \A s \in Samples :
        task[s] = "none" <=> s = hand \/ s \in Pending \/ s >= FirstStep + fed
=============================================================================
