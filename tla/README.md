# A verification development for pbrs-rlvr (verl)

The repository is a fork of verl, a library for reinforcement learning of large
language models, with an information-gain reward (IGPO). Most of it is tensor
arithmetic on GPUs. What a model checker and a prover can say something about is the
control between its processes: Ray actors, asyncio coroutines, queues, locks,
versions of weights, checkpoints, conversations, and the bookkeeping that says which
token a reward belongs to. The development covers the fully asynchronous trainer
(`src/verl/verl/experimental/fully_async_policy/`), weight updates, the tool agent loop
with the IGPO step that follows it, the load balancer and checkpoints on disk. Paths below are relative to
`src/verl/verl/` unless they start with `docs/` (which is `src/verl/docs/`);
`FA/` is `experimental/fully_async_policy/`, `vllm_async_server` is
`workers/rollout/vllm_rollout/vllm_async_server.py`, and a bare `rollouter:N` or `trainer:N`
is a line of `FA/fully_async_rollouter.py` or `FA/fully_async_trainer.py`.

## 1. The system

### Inventory

| part | state it keeps | operations | hard behaviour | modelled by |
|---|---|---|---|---|
| message queue, `FA/message_queue.py` (Ray actor) | deque of samples, counters, closed flag, validation deque | put, get (blocking), clear, shutdown, put/get of validation results | drop-oldest overflow, condition wake-ups, several getters | `MessageQueue`, `SampleStream`, `MessageQueueHistory` |
| rollouter, `FA/fully_async_rollouter.py` (Ray actor, one event loop) | pending queue, active tasks, `paused`, `staleness_samples`, the lock and its condition | feed, process, one task per sample, `reset_staleness`, monitor, generation main | six kinds of coroutine on one lock, throttling, failing tasks | `Rollouter` |
| trainer, `FA/fully_async_trainer.py` (Ray actor) | local step, parameter version, last checkpoint version, weights | collect a batch, update, sync weights, reset the rollouter, validate, save, resume | end of training in the middle of a version | `AsyncTrainer` |
| task runner, `FA/fully_async_main.py` | futures of the two actors | start-up order, wait, clear the queue | one side failing | `FullyAsync` |
| pipeline of the four | the version each sample was generated with | - | staleness budget, end marker, termination | `FullyAsync` |
| helper `FA/detach_utils.py` | - | `safe_create_task`; batch assembly and metrics | finished tasks stay in the task set | `Rollouter` (`safe_create_task` only) |
| partial rollout, `FA/agent_loop/` | tokens generated so far, version stamps | generate, resume an aborted generation | a weight update in mid-sample | `WeightSync` |
| load balancer, `experimental/agent_loop/agent_loop.py` | in-flight counters, LRU of sticky sessions | acquire, release | fire-and-forget release, eviction | `LoadBalancer` |
| tool agent loop, `experimental/agent_loop/tool_agent_loop.py` | conversation, response mask, turn counters | pending, generating, processing tools, interacting | limits reached in mid-turn | `ToolAgent` |
| checkpoint engine manager, `checkpoint_engine/base.py` | replicas, process groups | abort, sleep, transfer, wake | replicas at different stages | `WeightSync` |
| bucketed transfer, `checkpoint_engine/nccl_checkpoint_engine.py`, `workers/rollout/vllm_rollout/bucketed_weight_transfer.py` | two buffers, metadata | send, receive | buffer reuse, last bucket | planned |
| server adapters, `workers/rollout/` | server version, running requests | generate, abort, wake, sleep | requests arriving during an abort, HTTP retries | `WeightSync`, `ToolAgent` (vLLM only) |
| IGPO, `workers/rollout/multi_turn/`, `workers/reward_manager/igpo.py`, `trainer/ppo/core_algos.py`, `trainer/ppo/ray_trainer.py` | the batch of a step | gains per turn, placing rewards, penalty, advantages | turns misaligned between samples and between stages | `IgpoStep` |
| checkpoint store, `utils/checkpoint/`, `trainer/ppo/ray_trainer.py` | folders, tracker file, saved paths in memory | save, retain, find latest, resume | a crash between two files | `CheckpointStore` |
| sandbox tool, `tools/sandbox_fusion_tools.py` | tokens of the rate limiter | acquire, release, execute | failing executions | planned |
| protocol and dispatch, `protocol.py`, `utils/seqlen_balancing.py`, `single_controller/` | - (mostly pure) | pad, chunk, partition, dispatch, collect | boundary sizes | planned |
| reward loop, `experimental/reward_loop/` | worker handles | dispatch rewards | - | later, if at all |
| synchronous trainer, `trainer/ppo/ray_trainer.py` | step counter, loader | one sequential loop | - | `IgpoStep`, `CheckpointStore` in part |
| one-step-off trainer | step counters | a sequential loop, one batch ahead | - | not modelled |
| engines, models, kernels, third party, examples, recipes, VLA | tensors | numerics | - | not modelled |

### How the modelled parts interact

    feed --pending_queue--> processor --tasks--> servers --put_sample--> message queue
                               ^  lock/condition                          |
                               |                                     get_sample
    monitor, reset_staleness --+<---- reset_staleness --- trainer <-------+
                                                            |
                                            update_weights  +--> servers

* The feeder puts samples, then the end marker `None`, into `pending_queue`.
* The processor takes an entry, counts it in `staleness_samples`, waits for the
  concurrency limit and submits a task. It stops at the top of its loop when the
  queue is full or `staleness_samples` has reached the budget
  `max_required_samples = (1 + staleness_threshold) * required_samples *
  trigger_parameter_sync_step`, and then sleeps on the condition.
* A task generates its sample in the servers and puts it into the message queue.
* The trainer gets `required_samples` samples, makes a local update, and after
  `trigger_parameter_sync_step` of them starts a new version: weights to the servers,
  then `reset_staleness`, which lifts the pause, recomputes `staleness_samples`, and
  is waited for.
* The monitor lifts a pause that is no longer justified, every 10 seconds.
* The generation main waits for feed and processor, puts `None` into the message
  queue and clears `self.running`, on which the monitor ends.

The load balancer stands apart from these four: every turn a task generates acquires a
server from it and releases it, whichever trainer runs. It is checked on its own, and so are:

* A weight update (`WeightSync`). The checkpoint engine manager aborts what runs on every
  replica, puts the engines to sleep, has the weights sent, and resumes them, each phase for
  all replicas before the next. Calls of `generate` are interrupted by it and go on with
  what they have.
* A training step with information gain (`IgpoStep` on top of `ToolAgent`). The
  conversations of a group run in the agent loop; then the driver of `fit` computes gains, has the
  reward manager place them, subtracts the KL penalty and computes advantages. Three modules of the
  code find the turn boundaries again, each in its own way.
* Checkpoints (`CheckpointStore`). `fit` saves actor, critic, data loader and tracker one
  after the other while the checkpoint managers remove old ones; a new process reads the tracker.

### What makes it correct, and what is hard to test

Per part: the queue must lose no wake-up, keep order and drop only stale samples; the
rollouter must respect its lock, its concurrency limit and its budget, submit each
sample once and never sleep for good; the trainer must publish and file weights under
the version they belong to; together they must keep samples fresh, train on everything
and end. `PROJECT.json` lists the hazards line by line. The ones that only an
unlucky interleaving shows are: `staleness_samples` is overwritten by a coroutine that
read its parts earlier; finished tasks are still counted as active; the decision to
pause may be stale by the time it is carried out; the lock is held across an await; and
training may end at any point of a version. Of the other parts: a replica that serves while
another still loads; a sample whose tokens come from several versions; a mask or a reward that is off by
one token; a crash between two files of a checkpoint, or between a removal and a save.

## 2. The modules

| module | what it is |
|---|---|
| `MessageQueue` | the queue actor: one action per method; `get_sample` is cut where it waits on the condition |
| `SampleStream` | the abstract specification: every sample ends in exactly one way, the oldest buffered one goes first, overflow drops only the oldest |
| `MessageQueueHistory` | the queue, its callers, and a history variable `fate` that is at the same time the refinement mapping to `SampleStream` |
| `MessageQueueProofs` | theorems about the queue |
| `Rollouter` | the rollouter's coroutines, in an environment that may do anything the interface allows |
| `RollouterProofs` | theorems about the rollouter |
| `AsyncTrainer` | the trainer |
| `FullyAsync` | queue, rollouter, trainer and runner together, with the versions of samples |
| `BoundedStaleness` | the abstract specification of the pipeline, with no actor, queue, lock or call in it: when a generation may start, when a sample may be trained on, when training may end |
| `FullyAsyncProofs` | theorems about the trainer and about the pipeline |
| `LoadBalancer` | the load balancer actor and the turns of conversations that go through it |
| `LoadBalancerProofs` | theorems about the load balancer |
| `ToolAgent` | the state machine of each conversation, its response and its mask |
| `ToolAgentProofs` | theorems about conversations |
| `IgpoStep`, `IgpoStepMC` | the driver's steps on a group of conversations, with the pure functions they call; the data TLC tries |
| `IgpoStepProofs` | theorems about the step |
| `WeightSync`, `WeightSyncMC` | calls, engines and manager during weight updates; the settings TLC tries |
| `AtomicUpdate` | the abstract specification of a weight update: one system that serves one version and changes it in a single step |
| `WeightSyncProofs` | theorems about weight updates |
| `CheckpointStore`, `CheckpointStoreMC` | training, saves, removals, crashes and resumption; the settings TLC tries |
| `CheckpointStoreProofs` | theorems about checkpoints |

### State and actions against the code

*Names.* Variables are the attributes of the Python objects in camel case
(`stalenessSamples` is `self.staleness_samples`, `activeTasks` is `self.active_tasks`);
the comment at each declaration says which. `active` is the rollouter's `self.running`,
since `running` is the queue's. Program counters (`proc`, `reset`, `monitor`, `main`,
`step`, `getter`, `task`) say where a coroutine or an actor's method stands.

*Grain of a step.* A step is what runs between two awaits that really suspend. In the
queue every method runs under one lock with no await in it but the condition wait, so a
method is one step. In the rollouter, acquiring a free `asyncio.Lock` with no waiter, getting
from a non-empty `asyncio.Queue` and putting into a non-full one do not suspend;
`yielded` says that the processor has suspended since it reached the top of its loop, and
nothing else on that event loop runs before. `get_statistics_sync` in the pause test
blocks the whole loop on the answer of the queue: reading the queue's length and acting on
it is one step, since between the two no other coroutine of the rollouter can run, and
what the others do to the queue commutes with the rest of the step. `get_queue_size`
in `reset_staleness` is a real await: the call begins, the queue answers, and the sum is
stored in three steps, with `len(active_tasks)` read in the first.

*The lock* is the sequence of the coroutines that hold it or wait for it, in order,
because `asyncio.Lock` hands itself to waiters first come, first served.
`asyncio.Condition(lock).wait` releases it and asks for it again when notified.

*Processor.* `loop` is the top of the loop (438), `pausing` to `sleeping` the pause branch
(442-458), `fetching` an empty pending queue (460), `limiting` the wait for the
concurrency limit (479-486), `submitting` the last block (489-498), `finishing`
the wait after the end marker (468-475), `dead` a task's exception re-raised by
`await task`. `ProcTake` is lines 460-481 in one step: none of them suspends.

*Data.* A sample is its step number; weights are the number of updates they contain;
the contents of samples, prompts and tensors are left out, as are metrics and
validation, which change no state of the modelled parts.

*Servers and Ray* are external. A task is `generating` from its submission until its sample is in the queue
or it raises (`TaskFails`, for the samples in `MayFail`). In between the sample is stamped, in a step of its
own (`Stamp`): when a generation ends the server reads its version
(vllm_async_server:516), and of a conversation with several turns the first one's is kept
(tool_agent_loop:235-241). The put (`SampleArrives`) comes later, after further turns, the group's other answers, the
score and `get_statistics` (agent_loop:574, 712-726, 856; rollouter:503-510), so any number of versions may be
published between the two. Ray delivers each call once; the
code asks for no retries and has none of its own here. `checkpoint_manager.update_weights`
is one step of `AsyncTrainer`; `WeightSync` has its inside.

*Load balancer.* `acquire_server` and `release_server` are methods of a synchronous Ray actor, so
one step each. `recent` is the order of keys in `cachetools.LRUCache` (external): `in` leaves
it alone, a lookup renews the key (`Renewed`), and storing a new key in a full cache evicts the
oldest. `min` over a dictionary returns the first minimum (`LeastLoaded`). A turn is idle, calling
(`acquire_server` awaited), generating, idle again; `over` is a turn that raised. A release
is counted in `releases` until it arrives, in any order with the others and with later
acquisitions. The continuation of an aborted generation (`FA/agent_loop/agent_loop.py:82-120`)
acquires again under the same request id, so it is one more turn here. `since` is a
history variable: who acquired a server after a conversation last did. The cancellation of a
caller between the answer of `acquire_server` and the `try` is left out: no caller is cancelled.

*Weight update.* A step is what an actor does between two awaits. A call is `ready` (about to
acquire a server), `sent`, `running` in the engine, or `done`; `Return` is what the server does when a
generation ends (stamp it with its `global_steps`) and what the caller does with it (merge, check
limits, return or call again), in one step, since neither awaits anything the others touch. The abort
ends all generations of a replica at once. A token is the version of the weights it was made with, `Torn`
while buckets are being copied. The five settings of a run (token limit, engine generation, partial
rollout, data parallelism, whether an abort may raise) are a variable that never changes, so that one
run covers several. `leaky` records that an abort could leave requests running: below vLLM 0.12, or after
an exception in it. The load balancer's choice is a nondeterministic replica; the time limit of the drain
in `sleep` (970-974) is not modelled.

*Conversations.* A token is its kind: `gen` the model's, `obs` an observation's, `sep` the assistant
header at the end of an observation. `response` is `prompt_ids` without the prompt. The lengths of
generations and observations, whether the model calls a tool and whether the user stops are choices; the
three limits are the code's, and the room for a generation is the server's (vllm_async_server:449-479).
`raised` is a conversation whose `run` raised because the server refused.

*IGPO step.* Each operator is one function of the code, on the tokens `ToolAgent` left. Numbers are
integers: gains are differences of log-probs from a small set, means are kept exact by multiplying with
the product of the counts (`Scale`), `gamma` is 1, the normalisation subtracts the mean (`mean` mode),
the weights of the two kinds are 1. A zero gain becomes `Sentinel`, a value no gain or score has. Whether
scores are streamed by reward workers is a setting.

*Checkpoints.* Weights are the sequence of batches they were trained on. Each part of a checkpoint is
opened (its content is `Torn`) and written in two steps with a crash possible between them; removals happen where
`ensure_checkpoint_capacity` and `register_checkpoint` make them. `Crash` also stands for starting a
finished job again. `previous_saved_paths` is lost with the process, as in the code. The restored
loader position is that of a loader without shuffling: after an epoch boundary the code starts the next
epoch with a fresh order, which the model's batch numbers do not distinguish.

*Resume of the asynchronous trainer.* `load_checkpoint` of both actors runs before `fit`, so a resumed run is an initial
state: `StartVersion`, and `FirstStep = StartVersion * required_samples *
trigger_parameter_sync_step + 1` (rollouter:327). A save between two versions, when the instance expires or at the end
(trainer:599-624), files the local updates made so far under the older version; `load_checkpoint` loads those weights and
counts from the version alone (729-731), and fully_async_main:111 publishes them under it. `Surplus` is the number of
such updates in the checkpoint, any number at all, since several resumptions add theirs up.

## 3. The runs

Each run has its own `.cfg`; the constants are the code's parameters, made small.

| run | bounds | what it shows |
|---|---|---|
| `queue` | capacity 2, 5 puts, 2 consumers, 1 validation result | no lost wake-up; order; counters; the queue implements `SampleStream`, which bounds it and drops only the oldest; after shutdown nobody stays in `get_sample` |
| `async` | resumed at version 1 with one update beyond it; 6 samples, two may fail; pending capacity 2, budget 3, limit 2, one sample per batch, two local steps per version (threshold 0.5), save frequency 2, an ESI answer of either kind, both timings | in any timing: lock discipline, concurrency limit, each sample once, the budget exceeded by at most one, the end marker last and never lost, everything trained on, no update published or filed under a version it is not of; when the event loop keeps up: the pipeline implements `BoundedStaleness`, the budget, freshness from the stamp on, nothing dropped, no starvation, the trainer stops even after a failure |
| `balancer` | 3 conversations of up to 3 turns, 2 servers, a cache for 2 | exact counters; sticky until a cacheful of others came between; every counter returns to zero |
| `igpo` | 2 conversations, response of 7 tokens, slack 1, generations of 1 token or all the room, observations of 2 or 3, with and without interactions, streamed or not, 3 rows of log-probs, 2 scores, 2 penalties | aligned masks, room for an answer, the model's last word; the outcome arrives; returns are suffix sums; conversations end |
| `weights` | 2 calls, 2 replicas, 2 updates, response of 2 tokens, slack 1; an engine that pauses without a limit, one with limit 2 and no partial rollout, one below vLLM 0.12 with limit 2 whose abort may raise | one version served, stamps cover, limits hold, calls are answered, updates implement `AtomicUpdate` |
| `store` | 3 epochs of 2 steps, 2 crashes, 5 or 6 steps in all, save frequency -1, 1, 2 or 3, critic or not, none, 2 or 3 kept by actor and critic alike or not | the tracked checkpoint is whole, and while the tracker is empty some checkpoint is; resumed training loses and repeats no batch |
| `starved`, `uncredited`, `misread`, `missing`, `truncated`, `keepone` | the smallest instances that show them | the disagreements below |

*Why the bounds suffice.* Every limit is reached in the runs: the pending queue is smaller
than the feed, the feed is two or three budgets long, so the rollouter pauses and resumes
several times, the concurrency limit is below or equal to the budget, the queue overflows in
`queue`, and `async` goes through three versions, so that a sample
generated under one version is trained on under the next and a second reset corrects
(or fails to correct) the first one. Symmetry is not used: samples are numbers,
ordered by the feed. Bounds that are not the code's: `MaxPuts`, `MaxValidations`, `MaxTurns` and the
total number of samples, `MaxSyncs`, `MaxCrashes`. In `igpo` a response has room for three turns with
the shortest observations, is filled exactly, and overflows with the longest; log-probs rise, fall, and are missing
first and in the middle; `Penalties` has a row with zeros in it, so that rewarded tokens
have gaps. In `weights` a call may be interrupted by both updates. In `store` saves fall on and between epoch
boundaries, retention removes in both of its places, and the second crash may follow a resumption. In `balancer` there is one conversation more than the cache holds,
and three turns are what a cache without renewal needs to show.

*Timing.* There is one assumption about time: a weight transfer takes seconds, so
when the trainer then calls `reset_staleness`, the rollouter's event loop has
no runnable coroutine left over (`CaughtUp`). It is a variable that never changes, `keepsUp`, which starts at any value
in `Timings`: `async` explores both values, and the properties that need the assumption name it; `starved` fixes it FALSE. Without it the budget may be exceeded by one sample and, with threshold 0, the
rollouter can stop for good (run `starved`). With it the budget holds as long as the processor never waits for the
concurrency limit across a reset, `NeverThrottled`: the limit is at least the stale part of the budget,
`MaxConcurrentSamples >= MaxRequiredSamples - OneVersion`. `async` has such a limit; what a smaller one does is under the smaller observations below.

*Fairness.* Weak fairness of the rollouter's steps as a whole, of the trainer's and of the
runner's: an event loop runs a ready coroutine, generations end, Ray delivers
calls and answers. `LoadBalancer` assumes that each call is answered, each turn ends and each
release arrives, not that a conversation takes another turn. `MessageQueueHistory` assumes that a notified consumer runs again.
`WeightSync` assumes that each call gets on and each replica answers its phase, not that updates stop: their
number is bounded by `MaxSyncs`, and a call that only ever met aborts would never end. `IgpoStep` assumes that a
worker's event loop runs each of its conversations; that the engine answers is part of it. No
strong fairness and no fairness between coroutines is assumed: every behaviour of
the bounded model is finite but for waiting.

*Deadlock.* `queue` checks it. The other cfgs switch it off, because the system really may
stop: conversations end (`balancer`), calls are all done and updates used up (`weights`), a
conversation was refused and the step cannot go on, or the step is done (`igpo`), a job is finished or
cannot resume (`store`), after a failed generation `fit` really does not return (theorem `FailureNeverReturns`), and when the
event loop does not keep up the rollouter may starve (finding 1); `Terminates`, `ConversationsEnd` and `CallsAnswered` say more
than the absence of deadlock where they are checked.

*Mutants.* Each property of each passing run has a mutated definition next to the definition it
replaces, a bug that a change to the code could introduce (a notify forgotten, a test off by
one, an increment dropped, the guard of the final sync removed); under it TLC finds the
property violated.

### Disagreements the runs show

1. `starved`: `active_tasks` keeps finished tasks; with threshold 0 a reset may count a
   sample that was already trained on, and the rollouter stops one sample before the
   trainer has its batch. Nobody moves again. `docs/advance/fully_async.md:131-134` promises a fixed
   number of samples between two updates.
2. `uncredited`: the reward manager looks for the assistant separator in a text decoded with
   `skip_special_tokens=True` (igpo:241-243), where it can no longer be found. Every response has one turn for it, and
   no gain is placed; only the outcome is trained on. The head of `igpo.py` says
   that gain t stands at the last token of turn t.
3. `misread`: the rows of the information-gain batch are padded on the right (info_gain:337-340), while the
   actor returns log-probs of the last columns of the batch (dp_actor:371). For every context but
   the longest the mean is taken over columns that are not the answer's.
4. `missing`: a turn whose log-prob is nan or inf gets no gain at all (info_gain:383-386), so the gain of
   a later turn stands at its place and the list is one short; the docstring says "T-1 values" and "Missing turns
   produce 0.0" (info_gain:281-283). In the run the log-probs 0, none, 10 give turn 1 the gain 10 that is turn 2's.
   A missing first log-prob drops all gains.
5. `truncated`: without partial rollout an update aborts the running generations and
   their callers return what there is, `stop_reason` "aborted", which nothing reads. The documentation says
   that ongoing tasks are waited for (`docs/advance/fully_async.md:217-218`).
6. `keepone`: with exactly one checkpoint kept, registering the new actor removes the one of the step the
   tracker names, before critic, data and tracker of the new one exist: a crash there leaves nothing to resume from,
   although checkpoint_manager:148-149 says the old one is kept until the new save completes. `TrackedIsWhole`
   therefore excludes it.

Smaller observations, with no run of their own.

*Asynchronous training.* The sample the processor holds while it waits for the concurrency limit has been
counted (rollouter:462) but is neither active nor queued when `reset_staleness` recomputes the sum (246). With
`max_concurrent_samples` below `max_required_samples` minus one version, one sample more is generated than
`docs/advance/fully_async.md:137-139` allows, even if the event loop keeps up: TLC finds `WithinBudget` violated with budget 3,
limit 1, one sample per version and five samples. An event loop that lags behind a reset loses the count in the same way,
whatever the limit; `AtMostOneOver` is the bound that always holds. A failed generation leaves `self.running`
true (rollouter:556-576), so the monitor never ends (624-627) and `fit` never returns, although 534-535 and 606-607 are written to end it
(theorem `FailureNeverReturns`). Where a checkpoint filed between two versions is resumed, its surplus updates stay
in the weights while the samples they were made from are fed again, and a further such save adds to them (`Surplus`).
`fit_step` starts the new version (trainer:451) before 458 and 763 count stale trajectories, so in the last
local step of each version every fresh trajectory counts as stale (`docs/advance/fully_async.md:240`); only a metric depends on it. The forced save after the loop returns early when the version has not changed, so updates made
after the last version are in no checkpoint (trainer:600; the comment at 609-613 says the last step is saved). A run resumed at its end
generates one sample beyond `total_rollout_steps`, since `_feed_samples` puts before it compares
(rollouter:416-419). The condition wait before a submit
(rollouter:490-493) is dead code (theorem `NoPauseWithSampleInHand`). The final
`_fit_update_weights` and `_fit_validate` (trainer:417-418) do nothing when
`local_trigger_step > 1`, which is one of the two conditions that lead there.
`get_sample` answers a bare `None` after shutdown while the trainer unpacks a pair
(trainer:246), harmless as long as nobody calls `shutdown`. `test_freq = -1` behaves like 1 at
trainer:416. `data.pt` of the rollouter does not know the samples in flight (the comment at
rollouter:271 says so).

*Weight update.* Below vLLM 0.12 a request that arrives during the abort survives it: its tokens may be made of
half-loaded weights and its stamp is too new. The same happens after an exception in
`abort_all_requests`, which is logged and swallowed (vllm_async_server:665-667). A resumed call
without `max_tokens` may exceed `response_length` by what the prompt left of its own limit
(`RoomLeft` has that bound).

*Conversations.* User messages are appended whatever their length (tool_agent_loop:384-419), so an
interaction can fill the context and the next generation is refused; when the user ends the
dialogue the outcome stands outside the loss mask, hence the precondition of `OutcomeSurvives`.
`prompt_ids[-len(response_mask):]` is the whole prompt if the mask is empty
(tool_agent_loop:179), which only an abort before the first token can cause.

*IGPO.* Streamed rewards bypass the gains altogether. A boundary is a
reward that is not zero, so with a KL penalty in the reward every penalised token is one
(core_algos:2624).

*Checkpoints.* `open(..., "w")` empties the tracker before it is written, so it is not atomic as the comment at
ray_trainer:1100 intends, and the next start raises in `int('')`, with a whole checkpoint on the disk (`TrackedWhole`). Paths saved by an earlier process are forgotten, so
its checkpoints are never removed. A finished job that is started again, with fewer total steps than
its epochs have, trains one step more.

## 4. The proofs

`tlapm` proves these for every value of the constants that satisfies the named assumptions
(capacities and limits positive, the limit at most the budget, the end marker not a sample).

*Message queue* (`MessageQueueProofs`, of `MessageQueueHistory!Spec`). The inductive
invariant is `HTypeOK /\ NoLostWakeup /\ HoldsNewest`. `HoldsNewest` is what makes it inductive: the
queue holds the last `Len(queue)` samples put, in order, and `fate` says "buffered" of exactly
those. From it follow `DropsOnlyOldest` (an overflow drops the sample numbered `totalProduced + 1 -
MaxQueueSize`) and `StatisticsAgree` (each step moves at most one sample into a class the
statistics count, by cardinality lemmas). `QueueImplementsStream` shows that each step of the
queue is a step of `SampleStream` or a stutter.

*Rollouter* (`RollouterProofs`, of `Rollouter!RSpec`, so for any queue and any trainer).
`RInv` conjoins `RTypeOK`, `LockDiscipline`, `HandNeverPaused`, `ConcurrencyLimit` with two facts that
make it inductive: `HandOK` (where the processor has a sample in hand, so that a wake-up never
leads to a submit) and `RoomOK` (before a submit there is room for one more task, which no
other coroutine can take away). The lock is handled by two lemmas on sequences, for joining and
leaving it. `SamplesOnce` adds `FeedShape`: the pending queue is the stretch of the feed that ends
with the last entry fed, the sample in hand is the entry just before it, and the samples
without a task are that one and the later ones.

*Pipeline* (`FullyAsyncProofs`, of `FullyAsync!Spec`). The pipeline's steps are the rollouter's or the trainer's with
what they do to the queue, so `RInv` and `FeedShape` carry over as they are (`RollouterInPipeline`), and a similar
invariant of the trainer by itself gives `VersionsNameWeights` and `CheckpointsNameWeights`: the weights are the
version's, the surplus of the checkpoint resumed from, and the local updates since, and a version is published only when there are none (`VersionOK`). These layers stand on that.

* *End marker* (`StreamOK`, `EndOK`): the processor ends only with no task left and dies only of a failed task, and
  nothing is put once `main` has signalled. After a failure the surviving tasks do put behind the marker. They are
  fewer than the concurrency limit, since the failed one has left the set (`DeadOK`), so the marker, what stands behind it and what is
  still to come stay below the limit, hence below the capacity (`MarkerOK`): a put that overflows drops another entry.
  `MarkerComesLast` says both.
* *Account* (`AccountOK`): samples delivered are those trained on, collected, queued and dropped. With `FeedOver`, that
  nothing is left of the feed, it gives `NoSampleLost`.
* *Load* (`LoadOK`): tasks that will still put, queued entries and the sample in hand are at most `staleness_samples`
  and one. The pause test bounds the counter, and a reset in progress has counted all of them but the one in hand. `BudgetMissedByOne`
  holds in every timing.
* *Budget and age* (`BudgetOK`, `AgeOK`): add to the load the samples consumed since the version the rollouter last counted for.
  This sum, `Committed`, stays within the budget and within the counter, because a reset takes a whole version off both at once.
  An entry in the queue was under way together with all in front of it, so its place plus what has been consumed
  since it was stamped is bounded by the budget. That holds for a sample in the queue (`AgeOK`); for one stamped and not yet put it needs more, since
  later samples overtake it while it is scored (`UnderwayOK`). The budget alone would not bound how often: each version
  takes the samples trained on off the count, and the late one stays one in a full budget for ever. But a
  processor that has used up the budget pauses, and then waits for every running task, stamped ones included, before it takes
  another sample (rollouter:439-460, `RestOK`). So from its stamp to its put at most what the budget had room
  for goes by (`WaitedFor`, `StillWaiting`). The mutant of `Fresh` drops that wait. This gives `BudgetKept`, `NothingIsDropped` and `SamplesStayFresh`.
  They and the theorems of the next two layers have the hypothesis `NeverThrottled` and speak of `keepsUp`, and both are needed: the first observation of section 3 on asynchronous training is the counterexample to the one, and an event loop
  that lags behind a reset the counterexample to the other. The hypothesis is used in one place, lemma `CallPlace`: a throttled processor at the moment of the call would have a full set of
  running tasks, a sample in hand and a version consumed, more than the budget.
* *Refinement* (`PipelineBoundsStaleness`): the pipeline implements `BoundedStaleness`. The mapping (end of `FullyAsync`) reads what became
  of a sample off its task and the queue, its stamp, the served version, and the samples consumed since it was published. One lemma
  per kind of step shows the abstract step: a submit is `Start` (`SubmitStarts`, by the budget), a stamp is `Stamp`, a put is `Finish`, a failure is `Fail`, a read of a sample is
  `Use` (by `SamplesStayFresh`), sending weights is `Publish`, reading the end marker is `End`
  (by the layer of the end marker), and everything else is a stutter, the three steps of a reset, the pauses and
  the final clear of the queue included. `QueuedOnce` and `EndStamp`
  are the two facts about the mapping that the layers above do not have. So three actors that act on what they last heard of each other start
  and use samples as one program would that knows everything.
* *No starvation* (`NeverStarvedInTime`). The bounds so far say that the counter is not too low; this one says that it is not
  too high. `SlackOK`: what `staleness_samples` counts beyond `Committed` is at most the budget less one version, because the reset counts
  the tasks that run, of which `NeverThrottled` and `CaughtUp` leave at most that many, and what is in the queue (`CallLeavesRoom`). To keep it, `Committed` must not shrink between
  two versions: lemmas `LoadKept` and `ConsumedKept` show that no step loses load, it only moves from hand to task to queue
  to batch. A trainer that waits has consumed less than a version, so an idle rollouter is below its limit.
* *Failure* (`FailureNeverReturns`): once `main` has failed `self.running` stays true, so the monitor never exits (`RunOver`);
  the comment at rollouter:534-535 promises otherwise.

*Load balancer* (`LoadBalancerProofs`, of `LoadBalancer!Spec`). `LInv` conjoins `TypeOK` and
`CountersExact` with two facts. `RoutesOK`: the cache holds each key once, and a remembered
conversation is routed where it was last, so a sticky request counts on a real server. `OrderOK`:
whoever stands behind a key has acquired since that key did, and a forgotten conversation was
overtaken by `max_cache_size` others. Lemma `Renewing` says that a lookup permutes the cache and
keeps the order of the rest; lemma `Overtaken` counts, by an injection, who overtook the evicted
one. `NoReleaseRefused` is a corollary: the error at agent_loop:93-94 is unreachable.

*Conversations* (`ToolAgentProofs`, of `ToolAgent!AgentSpec`). `AInv` conjoins the type, `MaskAligned`,
`ToolsLeaveRoom` and `LastWord` with `CallsFromModel`, which makes them inductive: without interactions a
conversation about to call tools is below `response_length` and its last token is the model's. Lemma
`RoomLeft` relates the agent's limit to the server's; lemma `AppendedAligned` is the one place
where the two lists grow. For `LastWord`, a conversation stops either on a generation, or on an observation that
was not appended.

*IGPO step* (`IgpoStepProofs`, of `IgpoStep!Spec`). The driver leaves conversations alone, so `AInv` holds in
the step. `OutcomeArrives` joins three modules of the code: the conversation ends on a token of the model, so the last
token of the mask, where the estimator looks, is the last one of the response (`OutcomeLast`); reward workers and the
manager both put the outcome there (`ScoredAtEnd`), and no gain takes its place (`OutcomeKept`), for any placement of
the separators, not only for none (finding 2). `ScoresOK` says from which stage on.

*Weight update* (`WeightSyncProofs`, of `WeightSync!Spec`). `IInv` ties each replica to the manager's phase:
before it answered the abort it has the old version and may run, after that it is paused until it
answers the resume, it loads only while awaited in the transfer, and it has the new version and says so
once it answered. From this barrier argument `ServeSameWeights` follows. For `StampsCover` the
invariant says of a running call that all its fresh tokens were made by the version its replica has now
(an abort ends it before that can change) and that what it kept is not newer. `RoomLeft` is independent of both.
`UpdateIsAtomic` is the refinement of `AtomicUpdate`: the version served is the old one until the manager's transfer has ended
and the new one from then on, whatever the replicas have loaded meanwhile. So only one step of the manager shows, the one that ends the transfer (`ManagerServes`); a step of
an engine or an answer of a server is `Serve` with the version served (`RunningServed`, `GenerateServes`, `ReturnServes`, `AbortServes`). It
speaks of updates whose aborts let nothing through (`~leaky`); below vLLM 0.12 that fails, as section 3 says.

*Checkpoints* (`CheckpointStoreProofs`, of `CheckpointStore!Spec`), in two layers. `LInv` says that
the weights in memory, and every whole part on disk, are the lineage of their step number, and that a whole
`data.pt` is the position of its step; `LineageExact` follows, resumption included, since a checkpoint
can only be loaded when all its parts are whole. `SInv` adds, for managers that do not keep exactly one:
the tracker names an earlier step than the one being saved (`Behind`); in a manager's list the tracked step is the
last, or the one before it while a save is past this manager, or absent if an earlier process saved it (`Lists`); and the
parts of a save that are done are whole (`Written`). So
neither removal reaches the tracked checkpoint before the tracker moves on. This needs
the assumption: with one checkpoint kept the removal comes first (run `keepone`). `Emptied` adds the moment between
opening the tracker and writing it: everything saved is whole then, and if the process dies there, nothing touches the disk any
more, because the next start raises.

*Only model-checked:* liveness (`Terminates`, `ShutdownReleases`, `Drains`, `ConversationsEnd`,
`CallsAnswered`) and anything with ENABLED, which the prover does not handle; and
`ReturnsAreSuffixSums`, which is about sums over sequences and sets. Induction over data and
RECURSIVE operators are out of the prover's reach; nothing here uses RECURSIVE.

## 5. What is not modelled, and the plan

Not modelled and not planned: numerics (engines, models, kernels, most advantage estimators), third-party
code, examples, recipes, configuration. Validation keeps no state in the modelled parts. The cancellation of one
actor after the other raised (`fully_async_main.py:176-188`) has no counterpart: the rollouter's `fit`
swallows exceptions, and a trainer that raises ends the program.

Of the modelled parts these are left out: in `ToolAgent` tool instances, images, log-probs; in `WeightSync` the naive
back end, adding and removing replicas, process groups, SGLang, the drain's time limit; in `IgpoStep` other
modes of normalisation, `gamma` below 1, the weights of the two kinds; in `CheckpointStore` HDFS,
`async_save`, `resume_mode` other than auto, critic warm-up, `del_local_after_load`, the shuffled order of batches.

Done: `MessageQueue`, `Rollouter`, `AsyncTrainer`, `FullyAsync`, `LoadBalancer`, `ToolAgent`, `IgpoStep`,
`WeightSync`, `CheckpointStore`, with proofs about all of them. Left, in this order:

1. `BucketedTransfer`: double-buffered buckets between a sender and a receiver, and their buffer safety.
2. `RateLimiter`: the token bucket shared by the execution workers of the sandbox tool.
3. `Partition` (padding, chunking, balancing, dispatch) and the HTTP engine's retries.
