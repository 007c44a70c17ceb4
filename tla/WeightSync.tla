----------------------------- MODULE WeightSync -----------------------------
(***************************************************************************)
(* A weight update while generations run: CheckpointEngineManager of       *)
(* checkpoint_engine/base.py aborts, loads and resumes all replicas        *)
(* (vLLMHttpServer), and the server manager of the asynchronous policy     *)
(* (FullyAsyncLLMServerManager) resumes what was aborted with the tokens   *)
(* it already has.  A token is the version of the weights that made it.    *)
(***************************************************************************)
EXTENDS Integers, Sequences

CONSTANTS
    Requests,        \* calls of FullyAsyncLLMServerManager.generate
    Replicas,        \* rollout replicas, one server each
    MaxSyncs,        \* bound on the weight updates
    ResponseLength,  \* rollout.response_length
    PromptSlack,     \* rollout.prompt_length minus the prompt's tokens
    Configurations,  \* the settings a run may have
    NoLimit,         \* sampling_params without max_tokens
    None,            \* a version not known yet
    Torn             \* the version of a token made while weights load

Configuration ==
    [maxTokens : (Nat \ {0}) \cup {NoLimit},  \* in sampling_params
     pausing : BOOLEAN,       \* is vLLM 0.12 or later?
     partial : BOOLEAN,       \* async_training.partial_rollout
     dataParallel : BOOLEAN,  \* are the engines data parallel?
     abortErrors : BOOLEAN]   \* may abort_all_requests meet an exception?

ASSUME SyncAssumption ==
    /\ Replicas # {} /\ MaxSyncs \in Nat
    /\ ResponseLength \in Nat \ {0} /\ PromptSlack \in Nat
    /\ NoLimit \notin Nat /\ None \notin Nat /\ Torn \notin Nat
    /\ Configurations \subseteq Configuration

VARIABLES
    config,    \* the settings of this run
    call,      \* [Requests -> CallState], a call of generate
    at,        \* the replica a call was sent to
    kept,      \* final_output.token_ids
    fresh,     \* tokens of the generation that runs
    minSteps,  \* min_global_steps
    maxSteps,  \* max_global_steps
    stop,      \* final_output.stop_reason
    paused,    \* [Replicas -> BOOLEAN], the engine admits no request
    loading,   \* [Replicas -> BOOLEAN], the engine's weights are overwritten
    weights,   \* [Replicas -> Nat], the version an engine holds
    steps,     \* [Replicas -> Nat], global_steps of the server
    version,   \* current_param_version of the trainer
    phase,     \* the await of update_weights
    awaited,   \* the replicas the gather still waits for
    leaky      \* history: an abort could let a generation through

callVars == <<call, at, kept, fresh, minSteps, maxSteps, stop>>
engineVars == <<paused, loading, weights, steps>>
managerVars == <<version, phase, awaited, leaky>>
vars == <<config, callVars, engineVars, managerVars>>

CallState == {"ready", "sent", "running", "done"}
Phase == {"idle", "abort", "sleep", "transfer", "resume"}
StopReason == {"none", "completed", "aborted", "length"}

---------------------------------------------------------------------------
Init ==
    /\ config \in Configurations
    /\ call = [r \in Requests |-> "ready"]
    /\ at = [r \in Requests |-> CHOOSE p \in Replicas : TRUE]
    /\ kept = [r \in Requests |-> <<>>]
    /\ fresh = [r \in Requests |-> <<>>]
    /\ minSteps = [r \in Requests |-> None]
    /\ maxSteps = [r \in Requests |-> None]
    /\ stop = [r \in Requests |-> "none"]
    /\ paused = [p \in Replicas |-> FALSE]
    /\ loading = [p \in Replicas |-> FALSE]
    /\ weights = [p \in Replicas |-> 0]
    /\ steps = [p \in Replicas |-> 0]
    /\ version = 0 /\ phase = "idle" /\ awaited = {}
    /\ leaky = ~config.pausing

(* Mutant: the tokens a resumed call brings along are not taken off.       *)
RoomForgets(r) == ResponseLength

(* max_tokens of a generation: what the caller's limit leaves, or else     *)
(* what the server computes from the length of its prompt.                 *)
Room(r) ==
    IF config.maxTokens # NoLimit THEN config.maxTokens - Len(kept[r])
    ELSE LET budget == PromptSlack + ResponseLength - Len(kept[r])
         IN  IF budget < ResponseLength THEN budget ELSE ResponseLength

Full(length) == config.maxTokens # NoLimit /\ length >= config.maxTokens

(* Mutant: min_global_steps follows the latest generation.                 *)
ReturnRestamps(S, segments, reason) ==
    LET length(r) == Len(kept[r]) + Len(segments[r])
        again(r) == ~Full(length(r)) /\ reason = "aborted" /\ config.partial
        On(f, g) == [r \in Requests |-> IF r \in S THEN f[r] ELSE g[r]]
        stamp == [r \in Requests |-> steps[at[r]]]
    IN
    /\ kept' = On([r \in Requests |-> kept[r] \o segments[r]], kept)
    /\ fresh' = On([r \in Requests |-> <<>>], fresh)
    /\ minSteps' = On(stamp, minSteps)
    /\ maxSteps' = On(stamp, maxSteps)
    /\ stop' = On([r \in Requests |-> IF Full(length(r)) THEN "length" ELSE reason], stop)
    /\ call' = On([r \in Requests |-> IF again(r) THEN "ready" ELSE "done"], call)

(* Generations end: the server stamps each with its global_steps, and its  *)
(* caller merges it with what it has and returns, or calls again.          *)
Return(S, segments, reason) ==
    LET length(r) == Len(kept[r]) + Len(segments[r])
        again(r) == ~Full(length(r)) /\ reason = "aborted" /\ config.partial
        On(f, g) == [r \in Requests |-> IF r \in S THEN f[r] ELSE g[r]]
        stamp == [r \in Requests |-> steps[at[r]]]
    IN
    /\ kept' = On([r \in Requests |-> kept[r] \o segments[r]], kept)
    /\ fresh' = On([r \in Requests |-> <<>>], fresh)
    /\ minSteps' = On([r \in Requests |-> IF minSteps[r] = None THEN stamp[r]
                                          ELSE minSteps[r]], minSteps)
    /\ maxSteps' = On(stamp, maxSteps)
    /\ stop' = On([r \in Requests |-> IF Full(length(r)) THEN "length" ELSE reason], stop)
    /\ call' = On([r \in Requests |-> IF again(r) THEN "ready" ELSE "done"], call)

---------------------------------------------------------------------------
(* A call goes to the replica the load balancer names.                     *)
Send(r, p) ==
    /\ call[r] = "ready"
    /\ call' = [call EXCEPT ![r] = "sent"]
    /\ at' = [at EXCEPT ![r] = p]
    /\ UNCHANGED <<config, kept, fresh, minSteps, maxSteps, stop, engineVars, managerVars>>

(* engine.generate admits a request, unless the engine is paused.          *)
Start(r) ==
    /\ call[r] = "sent"
    /\ ~paused[at[r]]
    /\ call' = [call EXCEPT ![r] = "running"]
    /\ UNCHANGED <<config, at, kept, fresh, minSteps, maxSteps, stop, engineVars, managerVars>>

Made(p) == IF loading[p] THEN Torn ELSE weights[p]

(* The engine makes a token; the generation ends with it if it is a stop   *)
(* token or the last there is room for.                                    *)
Generate(r) ==
    /\ call[r] = "running"
    /\ LET segment == Append(fresh[r], Made(at[r])) IN
       \/ /\ Len(segment) < Room(r)
          /\ fresh' = [fresh EXCEPT ![r] = segment]
          /\ UNCHANGED <<call, kept, minSteps, maxSteps, stop>>
       \/ Return({r}, [fresh EXCEPT ![r] = segment], "completed")
    /\ UNCHANGED <<config, at, engineVars, managerVars>>

---------------------------------------------------------------------------
(* CheckpointEngineManager.update_weights: each phase is a gather over all *)
(* replicas; the last answer starts the next one.                          *)

(* Mutant: the first answer is enough.                                     *)
AnsweredByFirst(p, next) ==
    /\ phase' = next
    /\ awaited' = IF next = "idle" THEN {} ELSE Replicas

Answered(p, next) ==
    IF awaited = {p}
    THEN /\ phase' = next
         /\ awaited' = IF next = "idle" THEN {} ELSE Replicas
    ELSE /\ phase' = phase
         /\ awaited' = awaited \ {p}

BeginSync ==
    /\ phase = "idle"
    /\ version < MaxSyncs
    /\ version' = version + 1
    /\ phase' = "abort"
    /\ awaited' = Replicas
    /\ UNCHANGED <<config, callVars, engineVars, leaky>>

(* abort_all_requests: what runs is answered with its tokens so far.  From *)
(* vLLM 0.12 the engine also stays paused.                                 *)
AbortAllRequests(p) ==
    /\ phase = "abort" /\ p \in awaited
    /\ Return({r \in Requests : call[r] = "running" /\ at[r] = p}, fresh, "aborted")
    /\ paused' = [paused EXCEPT ![p] = config.pausing]
    /\ Answered(p, "sleep")
    /\ UNCHANGED <<config, at, loading, weights, steps, version, leaky>>

(* An exception in it is logged, and the update goes on.                   *)
AbortFails(p) ==
    /\ config.abortErrors
    /\ phase = "abort" /\ p \in awaited
    /\ Answered(p, "sleep")
    /\ leaky' = TRUE
    /\ UNCHANGED <<config, callVars, engineVars, version>>

(* sleep of a standalone replica: data parallel engines drain first.       *)
Sleep(p) ==
    /\ phase = "sleep" /\ p \in awaited
    /\ config.dataParallel => \A r \in Requests : ~(call[r] = "running" /\ at[r] = p)
    /\ Answered(p, "transfer")
    /\ UNCHANGED <<config, callVars, engineVars, version, leaky>>

(* update_weights of a replica's workers: buckets overwrite the weights.   *)
Load(p) ==
    /\ phase = "transfer" /\ p \in awaited
    /\ ~loading[p] /\ weights[p] # version
    /\ loading' = [loading EXCEPT ![p] = TRUE]
    /\ UNCHANGED <<config, callVars, paused, weights, steps, managerVars>>

Loaded(p) ==
    /\ loading[p]
    /\ loading' = [loading EXCEPT ![p] = FALSE]
    /\ weights' = [weights EXCEPT ![p] = version]
    /\ UNCHANGED <<config, callVars, paused, steps, managerVars>>

(* Mutant: the servers are told the version after the one they hold.       *)
SetNextSteps(p) ==
    /\ phase = "transfer" /\ p \in awaited
    /\ weights[p] = version
    /\ steps' = [steps EXCEPT ![p] = version + 1]
    /\ Answered(p, "resume")
    /\ UNCHANGED <<config, callVars, paused, loading, weights, version, leaky>>

(* The server learns its version when the replica's update is complete.    *)
SetGlobalSteps(p) ==
    /\ phase = "transfer" /\ p \in awaited
    /\ weights[p] = version
    /\ steps' = [steps EXCEPT ![p] = version]
    /\ Answered(p, "resume")
    /\ UNCHANGED <<config, callVars, paused, loading, weights, version, leaky>>

(* Mutant: the engine is never told.                                       *)
ResumeNoOp(p) ==
    /\ phase = "resume" /\ p \in awaited
    /\ Answered(p, "idle")
    /\ UNCHANGED <<config, callVars, engineVars, version, leaky>>

(* wake_up of a standalone replica does nothing, then generation resumes.  *)
ResumeGeneration(p) ==
    /\ phase = "resume" /\ p \in awaited
    /\ paused' = [paused EXCEPT ![p] = FALSE]
    /\ Answered(p, "idle")
    /\ UNCHANGED <<config, callVars, loading, weights, steps, version, leaky>>

---------------------------------------------------------------------------
ReplicaStep(p) ==
    \/ AbortAllRequests(p) \/ AbortFails(p) \/ Sleep(p)
    \/ Load(p) \/ Loaded(p) \/ SetGlobalSteps(p)
    \/ ResumeGeneration(p)

CallStep(r) == Start(r) \/ Generate(r) \/ \E p \in Replicas : Send(r, p)

Next ==
    \/ \E r \in Requests : CallStep(r)
    \/ BeginSync
    \/ \E p \in Replicas : ReplicaStep(p)

Spec == Init /\ [][Next]_vars

(* Callers and engines run on event loops that serve every task, and the   *)
(* manager's awaits are answered.                                          *)
FairSpec ==
    /\ Spec
    /\ \A r \in Requests : WF_vars(CallStep(r))
    /\ \A p \in Replicas : WF_vars(ReplicaStep(p))

---------------------------------------------------------------------------
SyncTypeOK ==
    /\ config \in Configurations
    /\ call \in [Requests -> CallState] /\ at \in [Requests -> Replicas]
    /\ kept \in [Requests -> Seq(Nat \cup {Torn})]
    /\ fresh \in [Requests -> Seq(Nat \cup {Torn})]
    /\ minSteps \in [Requests -> Nat \cup {None}]
    /\ maxSteps \in [Requests -> Nat \cup {None}]
    /\ stop \in [Requests -> StopReason]
    /\ paused \in [Replicas -> BOOLEAN] /\ loading \in [Replicas -> BOOLEAN]
    /\ weights \in [Replicas -> 0..MaxSyncs] /\ steps \in [Replicas -> 0..MaxSyncs]
    /\ version \in 0..MaxSyncs /\ phase \in Phase
    /\ \A p \in Replicas : weights[p] <= version /\ steps[p] <= version
    /\ awaited \subseteq Replicas /\ leaky \in BOOLEAN

(* Barrier: replicas that admit requests hold whole weights of one version *)
(* and say so, whichever of them was aborted or resumed first (from vLLM   *)
(* 0.12 on, and if no abort met an exception).                             *)
ServeSameWeights ==
    ~leaky =>
       \A p, q \in Replicas :
          ~paused[p] /\ ~paused[q] =>
             ~loading[p] /\ weights[p] = weights[q] /\ steps[p] = weights[q]

(* Stamps: the tokens of a call lie between the versions it is stamped     *)
(* with, so that no token is older than a sample's staleness says, however *)
(* often the call was interrupted and wherever it was resumed.             *)
StampsCover ==
    ~leaky =>
       \A r \in Requests : \A k \in DOMAIN kept[r] :
          /\ kept[r][k] \in Nat
          /\ minSteps[r] <= kept[r][k] /\ kept[r][k] <= maxSteps[r]

(* Room: interruptions never let a call make more tokens than its limit,   *)
(* or without one than the context has, and an interrupted call still has  *)
(* room for a token, so that the server does not refuse to go on with it.  *)
RoomLeft ==
    \A r \in Requests :
       /\ call[r] # "done" => Room(r) > Len(fresh[r])
       /\ Len(kept[r]) <= IF config.maxTokens # NoLimit THEN config.maxTokens
                          ELSE PromptSlack + ResponseLength

(* The version whose calls the replicas answer: it changes when the last   *)
(* of them has been told, and before the first of them is resumed.         *)
Served == IF phase \in {"resume", "idle"} THEN version ELSE version - 1

Atomic == INSTANCE AtomicUpdate WITH
    served <- Served,
    tokens <- [r \in Requests |-> kept[r] \o fresh[r]],
    oldest <- minSteps,
    newest <- maxSteps,
    over <- {r \in Requests : call[r] = "done"}

(* Atomicity: to its callers an update is a single step of one system that *)
(* serves one version: replicas that are aborted, loaded and resumed one   *)
(* by one never make a token, or a stamp, of any other version (as long as *)
(* no abort let a generation through).                                     *)
UpdatesAtomically == Atomic!Init /\ [][~leaky => Atomic!Next]_(Atomic!vars)

(* Every call is answered, though each update interrupts it.               *)
CallsAnswered == \A r \in Requests : <>(call[r] = "done")

(* Active tasks complete (not met): no call returns because an update      *)
(* interrupted it.                                                         *)
ActiveTasksComplete ==
    \A r \in Requests : call[r] = "done" => stop[r] # "aborted"

===========================================================================
