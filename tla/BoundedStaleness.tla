-------------------------- MODULE BoundedStaleness --------------------------
(***************************************************************************)
(* What the fully asynchronous pipeline promises, with no actor, queue,    *)
(* lock or call in it (fully_async.md:135-142): a generation starts only   *)
(* within the budget, its output carries the version that is served when   *)
(* it is generated, and it is taken for training before it is older than   *)
(* the budget has versions of samples for.  A version is published after   *)
(* PerVersion samples.                                                     *)
(***************************************************************************)
EXTENDS Integers, FiniteSets

CONSTANTS
    Samples,
    PerVersion,    \* samples trained on between two versions
    Budget,        \* (1 + staleness_threshold) * PerVersion
    StartVersion

VARIABLES
    fate,     \* [Samples -> Fates], what became of each sample
    born,     \* the version that generated it, once it has been
    version,  \* the version that is served
    used,     \* samples taken for training since that version was published
    ended     \* training is over

vars == <<fate, born, version, used, ended>>

Fates == {"waiting", "underway", "ready", "used", "failed"}
Unstamped == -1

Init ==
    /\ fate = [s \in Samples |-> "waiting"]
    /\ born = [s \in Samples |-> Unstamped]
    /\ version = StartVersion /\ used = 0 /\ ended = FALSE

Held == {s \in Samples : fate[s] \in {"underway", "ready"}}

Becomes(s, from, to) == fate[s] = from /\ fate' = [fate EXCEPT ![s] = to]

Start(s) ==
    /\ Cardinality(Held) + used < Budget
    /\ Becomes(s, "waiting", "underway")
    /\ UNCHANGED <<born, version, used, ended>>

Stamp(s) ==
    /\ fate[s] = "underway" /\ born[s] = Unstamped
    /\ born' = [born EXCEPT ![s] = version]
    /\ UNCHANGED <<fate, version, used, ended>>

(* Versions may be published between the stamp and this.                   *)
Finish(s) ==
    /\ born[s] # Unstamped
    /\ Becomes(s, "underway", "ready")
    /\ UNCHANGED <<born, version, used, ended>>

Fail(s) ==
    /\ Becomes(s, "underway", "failed")
    /\ UNCHANGED <<born, version, used, ended>>

Use(s) ==
    /\ ~ended /\ used < PerVersion
    /\ version - born[s] <= (Budget - 1) \div PerVersion
    /\ Becomes(s, "ready", "used")
    /\ used' = used + 1
    /\ UNCHANGED <<born, version, ended>>

Publish ==
    /\ ~ended /\ used = PerVersion
    /\ version' = version + 1
    /\ used' = 0
    /\ UNCHANGED <<fate, born, ended>>

(* Training ends when every sample was used, or because one failed.        *)
End ==
    /\ ~ended
    /\ (\A s \in Samples : fate[s] = "used") \/ (\E s \in Samples : fate[s] = "failed")
    /\ ended' = TRUE /\ used' = 0
    /\ UNCHANGED <<fate, born, version>>

Next ==
    \/ \E s \in Samples : Start(s) \/ Stamp(s) \/ Finish(s) \/ Fail(s) \/ Use(s)
    \/ Publish \/ End

=============================================================================
