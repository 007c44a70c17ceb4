---------------------------- MODULE AtomicUpdate ----------------------------
(***************************************************************************)
(* What a weight update promises the calls that run through it: one system *)
(* that serves one version at a time and changes it in a single step, as   *)
(* if no replica were ever aborted, paused, loading or ahead of another.   *)
(***************************************************************************)
EXTENDS Naturals, Sequences

CONSTANTS
    Requests,  \* calls for a generation
    None       \* a version not known yet

VARIABLES
    served,  \* the version that is served
    tokens,  \* [Requests -> Seq(Nat)], the version that made each token
    oldest,  \* the first version a call was answered by
    newest,  \* the last version a call was answered by
    over     \* calls that have returned

vars == <<served, tokens, oldest, newest, over>>

Init ==
    /\ served = 0
    /\ tokens = [r \in Requests |-> <<>>]
    /\ oldest = [r \in Requests |-> None] /\ newest = [r \in Requests |-> None]
    /\ over = {}

Update ==
    /\ served' = served + 1
    /\ UNCHANGED <<tokens, oldest, newest, over>>

(* The version that is served makes a token for some calls, and answers    *)
(* some, of which it finishes some.                                        *)
Serve(made, answered, finished) ==
    /\ made \cap over = {} /\ answered \cap over = {} /\ finished \subseteq answered
    /\ tokens' = [r \in Requests |-> IF r \in made THEN Append(tokens[r], served)
                                     ELSE tokens[r]]
    /\ oldest' = [r \in Requests |-> IF r \in answered /\ oldest[r] = None THEN served
                                     ELSE oldest[r]]
    /\ newest' = [r \in Requests |-> IF r \in answered THEN served ELSE newest[r]]
    /\ over' = over \cup finished
    /\ served' = served

Next ==
    \/ Update
    \/ \E made, answered, finished \in SUBSET Requests : Serve(made, answered, finished)

=============================================================================
