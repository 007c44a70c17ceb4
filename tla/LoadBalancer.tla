---------------------------- MODULE LoadBalancer ----------------------------
(***************************************************************************)
(* The Ray actor GlobalRequestLoadBalancer and the requests that go        *)
(* through AsyncLLMServerManager.generate                                  *)
(* (experimental/agent_loop/agent_loop.py): each turn of a conversation,   *)
(* and each continuation of an aborted generation, acquires a server and   *)
(* releases it when it ends. A conversation keeps its server as long as an *)
(* LRU cache remembers it; a new one goes to the least loaded server. The  *)
(* release is fire-and-forget: it arrives some time later, in any order.   *)
(***************************************************************************)
EXTENDS Integers, Sequences, FiniteSets

CONSTANTS
    NumServers,       \* len(server_actor_ids)
    Conversations,    \* the request ids in use
    MaxCacheSize,     \* max_cache_size
    MaxTurns,         \* bounds the turns of a conversation
    NoServer          \* not routed

(* A server is known by its place in server_actor_ids.                     *)
Servers == 1 .. NumServers

ASSUME ServersAssumption == NumServers \in Nat \ {0}
ASSUME ConversationsAssumption == IsFiniteSet(Conversations)
ASSUME CacheAssumption == MaxCacheSize \in Nat \ {0}
ASSUME TurnsAssumption == MaxTurns \in Nat
ASSUME NoServerAssumption == NoServer \notin Servers

VARIABLES
    inflight,         \* self._inflight_requests
    route,            \* self._request_id_to_server
    recent,           \* its keys, the least recently used first
    conv,             \* where the turn of each conversation stands
    turns,            \* the turns it has begun
    at,               \* the server of its current or last turn
    releases,         \* release calls on their way, per server
    since             \* history: who acquired after a conversation last did

lbVars == <<inflight, route, recent>>
vars == <<lbVars, conv, turns, at, releases, since>>

Init ==
    /\ inflight = [s \in Servers |-> 0]
    /\ route = [c \in Conversations |-> NoServer]
    /\ recent = << >>
    /\ conv = [c \in Conversations |-> "idle"]
    /\ turns = [c \in Conversations |-> 0]
    /\ at = [c \in Conversations |-> NoServer]
    /\ releases = [s \in Servers |-> 0]
    /\ since = [c \in Conversations |-> {}]

(* min over the dictionary: the first of the least loaded servers.         *)
LeastLoaded(s) ==
    \A t \in Servers :
        inflight[s] < inflight[t] \/ (inflight[s] = inflight[t] /\ s <= t)

(* A lookup in the LRU cache makes the i-th key the most recently used.    *)
Renewed(i) ==
    [j \in 1 .. Len(recent) |->
        IF j < i THEN recent[j] ELSE IF j < Len(recent) THEN recent[j + 1] ELSE recent[i]]

Routed(c, s) ==
    /\ inflight' = [inflight EXCEPT ![s] = @ + 1]
    /\ conv' = [conv EXCEPT ![c] = "generating"]
    /\ at' = [at EXCEPT ![c] = s]
    /\ since' = [d \in Conversations |-> IF d = c THEN {} ELSE since[d] \union {c}]
    /\ UNCHANGED <<turns, releases>>

-----------------------------------------------------------------------------
Call(c) ==
    /\ conv[c] = "idle"
    /\ turns[c] < MaxTurns
    /\ conv' = [conv EXCEPT ![c] = "calling"]
    /\ turns' = [turns EXCEPT ![c] = @ + 1]
    /\ UNCHANGED <<lbVars, at, releases, since>>

(* Mutants: the early return forgets the counter; the lookup does not      *)
(* renew the key (a FIFO cache).                                           *)
StickyUncounted(c) ==
    /\ conv[c] = "calling"
    /\ \E i \in DOMAIN recent : recent[i] = c /\ recent' = Renewed(i)
    /\ conv' = [conv EXCEPT ![c] = "generating"]
    /\ at' = [at EXCEPT ![c] = route[c]]
    /\ since' = [d \in Conversations |-> IF d = c THEN {} ELSE since[d] \union {c}]
    /\ UNCHANGED <<inflight, turns, releases, route>>

StickyUnrenewed(c) ==
    /\ conv[c] = "calling"
    /\ \E i \in DOMAIN recent : recent[i] = c
    /\ Routed(c, route[c])
    /\ UNCHANGED <<route, recent>>

AcquireSticky(c) ==
    /\ conv[c] = "calling"
    /\ \E i \in DOMAIN recent : recent[i] = c /\ recent' = Renewed(i)
    /\ Routed(c, route[c])
    /\ UNCHANGED route

(* Mutant: a plain dictionary, nothing is ever evicted. *)
NewUnbounded(c) ==
    /\ conv[c] = "calling"
    /\ \A i \in DOMAIN recent : recent[i] # c
    /\ \E s \in Servers :
          /\ LeastLoaded(s)
          /\ Routed(c, s)
          /\ route' = [route EXCEPT ![c] = s]
    /\ recent' = Append(recent, c)

(* Storing a new key in a full cache evicts the least recently used one.   *)
AcquireNew(c) ==
    /\ conv[c] = "calling"
    /\ \A i \in DOMAIN recent : recent[i] # c
    /\ \E s \in Servers :
          /\ LeastLoaded(s)
          /\ Routed(c, s)
          /\ IF Len(recent) < MaxCacheSize
             THEN /\ route' = [route EXCEPT ![c] = s]
                  /\ recent' = Append(recent, c)
             ELSE /\ route' = [route EXCEPT ![Head(recent)] = NoServer, ![c] = s]
                  /\ recent' = Append(Tail(recent), c)

(* Mutant: the release is not in a finally block. *)
TurnEndsNoFinally(c) ==
    /\ conv[c] = "generating"
    /\ \/ /\ conv' = [conv EXCEPT ![c] = "idle"]
          /\ releases' = [releases EXCEPT ![at[c]] = @ + 1]
       \/ conv' = [conv EXCEPT ![c] = "over"] /\ UNCHANGED releases
    /\ UNCHANGED <<lbVars, turns, at, since>>

(* The generation ends, is aborted, or raises: finally releases the server.*)
TurnEnds(c) ==
    /\ conv[c] = "generating"
    /\ \/ conv' = [conv EXCEPT ![c] = "idle"]
       \/ conv' = [conv EXCEPT ![c] = "over"]
    /\ releases' = [releases EXCEPT ![at[c]] = @ + 1]
    /\ UNCHANGED <<lbVars, turns, at, since>>

(* A release that finds no request in flight raises, and nobody hears it.  *)
Release(s) ==
    /\ releases[s] > 0
    /\ releases' = [releases EXCEPT ![s] = @ - 1]
    /\ inflight' = [inflight EXCEPT ![s] = IF @ <= 0 THEN @ ELSE @ - 1]
    /\ UNCHANGED <<route, recent, conv, turns, at, since>>

Next ==
    \/ \E c \in Conversations :
          Call(c) \/ AcquireSticky(c) \/ AcquireNew(c) \/ TurnEnds(c)
    \/ \E s \in Servers : Release(s)

Spec == Init /\ [][Next]_vars

(* Ray delivers every call, and every generation ends; nothing makes a     *)
(* conversation take another turn.                                         *)
Fairness ==
    /\ \A c \in Conversations :
          WF_vars(AcquireSticky(c) \/ AcquireNew(c)) /\ WF_vars(TurnEnds(c))
    /\ \A s \in Servers : WF_vars(Release(s))

FairSpec == Spec /\ Fairness

-----------------------------------------------------------------------------
(* The type invariant, with the size of the cache.                         *)
TypeOK ==
    /\ inflight \in [Servers -> Nat]
    /\ route \in [Conversations -> Servers \union {NoServer}]
    /\ recent \in Seq(Conversations)
    /\ Len(recent) <= MaxCacheSize
    /\ conv \in [Conversations -> {"idle", "calling", "generating", "over"}]
    /\ turns \in [Conversations -> 0 .. MaxTurns]
    /\ at \in [Conversations -> Servers \union {NoServer}]
    /\ releases \in [Servers -> Nat]
    /\ since \in [Conversations -> SUBSET Conversations]

(* The counter of a server is exact: the requests it is working on and the *)
(* releases still on their way, through sticky and new requests, failures  *)
(* and evictions. So no release is ever refused (agent_loop.py:93-94), and *)
(* the least loaded server is chosen on true numbers (line 84).            *)
WorkingAt(s) == {c \in Conversations : conv[c] = "generating" /\ at[c] = s}

CountersExact ==
    \A s \in Servers : inflight[s] = Cardinality(WorkingAt(s)) + releases[s]

(* A conversation changes its server only after at least max_cache_size    *)
(* others have acquired one since its last turn ("request-level sticky",   *)
(* lines 77-81).                                                           *)
StickyUntilEvicted ==
    [][\A c \in Conversations :
          at[c] # NoServer /\ at'[c] # at[c] => Cardinality(since[c]) >= MaxCacheSize]_vars

(* When all conversations are over, no server is left with a request in    *)
(* flight (the finally block, lines 174-175).                              *)
Drains == <>[](\A s \in Servers : inflight[s] = 0)
=============================================================================
