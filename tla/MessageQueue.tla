---------------------------- MODULE MessageQueue ----------------------------
(***************************************************************************)
(* The Ray actor MessageQueue of the fully asynchronous trainer            *)
(* (experimental/fully_async_policy/message_queue.py): a bounded FIFO that *)
(* drops its OLDEST entry when it is full, so that what the trainer reads  *)
(* is as fresh as possible.                                                *)
(*                                                                         *)
(* Every method body runs under one asyncio.Lock, and the only await       *)
(* inside is the condition wait of get_sample: a method is one atomic      *)
(* step, except get_sample, which is cut where it waits.                   *)
(***************************************************************************)
EXTENDS Integers, Sequences

CONSTANTS
    Samples,          \* what put_sample may be given (the end marker included)
    Validations,      \* payloads of put_validate
    Consumers,        \* callers of get_sample
    MaxQueueSize      \* max_queue_size

ASSUME MaxQueueSizeAssumption == MaxQueueSize \in Nat \ {0}

VARIABLES
    queue,            \* self.queue, oldest entry first
    running,          \* self.running
    totalProduced,    \* self.total_produced
    totalConsumed,    \* self.total_consumed
    droppedSamples,   \* self.dropped_samples
    valQueue,         \* self.val_queue
    getter            \* where the get_sample call of each consumer stands

counters == <<totalProduced, totalConsumed, droppedSamples>>
mqVars == <<queue, running, counters, valQueue, getter>>

GetterState == {"idle", "waiting", "notified"}

Init ==
    /\ queue = << >>
    /\ running = TRUE
    /\ totalProduced = 0
    /\ totalConsumed = 0
    /\ droppedSamples = 0
    /\ valQueue = << >>
    /\ getter = [c \in Consumers |-> "idle"]

Full == Len(queue) >= MaxQueueSize

(* self._consumer_condition.notify_all() *)
NotifyAll ==
    getter' = [c \in Consumers |->
                  IF getter[c] = "waiting" THEN "notified" ELSE getter[c]]

(* The value put_sample returns: False says that an entry was dropped. *)
PutSucceeds == ~Full

(* Mutants of put_sample: no notify_all; the deque's own maxlen drops and  *)
(* nobody counts; a stack instead of a queue.                              *)
PutWithoutNotify(s) ==
    /\ queue' = Append(IF Full THEN Tail(queue) ELSE queue, s)
    /\ droppedSamples' = IF Full THEN droppedSamples + 1 ELSE droppedSamples
    /\ totalProduced' = totalProduced + 1
    /\ UNCHANGED <<running, totalConsumed, valQueue, getter>>

PutDropsSilently(s) ==
    /\ queue' = Append(IF Full THEN Tail(queue) ELSE queue, s)
    /\ totalProduced' = totalProduced + 1
    /\ NotifyAll
    /\ UNCHANGED <<running, totalConsumed, droppedSamples, valQueue>>

PutInFront(s) ==
    /\ queue' = <<s>> \o (IF Full THEN Tail(queue) ELSE queue)
    /\ droppedSamples' = IF Full THEN droppedSamples + 1 ELSE droppedSamples
    /\ totalProduced' = totalProduced + 1
    /\ NotifyAll
    /\ UNCHANGED <<running, totalConsumed, valQueue>>

PutSample(s) ==
    /\ queue' = Append(IF Full THEN Tail(queue) ELSE queue, s)
    /\ droppedSamples' = IF Full THEN droppedSamples + 1 ELSE droppedSamples
    /\ totalProduced' = totalProduced + 1
    /\ NotifyAll
    /\ UNCHANGED <<running, totalConsumed, valQueue>>

(* get_sample evaluates its loop condition when it is entered and again    *)
(* each time it is woken.                                                  *)
Evaluates(c) == getter[c] \in {"idle", "notified"}

(* Mutant: pop instead of popleft. *)
GetNewest(c) ==
    /\ Evaluates(c)
    /\ queue # << >>
    /\ queue' = SubSeq(queue, 1, Len(queue) - 1)
    /\ totalConsumed' = totalConsumed + 1
    /\ getter' = [getter EXCEPT ![c] = "idle"]
    /\ UNCHANGED <<running, totalProduced, droppedSamples, valQueue>>

GetSample(c) ==
    /\ Evaluates(c)
    /\ queue # << >>
    /\ queue' = Tail(queue)
    /\ totalConsumed' = totalConsumed + 1
    /\ getter' = [getter EXCEPT ![c] = "idle"]
    /\ UNCHANGED <<running, totalProduced, droppedSamples, valQueue>>

GetWaits(c) ==
    /\ Evaluates(c)
    /\ queue = << >>
    /\ running
    /\ getter' = [getter EXCEPT ![c] = "waiting"]
    /\ UNCHANGED <<queue, running, counters, valQueue>>

(* The queue is closed and empty: get_sample returns None. *)
GetClosed(c) ==
    /\ Evaluates(c)
    /\ queue = << >>
    /\ ~running
    /\ getter' = [getter EXCEPT ![c] = "idle"]
    /\ UNCHANGED <<queue, running, counters, valQueue>>

ClearQueue ==
    /\ queue' = << >>
    /\ UNCHANGED <<running, counters, valQueue, getter>>

(* Mutant: the waiting consumers are not woken. *)
ShutdownWithoutNotify ==
    /\ running' = FALSE
    /\ UNCHANGED <<queue, counters, valQueue, getter>>

Shutdown ==
    /\ running' = FALSE
    /\ NotifyAll
    /\ UNCHANGED <<queue, counters, valQueue>>

PutValidate(v) ==
    /\ valQueue' = Append(valQueue, v)
    /\ UNCHANGED <<queue, running, counters, getter>>

(* With nothing stored the call returns None and changes nothing. *)
GetValidate ==
    /\ valQueue # << >>
    /\ valQueue' = Tail(valQueue)
    /\ UNCHANGED <<queue, running, counters, getter>>

-----------------------------------------------------------------------------
(* The type invariant of the actor's state. *)
TypeOK ==
    /\ queue \in Seq(Samples)
    /\ Len(queue) <= MaxQueueSize
    /\ running \in BOOLEAN
    /\ totalProduced \in Nat
    /\ totalConsumed \in Nat
    /\ droppedSamples \in Nat
    /\ valQueue \in Seq(Validations)
    /\ getter \in [Consumers -> GetterState]

(* A get_sample call sleeps only while there is nothing to return: no      *)
(* order of puts, clears, wake-ups and shutdown leaves a consumer asleep   *)
(* in front of a sample or of a closed queue (message_queue.py:77, :133).  *)
NoLostWakeup ==
    \A c \in Consumers : getter[c] = "waiting" => queue = << >> /\ running
=============================================================================
