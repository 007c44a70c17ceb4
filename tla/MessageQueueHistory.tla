------------------------ MODULE MessageQueueHistory -------------------------
(***************************************************************************)
(* The message queue with its callers and a history variable: samples are  *)
(* told apart by the order in which they are put, and fate[i] records what *)
(* became of the i-th one. The queue never looks inside a sample, so       *)
(* numbering them loses nothing.                                           *)
(***************************************************************************)
EXTENDS MessageQueue, FiniteSets

CONSTANTS MaxPuts,          \* bounds put_sample calls
          MaxValidations    \* bounds the stored validation results

ASSUME MaxPutsAssumption == MaxPuts \in Nat
ASSUME SamplesAssumption == Samples = 1 .. MaxPuts

VARIABLE fate               \* fate[i]: what became of the i-th sample put

vars == <<mqVars, fate>>

Queued == {queue[i] : i \in DOMAIN queue}

(* Every sample that left the queue in this step did so because of cause.  *)
Observe(cause) ==
    fate' = [i \in 1 .. totalProduced' |->
                IF i \in Queued' THEN "buffered"
                ELSE IF i \in DOMAIN fate /\ fate[i] # "buffered" THEN fate[i]
                ELSE cause]

HInit == Init /\ fate = << >>

Put ==
    /\ totalProduced < MaxPuts
    /\ PutSample(totalProduced + 1)
    /\ Observe("dropped")

Get(c) == GetSample(c) /\ Observe("delivered")

Wait(c) == GetWaits(c) /\ UNCHANGED fate

Closed(c) == GetClosed(c) /\ UNCHANGED fate

Clear == ClearQueue /\ Observe("cleared")

Close == Shutdown /\ UNCHANGED fate

PutVal ==
    /\ Len(valQueue) < MaxValidations
    /\ \E v \in Validations : PutValidate(v)
    /\ UNCHANGED fate

GetVal == GetValidate /\ UNCHANGED fate

Next ==
    \/ Put \/ Clear \/ Close \/ PutVal \/ GetVal
    \/ \E c \in Consumers : Get(c) \/ Wait(c) \/ Closed(c)

(* The event loop of the actor resumes every coroutine that was notified.  *)
Fairness ==
    \A c \in Consumers :
        WF_vars(getter[c] = "notified" /\ (Get(c) \/ Wait(c) \/ Closed(c)))

Spec == HInit /\ [][Next]_vars

FairSpec == Spec /\ Fairness

-----------------------------------------------------------------------------
(* The type invariant, with the bound of the queue: put_sample keeps the   *)
(* deque within max_queue_size by its own test, not by the deque's maxlen  *)
(* (message_queue.py:68).                                                  *)
HTypeOK ==
    /\ TypeOK
    /\ fate \in Seq({"buffered", "delivered", "dropped", "cleared"})

(* The queue always holds an unbroken run of the newest samples, in the    *)
(* order they were put: nothing is reordered, duplicated or lost inside    *)
(* the actor (message_queue.py:68-74, :101).                               *)
HoldsNewest ==
    /\ Len(fate) = totalProduced
    /\ Len(queue) <= totalProduced
    /\ \A i \in 1 .. Len(queue) : queue[i] = totalProduced - Len(queue) + i
    /\ \A i \in 1 .. totalProduced :
           fate[i] = "buffered" <=> i > totalProduced - Len(queue)

(* Only overflow loses a sample, and it never loses one of the             *)
(* MaxQueueSize newest (message_queue.py:66-71, "remove the oldest").      *)
DropsOnlyOldest ==
    \A i \in DOMAIN fate : fate[i] = "dropped" => i <= totalProduced - MaxQueueSize

(* The statistics account for every sample: what was produced was          *)
(* consumed, dropped, cleared or is still queued.                          *)
HowMany(f) == Cardinality({i \in DOMAIN fate : fate[i] = f})

StatisticsAgree ==
    /\ totalConsumed = HowMany("delivered")
    /\ droppedSamples = HowMany("dropped")

(* The actor implements the stream its users are promised.                 *)
Stream == INSTANCE SampleStream WITH Capacity <- MaxQueueSize

ImplementsStream == Stream!Spec

(* After shutdown no consumer stays inside get_sample for ever.            *)
ShutdownReleases ==
    \A c \in Consumers : (~running /\ getter[c] # "idle") ~> getter[c] = "idle"
=============================================================================
