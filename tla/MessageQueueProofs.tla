------------------------- MODULE MessageQueueProofs -------------------------
(***************************************************************************)
(* What the runs of MessageQueueHistory show for a queue of two entries,   *)
(* proved for every capacity, every number of samples and every set of     *)
(* consumers: the queue holds an unbroken run of the newest samples, no    *)
(* consumer sleeps in front of one, only overflow loses any and only the   *)
(* oldest, and the actor implements SampleStream.                          *)
(***************************************************************************)
EXTENDS MessageQueueHistory, SequenceTheorems, FiniteSetTheorems, TLAPS

FateValues == {"buffered", "delivered", "dropped", "cleared"}

(* The inductive invariant. HoldsNewest carries the argument: it says      *)
(* which samples are queued, hence what a put, a get or a clear does to    *)
(* the fate of each. TypeOK alone would not give it, and the other three   *)
(* are not inductive without it.                                           *)
IInv == HTypeOK /\ NoLostWakeup /\ HoldsNewest

-----------------------------------------------------------------------------
(* A function on 1..n is a sequence of length n.                           *)
LEMMA FunctionIsSeq ==
    ASSUME NEW n \in Nat, NEW S, NEW f \in [1 .. n -> S]
    PROVE  f \in Seq(S) /\ Len(f) = n /\ DOMAIN f = 1 .. n
  OBVIOUS

(* What Observe does to fate when the queue keeps its newest-samples shape *)
LEMMA ObserveShape ==
    ASSUME fate \in Seq(FateValues), Len(fate) = totalProduced,
           NEW cause \in FateValues, Observe(cause),
           totalProduced \in Nat, totalProduced' \in Nat
    PROVE  /\ fate' \in Seq(FateValues)
           /\ Len(fate') = totalProduced'
           /\ \A i \in 1 .. totalProduced' :
                 fate'[i] = IF i \in Queued' THEN "buffered"
                            ELSE IF i \in 1 .. totalProduced /\ fate[i] # "buffered"
                                 THEN fate[i] ELSE cause
  <1>1. DOMAIN fate = 1 .. totalProduced
    OBVIOUS
  <1>2. fate' \in [1 .. totalProduced' -> FateValues]
    BY <1>1 DEF Observe, FateValues
  <1>3. fate' \in Seq(FateValues) /\ Len(fate') = totalProduced'
    BY <1>2, FunctionIsSeq
  <1> QED
    BY <1>1, <1>3 DEF Observe

(* A sequence that counts up to n holds an interval.                      *)
LEMMA CountingSeq ==
    ASSUME NEW S, NEW q \in Seq(S), NEW n \in Nat, Len(q) <= n,
           \A i \in 1 .. Len(q) : q[i] = n - Len(q) + i
    PROVE  {q[i] : i \in DOMAIN q} = n - Len(q) + 1 .. n
  <1>1. DOMAIN q = 1 .. Len(q) /\ Len(q) \in Nat
    OBVIOUS
  <1>2. ASSUME NEW k \in n - Len(q) + 1 .. n
        PROVE  \E i \in 1 .. Len(q) : q[i] = k
    <2>1. k - (n - Len(q)) \in 1 .. Len(q)
      BY <1>1
    <2>2. q[k - (n - Len(q))] = k
      BY <1>1, <2>1
    <2> QED
      BY <2>1, <2>2
  <1>3. ASSUME NEW i \in 1 .. Len(q)
        PROVE  q[i] \in n - Len(q) + 1 .. n
    BY <1>1
  <1> QED
    BY <1>1, <1>2, <1>3

LEMMA InitInv == HInit => IInv
  <1> SUFFICES ASSUME HInit PROVE IInv
    OBVIOUS
  <1> QED
    BY MaxQueueSizeAssumption
    DEF HInit, Init, IInv, HTypeOK, TypeOK, GetterState, NoLostWakeup, HoldsNewest

(* After a step that leaves the queue typed and holding the newest samples *)
(* and records its cause, the whole of HoldsNewest holds again, provided   *)
(* no sample that had left the queue is back in it.                        *)
LEMMA ObserveKeeps ==
    ASSUME HTypeOK, HoldsNewest,
           NEW cause \in FateValues \ {"buffered"}, Observe(cause),
           queue' \in Seq(Samples), totalProduced' \in Nat,
           Len(queue') <= totalProduced',
           \A i \in 1 .. Len(queue') : queue'[i] = totalProduced' - Len(queue') + i
    PROVE  fate' \in Seq(FateValues) /\ HoldsNewest'
  <1>1. Queued' = totalProduced' - Len(queue') + 1 .. totalProduced'
    BY CountingSeq DEF Queued
  <1>2. /\ fate \in Seq(FateValues)
        /\ Len(fate) = totalProduced
        /\ totalProduced \in Nat
        /\ cause \in FateValues /\ cause # "buffered"
    BY DEF HTypeOK, TypeOK, HoldsNewest, FateValues
  <1>3. /\ fate' \in Seq(FateValues)
        /\ Len(fate') = totalProduced'
        /\ \A i \in 1 .. totalProduced' :
              fate'[i] = IF i \in Queued' THEN "buffered"
                         ELSE IF i \in 1 .. totalProduced /\ fate[i] # "buffered"
                              THEN fate[i] ELSE cause
    BY <1>2, ObserveShape
  <1>4. \A i \in 1 .. totalProduced' :
            fate'[i] = "buffered" <=> i > totalProduced' - Len(queue')
    BY <1>1, <1>2, <1>3
  <1> QED
    BY <1>3, <1>4 DEF HoldsNewest

-----------------------------------------------------------------------------
(* One lemma per action of Next.                                           *)

LEMMA PutInv == IInv /\ Put => IInv'
  <1> SUFFICES ASSUME IInv, Put PROVE IInv'
    OBVIOUS
  <1> USE DEF IInv
  <1>1. /\ queue \in Seq(Samples) /\ Len(queue) \in Nat
        /\ Len(queue) <= MaxQueueSize /\ Len(queue) <= totalProduced
        /\ totalProduced \in Nat /\ totalProduced' = totalProduced + 1
        /\ totalProduced + 1 \in Samples
        /\ MaxQueueSize \in Nat \ {0}
        /\ Observe("dropped")
    BY MaxQueueSizeAssumption, MaxPutsAssumption, SamplesAssumption
    DEF Put, PutSample, HTypeOK, TypeOK, HoldsNewest
  <1>2. /\ queue' \in Seq(Samples) /\ queue' # << >>
        /\ Len(queue') <= MaxQueueSize
        /\ Len(queue') <= totalProduced'
        /\ \A i \in 1 .. Len(queue') : queue'[i] = totalProduced' - Len(queue') + i
    <2>1. CASE Full
      <3>1. queue # << >> /\ queue' = Append(Tail(queue), totalProduced + 1)
        BY <1>1, <2>1 DEF Full, Put, PutSample
      <3>2. /\ Tail(queue) \in Seq(Samples)
            /\ Len(Tail(queue)) = Len(queue) - 1
            /\ \A i \in 1 .. Len(queue) - 1 : Tail(queue)[i] = queue[i + 1]
        BY <1>1, <3>1
      <3>3. \A i \in 1 .. Len(queue) - 1 :
               Tail(queue)[i] = totalProduced - Len(queue) + (i + 1)
        BY <1>1, <3>2 DEF HoldsNewest
      <3>4. /\ queue' \in Seq(Samples) /\ queue' # << >>
            /\ Len(queue') = Len(queue)
            /\ queue'[Len(queue)] = totalProduced + 1
            /\ \A i \in 1 .. Len(queue) - 1 : queue'[i] = Tail(queue)[i]
        BY <1>1, <3>1, <3>2
      <3>5. ASSUME NEW i \in 1 .. Len(queue')
            PROVE  queue'[i] = totalProduced' - Len(queue') + i
        <4>1. CASE i = Len(queue)
          BY <1>1, <3>4, <4>1
        <4>2. CASE i # Len(queue)
          <5>1. i \in 1 .. Len(queue) - 1
            BY <1>1, <3>4, <4>2
          <5> QED
            BY <1>1, <3>3, <3>4, <5>1
        <4> QED
          BY <4>1, <4>2
      <3> QED
        BY <1>1, <3>4, <3>5
    <2>2. CASE ~Full
      <3>1. queue' = Append(queue, totalProduced + 1) /\ Len(queue) < MaxQueueSize
        BY <1>1, <2>2 DEF Full, Put, PutSample
      <3> QED
        BY <1>1, <3>1 DEF HoldsNewest
    <2> QED
      BY <2>1, <2>2
  <1>3. fate' \in Seq(FateValues) /\ HoldsNewest'
    BY <1>1, <1>2, ObserveKeeps DEF FateValues
  <1>4. /\ getter' \in [Consumers -> GetterState]
        /\ \A c \in Consumers : getter'[c] # "waiting"
    BY DEF Put, PutSample, NotifyAll, HTypeOK, TypeOK, GetterState
  <1>5. TypeOK'
    BY <1>1, <1>2, <1>4 DEF Put, PutSample, HTypeOK, TypeOK
  <1> QED
    BY <1>3, <1>4, <1>5 DEF HTypeOK, NoLostWakeup, FateValues

LEMMA GetInv == ASSUME NEW c \in Consumers PROVE IInv /\ Get(c) => IInv'
  <1> SUFFICES ASSUME IInv, Get(c) PROVE IInv'
    OBVIOUS
  <1> USE DEF IInv
  <1>1. /\ queue \in Seq(Samples) /\ queue # << >>
        /\ Len(queue) \in Nat /\ Len(queue) <= MaxQueueSize
        /\ Len(queue) <= totalProduced
        /\ totalProduced \in Nat /\ totalProduced' = totalProduced
        /\ MaxQueueSize \in Nat
        /\ queue' = Tail(queue)
        /\ Observe("delivered")
    BY MaxQueueSizeAssumption DEF Get, GetSample, HTypeOK, TypeOK, HoldsNewest
  <1>2. /\ queue' \in Seq(Samples)
        /\ Len(queue') = Len(queue) - 1
        /\ \A i \in 1 .. Len(queue') : queue'[i] = totalProduced' - Len(queue') + i
    <2>1. /\ Tail(queue) \in Seq(Samples)
          /\ Len(Tail(queue)) = Len(queue) - 1
          /\ \A i \in 1 .. Len(queue) - 1 : Tail(queue)[i] = queue[i + 1]
      BY <1>1
    <2>2. \A i \in 1 .. Len(queue) - 1 :
             Tail(queue)[i] = totalProduced - Len(queue) + (i + 1)
      BY <1>1, <2>1 DEF HoldsNewest
    <2> QED
      BY <1>1, <2>1, <2>2
  <1>3. fate' \in Seq(FateValues) /\ HoldsNewest'
    BY <1>1, <1>2, ObserveKeeps DEF FateValues
  <1>4. /\ getter' \in [Consumers -> GetterState]
        /\ \A d \in Consumers : getter'[d] # "waiting"
    BY <1>1 DEF Get, GetSample, HTypeOK, TypeOK, GetterState, NoLostWakeup
  <1>5. TypeOK'
    BY <1>1, <1>2, <1>4 DEF Get, GetSample, HTypeOK, TypeOK
  <1> QED
    BY <1>3, <1>4, <1>5 DEF HTypeOK, NoLostWakeup, FateValues

LEMMA ClearInv == IInv /\ Clear => IInv'
  <1> SUFFICES ASSUME IInv, Clear PROVE IInv'
    OBVIOUS
  <1> USE DEF IInv
  <1>1. /\ totalProduced \in Nat /\ totalProduced' = totalProduced
        /\ queue' = << >> /\ Observe("cleared")
    BY DEF Clear, ClearQueue, HTypeOK, TypeOK, counters
  <1>2. fate' \in Seq(FateValues) /\ HoldsNewest'
    BY <1>1, ObserveKeeps DEF FateValues
  <1>3. TypeOK'
    BY <1>1, MaxQueueSizeAssumption DEF Clear, ClearQueue, HTypeOK, TypeOK, counters
  <1> QED
    BY <1>1, <1>2, <1>3
    DEF Clear, ClearQueue, HTypeOK, NoLostWakeup, FateValues

(* The steps that move no sample.                                          *)
LEMMA OtherInv ==
    ASSUME IInv,
           \/ Close \/ PutVal \/ GetVal
           \/ \E c \in Consumers : Wait(c) \/ Closed(c)
           \/ UNCHANGED vars
    PROVE  IInv'
  <1> USE DEF IInv
  <1>1. UNCHANGED <<queue, totalProduced, fate>>
    BY DEF Close, Shutdown, PutVal, PutValidate, GetVal, GetValidate, Wait, GetWaits,
           Closed, GetClosed, vars, mqVars, counters
  <1>2. fate \in Seq(FateValues) /\ HoldsNewest'
    BY <1>1 DEF HoldsNewest, HTypeOK, FateValues
  <1>3. TypeOK' /\ NoLostWakeup'
    <2> USE <1>1 DEF HTypeOK, TypeOK, NoLostWakeup, GetterState
    <2>1. CASE Close
      BY <2>1 DEF Close, Shutdown, NotifyAll, counters
    <2>2. CASE PutVal
      BY <2>2 DEF PutVal, PutValidate, counters
    <2>3. CASE GetVal
      BY <2>3 DEF GetVal, GetValidate, counters
    <2>4. CASE \E c \in Consumers : Wait(c)
      BY <2>4 DEF Wait, GetWaits, Evaluates, counters
    <2>5. CASE \E c \in Consumers : Closed(c)
      BY <2>5 DEF Closed, GetClosed, Evaluates, counters
    <2>6. CASE UNCHANGED vars
      BY <2>6 DEF vars, mqVars, counters
    <2> QED
      BY <2>1, <2>2, <2>3, <2>4, <2>5, <2>6
  <1> QED
    BY <1>1, <1>2, <1>3 DEF HTypeOK, FateValues

LEMMA StepInv == IInv /\ [Next]_vars => IInv'
  BY PutInv, GetInv, ClearInv, OtherInv DEF Next

LEMMA Invariance == Spec => []IInv
  <1>1. HInit => IInv
    BY InitInv
  <1>2. IInv /\ [Next]_vars => IInv'
    BY StepInv
  <1> QED
    BY <1>1, <1>2, PTL DEF Spec

(* The state of the actor keeps its types, and the queue its bound.        *)
THEOREM TypeCorrect == Spec => []HTypeOK
  <1>1. IInv => HTypeOK
    BY DEF IInv
  <1> QED
    BY <1>1, Invariance, PTL

(* No consumer sleeps in get_sample in front of a sample or a closed       *)
(* queue, for any number of consumers (message_queue.py:77, :133).         *)
THEOREM WakeupsNotLost == Spec => []NoLostWakeup
  <1>1. IInv => NoLostWakeup
    BY DEF IInv
  <1> QED
    BY <1>1, Invariance, PTL

(* The queue holds an unbroken run of the newest samples in put order, for *)
(* every capacity (message_queue.py:68-74, :101).                          *)
THEOREM NewestHeld == Spec => []HoldsNewest
  <1>1. IInv => HoldsNewest
    BY DEF IInv
  <1> QED
    BY <1>1, Invariance, PTL

-----------------------------------------------------------------------------
(* What each operation does to the fates, in terms of the abstract stream. *)

(* Observe, once the queued samples are known to be the newest ones.       *)
LEMMA ObserveEffect ==
    ASSUME IInv, IInv', NEW cause \in FateValues, Observe(cause)
    PROVE  \A i \in 1 .. totalProduced' :
              fate'[i] = IF i > totalProduced' - Len(queue') THEN "buffered"
                         ELSE IF i <= totalProduced /\ i <= totalProduced - Len(queue)
                              THEN fate[i] ELSE cause
  <1>1. /\ fate \in Seq(FateValues) /\ Len(fate) = totalProduced
        /\ totalProduced \in Nat /\ totalProduced' \in Nat
        /\ queue' \in Seq(Samples) /\ Len(queue') <= totalProduced'
        /\ \A i \in 1 .. Len(queue') : queue'[i] = totalProduced' - Len(queue') + i
        /\ Len(queue) \in Nat /\ Len(queue) <= totalProduced
    BY DEF IInv, HTypeOK, TypeOK, HoldsNewest, FateValues
  <1>2. Queued' = totalProduced' - Len(queue') + 1 .. totalProduced'
    BY <1>1, CountingSeq DEF Queued
  <1>3. \A i \in 1 .. totalProduced : fate[i] = "buffered" <=> i > totalProduced - Len(queue)
    BY DEF IInv, HoldsNewest
  <1>4. \A i \in 1 .. totalProduced' :
           fate'[i] = IF i \in Queued' THEN "buffered"
                      ELSE IF i \in 1 .. totalProduced /\ fate[i] # "buffered"
                           THEN fate[i] ELSE cause
    BY <1>1, ObserveShape
  <1>5. Len(queue') \in Nat
    BY <1>1
  <1> QED
    BY <1>1, <1>2, <1>3, <1>4, <1>5

(* The sample that the next get_sample or an overflow takes.               *)
Oldest == totalProduced - Len(queue) + 1

LEMMA PutEffect ==
    ASSUME IInv, IInv', Put
    PROVE  /\ Full => /\ Oldest = totalProduced + 1 - MaxQueueSize
                      /\ Oldest \in DOMAIN fate
                      /\ fate' = Append([fate EXCEPT ![Oldest] = "dropped"], "buffered")
           /\ ~Full => fate' = Append(fate, "buffered")
  <1>1. /\ fate \in Seq(FateValues) /\ Len(fate) = totalProduced
        /\ fate' \in Seq(FateValues) /\ Len(fate') = totalProduced + 1
        /\ totalProduced \in Nat /\ totalProduced' = totalProduced + 1
        /\ queue \in Seq(Samples) /\ Len(queue) \in Nat
        /\ Len(queue) <= totalProduced /\ Len(queue) <= MaxQueueSize
        /\ MaxQueueSize \in Nat \ {0}
        /\ Observe("dropped")
    BY MaxQueueSizeAssumption
    DEF IInv, HTypeOK, TypeOK, HoldsNewest, Put, PutSample, FateValues
  <1>2. totalProduced + 1 \in Samples
    BY <1>1, MaxPutsAssumption, SamplesAssumption DEF Put
  <1>3. \A i \in 1 .. totalProduced + 1 :
           fate'[i] = IF i > totalProduced + 1 - Len(queue') THEN "buffered"
                      ELSE IF i <= totalProduced /\ i <= totalProduced - Len(queue)
                           THEN fate[i] ELSE "dropped"
    BY <1>1, ObserveEffect DEF FateValues
  <1>4. \A i \in 1 .. totalProduced : fate[i] = "buffered" <=> i > totalProduced - Len(queue)
    BY DEF IInv, HoldsNewest
  <1>5. CASE Full
    <2> DEFINE f == [fate EXCEPT ![Oldest] = "dropped"]
    <2>1. /\ Len(queue) = MaxQueueSize /\ Oldest \in 1 .. totalProduced
          /\ Oldest = totalProduced + 1 - MaxQueueSize
      BY <1>1, <1>5 DEF Full, Oldest
    <2>2. Len(queue') = Len(queue)
      BY <1>1, <1>2, <1>5, <2>1 DEF Put, PutSample
    <2>3. /\ f \in Seq(FateValues) /\ Len(f) = totalProduced
          /\ \A i \in 1 .. totalProduced : f[i] = IF i = Oldest THEN "dropped" ELSE fate[i]
      BY <1>1, <2>1 DEF FateValues
    <2> HIDE DEF f
    <2>4. /\ Append(f, "buffered") \in Seq(FateValues)
          /\ Len(Append(f, "buffered")) = totalProduced + 1
          /\ Append(f, "buffered")[totalProduced + 1] = "buffered"
          /\ \A i \in 1 .. totalProduced : Append(f, "buffered")[i] = f[i]
      BY <1>1, <2>3 DEF FateValues
    <2>5. ASSUME NEW i \in 1 .. totalProduced + 1
          PROVE  fate'[i] = Append(f, "buffered")[i]
      <3>1. CASE i = totalProduced + 1
        BY <1>1, <1>3, <2>1, <2>2, <2>4, <3>1
      <3>2. CASE i \in 1 .. totalProduced
        BY <1>1, <1>3, <1>4, <2>1, <2>2, <2>3, <2>4, <3>2 DEF Oldest
      <3>3. i = totalProduced + 1 \/ i \in 1 .. totalProduced
        BY <1>1
      <3> QED
        BY <3>1, <3>2, <3>3
    <2>6. fate' = Append(f, "buffered")
      BY <1>1, <2>4, <2>5, SeqEqual
    <2> QED
      BY <1>1, <1>5, <2>1, <2>6 DEF f
  <1>6. CASE ~Full
    <2>1. Len(queue') = Len(queue) + 1
      BY <1>1, <1>2, <1>6 DEF Put, PutSample
    <2>2. /\ Append(fate, "buffered") \in Seq(FateValues)
          /\ Len(Append(fate, "buffered")) = totalProduced + 1
          /\ Append(fate, "buffered")[totalProduced + 1] = "buffered"
          /\ \A i \in 1 .. totalProduced : Append(fate, "buffered")[i] = fate[i]
      BY <1>1 DEF FateValues
    <2>3. \A i \in 1 .. totalProduced + 1 : fate'[i] = Append(fate, "buffered")[i]
      BY <1>1, <1>3, <1>4, <2>1, <2>2
    <2>4. fate' = Append(fate, "buffered")
      BY <1>1, <2>2, <2>3, SeqEqual
    <2> QED
      BY <1>6, <2>4
  <1> QED
    BY <1>5, <1>6

LEMMA GetEffect ==
    ASSUME IInv, IInv', NEW c \in Consumers, Get(c)
    PROVE  /\ Oldest \in DOMAIN fate
           /\ fate' = [fate EXCEPT ![Oldest] = "delivered"]
  <1>1. /\ fate \in Seq(FateValues) /\ Len(fate) = totalProduced
        /\ fate' \in Seq(FateValues) /\ Len(fate') = totalProduced
        /\ totalProduced \in Nat /\ totalProduced' = totalProduced
        /\ queue \in Seq(Samples) /\ queue # << >> /\ queue' = Tail(queue)
        /\ Len(queue) <= totalProduced
        /\ Observe("delivered")
    BY DEF IInv, HTypeOK, TypeOK, HoldsNewest, Get, GetSample, FateValues
  <1>2. Len(queue) \in Nat \ {0} /\ Len(queue') = Len(queue) - 1
    BY <1>1
  <1>3. Oldest \in 1 .. totalProduced
    BY <1>1, <1>2 DEF Oldest
  <1>4. \A i \in 1 .. totalProduced :
           fate'[i] = IF i > totalProduced - Len(queue') THEN "buffered"
                      ELSE IF i <= totalProduced /\ i <= totalProduced - Len(queue)
                           THEN fate[i] ELSE "delivered"
    BY <1>1, ObserveEffect DEF FateValues
  <1>5. \A i \in 1 .. totalProduced : fate[i] = "buffered" <=> i > totalProduced - Len(queue)
    BY DEF IInv, HoldsNewest
  <1> DEFINE f == [fate EXCEPT ![Oldest] = "delivered"]
  <1>6. /\ f \in Seq(FateValues) /\ Len(f) = totalProduced
        /\ \A i \in 1 .. totalProduced : f[i] = IF i = Oldest THEN "delivered" ELSE fate[i]
    BY <1>1, <1>3 DEF FateValues
  <1> HIDE DEF f
  <1>7. ASSUME NEW i \in 1 .. totalProduced
        PROVE  fate'[i] = f[i]
    <2>1. CASE i = Oldest
      BY <1>1, <1>2, <1>3, <1>4, <1>6, <2>1 DEF Oldest
    <2>2. CASE i < Oldest
      BY <1>1, <1>2, <1>3, <1>4, <1>6, <2>2 DEF Oldest
    <2>3. CASE i > Oldest
      BY <1>1, <1>2, <1>3, <1>4, <1>5, <1>6, <2>3 DEF Oldest
    <2> QED
      BY <1>3, <2>1, <2>2, <2>3
  <1>8. fate' = f
    BY <1>1, <1>6, <1>7, SeqEqual
  <1> QED
    BY <1>1, <1>3, <1>8 DEF f

LEMMA ClearEffect ==
    ASSUME IInv, IInv', Clear
    PROVE  fate' = [i \in DOMAIN fate |->
                       IF fate[i] = "buffered" THEN "cleared" ELSE fate[i]]
  <1>1. /\ fate \in Seq(FateValues) /\ Len(fate) = totalProduced
        /\ fate' \in Seq(FateValues) /\ Len(fate') = totalProduced
        /\ totalProduced \in Nat /\ totalProduced' = totalProduced
        /\ Len(queue) \in Nat /\ Len(queue) <= totalProduced
        /\ queue' = << >> /\ Observe("cleared")
    BY DEF IInv, HTypeOK, TypeOK, HoldsNewest, Clear, ClearQueue, counters, FateValues
  <1>2. \A i \in 1 .. totalProduced :
           fate'[i] = IF i > totalProduced - Len(queue') THEN "buffered"
                      ELSE IF i <= totalProduced /\ i <= totalProduced - Len(queue)
                           THEN fate[i] ELSE "cleared"
    BY <1>1, ObserveEffect DEF FateValues
  <1>3. \A i \in 1 .. totalProduced : fate[i] = "buffered" <=> i > totalProduced - Len(queue)
    BY DEF IInv, HoldsNewest
  <1>4. \A i \in 1 .. totalProduced :
           fate'[i] = IF fate[i] = "buffered" THEN "cleared" ELSE fate[i]
    BY <1>1, <1>2, <1>3
  <1>5. DOMAIN fate = 1 .. totalProduced /\ DOMAIN fate' = 1 .. totalProduced
    BY <1>1
  <1> QED
    BY <1>1, <1>4, <1>5

-----------------------------------------------------------------------------
(* The invariants about the fates follow from these effects.               *)

LEMMA FateFacts ==
    ASSUME IInv
    PROVE  /\ fate \in Seq(FateValues) /\ Len(fate) = totalProduced
           /\ DOMAIN fate = 1 .. totalProduced
           /\ totalProduced \in Nat /\ MaxQueueSize \in Nat \ {0}
           /\ totalConsumed \in Nat /\ droppedSamples \in Nat
           /\ Len(queue) \in Nat /\ Len(queue) <= totalProduced
           /\ Len(queue) <= MaxQueueSize
           /\ \A i \in 1 .. totalProduced :
                 fate[i] = "buffered" <=> i > totalProduced - Len(queue)
  <1>1. /\ fate \in Seq(FateValues) /\ Len(fate) = totalProduced /\ queue \in Seq(Samples)
    BY DEF IInv, HTypeOK, TypeOK, HoldsNewest, FateValues
  <1> QED
    BY <1>1, MaxQueueSizeAssumption DEF IInv, HTypeOK, TypeOK, HoldsNewest

(* The steps other than a put, a get or a clear.                           *)
LEMMA QuietSteps ==
    ASSUME [Next]_vars, ~Put, ~Clear, \A c \in Consumers : ~Get(c)
    PROVE  UNCHANGED <<fate, totalProduced, totalConsumed, droppedSamples>>
  BY DEF Next, Close, Shutdown, PutVal, PutValidate, GetVal, GetValidate, Wait, GetWaits,
         Closed, GetClosed, vars, mqVars, counters

LEMMA DropsStep ==
    ASSUME IInv, IInv', DropsOnlyOldest, [Next]_vars
    PROVE  DropsOnlyOldest'
  <1> USE FateFacts DEF DropsOnlyOldest
  <1>1. CASE Put
    <2>1. totalProduced' = totalProduced + 1
      BY <1>1 DEF Put, PutSample
    <2>2. CASE Full
      <3> DEFINE f == [fate EXCEPT ![Oldest] = "dropped"]
      <3>1. /\ Oldest = totalProduced + 1 - MaxQueueSize
            /\ Oldest \in 1 .. totalProduced
            /\ fate' = Append(f, "buffered")
        BY <1>1, <2>2, PutEffect
      <3>2. /\ f \in Seq(FateValues) /\ Len(f) = totalProduced
            /\ \A i \in 1 .. totalProduced : f[i] = IF i = Oldest THEN "dropped" ELSE fate[i]
        BY <3>1 DEF FateValues
      <3> HIDE DEF f
      <3>3. /\ DOMAIN fate' = 1 .. totalProduced + 1
            /\ fate'[totalProduced + 1] = "buffered"
            /\ \A i \in 1 .. totalProduced : fate'[i] = f[i]
        BY <3>1, <3>2 DEF FateValues
      <3>4. ASSUME NEW i \in 1 .. totalProduced + 1, fate'[i] = "dropped"
            PROVE  i <= totalProduced + 1 - MaxQueueSize
        <4>1. i \in 1 .. totalProduced
          BY <3>3, <3>4
        <4>2. i = Oldest \/ fate[i] = "dropped"
          BY <3>2, <3>3, <3>4, <4>1
        <4>3. CASE i = Oldest
          BY <3>1, <4>3
        <4>4. CASE fate[i] = "dropped"
          BY <4>1, <4>4
        <4> QED
          BY <4>2, <4>3, <4>4
      <3> QED
        BY <2>1, <3>3, <3>4
    <2>3. CASE ~Full
      <3>1. fate' = Append(fate, "buffered")
        BY <1>1, <2>3, PutEffect
      <3>2. /\ DOMAIN fate' = 1 .. totalProduced + 1
            /\ fate'[totalProduced + 1] = "buffered"
            /\ \A i \in 1 .. totalProduced : fate'[i] = fate[i]
        BY <3>1 DEF FateValues
      <3>3. ASSUME NEW i \in 1 .. totalProduced + 1, fate'[i] = "dropped"
            PROVE  i <= totalProduced + 1 - MaxQueueSize
        <4>1. i \in 1 .. totalProduced
          BY <3>2, <3>3
        <4> QED
          BY <3>2, <3>3, <4>1
      <3> QED
        BY <2>1, <3>2, <3>3
    <2> QED
      BY <2>2, <2>3
  <1>2. ASSUME NEW c \in Consumers, Get(c)
        PROVE  DropsOnlyOldest'
    <2>1. /\ totalProduced' = totalProduced
          /\ Oldest \in 1 .. totalProduced
          /\ fate' = [fate EXCEPT ![Oldest] = "delivered"]
      BY <1>2, GetEffect DEF Get, GetSample
    <2> QED
      BY <2>1
  <1>3. CASE Clear
    <2>1. /\ totalProduced' = totalProduced
          /\ fate' = [i \in DOMAIN fate |->
                         IF fate[i] = "buffered" THEN "cleared" ELSE fate[i]]
      BY <1>3, ClearEffect DEF Clear, ClearQueue, counters
    <2> QED
      BY <2>1
  <1>4. CASE ~Put /\ ~Clear /\ \A c \in Consumers : ~Get(c)
    BY <1>4, QuietSteps
  <1> QED
    BY <1>1, <1>2, <1>3, <1>4

(* Overflow alone loses samples, and never one of the max_queue_size       *)
(* newest, for every capacity (message_queue.py:66-71).                    *)
THEOREM OnlyOldestDropped == Spec => []DropsOnlyOldest
  <1>1. HInit => DropsOnlyOldest
    BY DEF HInit, DropsOnlyOldest
  <1>2. IInv /\ IInv' /\ DropsOnlyOldest /\ [Next]_vars => DropsOnlyOldest'
    BY DropsStep
  <1> QED
    BY <1>1, <1>2, Invariance, PTL DEF Spec

(* How often each fate occurs, before and after a sample gets a new one.   *)
With(f, v) == {i \in DOMAIN f : f[i] = v}

LEMMA WithIsFinite ==
    ASSUME NEW n \in Nat, NEW f, DOMAIN f = 1 .. n, NEW v
    PROVE  IsFiniteSet(With(f, v)) /\ Cardinality(With(f, v)) \in Nat
  <1>1. IsFiniteSet(1 .. n)
    BY FS_Interval
  <1>2. With(f, v) \in SUBSET (1 .. n)
    BY DEF With
  <1> QED
    BY <1>1, <1>2, FS_Subset, FS_CardinalityType

LEMMA OneMore ==
    ASSUME NEW n \in Nat, NEW f, DOMAIN f = 1 .. n, NEW v, NEW k, f[k] # v,
           NEW g, With(g, v) = With(f, v) \union {k}
    PROVE  Cardinality(With(g, v)) = Cardinality(With(f, v)) + 1
  <1>1. k \notin With(f, v)
    BY DEF With
  <1> QED
    BY <1>1, WithIsFinite, FS_AddElement

LEMMA StatisticsStep ==
    ASSUME IInv, IInv', StatisticsAgree, [Next]_vars
    PROVE  StatisticsAgree'
  <1> USE FateFacts
  <1>1. /\ totalConsumed = Cardinality(With(fate, "delivered"))
        /\ droppedSamples = Cardinality(With(fate, "dropped"))
    BY DEF StatisticsAgree, HowMany, With
  <1>2. SUFFICES /\ totalConsumed' = Cardinality(With(fate', "delivered"))
                 /\ droppedSamples' = Cardinality(With(fate', "dropped"))
    BY DEF StatisticsAgree, HowMany, With
  <1>3. CASE Put
    <2>1. CASE Full
      <3> DEFINE f == [fate EXCEPT ![Oldest] = "dropped"]
      <3>1. /\ totalConsumed' = totalConsumed /\ droppedSamples' = droppedSamples + 1
            /\ Oldest \in 1 .. totalProduced
            /\ fate[Oldest] = "buffered"
            /\ fate' = Append(f, "buffered")
        BY <1>3, <2>1, PutEffect DEF Put, PutSample, Oldest
      <3>2. /\ f \in Seq(FateValues) /\ Len(f) = totalProduced
            /\ DOMAIN f = 1 .. totalProduced
            /\ \A i \in 1 .. totalProduced : f[i] = IF i = Oldest THEN "dropped" ELSE fate[i]
        BY <3>1 DEF FateValues
      <3> HIDE DEF f
      <3>3. /\ DOMAIN fate' = 1 .. totalProduced + 1
            /\ fate'[totalProduced + 1] = "buffered"
            /\ \A i \in 1 .. totalProduced : fate'[i] = f[i]
        BY <3>1, <3>2 DEF FateValues
      <3>4. With(fate', "delivered") = With(fate, "delivered")
        BY <3>1, <3>2, <3>3 DEF With
      <3>5. With(fate', "dropped") = With(fate, "dropped") \union {Oldest}
        BY <3>1, <3>2, <3>3 DEF With
      <3>6. Cardinality(With(fate', "dropped")) = Cardinality(With(fate, "dropped")) + 1
        BY <3>1, <3>5, OneMore
      <3> QED
        BY <1>1, <3>1, <3>4, <3>6
    <2>2. CASE ~Full
      <3>1. /\ totalConsumed' = totalConsumed /\ droppedSamples' = droppedSamples
            /\ fate' = Append(fate, "buffered")
        BY <1>3, <2>2, PutEffect DEF Put, PutSample
      <3>2. /\ DOMAIN fate' = 1 .. totalProduced + 1
            /\ fate'[totalProduced + 1] = "buffered"
            /\ \A i \in 1 .. totalProduced : fate'[i] = fate[i]
        BY <3>1 DEF FateValues
      <3>3. ASSUME NEW v \in {"delivered", "dropped"}
            PROVE  With(fate', v) = With(fate, v)
        BY <3>2 DEF With
      <3> QED
        BY <1>1, <3>1, <3>3
    <2> QED
      BY <2>1, <2>2
  <1>4. ASSUME NEW c \in Consumers, Get(c)
        PROVE  /\ totalConsumed' = Cardinality(With(fate', "delivered"))
               /\ droppedSamples' = Cardinality(With(fate', "dropped"))
    <2>1. /\ totalConsumed' = totalConsumed + 1 /\ droppedSamples' = droppedSamples
          /\ Oldest \in 1 .. totalProduced
          /\ fate' = [fate EXCEPT ![Oldest] = "delivered"]
      BY <1>4, GetEffect DEF Get, GetSample
    <2>2. fate[Oldest] = "buffered"
      BY <2>1 DEF Oldest
    <2>3. With(fate', "dropped") = With(fate, "dropped")
      BY <2>1, <2>2 DEF With
    <2>4. With(fate', "delivered") = With(fate, "delivered") \union {Oldest}
      BY <2>1, <2>2 DEF With
    <2>5. DOMAIN fate = 1 .. totalProduced /\ totalProduced \in Nat /\ fate[Oldest] # "delivered"
      BY <2>2
    <2>6. Cardinality(With(fate', "delivered")) = Cardinality(With(fate, "delivered")) + 1
      BY <2>4, <2>5, OneMore
    <2> QED
      BY <1>1, <2>1, <2>3, <2>6
  <1>5. CASE Clear
    <2>1. /\ totalConsumed' = totalConsumed /\ droppedSamples' = droppedSamples
          /\ fate' = [i \in DOMAIN fate |->
                         IF fate[i] = "buffered" THEN "cleared" ELSE fate[i]]
      BY <1>5, ClearEffect DEF Clear, ClearQueue, counters
    <2>2. ASSUME NEW v \in {"delivered", "dropped"}
          PROVE  With(fate', v) = With(fate, v)
      BY <2>1 DEF With
    <2> QED
      BY <1>1, <2>1, <2>2
  <1>6. CASE ~Put /\ ~Clear /\ \A c \in Consumers : ~Get(c)
    BY <1>1, <1>6, QuietSteps
  <1> QED
    BY <1>3, <1>4, <1>5, <1>6

(* total_consumed and dropped_samples count exactly the samples that were  *)
(* delivered and dropped (message_queue.py:70, :102).                      *)
THEOREM StatisticsRight == Spec => []StatisticsAgree
  <1>1. HInit => StatisticsAgree
    <2> SUFFICES ASSUME HInit PROVE StatisticsAgree
      OBVIOUS
    <2>1. \A v : With(fate, v) = {}
      BY DEF HInit, With
    <2> QED
      BY <2>1, FS_EmptySet DEF HInit, Init, StatisticsAgree, HowMany, With
  <1>2. IInv /\ IInv' /\ StatisticsAgree /\ [Next]_vars => StatisticsAgree'
    BY StatisticsStep
  <1> QED
    BY <1>1, <1>2, Invariance, PTL DEF Spec

-----------------------------------------------------------------------------
(* The actor implements the stream.                                        *)

LEMMA StreamStep ==
    ASSUME IInv, IInv', [Next]_vars
    PROVE  [Stream!Next]_fate
  <1> USE FateFacts
  <1>1. Stream!Buffered = totalProduced - Len(queue) + 1 .. totalProduced
    BY DEF Stream!Buffered
  <1>2. Len(queue) # 0 => Stream!IsOldest(Oldest)
    BY <1>1 DEF Stream!IsOldest, Oldest
  <1>3. CASE Put
    <2>1. CASE Full
      <3>1. /\ Oldest = totalProduced + 1 - MaxQueueSize
            /\ fate' = Append([fate EXCEPT ![Oldest] = "dropped"], "buffered")
        BY <1>3, <2>1, PutEffect
      <3>2. Oldest \in Stream!Buffered /\ Stream!IsOldest(Oldest)
        BY <1>1, <1>2, <2>1 DEF Full, Oldest
      <3>3. Stream!Produce
        BY <3>1, <3>2 DEF Stream!Produce
      <3> QED
        BY <3>3 DEF Stream!Next
    <2>2. CASE ~Full
      <3>1. fate' = Append(fate, "buffered")
        BY <1>3, <2>2, PutEffect
      <3>2. Stream!Buffered \subseteq Len(fate) + 2 - MaxQueueSize .. Len(fate)
        BY <1>1, <2>2 DEF Full
      <3>3. Stream!Produce
        BY <3>1, <3>2 DEF Stream!Produce
      <3> QED
        BY <3>3 DEF Stream!Next
    <2> QED
      BY <2>1, <2>2
  <1>4. ASSUME NEW c \in Consumers, Get(c)
        PROVE  Stream!Next
    <2>1. fate' = [fate EXCEPT ![Oldest] = "delivered"]
      BY <1>4, GetEffect
    <2>2. Len(queue) # 0
      BY <1>4 DEF Get, GetSample, IInv, HTypeOK, TypeOK
    <2>3. Oldest \in Stream!Buffered /\ Stream!IsOldest(Oldest)
      BY <1>1, <1>2, <2>2 DEF Oldest
    <2> QED
      BY <2>1, <2>3 DEF Stream!Deliver, Stream!Next
  <1>5. CASE Clear
    BY <1>5, ClearEffect DEF Stream!Clear, Stream!Next
  <1>6. CASE ~Put /\ ~Clear /\ \A c \in Consumers : ~Get(c)
    BY <1>6, QuietSteps
  <1> QED
    BY <1>3, <1>4, <1>5, <1>6

(* The message queue implements SampleStream, for every capacity: what its *)
(* two users are promised holds whatever the order of their calls.         *)
THEOREM QueueImplementsStream == Spec => ImplementsStream
  <1>1. HInit => Stream!Init
    BY DEF HInit, Stream!Init
  <1>2. IInv /\ IInv' /\ [Next]_vars => [Stream!Next]_fate
    BY StreamStep
  <1> QED
    BY <1>1, <1>2, Invariance, PTL DEF Spec, ImplementsStream, Stream!Spec
=============================================================================
