--------------------------- MODULE RollouterProofs ---------------------------
(***************************************************************************)
(* The rollouter's event loop, for every number of samples, every limit    *)
(* and every behaviour of the queue and the trainer around it: its lock is *)
(* used correctly, a sample in hand is never held back by a pause, the     *)
(* concurrency limit holds, and every sample is submitted once.            *)
(***************************************************************************)
EXTENDS Rollouter, SequenceTheorems, FiniteSetTheorems, TLAPS

Coroutines == {"proc", "reset", "monitor", "main"}

-----------------------------------------------------------------------------
(* The lock as a queue: what joining and leaving do to it.                 *)

Distinct(l) == \A i, j \in DOMAIN l : l[i] = l[j] => i = j
In(l, p) == \E i \in DOMAIN l : l[i] = p
HeldBy(l, p) == l # << >> /\ Head(l) = p

LEMMA Joining ==
    ASSUME NEW l \in Seq(Coroutines), Distinct(l),
           NEW p \in Coroutines, ~In(l, p)
    PROVE  /\ Append(l, p) \in Seq(Coroutines)
           /\ Distinct(Append(l, p))
           /\ \A r : In(Append(l, p), r) <=> In(l, r) \/ r = p
           /\ \A r : HeldBy(l, r) => HeldBy(Append(l, p), r)
  <1> DEFINE m == Append(l, p)
  <1>1. /\ m \in Seq(Coroutines) /\ Len(m) = Len(l) + 1 /\ Len(l) \in Nat
        /\ DOMAIN l = 1 .. Len(l) /\ DOMAIN m = 1 .. Len(l) + 1
        /\ m[Len(l) + 1] = p
        /\ \A i \in 1 .. Len(l) : m[i] = l[i]
    OBVIOUS
  <1>2. \A r : HeldBy(l, r) => HeldBy(m, r)
    BY <1>1 DEF HeldBy
  <1> HIDE DEF m
  <1>3. Distinct(m)
    BY <1>1 DEF Distinct, In
  <1>4. ASSUME NEW r PROVE In(m, r) <=> In(l, r) \/ r = p
    <2>1. CASE r = p
      BY <1>1, <2>1 DEF In
    <2>2. CASE r # p
      <3>1. In(l, r) => In(m, r)
        BY <1>1 DEF In
      <3>2. ASSUME NEW i \in DOMAIN m, m[i] = r
            PROVE  In(l, r)
        <4>1. i \in 1 .. Len(l)
          BY <1>1, <2>2, <3>2
        <4> QED
          BY <1>1, <3>2, <4>1 DEF In
      <3> QED
        BY <2>2, <3>1, <3>2 DEF In
    <2> QED
      BY <2>1, <2>2
  <1> QED
    BY <1>1, <1>2, <1>3, <1>4 DEF m

LEMMA Leaving ==
    ASSUME NEW l \in Seq(Coroutines), Distinct(l), NEW p, HeldBy(l, p)
    PROVE  /\ Tail(l) \in Seq(Coroutines)
           /\ Distinct(Tail(l))
           /\ \A r : In(Tail(l), r) <=> In(l, r) /\ r # p
  <1> DEFINE m == Tail(l)
  <1>1. /\ m \in Seq(Coroutines) /\ Len(m) = Len(l) - 1 /\ Len(l) \in Nat \ {0}
        /\ DOMAIN l = 1 .. Len(l) /\ DOMAIN m = 1 .. Len(l) - 1
        /\ l[1] = p
        /\ \A i \in 1 .. Len(l) - 1 : m[i] = l[i + 1]
    BY DEF HeldBy
  <1> HIDE DEF m
  <1>2. Distinct(m)
    <2> SUFFICES ASSUME NEW i \in 1 .. Len(l) - 1, NEW j \in 1 .. Len(l) - 1, m[i] = m[j]
                 PROVE  i = j
      BY <1>1 DEF Distinct
    <2>1. i + 1 \in DOMAIN l /\ j + 1 \in DOMAIN l /\ l[i + 1] = l[j + 1]
      BY <1>1
    <2>2. i + 1 = j + 1
      BY <2>1 DEF Distinct
    <2> QED
      BY <2>2
  <1>3. ASSUME NEW r, In(m, r) PROVE In(l, r) /\ r # p
    <2>1. PICK i \in 1 .. Len(l) - 1 : m[i] = r
      BY <1>1, <1>3 DEF In
    <2>2. i + 1 \in DOMAIN l /\ l[i + 1] = r /\ 1 \in DOMAIN l /\ i + 1 # 1
      BY <1>1, <2>1
    <2> QED
      BY <1>1, <2>2 DEF In, Distinct
  <1>4. ASSUME NEW r, In(l, r), r # p PROVE In(m, r)
    <2>1. PICK i \in 1 .. Len(l) : l[i] = r
      BY <1>1, <1>4 DEF In
    <2>2. i - 1 \in 1 .. Len(l) - 1
      BY <1>1, <1>4, <2>1
    <2>3. m[i - 1] = r
      BY <1>1, <2>1, <2>2
    <2> QED
      BY <1>1, <2>2, <2>3 DEF In
  <1> QED
    BY <1>1, <1>2, <1>3, <1>4 DEF m

-----------------------------------------------------------------------------
(* The parts of the inductive invariant that are not properties of their   *)
(* own: where the processor has a sample in hand, and that it stands       *)
(* before a submit only with room for one more task. HandNeverPaused needs *)
(* the first (a wake-up with a sample in hand would lead to a submit), and *)
(* ConcurrencyLimit the second.                                            *)
HandOK ==
    /\ proc \in {"limiting", "submitting"} => hand \in Samples
    /\ proc \in {"loop", "fetching", "pausing", "draining", "sleeping", "parked",
                 "woken", "finishing", "ended"} => hand = None

RoomOK == proc = "submitting" => Cardinality(activeTasks) < MaxConcurrentSamples

RInv == RTypeOK /\ LockDiscipline /\ HandNeverPaused /\ HandOK
            /\ ConcurrencyLimit /\ RoomOK

(* The constants as numbers, and the entries of the feed.                  *)
LEMMA Steps ==
    /\ FirstStep \in Nat \ {0} /\ TotalRolloutSteps \in Nat
    /\ LastStep \in Nat /\ FirstStep <= LastStep
    /\ FeedLength \in Nat /\ FeedLength >= 2
    /\ \A i \in 1 .. FeedLength : Entry(i) \in Samples \union {None}
    /\ PendingCapacity \in Nat \ {0}
    /\ MaxRequiredSamples \in Nat /\ MaxConcurrentSamples \in Nat \ {0}
  <1>1. FirstStep \in Nat \ {0} /\ TotalRolloutSteps \in Nat
    BY StepsAssumption
  <1>2. LastStep \in Nat /\ FirstStep <= LastStep
    BY <1>1 DEF LastStep
  <1>3. FeedLength \in Nat /\ FeedLength >= 2
    BY <1>1, <1>2 DEF FeedLength
  <1>4. \A i \in 1 .. FeedLength : Entry(i) \in Samples \union {None}
    BY <1>1, <1>2 DEF Entry, FeedLength, Samples
  <1>5. /\ PendingCapacity \in Nat \ {0}
        /\ MaxRequiredSamples \in Nat /\ MaxConcurrentSamples \in Nat \ {0}
    BY LimitsAssumption
  <1> QED
    BY <1>1, <1>2, <1>3, <1>4, <1>5

LEMMA SamplesFinite ==
    ASSUME NEW T \in SUBSET Samples
    PROVE  IsFiniteSet(T) /\ Cardinality(T) \in Nat
  <1>1. FirstStep \in Int /\ LastStep \in Int
    BY Steps
  <1>2. IsFiniteSet(Samples)
    BY <1>1, FS_Interval DEF Samples
  <1> QED
    BY <1>2, FS_Subset, FS_CardinalityType

(* A stretch of the feed is a sequence of entries.                         *)
LEMMA Stretch ==
    ASSUME NEW k \in Nat, NEW n \in Nat, k + n <= FeedLength
    PROVE  /\ [i \in 1 .. n |-> Entry(k + i)] \in Seq(Samples \union {None})
           /\ Len([i \in 1 .. n |-> Entry(k + i)]) = n
  <1>1. \A i \in 1 .. n : Entry(k + i) \in Samples \union {None}
    BY Steps
  <1> QED
    BY <1>1

LEMMA InitRInv == RInit => RInv
  <1> SUFFICES ASSUME RInit PROVE RInv
    OBVIOUS
  <1>1. fed \in 0 .. FeedLength /\ fed <= PendingCapacity
    BY Steps DEF RInit, FewerOf
  <1>2. pending \in Seq(Samples \union {None}) /\ Len(pending) = fed
    <2>1. pending = [i \in 1 .. fed |-> Entry(i)]
      BY DEF RInit
    <2>2. \A i \in 1 .. fed : Entry(i) \in Samples \union {None}
      BY <1>1, Steps
    <2> QED
      BY <1>1, <2>1, <2>2
  <1>3. RTypeOK
    <2>1. fed \in 0 .. FeedLength /\ pending \in Seq(Samples \union {None})
          /\ Len(pending) <= PendingCapacity
      BY <1>1, <1>2, Steps
    <2>2. /\ proc \in ProcState /\ yielded \in BOOLEAN
          /\ hand \in Samples \union {None} /\ activeTasks \subseteq Samples
      BY DEF RInit, ProcState
    <2>3. task \in [Samples -> TaskState]
      BY DEF RInit, TaskState
    <2>4. lock \in Seq({"proc", "reset", "monitor", "main"})
      BY EmptySeq DEF RInit
    <2>5. /\ paused \in BOOLEAN /\ stalenessSamples \in Nat
          /\ reset \in {"none", "locking", "asking", "storing"} /\ resetSum \in Nat
          /\ monitor \in {"sleeping", "resuming", "exited"}
          /\ main \in {"streaming", "signalling", "stopping", "stopped", "failed"}
          /\ active \in BOOLEAN /\ totalGenerated \in Nat /\ droppedStale \in Nat
      BY DEF RInit
    <2> QED
      BY <2>1, <2>2, <2>3, <2>4, <2>5 DEF RTypeOK
  <1>4. LockDiscipline
    BY DEF RInit, LockDiscipline, InLock, LockingStates
  <1>5. Cardinality(activeTasks) = 0
    BY FS_EmptySet DEF RInit
  <1> QED
    BY <1>3, <1>4, <1>5, Steps
    DEF RInv, RInit, HandNeverPaused, HandOK, ConcurrencyLimit, RoomOK

-----------------------------------------------------------------------------
(* The sample in hand and the pause.                                       *)
LEMMA HandStep ==
    ASSUME RInv, RNext
    PROVE  HandNeverPaused' /\ HandOK'
  <1> USE DEF RInv, HandNeverPaused, HandOK, GoTo, GoLocking, GoReleasing, GoRelocking,
              Suspending, NotifyAll, feedVars, procVars, taskVars, pauseVars, resetVars, endVars
  <1>1. CASE Feed \/ MonitorExits \/ MainWaited \/ MainSignals \/ MainStops
             \/ ResetCalled \/ ResetEnds
    BY <1>1 DEF Feed, MonitorExits, MainWaited, MainSignals, MainStops, ResetCalled, ResetEnds
  <1>2. CASE \E s \in Samples :
               TaskFails(s) \/ TaskEnds(s) \/ \E ok \in BOOLEAN : TaskPut(s, ok)
    BY <1>2 DEF TaskFails, TaskEnds, TaskPut
  <1>3. CASE ResetBegins \/ MonitorResumes
    BY <1>3 DEF ResetBegins, MonitorResumes
  <1>4. CASE ProcSetPaused \/ ProcContinue \/ ProcSubmit
    BY <1>4 DEF ProcSetPaused, ProcContinue, ProcSubmit
  <1>5. CASE ProcReap
    BY <1>5 DEF ProcReap
  <1>6. CASE ProcPark \/ ProcWake
    BY <1>6 DEF ProcPark, ProcWake
  <1>7. ASSUME NEW q \in 0 .. MaxRequiredSamples,
               ProcPause(q) \/ ProcFetch(q) \/ ResetAnswered(q) \/ MonitorDecides(q)
        PROVE  HandNeverPaused' /\ HandOK'
    BY <1>7 DEF ProcPause, ProcFetch, ResetAnswered, MonitorDecides
  <1>8. ASSUME NEW q \in 0 .. MaxRequiredSamples, ProcTake(q)
        PROVE  HandNeverPaused' /\ HandOK'
    <2>1. hand' \in Samples \union {None} /\ hand' = Head(pending)
      BY <1>8 DEF ProcTake, RTypeOK
    <2> QED
      BY <1>8, <2>1 DEF ProcTake
  <1> QED
    BY <1>1, <1>2, <1>3, <1>4, <1>5, <1>6, <1>7, <1>8 DEF RNext

(* The concurrency limit and the room before a submit.                     *)
LEMMA RoomStep ==
    ASSUME RInv, RNext
    PROVE  ConcurrencyLimit' /\ RoomOK'
  <1> USE DEF RInv, ConcurrencyLimit, RoomOK, GoTo, GoLocking, GoReleasing, GoRelocking,
              NotifyAll, feedVars, procVars, taskVars, pauseVars, resetVars, endVars
  <1>1. CASE Feed \/ MonitorExits \/ MainWaited \/ MainSignals \/ MainStops
             \/ ResetCalled \/ ResetEnds \/ ResetBegins \/ MonitorResumes
    BY <1>1 DEF Feed, MonitorExits, MainWaited, MainSignals, MainStops, ResetCalled, ResetEnds,
                ResetBegins, MonitorResumes
  <1>2. CASE \E s \in Samples :
               TaskFails(s) \/ TaskEnds(s) \/ \E ok \in BOOLEAN : TaskPut(s, ok)
    BY <1>2 DEF TaskFails, TaskEnds, TaskPut
  <1>3. CASE ProcSetPaused \/ ProcContinue \/ ProcPark
    BY <1>3 DEF ProcSetPaused, ProcContinue, ProcPark
  <1>4. CASE ProcWake
    BY <1>4 DEF ProcWake, HandOK
  <1>5. CASE ProcReap
    <2>1. activeTasks \in SUBSET Samples /\ activeTasks' \in SUBSET activeTasks
      BY <1>5 DEF ProcReap, RTypeOK
    <2>2. Cardinality(activeTasks') <= Cardinality(activeTasks)
      BY <2>1, SamplesFinite, FS_Subset
    <2>3. Cardinality(activeTasks) \in Nat /\ Cardinality(activeTasks') \in Nat
      BY <2>1, SamplesFinite
    <2>4. ConcurrencyLimit'
      BY <2>2, <2>3, Steps
    <2>5. RoomOK'
      BY <1>5 DEF ProcReap
    <2> QED
      BY <2>4, <2>5
  <1>6. CASE ProcSubmit
    <2>1. /\ activeTasks \in SUBSET Samples /\ proc = "submitting" /\ proc' = "loop"
          /\ activeTasks' = activeTasks \union {hand}
      BY <1>6 DEF ProcSubmit, RTypeOK
    <2>2. IsFiniteSet(activeTasks) /\ Cardinality(activeTasks) \in Nat
      BY <2>1, SamplesFinite
    <2>3. Cardinality(activeTasks')
             \in {Cardinality(activeTasks), Cardinality(activeTasks) + 1}
      BY <2>1, <2>2, FS_AddElement
    <2> QED
      BY <2>1, <2>2, <2>3, Steps
  <1>7. ASSUME NEW q \in 0 .. MaxRequiredSamples,
               ProcPause(q) \/ ProcFetch(q) \/ ResetAnswered(q) \/ MonitorDecides(q)
        PROVE  ConcurrencyLimit' /\ RoomOK'
    BY <1>7 DEF ProcPause, ProcFetch, ResetAnswered, MonitorDecides
  <1>8. ASSUME NEW q \in 0 .. MaxRequiredSamples, ProcTake(q)
        PROVE  ConcurrencyLimit' /\ RoomOK'
    <2>1. Cardinality(activeTasks) \in Nat /\ activeTasks' = activeTasks
      BY <1>8, SamplesFinite DEF ProcTake, RTypeOK
    <2>2. proc' = "submitting" => ~(Cardinality(activeTasks) >= MaxConcurrentSamples)
      BY <1>8 DEF ProcTake
    <2> QED
      BY <2>1, <2>2, Steps
  <1> QED
    BY <1>1, <1>2, <1>3, <1>4, <1>5, <1>6, <1>7, <1>8 DEF RNext

-----------------------------------------------------------------------------
(* The lock: every step leaves it alone, joins its queue, leaves it, or    *)
(* leaves and joins again.                                                 *)

(* LockDiscipline in terms of the queue itself.                            *)
Standing(p) ==
    CASE p = "proc" -> proc \in LockingStates
      [] p = "reset" -> reset # "none"
      [] p = "monitor" -> monitor = "resuming"
      [] p = "main" -> main = "stopping"

LockOK ==
    /\ lock \in Seq(Coroutines)
    /\ Distinct(lock)
    /\ \A p \in Coroutines : In(lock, p) <=> Standing(p)
    /\ reset \in {"asking", "storing"} => HeldBy(lock, "reset")

LEMMA LockDisciplineIsLockOK ==
    lock \in Seq(Coroutines) => (LockDiscipline <=> LockOK)
  BY DEF LockDiscipline, LockOK, Distinct, In, InLock, Holds, HeldBy, Standing, Coroutines

Others(p) == \A r \in Coroutines \ {p} : Standing(r)' <=> Standing(r)

LEMMA LockKept ==
    ASSUME LockOK, UNCHANGED lock,
           \A p \in Coroutines : Standing(p)' <=> Standing(p),
           reset' \in {"asking", "storing"} => Holds("reset")
    PROVE  LockOK'
  BY DEF LockOK, Holds, HeldBy

LEMMA LockJoined ==
    ASSUME LockOK, NEW p \in Coroutines, Acquire(p), ~Standing(p), Standing(p)', Others(p),
           reset' \in {"asking", "storing"} => reset' = reset
    PROVE  LockOK'
  <1>1. ~In(lock, p) /\ lock \in Seq(Coroutines) /\ Distinct(lock)
    BY DEF LockOK
  <1>2. /\ lock' \in Seq(Coroutines) /\ Distinct(lock')
        /\ \A r : In(lock', r) <=> In(lock, r) \/ r = p
        /\ \A r : HeldBy(lock, r) => HeldBy(lock', r)
    BY <1>1, Joining DEF Acquire
  <1>3. \A r \in Coroutines : In(lock', r) <=> Standing(r)'
    BY <1>2 DEF LockOK, Others
  <1> QED
    BY <1>2, <1>3 DEF LockOK

LEMMA LockLeft ==
    ASSUME LockOK, NEW p \in Coroutines, Holds(p), Release, ~Standing(p)', Others(p),
           IF p = "reset" THEN reset' = "none" ELSE reset' = reset
    PROVE  LockOK'
  <1>1. /\ lock' \in Seq(Coroutines) /\ Distinct(lock')
        /\ \A r : In(lock', r) <=> In(lock, r) /\ r # p
    BY Leaving DEF LockOK, Holds, HeldBy, Release
  <1>2. \A r \in Coroutines : In(lock', r) <=> Standing(r)'
    BY <1>1 DEF LockOK, Others
  <1>3. reset' \notin {"asking", "storing"}
    BY DEF LockOK, Holds, HeldBy
  <1> QED
    BY <1>1, <1>2, <1>3 DEF LockOK

LEMMA LockRejoined ==
    ASSUME LockOK, NEW p \in Coroutines, Holds(p), lock' = Append(Tail(lock), p),
           Standing(p)', Others(p), p # "reset", reset' = reset
    PROVE  LockOK'
  <1>1. /\ Tail(lock) \in Seq(Coroutines) /\ Distinct(Tail(lock))
        /\ \A r : In(Tail(lock), r) <=> In(lock, r) /\ r # p
    BY Leaving DEF LockOK, Holds, HeldBy
  <1>2. /\ lock' \in Seq(Coroutines) /\ Distinct(lock')
        /\ \A r : In(lock', r) <=> In(Tail(lock), r) \/ r = p
    BY <1>1, Joining
  <1>3. \A r \in Coroutines : In(lock', r) <=> Standing(r)'
    BY <1>1, <1>2 DEF LockOK, Others
  <1>4. reset' \notin {"asking", "storing"}
    BY DEF LockOK, Holds, HeldBy
  <1> QED
    BY <1>2, <1>3, <1>4 DEF LockOK

LEMMA LockStep ==
    ASSUME RInv, RNext
    PROVE  lock' \in Seq(Coroutines) /\ LockDiscipline'
  <1>1. LockOK
    BY LockDisciplineIsLockOK DEF RInv, RTypeOK, Coroutines
  <1>2. SUFFICES LockOK'
    <2>1. LockOK' => lock' \in Seq(Coroutines)
      BY DEF LockOK
    <2>2. lock' \in Seq(Coroutines) => (LockDiscipline' <=> LockOK')
      BY DEF LockDiscipline, LockOK, Distinct, In, InLock, Holds, HeldBy, Standing, Coroutines
    <2> QED
      BY <2>1, <2>2
  <1> USE <1>1 DEF GoTo, GoLocking, GoReleasing, GoRelocking, NotifyAll, Coroutines,
              Standing, LockingStates, Others,
              feedVars, procVars, taskVars, pauseVars, resetVars, endVars
  (* steps that leave the lock alone *)
  <1>3. CASE Feed \/ MonitorExits \/ MainWaited
    BY <1>3, LockKept DEF Feed, MonitorExits, MainWaited, LockOK, Holds, HeldBy
  <1>4. CASE \E s \in Samples :
               TaskFails(s) \/ TaskEnds(s) \/ \E ok \in BOOLEAN : TaskPut(s, ok)
    BY <1>4, LockKept DEF TaskFails, TaskEnds, TaskPut, LockOK, Holds, HeldBy
  <1>5. CASE ResetBegins
    BY <1>5, LockKept DEF ResetBegins
  <1>6. ASSUME NEW q \in 0 .. MaxRequiredSamples, ProcFetch(q) \/ ResetAnswered(q)
        PROVE  LockOK'
    BY <1>6, LockKept DEF ProcFetch, ResetAnswered, LockOK, Holds, HeldBy
  (* steps that join its queue *)
  <1>7. ASSUME NEW q \in 0 .. MaxRequiredSamples, ProcPause(q)
        PROVE  LockOK'
    BY <1>7, LockJoined DEF ProcPause
  <1>8. ASSUME NEW q \in 0 .. MaxRequiredSamples, ProcTake(q)
        PROVE  LockOK'
    <2>1. proc \in {"loop", "fetching"} /\ UNCHANGED <<reset, monitor, main>>
      BY <1>8 DEF ProcTake
    <2>2. CASE proc' = "ended" /\ UNCHANGED lock
      BY <2>1, <2>2, LockKept DEF LockOK, Holds, HeldBy
    <2>3. CASE proc' \in {"finishing", "limiting", "submitting"} /\ Acquire("proc")
      BY <2>1, <2>3, LockJoined
    <2> QED
      BY <1>8, <2>2, <2>3 DEF ProcTake
  <1>9. ASSUME NEW q \in 0 .. MaxRequiredSamples, MonitorDecides(q)
        PROVE  LockOK'
    BY <1>9, LockJoined DEF MonitorDecides
  <1>10. CASE ProcWake
    BY <1>10, LockJoined DEF ProcWake
  <1>11. CASE ResetCalled
    BY <1>11, LockJoined DEF ResetCalled
  <1>12. CASE MainSignals
    <2>1. CASE proc = "dead"
      BY <1>12, <2>1, LockKept DEF MainSignals, LockOK, Holds, HeldBy
    <2>2. CASE proc # "dead"
      BY <1>12, <2>2, LockJoined DEF MainSignals
    <2> QED
      BY <2>1, <2>2
  (* steps that leave it *)
  <1>13. CASE ProcPark \/ ProcContinue \/ ProcSubmit
    <2>1. /\ Holds("proc") /\ Release /\ proc' \in {"parked", "loop"}
          /\ UNCHANGED <<reset, monitor, main>>
      BY <1>13 DEF ProcPark, ProcContinue, ProcSubmit
    <2> QED
      BY <2>1, LockLeft
  <1>14. CASE ResetEnds
    <2>1. Holds("reset") /\ Release /\ reset' = "none" /\ UNCHANGED <<proc, monitor, main>>
      BY <1>14 DEF ResetEnds, LockOK, Holds, HeldBy
    <2> QED
      BY <2>1, LockLeft
  <1>15. CASE MonitorResumes
    <2>1. /\ Holds("monitor") /\ Release /\ monitor' = "sleeping"
          /\ UNCHANGED <<reset, main>>
          /\ proc' \in LockingStates <=> proc \in LockingStates
      BY <1>15 DEF MonitorResumes
    <2> QED
      BY <2>1, LockLeft
  <1>16. CASE MainStops
    BY <1>16, LockLeft DEF MainStops
  (* steps that leave it and join again *)
  <1>17. CASE ProcSetPaused
    BY <1>17, LockRejoined DEF ProcSetPaused
  <1>18. CASE ProcReap
    <2>1. /\ proc \in {"draining", "limiting", "finishing"} /\ Holds("proc")
          /\ UNCHANGED <<reset, monitor, main>>
      BY <1>18 DEF ProcReap
    <2>2. CASE proc' \in {"dead", "ended"} /\ Release
      BY <2>1, <2>2, LockLeft
    <2>3. CASE /\ proc' \in {"sleeping", "submitting", "draining", "limiting", "finishing"}
               /\ lock' = Append(Tail(lock), "proc")
      BY <2>1, <2>3, LockRejoined
    <2> QED
      BY <1>18, <2>1, <2>2, <2>3 DEF ProcReap
  <1> QED
    BY <1>3, <1>4, <1>5, <1>6, <1>7, <1>8, <1>9, <1>10, <1>11, <1>12, <1>13, <1>14, <1>15,
       <1>16, <1>17, <1>18 DEF RNext

-----------------------------------------------------------------------------
(* The types. The lock's was proved above.                                 *)

FeedTypes ==
    /\ fed \in 0 .. FeedLength
    /\ pending \in Seq(Samples \union {None})
    /\ Len(pending) <= PendingCapacity

TaskTypes ==
    /\ hand \in Samples \union {None}
    /\ activeTasks \subseteq Samples
    /\ task \in [Samples -> TaskState]
    /\ totalGenerated \in Nat
    /\ droppedStale \in Nat

ControlTypes ==
    /\ proc \in ProcState
    /\ reset \in {"none", "locking", "asking", "storing"}
    /\ monitor \in {"sleeping", "resuming", "exited"}
    /\ main \in {"streaming", "signalling", "stopping", "stopped", "failed"}
    /\ active \in BOOLEAN

PauseTypes ==
    /\ paused \in BOOLEAN
    /\ stalenessSamples \in Nat
    /\ resetSum \in Nat

LEMMA TypeParts ==
    RTypeOK <=> /\ FeedTypes /\ TaskTypes /\ ControlTypes /\ PauseTypes
                /\ yielded \in BOOLEAN /\ lock \in Seq(Coroutines)
  BY DEF RTypeOK, FeedTypes, TaskTypes, ControlTypes, PauseTypes, Coroutines

LEMMA FeedTypesStep ==
    ASSUME RInv, RNext
    PROVE  FeedTypes'
  <1>1. FeedTypes
    BY TypeParts DEF RInv
  <1>2. CASE Feed
    <2> DEFINE n == FewerOf(PendingCapacity - Len(pending), FeedLength - fed)
    <2>1. /\ n \in Nat /\ fed \in Nat /\ fed + n <= FeedLength
          /\ Len(pending) + n <= PendingCapacity
      BY <1>1, <1>2, Steps DEF Feed, FeedTypes, FewerOf
    <2>2. /\ pending' = pending \o [i \in 1 .. n |-> Entry(fed + i)]
          /\ fed' = fed + n
      BY <1>2 DEF Feed
    <2> HIDE DEF n
    <2> DEFINE more == [i \in 1 .. n |-> Entry(fed + i)]
    <2>3. more \in Seq(Samples \union {None}) /\ Len(more) = n
      BY <2>1, Stretch
    <2> HIDE DEF more
    <2>4. pending' = pending \o more
      BY <2>2 DEF more
    <2>5. pending' \in Seq(Samples \union {None}) /\ Len(pending') = Len(pending) + n
      BY <1>1, <2>3, <2>4, ConcatProperties DEF FeedTypes
    <2> QED
      BY <2>1, <2>2, <2>5, Steps DEF FeedTypes
  <1>3. ASSUME NEW q \in 0 .. MaxRequiredSamples, ProcTake(q)
        PROVE  FeedTypes'
    <2>1. pending # << >> /\ pending' = Tail(pending) /\ fed' = fed
      BY <1>3 DEF ProcTake
    <2>2. pending' \in Seq(Samples \union {None}) /\ Len(pending') = Len(pending) - 1
      BY <1>1, <2>1 DEF FeedTypes
    <2>3. Len(pending) \in Nat
      BY <1>1 DEF FeedTypes
    <2> QED
      BY <1>1, <2>1, <2>2, <2>3, Steps DEF FeedTypes
  <1>4. ASSUME ~Feed, \A q \in 0 .. MaxRequiredSamples : ~ProcTake(q)
        PROVE  UNCHANGED feedVars
    BY <1>4 DEF RNext, ProcSetPaused, ProcReap, ProcPark, ProcWake, ProcContinue, ProcSubmit,
                ResetCalled, ResetBegins, ResetEnds, MonitorResumes, MonitorExits,
                MainWaited, MainSignals, MainStops, ProcPause, ProcFetch, ResetAnswered,
                MonitorDecides, TaskFails, TaskEnds, TaskPut
  <1>5. CASE UNCHANGED feedVars
    BY <1>1, <1>5 DEF feedVars, FeedTypes
  <1> QED
    BY <1>2, <1>3, <1>4, <1>5

LEMMA TaskTypesStep ==
    ASSUME RInv, RNext
    PROVE  TaskTypes'
  <1>1. TaskTypes /\ FeedTypes
    BY TypeParts DEF RInv
  <1>2. ASSUME NEW s \in Samples,
               TaskFails(s) \/ TaskEnds(s) \/ \E ok \in BOOLEAN : TaskPut(s, ok)
        PROVE  TaskTypes'
    <2>1. UNCHANGED <<hand, activeTasks>>
      BY <1>2 DEF TaskFails, TaskEnds, TaskPut, procVars
    <2>2. task' \in [Samples -> TaskState]
      BY <1>1, <1>2 DEF TaskFails, TaskEnds, TaskPut, TaskTypes, TaskState
    <2>3. totalGenerated' \in Nat /\ droppedStale' \in Nat
      BY <1>1, <1>2 DEF TaskFails, TaskEnds, TaskPut, TaskTypes
    <2> QED
      BY <1>1, <2>1, <2>2, <2>3 DEF TaskTypes
  <1>3. CASE ProcReap
    BY <1>1, <1>3 DEF ProcReap, TaskTypes, taskVars
  <1>4. CASE ProcSubmit
    <2>1. hand \in Samples
      BY <1>4 DEF ProcSubmit, RInv, HandOK
    <2> QED
      BY <1>1, <1>4, <2>1 DEF ProcSubmit, TaskTypes, TaskState
  <1>5. ASSUME NEW q \in 0 .. MaxRequiredSamples, ProcTake(q)
        PROVE  TaskTypes'
    <2>1. Head(pending) \in Samples \union {None}
      BY <1>1, <1>5 DEF ProcTake, FeedTypes
    <2> QED
      BY <1>1, <1>5, <2>1 DEF ProcTake, TaskTypes, taskVars
  <1>6. ASSUME ~ProcReap, ~ProcSubmit, \A q \in 0 .. MaxRequiredSamples : ~ProcTake(q),
               \A s \in Samples :
                  ~TaskFails(s) /\ ~TaskEnds(s) /\ \A ok \in BOOLEAN : ~TaskPut(s, ok)
        PROVE  UNCHANGED <<hand, activeTasks, taskVars>>
    BY <1>6 DEF RNext, Feed, ProcSetPaused, ProcPark, ProcWake, ProcContinue,
                ResetCalled, ResetBegins, ResetEnds, MonitorResumes, MonitorExits,
                MainWaited, MainSignals, MainStops, ProcPause, ProcFetch, ResetAnswered,
                MonitorDecides, procVars
  <1>7. CASE UNCHANGED <<hand, activeTasks, taskVars>>
    BY <1>1, <1>7 DEF TaskTypes, taskVars
  <1> QED
    BY <1>2, <1>3, <1>4, <1>5, <1>6, <1>7

LEMMA ControlTypesStep ==
    ASSUME RInv, RNext
    PROVE  ControlTypes'
  <1>1. ControlTypes
    BY TypeParts DEF RInv
  <1> USE DEF ControlTypes, ProcState, GoTo, GoLocking, GoReleasing, GoRelocking, NotifyAll,
              procVars, resetVars, endVars
  <1>2. CASE Feed \/ MonitorExits \/ MainWaited \/ MainSignals \/ MainStops
             \/ ResetCalled \/ ResetEnds
    BY <1>1, <1>2 DEF Feed, MonitorExits, MainWaited, MainSignals, MainStops, ResetCalled,
                      ResetEnds
  <1>3. CASE ResetBegins \/ MonitorResumes
    BY <1>1, <1>3 DEF ResetBegins, MonitorResumes
  <1>4. ASSUME NEW s \in Samples,
               TaskFails(s) \/ TaskEnds(s) \/ \E ok \in BOOLEAN : TaskPut(s, ok)
        PROVE  ControlTypes'
    BY <1>1, <1>4 DEF TaskFails, TaskEnds, TaskPut
  <1>5. CASE ProcSetPaused \/ ProcPark \/ ProcContinue \/ ProcSubmit
    <2>1. UNCHANGED <<reset, monitor, main, active>>
      BY <1>5 DEF ProcSetPaused, ProcPark, ProcContinue, ProcSubmit
    <2>2. proc' \in {"draining", "sleeping", "parked", "loop"}
      BY <1>5 DEF ProcSetPaused, ProcPark, ProcContinue, ProcSubmit
    <2> QED
      BY <1>1, <2>1, <2>2
  <1>6. CASE ProcWake
    BY <1>1, <1>6 DEF ProcWake
  <1>7. CASE ProcReap
    BY <1>1, <1>7 DEF ProcReap
  <1>8. ASSUME NEW q \in 0 .. MaxRequiredSamples,
               ProcPause(q) \/ ProcFetch(q) \/ ResetAnswered(q) \/ MonitorDecides(q)
        PROVE  ControlTypes'
    BY <1>1, <1>8 DEF ProcPause, ProcFetch, ResetAnswered, MonitorDecides
  <1>9. ASSUME NEW q \in 0 .. MaxRequiredSamples, ProcTake(q)
        PROVE  ControlTypes'
    BY <1>1, <1>9 DEF ProcTake
  <1> QED
    BY <1>2, <1>3, <1>4, <1>5, <1>6, <1>7, <1>8, <1>9 DEF RNext

(* The processor's four ways to move on all set yielded to a truth value.  *)
LEMMA Moving ==
    ASSUME NEW pc
    PROVE  GoTo(pc) \/ GoLocking(pc) \/ GoReleasing(pc) \/ GoRelocking(pc)
              => yielded' \in BOOLEAN
  <1>1. ASSUME NEW b, b \in BOOLEAN, yielded' = b PROVE yielded' \in BOOLEAN
    BY <1>1
  <1>2. (pc \in Suspending) \in BOOLEAN
    OBVIOUS
  <1>3. (pc \in Suspending \/ lock # << >>) \in BOOLEAN
    BY Zenon
  <1>4. (pc \in Suspending \/ Len(lock) > 1) \in BOOLEAN
    BY Zenon
  <1> QED
    BY <1>1, <1>2, <1>3, <1>4, Zenon DEF GoTo, GoLocking, GoReleasing, GoRelocking

LEMMA YieldedStep ==
    ASSUME RInv, RNext
    PROVE  yielded' \in BOOLEAN
  <1>1. yielded \in BOOLEAN
    BY DEF RInv, RTypeOK
  <1>2. CASE ProcSetPaused
    BY <1>2, Moving DEF ProcSetPaused
  <1>3. CASE ProcReap
    BY <1>3, Moving DEF ProcReap
  <1>4. CASE ProcPark \/ ProcContinue \/ ProcSubmit
    BY <1>4, Moving DEF ProcPark, ProcContinue, ProcSubmit
  <1>5. CASE ProcWake
    BY <1>5, Moving DEF ProcWake
  <1>6. ASSUME NEW q \in 0 .. MaxRequiredSamples, ProcPause(q) \/ ProcFetch(q)
        PROVE  yielded' \in BOOLEAN
    BY <1>6, Moving DEF ProcPause, ProcFetch
  <1>7. ASSUME NEW q \in 0 .. MaxRequiredSamples, ProcTake(q)
        PROVE  yielded' \in BOOLEAN
    BY <1>7, Moving DEF ProcTake
  <1>8. ASSUME ~ProcSetPaused, ~ProcReap, ~ProcPark, ~ProcContinue, ~ProcSubmit, ~ProcWake,
               \A q \in 0 .. MaxRequiredSamples : ~ProcPause(q) /\ ~ProcFetch(q) /\ ~ProcTake(q)
        PROVE  UNCHANGED yielded
    BY <1>8 DEF RNext, Feed, ResetCalled, ResetBegins, ResetEnds, MonitorResumes, MonitorExits,
                MainWaited, MainSignals, MainStops, ResetAnswered, MonitorDecides, TaskFails,
                TaskEnds, TaskPut, NotifyAll, procVars
  <1> QED
    BY <1>1, <1>2, <1>3, <1>4, <1>5, <1>6, <1>7, <1>8

LEMMA PauseTypesStep ==
    ASSUME RInv, RNext
    PROVE  PauseTypes'
  <1>1. PauseTypes /\ activeTasks \subseteq Samples
    BY TypeParts DEF RInv, TaskTypes
  <1>2. Cardinality(activeTasks) \in Nat
    BY <1>1, SamplesFinite
  <1>3. CASE ResetBegins \/ ResetEnds \/ MonitorResumes \/ ProcSetPaused
    <2>1. CASE ResetBegins
      BY <1>1, <1>2, <2>1 DEF ResetBegins, PauseTypes
    <2>2. CASE ResetEnds
      BY <1>1, <2>2 DEF ResetEnds, PauseTypes
    <2>3. CASE MonitorResumes
      BY <1>1, <2>3 DEF MonitorResumes, PauseTypes, resetVars
    <2>4. CASE ProcSetPaused
      BY <1>1, <2>4 DEF ProcSetPaused, PauseTypes, resetVars
    <2> QED
      BY <1>3, <2>1, <2>2, <2>3, <2>4
  <1>4. ASSUME NEW q \in 0 .. MaxRequiredSamples, ResetAnswered(q) \/ ProcTake(q)
        PROVE  PauseTypes'
    <2>1. q \in Nat
      BY Steps
    <2> QED
      BY <1>1, <1>4, <2>1 DEF ResetAnswered, ProcTake, PauseTypes, pauseVars, resetVars
  <1>5. ASSUME ~ResetBegins, ~ResetEnds, ~MonitorResumes, ~ProcSetPaused,
               \A q \in 0 .. MaxRequiredSamples : ~ResetAnswered(q) /\ ~ProcTake(q)
        PROVE  UNCHANGED <<pauseVars, resetSum>>
    BY <1>5 DEF RNext, Feed, ProcReap, ProcPark, ProcWake, ProcContinue, ProcSubmit,
                ResetCalled, MonitorExits, MainWaited, MainSignals, MainStops, ProcPause,
                ProcFetch, MonitorDecides, TaskFails, TaskEnds, TaskPut, resetVars
  <1>6. CASE UNCHANGED <<pauseVars, resetSum>>
    BY <1>1, <1>6 DEF PauseTypes, pauseVars
  <1> QED
    BY <1>3, <1>4, <1>5, <1>6

-----------------------------------------------------------------------------
LEMMA RStepInv == RInv /\ [RNext]_rolloutVars => RInv'
  <1>1. ASSUME RInv, RNext PROVE RInv'
    <2>1. /\ FeedTypes' /\ TaskTypes' /\ ControlTypes' /\ PauseTypes'
          /\ yielded' \in BOOLEAN /\ lock' \in Seq(Coroutines)
      BY <1>1, FeedTypesStep, TaskTypesStep, ControlTypesStep, PauseTypesStep,
         YieldedStep, LockStep
    <2>2. RTypeOK'
      BY <2>1 DEF RTypeOK, FeedTypes, TaskTypes, ControlTypes, PauseTypes, Coroutines
    <2> QED
      BY <1>1, <2>2, LockStep, HandStep, RoomStep DEF RInv
  <1>2. ASSUME RInv, UNCHANGED rolloutVars PROVE RInv'
    BY <1>2
    DEF RInv, RTypeOK, LockDiscipline, InLock, Holds, HandNeverPaused, HandOK,
        ConcurrencyLimit, RoomOK, rolloutVars, feedVars, procVars, taskVars, pauseVars,
        resetVars, endVars
  <1> QED
    BY <1>1, <1>2

LEMMA RInvariance == RSpec => []RInv
  <1>1. RInit => RInv
    BY InitRInv
  <1>2. RInv /\ [RNext]_rolloutVars => RInv'
    BY RStepInv
  <1> QED
    BY <1>1, <1>2, PTL DEF RSpec

(* The rollouter's state keeps its types.                                  *)
THEOREM RolloutTypeCorrect == RSpec => []RTypeOK
  <1>1. RInv => RTypeOK
    BY DEF RInv
  <1> QED
    BY <1>1, RInvariance, PTL

(* The lock is never left held, taken twice or asked for twice, and        *)
(* reset_staleness keeps it across its await (rollouter:242-246).          *)
THEOREM LockUsedCorrectly == RSpec => []LockDiscipline
  <1>1. RInv => LockDiscipline
    BY DEF RInv
  <1> QED
    BY <1>1, RInvariance, PTL

(* A sample in hand is never held back by a pause: the condition wait      *)
(* before a submit (rollouter:490-493) is dead code.                       *)
THEOREM NoPauseWithSampleInHand == RSpec => []HandNeverPaused
  <1>1. RInv => HandNeverPaused
    BY DEF RInv
  <1> QED
    BY <1>1, RInvariance, PTL

(* max_concurrent_samples is never exceeded, whatever the limit and        *)
(* however the coroutines interleave (rollouter:479-498).                  *)
THEOREM ConcurrencyBounded == RSpec => []ConcurrencyLimit
  <1>1. RInv => ConcurrencyLimit
    BY DEF RInv
  <1> QED
    BY <1>1, RInvariance, PTL

-----------------------------------------------------------------------------
(* Every sample once. The strengthening: the pending queue is the stretch  *)
(* of the feed that ends with the last entry fed, the sample in hand is    *)
(* the entry just before it, and a sample has no task exactly if it is in  *)
(* hand or comes later in the feed.                                        *)
Taken == fed - Len(pending)

FeedShape ==
    /\ Len(pending) <= fed
    /\ \A i \in 1 .. Len(pending) : pending[i] = Entry(Taken + i)
    /\ hand # None => hand = FirstStep + Taken - 1
    /\ \A s \in Samples : task[s] = "none" <=> s = hand \/ s >= FirstStep + Taken

LEMMA FeedShapeInit == RInit => FeedShape
  <1> SUFFICES ASSUME RInit PROVE FeedShape
    OBVIOUS
  <1>1. fed \in Nat /\ Len(pending) = fed /\ Taken = 0
    BY Steps DEF RInit, FewerOf, Taken
  <1>2. \A i \in 1 .. Len(pending) : pending[i] = Entry(Taken + i)
    BY <1>1 DEF RInit
  <1> QED
    BY <1>1, <1>2, Steps DEF RInit, FeedShape, Samples

LEMMA FeedShapeStep ==
    ASSUME RInv, RInv', FeedShape, [RNext]_rolloutVars
    PROVE  FeedShape'
  <1>1. /\ fed \in Nat /\ fed <= FeedLength
        /\ pending \in Seq(Samples \union {None})
        /\ Len(pending) \in Nat /\ Taken \in Nat
        /\ task \in [Samples -> TaskState]
    <2>1. /\ fed \in Nat /\ fed <= FeedLength /\ pending \in Seq(Samples \union {None})
          /\ task \in [Samples -> TaskState]
      BY Steps DEF RInv, RTypeOK
    <2> QED
      BY <2>1 DEF FeedShape, Taken
  <1>2. CASE Feed
    <2> DEFINE n == FewerOf(PendingCapacity - Len(pending), FeedLength - fed)
               more == [i \in 1 .. n |-> Entry(fed + i)]
    <2>1. n \in Nat /\ fed + n <= FeedLength
      BY <1>1, <1>2, Steps DEF Feed, FewerOf
    <2>2. pending' = pending \o more /\ fed' = fed + n /\ UNCHANGED <<hand, task>>
      BY <1>2 DEF Feed, procVars, taskVars
    <2>3. more \in Seq(Samples \union {None}) /\ Len(more) = n
      BY <1>1, <2>1, Stretch
    <2>4. \A i \in 1 .. n : more[i] = Entry(fed + i)
      OBVIOUS
    <2> HIDE DEF n, more
    <2>5. Len(pending') = Len(pending) + n
      BY <1>1, <2>2, <2>3, ConcatProperties
    <2>6. Taken' = Taken /\ Len(pending') <= fed'
      BY <1>1, <2>1, <2>2, <2>5 DEF Taken, FeedShape
    <2>7. ASSUME NEW i \in 1 .. Len(pending')
          PROVE  pending'[i] = Entry(Taken + i)
      <3>1. CASE i <= Len(pending)
        <4>1. pending'[i] = pending[i]
          BY <1>1, <2>2, <2>3, <3>1, ConcatProperties
        <4> QED
          BY <1>1, <3>1, <4>1 DEF FeedShape
      <3>2. CASE i > Len(pending)
        <4>1. pending'[i] = more[i - Len(pending)]
          BY <1>1, <2>2, <2>3, <2>5, <3>2, ConcatProperties
        <4>2. i - Len(pending) \in 1 .. n
          BY <1>1, <2>1, <2>5, <3>2
        <4>3. fed + (i - Len(pending)) = Taken + i
          BY <1>1 DEF Taken
        <4> QED
          BY <2>4, <4>1, <4>2, <4>3
      <3> QED
        BY <1>1, <3>1, <3>2
    <2> QED
      BY <2>2, <2>6, <2>7 DEF FeedShape
  <1>3. ASSUME NEW q \in 0 .. MaxRequiredSamples, ProcTake(q)
        PROVE  FeedShape'
    <2>1. /\ pending # << >> /\ pending' = Tail(pending) /\ hand' = Head(pending)
          /\ UNCHANGED <<fed, task>> /\ hand = None
      BY <1>3 DEF ProcTake, taskVars, RInv, HandOK
    <2>2. /\ Len(pending) >= 1 /\ Len(pending') = Len(pending) - 1
          /\ Head(pending) = pending[1]
          /\ \A i \in 1 .. Len(pending) - 1 : Tail(pending)[i] = pending[i + 1]
      BY <1>1, <2>1
    <2>3. Taken' = Taken + 1 /\ Len(pending') <= fed'
      BY <1>1, <2>1, <2>2 DEF Taken, FeedShape
    <2>4. ASSUME NEW i \in 1 .. Len(pending')
          PROVE  pending'[i] = Entry(Taken' + i)
      <3>1. i + 1 \in 1 .. Len(pending) /\ pending'[i] = pending[i + 1]
        BY <1>1, <2>1, <2>2
      <3>2. Taken + (i + 1) = Taken' + i
        BY <1>1, <2>3
      <3> QED
        BY <3>1, <3>2 DEF FeedShape
    <2>5. hand' = Entry(Taken + 1) /\ Taken + 1 <= FeedLength
      <3>1. pending[1] = Entry(Taken + 1)
        BY <1>1, <2>2 DEF FeedShape
      <3>2. Taken + 1 <= fed /\ FeedLength \in Int
        BY <1>1, <2>2, Steps DEF Taken, FeedLength
      <3> QED
        BY <1>1, <2>1, <2>2, <3>1, <3>2
    <2>6. /\ hand' # None => hand' = FirstStep + Taken' - 1
          /\ hand' = None => Taken' = FeedLength
      BY <1>1, <2>3, <2>5, Steps, NoneAssumption DEF Entry, FeedLength, Samples
    <2>7. ASSUME NEW s \in Samples
          PROVE  task'[s] = "none" <=> s = hand' \/ s >= FirstStep + Taken'
      <3>1. task'[s] = "none" <=> s >= FirstStep + Taken
        BY <2>1, NoneAssumption DEF FeedShape
      <3>2. s \in Nat /\ s <= LastStep /\ s # None
        BY Steps, NoneAssumption DEF Samples
      <3>3. CASE hand' = None
        BY <1>1, <2>3, <2>6, <3>1, <3>2, <3>3, Steps DEF FeedLength
      <3>4. CASE hand' # None
        BY <1>1, <2>3, <2>6, <3>1, <3>2, <3>4, Steps
      <3> QED
        BY <3>3, <3>4
    <2> QED
      BY <2>3, <2>4, <2>6, <2>7 DEF FeedShape
  <1>4. CASE ProcSubmit
    <2>1. /\ hand \in Samples /\ hand' = None
          /\ task' = [task EXCEPT ![hand] = "generating"]
          /\ UNCHANGED <<fed, pending>>
      BY <1>4 DEF ProcSubmit, feedVars, RInv, HandOK
    <2>2. hand = FirstStep + Taken - 1 /\ hand # None
      BY <2>1, NoneAssumption DEF FeedShape
    <2>3. ASSUME NEW s \in Samples
          PROVE  task'[s] = "none" <=> s = hand' \/ s >= FirstStep + Taken
      BY <1>1, <2>1, <2>2, Steps, NoneAssumption DEF FeedShape, TaskState
    <2> QED
      BY <2>1, <2>3 DEF FeedShape, Taken
  <1>5. ASSUME NEW s \in Samples,
               TaskFails(s) \/ TaskEnds(s) \/ \E ok \in BOOLEAN : TaskPut(s, ok)
        PROVE  FeedShape'
    <2>1. UNCHANGED <<fed, pending, hand>>
      BY <1>5 DEF TaskFails, TaskEnds, TaskPut, feedVars, procVars
    <2>2. \A r \in Samples : task'[r] = "none" <=> task[r] = "none"
      BY <1>1, <1>5 DEF TaskFails, TaskEnds, TaskPut
    <2> QED
      BY <2>1, <2>2 DEF FeedShape, Taken
  <1>6. ASSUME ~Feed, ~ProcSubmit, \A q \in 0 .. MaxRequiredSamples : ~ProcTake(q),
               \A s \in Samples :
                  ~TaskFails(s) /\ ~TaskEnds(s) /\ \A ok \in BOOLEAN : ~TaskPut(s, ok)
        PROVE  UNCHANGED <<fed, pending, hand, task>>
    BY <1>6 DEF RNext, ProcSetPaused, ProcReap, ProcPark, ProcWake, ProcContinue,
                ResetCalled, ResetBegins, ResetEnds, MonitorResumes, MonitorExits,
                MainWaited, MainSignals, MainStops, ProcPause, ProcFetch, ResetAnswered,
                MonitorDecides, procVars, feedVars, taskVars, rolloutVars
  <1>7. CASE UNCHANGED <<fed, pending, hand, task>>
    BY <1>7 DEF FeedShape, Taken
  <1> QED
    BY <1>2, <1>3, <1>4, <1>5, <1>6, <1>7

LEMMA ShapeGivesOnce == RInv /\ FeedShape => EachSampleOnce
  <1> SUFFICES ASSUME RInv, FeedShape, NEW s \in Samples
               PROVE  task[s] = "none" <=> s = hand \/ s \in Pending \/ s >= FirstStep + fed
    BY DEF EachSampleOnce
  <1>1. /\ fed \in Nat /\ fed <= FeedLength /\ Len(pending) \in Nat /\ Taken \in Nat
        /\ DOMAIN pending = 1 .. Len(pending)
    <2>1. fed \in Nat /\ fed <= FeedLength /\ pending \in Seq(Samples \union {None})
      BY Steps DEF RInv, RTypeOK
    <2> QED
      BY <2>1 DEF FeedShape, Taken
  <1>2. s \in Nat /\ s <= LastStep /\ s # None
    BY Steps, NoneAssumption DEF Samples
  <1>3. ASSUME s \in Pending PROVE s >= FirstStep + Taken
    <2>1. PICK i \in 1 .. Len(pending) : pending[i] = s
      BY <1>1, <1>3 DEF Pending
    <2>2. s = Entry(Taken + i)
      BY <2>1 DEF FeedShape
    <2> QED
      BY <1>1, <1>2, <2>1, <2>2, Steps DEF Entry
  <1>4. ASSUME s >= FirstStep + Taken, s < FirstStep + fed PROVE s \in Pending
    <2> DEFINE i == s - FirstStep - Taken + 1
    <2>1. i \in 1 .. Len(pending) /\ Taken + i = s - FirstStep + 1
      BY <1>1, <1>2, <1>4, Steps DEF Taken
    <2>2. Taken + i # FeedLength /\ FirstStep + (Taken + i) - 1 = s
      BY <1>2, <2>1, Steps DEF FeedLength
    <2>3. pending[i] = s
      BY <2>1, <2>2 DEF FeedShape, Entry
    <2> QED
      BY <1>1, <2>1, <2>3 DEF Pending
  <1>5. s >= FirstStep + fed => s >= FirstStep + Taken
    BY <1>1, <1>2, Steps DEF Taken
  <1> QED
    BY <1>1, <1>2, <1>3, <1>4, <1>5, Steps DEF FeedShape

(* Every sample handed out by the feed is pending, in hand or has had one  *)
(* task, for every capacity of the pending queue (rollouter:400-431, 457). *)
THEOREM SamplesOnce == RSpec => []EachSampleOnce
  <1>1. RInit => FeedShape
    BY FeedShapeInit
  <1>2. RInv /\ RInv' /\ FeedShape /\ [RNext]_rolloutVars => FeedShape'
    BY FeedShapeStep
  <1>3. RInv /\ FeedShape => EachSampleOnce
    BY ShapeGivesOnce
  <1> QED
    BY <1>1, <1>2, <1>3, RInvariance, PTL DEF RSpec
=============================================================================
