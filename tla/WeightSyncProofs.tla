-------------------------- MODULE WeightSyncProofs --------------------------
(***************************************************************************)
(* Theorems about weight updates under running generations, for every      *)
(* number of requests, replicas and updates and every setting.             *)
(***************************************************************************)
EXTENDS WeightSync, TLAPS

(* What a replica holds is whole, is version v, and it says so.            *)
Whole(p, v) == ~loading[p] /\ weights[p] = v /\ steps[p] = v

(* Where the update stands says what every replica holds and which of them *)
(* are paused, as long as no abort let a generation through.               *)
Stages ==
    /\ phase # "idle" => version > 0
    /\ ~leaky =>
       /\ config.pausing
       /\ \A p \in Replicas :
            /\ phase = "idle" => ~paused[p] /\ Whole(p, version)
            /\ phase = "abort" => Whole(p, version - 1) /\ (paused[p] <=> p \notin awaited)
            /\ phase = "sleep" => Whole(p, version - 1) /\ paused[p]
            /\ phase = "transfer" =>
                 /\ paused[p]
                 /\ IF p \in awaited THEN steps[p] = version - 1 ELSE Whole(p, version)
                 /\ loading[p] => weights[p] # version
            /\ phase = "resume" => Whole(p, version) /\ (paused[p] <=> p \in awaited)

(* Only what a replica admitted runs on it, and what it has made so far is *)
(* of the version it holds.                                                *)
RunsAdmitted ==
    \A r \in Requests :
       /\ call[r] # "running" => fresh[r] = <<>>
       /\ ~leaky /\ call[r] = "running" =>
            /\ ~paused[at[r]]
            /\ \A k \in DOMAIN fresh[r] : fresh[r][k] = weights[at[r]]

(* The stamps of a call are versions no replica has yet gone back from.    *)
Stamped ==
    \A r \in Requests :
       IF minSteps[r] = None THEN maxSteps[r] = None /\ kept[r] = <<>>
       ELSE /\ maxSteps[r] # None
            /\ ~leaky => /\ minSteps[r] <= maxSteps[r]
                         /\ \A p \in Replicas : maxSteps[r] <= steps[p]

IInv == SyncTypeOK /\ Stages /\ RunsAdmitted /\ Stamped /\ StampsCover /\ RoomLeft

---------------------------------------------------------------------------
(* What the end of some generations does to each call.                     *)
Unchanged(r) ==
    /\ kept'[r] = kept[r] /\ fresh'[r] = fresh[r] /\ call'[r] = call[r]
    /\ minSteps'[r] = minSteps[r] /\ maxSteps'[r] = maxSteps[r]

Ends(r, segment, reason) ==
    /\ kept'[r] = kept[r] \o segment
    /\ fresh'[r] = <<>>
    /\ minSteps'[r] = IF minSteps[r] = None THEN steps[at[r]] ELSE minSteps[r]
    /\ maxSteps'[r] = steps[at[r]]
    /\ call'[r] \in {"ready", "done"}
    /\ call'[r] = "ready" => reason = "aborted" /\ ~Full(Len(kept[r]) + Len(segment))

LEMMA Returned ==
    ASSUME SyncTypeOK, NEW S \in SUBSET Requests,
           NEW segments \in [Requests -> Seq(Nat \cup {Torn})],
           NEW reason \in {"completed", "aborted"},
           Return(S, segments, reason)
    PROVE  /\ kept' \in [Requests -> Seq(Nat \cup {Torn})]
           /\ fresh' \in [Requests -> Seq(Nat \cup {Torn})]
           /\ minSteps' \in [Requests -> Nat \cup {None}]
           /\ maxSteps' \in [Requests -> Nat \cup {None}]
           /\ stop' \in [Requests -> StopReason]
           /\ call' \in [Requests -> CallState]
           /\ \A r \in Requests \ S : Unchanged(r)
           /\ \A r \in S : Ends(r, segments[r], reason)
<1>1. \A r \in Requests : kept[r] \o segments[r] \in Seq(Nat \cup {Torn})
  BY DEF SyncTypeOK
<1>2. \A r \in Requests : steps[at[r]] \in Nat
  BY SyncAssumption DEF SyncTypeOK
<1>3. kept' \in [Requests -> Seq(Nat \cup {Torn})]
  BY <1>1 DEF Return, SyncTypeOK
<1>4. fresh' \in [Requests -> Seq(Nat \cup {Torn})]
  BY DEF Return, SyncTypeOK
<1>5. /\ minSteps' \in [Requests -> Nat \cup {None}]
      /\ maxSteps' \in [Requests -> Nat \cup {None}]
  BY <1>2 DEF Return, SyncTypeOK
<1>6. /\ stop' \in [Requests -> StopReason]
      /\ call' \in [Requests -> CallState]
  BY DEF Return, SyncTypeOK, StopReason, CallState
<1>7. ASSUME NEW r \in Requests \ S PROVE Unchanged(r)
  BY DEF Return, Unchanged
<1>8. ASSUME NEW r \in S PROVE Ends(r, segments[r], reason)
  BY DEF Return, Ends
<1> QED
  BY <1>3, <1>4, <1>5, <1>6, <1>7, <1>8

(* A gather that is answered: its phase goes on, or waits for the others.  *)
LEMMA GatherAnswered ==
    ASSUME NEW p \in Replicas, NEW next \in Phase, Answered(p, next),
           phase \in Phase, p \in awaited, awaited \subseteq Replicas
    PROVE  /\ phase' \in Phase /\ awaited' \subseteq Replicas
           /\ \/ /\ phase' = next /\ awaited \subseteq {p}
                 /\ awaited' = IF next = "idle" THEN {} ELSE Replicas
              \/ phase' = phase /\ awaited' = awaited \ {p}
BY DEF Answered

---------------------------------------------------------------------------
LEMMA InitIInv == Init => IInv
<1> SUFFICES ASSUME Init PROVE IInv
  OBVIOUS
<1>1. (CHOOSE p \in Replicas : TRUE) \in Replicas
  BY SyncAssumption
<1>2. /\ config \in Configuration
      /\ config.pausing \in BOOLEAN /\ config.maxTokens \in (Nat \ {0}) \cup {NoLimit}
  BY SyncAssumption DEF Init, Configuration
<1>3. SyncTypeOK
  <2>1. /\ at \in [Requests -> Replicas] /\ 0 \in 0..MaxSyncs
    BY <1>1, SyncAssumption DEF Init
  <2> QED
    BY <1>2, <2>1 DEF Init, SyncTypeOK, CallState, Phase, StopReason
<1>4. Stages
  BY <1>2 DEF Init, Stages, Whole
<1>5. RunsAdmitted /\ Stamped /\ StampsCover
  BY DEF Init, RunsAdmitted, Stamped, StampsCover
<1>6. RoomLeft
  <2> SUFFICES ASSUME NEW r \in Requests
               PROVE  /\ Room(r) > Len(fresh[r])
                      /\ Len(kept[r]) <= IF config.maxTokens # NoLimit THEN config.maxTokens
                                         ELSE PromptSlack + ResponseLength
    BY DEF RoomLeft
  <2>1. kept[r] = <<>> /\ fresh[r] = <<>> /\ Len(<<>>) = 0
    BY DEF Init
  <2> QED
    BY <1>2, <2>1, SyncAssumption DEF Room
<1> QED
  BY <1>3, <1>4, <1>5, <1>6 DEF IInv

---------------------------------------------------------------------------
(* Steps that only calls take.                                             *)
CallsOnly == UNCHANGED <<config, engineVars, managerVars>>

LEMMA CallsKeepStages == Stages /\ CallsOnly => Stages'
BY DEF CallsOnly, Stages, Whole, engineVars, managerVars

(* While calls change, those whose record is unchanged stay as they were.  *)
LEMMA SendStep ==
    ASSUME IInv, NEW r \in Requests, NEW p \in Replicas, Send(r, p)
    PROVE  IInv'
<1>1. SyncTypeOK'
  BY DEF IInv, Send, SyncTypeOK, CallState, engineVars, managerVars
<1>2. Stages'
  BY CallsKeepStages DEF IInv, Send, CallsOnly
<1>3. RunsAdmitted'
  BY DEF IInv, Send, RunsAdmitted, SyncTypeOK, engineVars, managerVars
<1>4. Stamped' /\ StampsCover'
  BY DEF IInv, Send, Stamped, StampsCover, engineVars, managerVars
<1>5. RoomLeft'
  BY DEF IInv, Send, RoomLeft, Room, SyncTypeOK
<1> QED
  BY <1>1, <1>2, <1>3, <1>4, <1>5 DEF IInv

LEMMA StartStep ==
    ASSUME IInv, NEW r \in Requests, Start(r)
    PROVE  IInv'
<1>1. SyncTypeOK'
  BY DEF IInv, Start, SyncTypeOK, CallState, engineVars, managerVars
<1>2. Stages'
  BY CallsKeepStages DEF IInv, Start, CallsOnly
<1>3. RunsAdmitted'
  BY DEF IInv, Start, RunsAdmitted, SyncTypeOK, engineVars, managerVars
<1>4. Stamped' /\ StampsCover'
  BY DEF IInv, Start, Stamped, StampsCover, engineVars, managerVars
<1>5. RoomLeft'
  BY DEF IInv, Start, RoomLeft, Room, SyncTypeOK
<1> QED
  BY <1>1, <1>2, <1>3, <1>4, <1>5 DEF IInv

---------------------------------------------------------------------------
(* Elements and length of a sequence that was extended.                    *)
LEMMA Concatenation ==
    ASSUME NEW T, NEW s \in Seq(T), NEW t \in Seq(T)
    PROVE  /\ Len(s \o t) = Len(s) + Len(t)
           /\ \A k \in 1..Len(s) : (s \o t)[k] = s[k]
           /\ \A k \in 1..Len(t) : (s \o t)[Len(s) + k] = t[k]
           /\ DOMAIN (s \o t) = 1..Len(s) + Len(t)
OBVIOUS

(* Where a replica admits requests, all replicas say the version it holds. *)
LEMMA OneVersion ==
    ASSUME SyncTypeOK, Stages, ~leaky, NEW p \in Replicas, ~paused[p]
    PROVE  /\ ~loading[p]
           /\ \A q \in Replicas : steps[q] = weights[p] /\ weights[q] = weights[p]
BY DEF SyncTypeOK, Stages, Whole, Phase

(* What a budget leaves after a segment that was shorter than it.          *)
LEMMA RoomAfter ==
    ASSUME NEW slack \in Nat, NEW response \in Nat \ {0},
           NEW before \in Nat, NEW made \in Nat, NEW after, NEW room,
           after = before + made, made < slack + response - before,
           room = LET budget == slack + response - after
                  IN  IF budget < response THEN budget ELSE response
    PROVE  0 < room
OBVIOUS

(* A segment that fits in its room and, unless an abort let something      *)
(* through, was made by the version its replica holds.                     *)
Fits(r, segment, reason) ==
    /\ Len(segment) <= Room(r)
    /\ reason = "aborted" => Len(segment) < Room(r)
    /\ ~leaky => /\ ~paused[at[r]]
                 /\ \A k \in DOMAIN segment : segment[k] = weights[at[r]]

(* Stamps and room of a call whose segment fitted.                         *)
LEMMA CallReturns ==
    ASSUME IInv, NEW r \in Requests, NEW segment \in Seq(Nat \cup {Torn}),
           NEW reason \in {"completed", "aborted"},
           Ends(r, segment, reason), Fits(r, segment, reason),
           config' = config, leaky' = leaky, steps' = steps
    PROVE  /\ minSteps'[r] # None /\ maxSteps'[r] # None
           /\ ~leaky =>
                /\ minSteps'[r] <= maxSteps'[r]
                /\ \A p \in Replicas : maxSteps'[r] <= steps[p]
                /\ \A k \in DOMAIN kept'[r] :
                     /\ kept'[r][k] \in Nat
                     /\ minSteps'[r] <= kept'[r][k] /\ kept'[r][k] <= maxSteps'[r]
           /\ call'[r] # "done" => Room(r)' > Len(fresh'[r])
           /\ Len(kept'[r]) <= IF config.maxTokens # NoLimit THEN config.maxTokens
                               ELSE PromptSlack + ResponseLength
<1>1. SyncTypeOK /\ Stages /\ Stamped /\ StampsCover /\ RoomLeft
  BY DEF IInv
<1>2. /\ kept[r] \in Seq(Nat \cup {Torn}) /\ at[r] \in Replicas
      /\ steps[at[r]] \in Nat /\ weights[at[r]] \in Nat
      /\ minSteps[r] \in Nat \cup {None} /\ maxSteps[r] \in Nat \cup {None}
  BY <1>1, SyncAssumption DEF SyncTypeOK
<1>3. /\ kept'[r] = kept[r] \o segment
      /\ fresh'[r] = <<>>
      /\ minSteps'[r] = IF minSteps[r] = None THEN steps[at[r]] ELSE minSteps[r]
      /\ maxSteps'[r] = steps[at[r]]
      /\ call'[r] \in {"ready", "done"}
      /\ call'[r] = "ready" => reason = "aborted" /\ ~Full(Len(kept[r]) + Len(segment))
  BY DEF Ends
<1>4. minSteps'[r] # None /\ maxSteps'[r] # None
  BY <1>2, <1>3, SyncAssumption
<1>5. minSteps[r] = None => kept[r] = <<>>
  BY <1>1 DEF Stamped
<1>6. ASSUME ~leaky
      PROVE  /\ minSteps'[r] <= maxSteps'[r]
             /\ \A p \in Replicas : maxSteps'[r] <= steps[p]
             /\ \A k \in DOMAIN kept'[r] :
                  /\ kept'[r][k] \in Nat
                  /\ minSteps'[r] <= kept'[r][k] /\ kept'[r][k] <= maxSteps'[r]
  <2>1. /\ ~paused[at[r]]
        /\ \A k \in DOMAIN segment : segment[k] = weights[at[r]]
    BY <1>6 DEF Fits
  <2>2. \A p \in Replicas : steps[p] = weights[at[r]]
    BY <1>1, <1>2, <1>6, <2>1, OneVersion
  <2>3. minSteps[r] # None =>
          /\ minSteps[r] \in Nat /\ maxSteps[r] \in Nat
          /\ minSteps[r] <= maxSteps[r] /\ maxSteps[r] <= steps[at[r]]
    BY <1>1, <1>2, <1>6 DEF Stamped
  <2>4. minSteps'[r] <= maxSteps'[r] /\ \A p \in Replicas : maxSteps'[r] <= steps[p]
    BY <1>2, <1>3, <2>2, <2>3
  <2>5. ASSUME NEW k \in DOMAIN kept'[r]
        PROVE  /\ kept'[r][k] \in Nat
               /\ minSteps'[r] <= kept'[r][k] /\ kept'[r][k] <= maxSteps'[r]
    <3>1. k \in 1..Len(kept[r]) + Len(segment)
      BY <1>2, <1>3, Concatenation
    <3>2. CASE k \in 1..Len(kept[r])
      <4>1. kept'[r][k] = kept[r][k] /\ k \in DOMAIN kept[r]
        BY <1>2, <1>3, <3>2, Concatenation
      <4>2. minSteps[r] # None
        BY <1>5, <3>2
      <4>3. /\ kept[r][k] \in Nat
            /\ minSteps[r] <= kept[r][k] /\ kept[r][k] <= maxSteps[r]
        BY <1>1, <1>6, <4>1 DEF StampsCover
      <4> QED
        BY <1>2, <1>3, <2>3, <4>1, <4>2, <4>3
    <3>3. CASE k \notin 1..Len(kept[r])
      <4>1. k - Len(kept[r]) \in 1..Len(segment) /\ Len(kept[r]) \in Nat
        BY <1>2, <3>1, <3>3
      <4>2. kept'[r][k] = segment[k - Len(kept[r])]
        BY <1>2, <1>3, <3>1, <4>1, Concatenation
      <4>3. kept'[r][k] = weights[at[r]]
        BY <2>1, <4>1, <4>2
      <4> QED
        BY <1>2, <1>3, <2>2, <2>3, <4>3
    <3> QED
      BY <3>2, <3>3
  <2> QED
    BY <2>4, <2>5
<1>7. /\ call'[r] # "done" => Room(r)' > Len(fresh'[r])
      /\ Len(kept'[r]) <= IF config.maxTokens # NoLimit THEN config.maxTokens
                          ELSE PromptSlack + ResponseLength
  <2>1. config \in Configuration
    BY <1>1, SyncAssumption DEF SyncTypeOK
  <2>2. config.maxTokens # NoLimit => config.maxTokens \in Nat
    BY <2>1 DEF Configuration
  <2>3. /\ Len(kept'[r]) = Len(kept[r]) + Len(segment) /\ Len(fresh'[r]) = 0
        /\ Len(kept[r]) \in Nat /\ Len(segment) \in Nat
    BY <1>2, <1>3, Concatenation
  <2>4. /\ Len(segment) <= Room(r)
        /\ call'[r] # "done" => Len(segment) < Room(r)
    BY <1>3 DEF Fits
  <2>5. PromptSlack \in Nat /\ ResponseLength \in Nat \ {0}
    BY SyncAssumption
  <2>6. CASE config.maxTokens # NoLimit
    <3>1. /\ Room(r) = config.maxTokens - Len(kept[r])
          /\ Room(r)' = config.maxTokens - Len(kept'[r])
      BY <2>6 DEF Room
    <3> QED
      BY <2>2, <2>3, <2>4, <2>6, <3>1
  <2>7. CASE config.maxTokens = NoLimit
    <3>1. /\ PromptSlack + ResponseLength - Len(kept[r]) \in Int
          /\ ResponseLength \in Int /\ 0 < ResponseLength
          /\ Len(segment) \in Int
      BY <2>3, <2>5
    <3>2. Room(r) <= PromptSlack + ResponseLength - Len(kept[r])
      BY <2>7, <3>1 DEF Room
    <3>3. /\ Len(segment) <= PromptSlack + ResponseLength - Len(kept[r])
          /\ call'[r] # "done" => Len(segment) < PromptSlack + ResponseLength - Len(kept[r])
      <4>1. Room(r) \in Int
        BY <2>7, <3>1 DEF Room
      <4> QED
        BY <2>4, <3>1, <3>2, <4>1
    <3>4. call'[r] # "done" => 0 < Room(r)'
      <4> SUFFICES ASSUME call'[r] # "done" PROVE 0 < Room(r)'
        OBVIOUS
      <4>1. Len(segment) < PromptSlack + ResponseLength - Len(kept[r])
        BY <3>3
      <4>2. Room(r)' = LET budget == PromptSlack + ResponseLength - Len(kept'[r])
                       IN  IF budget < ResponseLength THEN budget ELSE ResponseLength
        BY <2>7 DEF Room
      <4> QED
        BY <2>3, <2>5, <4>1, <4>2, RoomAfter
    <3>5. Len(kept'[r]) <= PromptSlack + ResponseLength
      BY <2>3, <2>5, <3>3
    <3> QED
      BY <2>3, <2>7, <3>4, <3>5
  <2> QED
    BY <2>6, <2>7
<1> QED
  BY <1>4, <1>6, <1>7

(* Stamps and room after some calls returned whose segments fitted.        *)
LEMMA ReturnKeepsCalls ==
    ASSUME IInv, NEW S \in SUBSET Requests,
           NEW segments \in [Requests -> Seq(Nat \cup {Torn})],
           NEW reason \in {"completed", "aborted"},
           Return(S, segments, reason),
           config' = config, leaky' = leaky, steps' = steps,
           \A r \in S : Fits(r, segments[r], reason)
    PROVE  Stamped' /\ StampsCover' /\ RoomLeft'
<1>1. SyncTypeOK /\ Stages /\ Stamped /\ StampsCover /\ RoomLeft
  BY DEF IInv
<1>2. /\ \A r \in Requests \ S : Unchanged(r)
      /\ \A r \in S : Ends(r, segments[r], reason)
  BY <1>1, Returned
<1>3. ASSUME NEW r \in Requests \ S
      PROVE  /\ kept'[r] = kept[r] /\ fresh'[r] = fresh[r] /\ call'[r] = call[r]
             /\ minSteps'[r] = minSteps[r] /\ maxSteps'[r] = maxSteps[r]
  BY <1>2 DEF Unchanged
<1>4. ASSUME NEW r \in S
      PROVE  /\ minSteps'[r] # None /\ maxSteps'[r] # None
             /\ ~leaky =>
                  /\ minSteps'[r] <= maxSteps'[r]
                  /\ \A p \in Replicas : maxSteps'[r] <= steps[p]
                  /\ \A k \in DOMAIN kept'[r] :
                       /\ kept'[r][k] \in Nat
                       /\ minSteps'[r] <= kept'[r][k] /\ kept'[r][k] <= maxSteps'[r]
             /\ call'[r] # "done" => Room(r)' > Len(fresh'[r])
             /\ Len(kept'[r]) <= IF config.maxTokens # NoLimit THEN config.maxTokens
                                 ELSE PromptSlack + ResponseLength
  <2>1. Ends(r, segments[r], reason) /\ Fits(r, segments[r], reason)
    BY <1>2
  <2>2. segments[r] \in Seq(Nat \cup {Torn}) /\ r \in Requests
    OBVIOUS
  <2> HIDE DEF Room
  <2> QED
    BY <2>1, <2>2, CallReturns
<1>5. Stamped'
  BY <1>1, <1>3, <1>4 DEF Stamped
<1>6. StampsCover'
  BY <1>1, <1>3, <1>4 DEF StampsCover
<1>7. RoomLeft'
  <2>1. ASSUME NEW r \in Requests \ S PROVE Room(r)' = Room(r)
    BY <1>3 DEF Room
  <2> QED
    BY <1>1, <1>3, <1>4, <2>1 DEF RoomLeft
<1> QED
  BY <1>5, <1>6, <1>7

---------------------------------------------------------------------------
LEMMA GenerateStep ==
    ASSUME IInv, NEW r \in Requests, Generate(r)
    PROVE  IInv'
<1> DEFINE made == Append(fresh[r], Made(at[r]))
           segments == [fresh EXCEPT ![r] = made]
<1>1. SyncTypeOK /\ Stages /\ RunsAdmitted /\ Stamped /\ StampsCover /\ RoomLeft
  BY DEF IInv
<1>2. /\ call[r] = "running"
      /\ config' = config /\ at' = at /\ UNCHANGED engineVars /\ UNCHANGED managerVars
  BY DEF Generate
<1>3. /\ paused' = paused /\ loading' = loading /\ weights' = weights /\ steps' = steps
      /\ version' = version /\ phase' = phase /\ awaited' = awaited /\ leaky' = leaky
  BY <1>2 DEF engineVars, managerVars
<1>4. /\ Made(at[r]) \in Nat \cup {Torn} /\ at[r] \in Replicas
      /\ fresh[r] \in Seq(Nat \cup {Torn})
  BY <1>1, SyncAssumption DEF SyncTypeOK, Made
<1>5. /\ made \in Seq(Nat \cup {Torn}) /\ Len(made) = Len(fresh[r]) + 1
      /\ Len(fresh[r]) \in Nat /\ DOMAIN made = 1..Len(fresh[r]) + 1
      /\ \A k \in 1..Len(fresh[r]) : made[k] = fresh[r][k]
      /\ made[Len(fresh[r]) + 1] = Made(at[r])
  BY <1>4
<1>6. segments \in [Requests -> Seq(Nat \cup {Torn})] /\ segments[r] = made
  BY <1>1, <1>5 DEF SyncTypeOK
<1>7. ~leaky => /\ ~paused[at[r]]
                /\ \A k \in DOMAIN made : made[k] = weights[at[r]]
  <2> SUFFICES ASSUME ~leaky
               PROVE  ~paused[at[r]] /\ \A k \in DOMAIN made : made[k] = weights[at[r]]
    OBVIOUS
  <2>1. /\ ~paused[at[r]]
        /\ \A k \in DOMAIN fresh[r] : fresh[r][k] = weights[at[r]]
    BY <1>1, <1>2 DEF RunsAdmitted
  <2>2. ~loading[at[r]]
    BY <1>1, <1>4, <2>1, OneVersion
  <2>3. Made(at[r]) = weights[at[r]]
    BY <2>2 DEF Made
  <2> QED
    BY <1>4, <1>5, <2>1, <2>3
<1>8. Room(r) \in Int /\ Room(r) > Len(fresh[r])
  <2>1. config.maxTokens # NoLimit => config.maxTokens \in Nat
    BY <1>1, SyncAssumption DEF SyncTypeOK, Configuration
  <2>2. Len(kept[r]) \in Nat
    BY <1>1 DEF SyncTypeOK
  <2>3. Room(r) \in Int
    BY <2>1, <2>2, SyncAssumption DEF Room
  <2> QED
    BY <1>1, <1>2, <2>3 DEF RoomLeft
<1>9. Stages'
  BY <1>1, <1>2, CallsKeepStages DEF CallsOnly
<1>10. CASE /\ Len(made) < Room(r)
            /\ fresh' = segments
            /\ UNCHANGED <<call, kept, minSteps, maxSteps, stop>>
  <2>1. SyncTypeOK'
    BY <1>1, <1>2, <1>3, <1>6, <1>10 DEF SyncTypeOK
  <2>2. RunsAdmitted'
    <3>1. ASSUME NEW q \in Requests, q # r
          PROVE  fresh'[q] = fresh[q] /\ call'[q] = call[q] /\ at'[q] = at[q]
      BY <1>1, <1>2, <1>10, <3>1 DEF SyncTypeOK
    <3>2. fresh'[r] = made /\ call'[r] = "running" /\ at'[r] = at[r]
      BY <1>2, <1>6, <1>10
    <3> HIDE DEF made
    <3> QED
      BY <1>1, <1>3, <1>7, <3>1, <3>2 DEF RunsAdmitted
  <2>3. Stamped' /\ StampsCover'
    BY <1>1, <1>3, <1>10 DEF Stamped, StampsCover
  <2>4. RoomLeft'
    <3>1. ASSUME NEW q \in Requests PROVE Room(q)' = Room(q)
      BY <1>2, <1>10 DEF Room
    <3>2. ASSUME NEW q \in Requests, q # r PROVE fresh'[q] = fresh[q]
      BY <1>1, <1>10, <3>2 DEF SyncTypeOK
    <3>3. fresh'[r] = made
      BY <1>6, <1>10
    <3> HIDE DEF made
    <3> QED
      BY <1>1, <1>2, <1>5, <1>8, <1>10, <3>1, <3>2, <3>3 DEF RoomLeft
  <2> QED
    BY <1>9, <2>1, <2>2, <2>3, <2>4 DEF IInv
<1>11. CASE Return({r}, segments, "completed")
  <2>1. /\ kept' \in [Requests -> Seq(Nat \cup {Torn})]
        /\ fresh' \in [Requests -> Seq(Nat \cup {Torn})]
        /\ minSteps' \in [Requests -> Nat \cup {None}]
        /\ maxSteps' \in [Requests -> Nat \cup {None}]
        /\ stop' \in [Requests -> StopReason]
        /\ call' \in [Requests -> CallState]
        /\ \A q \in Requests \ {r} : Unchanged(q)
        /\ \A q \in {r} : Ends(q, segments[q], "completed")
    <3> HIDE DEF segments
    <3>1. {r} \in SUBSET Requests /\ "completed" \in {"completed", "aborted"}
      OBVIOUS
    <3> QED
      BY <1>1, <1>6, <1>11, <3>1, Returned
  <2>2. SyncTypeOK'
    BY <1>1, <1>2, <1>3, <2>1 DEF SyncTypeOK
  <2>3. RunsAdmitted'
    <3>1. ASSUME NEW q \in Requests, q # r
          PROVE  fresh'[q] = fresh[q] /\ call'[q] = call[q]
      BY <2>1, <3>1 DEF Unchanged
    <3>2. fresh'[r] = <<>> /\ call'[r] # "running"
      BY <2>1 DEF Ends
    <3> QED
      BY <1>1, <1>2, <1>3, <3>1, <3>2 DEF RunsAdmitted
  <2>4. Stamped' /\ StampsCover' /\ RoomLeft'
    <3>1. \A q \in {r} : Fits(q, segments[q], "completed")
      BY <1>5, <1>6, <1>7, <1>8 DEF Fits
    <3>2. {r} \in SUBSET Requests /\ "completed" \in {"completed", "aborted"}
      OBVIOUS
    <3> HIDE DEF segments
    <3> QED
      BY <1>2, <1>3, <1>6, <1>11, <3>1, <3>2, ReturnKeepsCalls
  <2> QED
    BY <1>9, <2>2, <2>3, <2>4 DEF IInv
<1> QED
  BY <1>10, <1>11 DEF Generate

---------------------------------------------------------------------------
LEMMA AbortStep ==
    ASSUME IInv, NEW p \in Replicas, AbortAllRequests(p)
    PROVE  IInv'
<1> DEFINE S == {r \in Requests : call[r] = "running" /\ at[r] = p}
<1>1. SyncTypeOK /\ Stages /\ RunsAdmitted /\ Stamped /\ StampsCover /\ RoomLeft
  BY DEF IInv
<1>2. /\ phase = "abort" /\ p \in awaited
      /\ Return(S, fresh, "aborted")
      /\ paused' = [paused EXCEPT ![p] = config.pausing]
      /\ Answered(p, "sleep")
      /\ config' = config /\ at' = at /\ loading' = loading /\ weights' = weights
      /\ steps' = steps /\ version' = version /\ leaky' = leaky
  BY DEF AbortAllRequests
<1>3. /\ S \in SUBSET Requests /\ "aborted" \in {"completed", "aborted"}
      /\ fresh \in [Requests -> Seq(Nat \cup {Torn})]
  BY <1>1 DEF SyncTypeOK
<1>4. /\ kept' \in [Requests -> Seq(Nat \cup {Torn})]
      /\ fresh' \in [Requests -> Seq(Nat \cup {Torn})]
      /\ minSteps' \in [Requests -> Nat \cup {None}]
      /\ maxSteps' \in [Requests -> Nat \cup {None}]
      /\ stop' \in [Requests -> StopReason]
      /\ call' \in [Requests -> CallState]
      /\ \A q \in Requests \ S : Unchanged(q)
      /\ \A q \in S : Ends(q, fresh[q], "aborted")
  <2> HIDE DEF S
  <2> QED
    BY <1>1, <1>2, <1>3, Returned
<1>5. /\ phase' \in Phase /\ awaited' \subseteq Replicas
      /\ \/ phase' = "sleep" /\ awaited \subseteq {p} /\ awaited' = Replicas
         \/ phase' = phase /\ awaited' = awaited \ {p}
  BY <1>1, <1>2, GatherAnswered DEF SyncTypeOK, Phase
<1>6. config.pausing \in BOOLEAN
  BY <1>1, SyncAssumption DEF SyncTypeOK, Configuration
<1>7. SyncTypeOK'
  BY <1>1, <1>2, <1>4, <1>5, <1>6 DEF SyncTypeOK
<1>8. Stages'
  <2>1. /\ paused'[p] = config.pausing
        /\ \A q \in Replicas : q # p => paused'[q] = paused[q]
    BY <1>1, <1>2 DEF SyncTypeOK
  <2> QED
    BY <1>1, <1>2, <1>5, <1>6, <2>1 DEF Stages, Whole
<1>9. RunsAdmitted'
  <2>1. ASSUME NEW q \in Requests, q \notin S
        PROVE  fresh'[q] = fresh[q] /\ call'[q] = call[q]
    BY <1>4, <2>1 DEF Unchanged
  <2>2. ASSUME NEW q \in S PROVE fresh'[q] = <<>> /\ call'[q] # "running"
    BY <1>4, <2>2 DEF Ends
  <2>3. \A q \in Replicas : q # p => paused'[q] = paused[q]
    BY <1>1, <1>2 DEF SyncTypeOK
  <2> SUFFICES ASSUME NEW q \in Requests
               PROVE  /\ call'[q] # "running" => fresh'[q] = <<>>
                      /\ ~leaky /\ call'[q] = "running" =>
                           /\ ~paused'[at[q]]
                           /\ \A k \in DOMAIN fresh'[q] : fresh'[q][k] = weights[at[q]]
    BY <1>2 DEF RunsAdmitted
  <2>4. CASE q \in S
    BY <2>2, <2>4
  <2>5. CASE q \notin S
    <3>1. call[q] = "running" => at[q] # p
      BY <2>5
    <3>2. at[q] \in Replicas
      BY <1>1 DEF SyncTypeOK
    <3> HIDE DEF S
    <3> QED
      BY <1>1, <2>1, <2>3, <2>5, <3>1, <3>2 DEF RunsAdmitted
  <2> QED
    BY <2>4, <2>5
<1>10. Stamped' /\ StampsCover' /\ RoomLeft'
  <2>1. \A q \in S : Fits(q, fresh[q], "aborted")
    <3> SUFFICES ASSUME NEW q \in S PROVE Fits(q, fresh[q], "aborted")
      OBVIOUS
    <3>1. Room(q) > Len(fresh[q])
      BY <1>1 DEF RoomLeft
    <3>2. Len(fresh[q]) \in Nat /\ Room(q) \in Int
      <4>1. config.maxTokens # NoLimit => config.maxTokens \in Nat
        BY <1>1, SyncAssumption DEF SyncTypeOK, Configuration
      <4>2. Len(kept[q]) \in Nat /\ Len(fresh[q]) \in Nat
        BY <1>1 DEF SyncTypeOK
      <4> QED
        BY <4>1, <4>2, SyncAssumption DEF Room
    <3>3. ~leaky => /\ ~paused[at[q]]
                    /\ \A k \in DOMAIN fresh[q] : fresh[q][k] = weights[at[q]]
      BY <1>1 DEF RunsAdmitted
    <3> QED
      BY <3>1, <3>2, <3>3 DEF Fits
  <2> HIDE DEF S
  <2> QED
    BY <1>2, <1>3, <2>1, ReturnKeepsCalls
<1> QED
  BY <1>7, <1>8, <1>9, <1>10 DEF IInv

---------------------------------------------------------------------------
(* Steps that only replicas and the manager take leave the calls alone.    *)
LEMMA RoomStays ==
    ASSUME RoomLeft, UNCHANGED <<config, callVars>>
    PROVE  RoomLeft'
BY DEF RoomLeft, Room, callVars

LEMMA StampsStay ==
    ASSUME StampsCover, UNCHANGED <<config, callVars>>, leaky' = leaky
    PROVE  StampsCover'
BY DEF StampsCover, callVars

LEMMA CallsStay ==
    ASSUME RunsAdmitted, Stamped, UNCHANGED <<config, callVars, engineVars>>, leaky' = leaky
    PROVE  RunsAdmitted' /\ Stamped'
BY DEF RunsAdmitted, Stamped, callVars, engineVars

LEMMA BeginSyncStep ==
    ASSUME IInv, BeginSync
    PROVE  IInv'
<1>1. SyncTypeOK /\ Stages /\ RunsAdmitted /\ Stamped /\ StampsCover /\ RoomLeft
  BY DEF IInv
<1>2. version \in Nat /\ version + 1 \in 0..MaxSyncs /\ version' = version + 1
  BY <1>1, SyncAssumption DEF SyncTypeOK, BeginSync
<1>3. SyncTypeOK'
  BY <1>1, <1>2 DEF SyncTypeOK, BeginSync, callVars, engineVars, Phase
<1>4. Stages'
  BY <1>1, <1>2 DEF BeginSync, Stages, Whole, engineVars
<1>5. RunsAdmitted' /\ Stamped' /\ StampsCover' /\ RoomLeft'
  BY <1>1, CallsStay, StampsStay, RoomStays DEF BeginSync
<1> QED
  BY <1>3, <1>4, <1>5 DEF IInv

(* An abort that failed voids what only holds without one.                 *)
LEMMA AbortFailsStep ==
    ASSUME IInv, NEW p \in Replicas, AbortFails(p)
    PROVE  IInv'
<1>1. SyncTypeOK /\ Stages /\ RunsAdmitted /\ Stamped /\ RoomLeft
  BY DEF IInv
<1>2. /\ phase' \in {"abort", "sleep"} /\ awaited' \subseteq Replicas
      /\ phase = "abort" /\ leaky' = TRUE
      /\ UNCHANGED <<config, callVars, engineVars, version>>
  BY <1>1, GatherAnswered DEF AbortFails, SyncTypeOK, Phase
<1>3. SyncTypeOK'
  BY <1>1, <1>2 DEF SyncTypeOK, Phase, callVars, engineVars
<1>4. Stages' /\ StampsCover'
  BY <1>1, <1>2 DEF Stages, StampsCover
<1>5. RunsAdmitted' /\ Stamped'
  BY <1>1, <1>2 DEF RunsAdmitted, Stamped, callVars, engineVars
<1>6. RoomLeft'
  BY <1>1, <1>2, RoomStays
<1> QED
  BY <1>3, <1>4, <1>5, <1>6 DEF IInv

LEMMA SleepStep ==
    ASSUME IInv, NEW p \in Replicas, Sleep(p)
    PROVE  IInv'
<1>1. SyncTypeOK /\ Stages /\ RunsAdmitted /\ Stamped /\ StampsCover /\ RoomLeft
  BY DEF IInv
<1>2. /\ phase = "sleep" /\ phase' \in Phase /\ awaited' \subseteq Replicas
      /\ \/ phase' = "transfer" /\ awaited' = Replicas
         \/ phase' = phase
      /\ UNCHANGED <<config, callVars, engineVars, version, leaky>>
  BY <1>1, GatherAnswered DEF Sleep, SyncTypeOK, Phase
<1>3. version \in Nat
  BY <1>1, SyncAssumption DEF SyncTypeOK
<1>4. SyncTypeOK'
  BY <1>1, <1>2 DEF SyncTypeOK, callVars, engineVars
<1>5. Stages'
  BY <1>1, <1>2, <1>3 DEF Stages, Whole, engineVars
<1>6. RunsAdmitted' /\ Stamped' /\ StampsCover' /\ RoomLeft'
  BY <1>1, <1>2, CallsStay, StampsStay, RoomStays
<1> QED
  BY <1>4, <1>5, <1>6 DEF IInv

LEMMA LoadStep ==
    ASSUME IInv, NEW p \in Replicas, Load(p)
    PROVE  IInv'
<1>1. SyncTypeOK /\ Stages /\ RunsAdmitted /\ Stamped /\ StampsCover /\ RoomLeft
  BY DEF IInv
<1>2. /\ phase = "transfer" /\ p \in awaited /\ weights[p] # version
      /\ loading' = [loading EXCEPT ![p] = TRUE]
      /\ UNCHANGED <<config, callVars>>
      /\ paused' = paused /\ weights' = weights /\ steps' = steps
      /\ version' = version /\ phase' = phase /\ awaited' = awaited /\ leaky' = leaky
  BY DEF Load, managerVars
<1>3. SyncTypeOK'
  BY <1>1, <1>2 DEF SyncTypeOK, callVars
<1>4. Stages'
  <2>1. \A q \in Replicas : q # p => loading'[q] = loading[q]
    BY <1>1, <1>2 DEF SyncTypeOK
  <2> QED
    BY <1>1, <1>2, <2>1 DEF Stages, Whole
<1>5. RunsAdmitted' /\ Stamped'
  BY <1>1, <1>2 DEF RunsAdmitted, Stamped, callVars
<1>6. StampsCover' /\ RoomLeft'
  BY <1>1, <1>2, StampsStay, RoomStays
<1> QED
  BY <1>3, <1>4, <1>5, <1>6 DEF IInv

LEMMA LoadedStep ==
    ASSUME IInv, NEW p \in Replicas, Loaded(p)
    PROVE  IInv'
<1>1. SyncTypeOK /\ Stages /\ RunsAdmitted /\ Stamped /\ StampsCover /\ RoomLeft
  BY DEF IInv
<1>2. /\ loading[p]
      /\ loading' = [loading EXCEPT ![p] = FALSE]
      /\ weights' = [weights EXCEPT ![p] = version]
      /\ UNCHANGED <<config, callVars>>
      /\ paused' = paused /\ steps' = steps
      /\ version' = version /\ phase' = phase /\ awaited' = awaited /\ leaky' = leaky
  BY DEF Loaded, managerVars
<1>3. SyncTypeOK'
  BY <1>1, <1>2 DEF SyncTypeOK, callVars
<1>4. ~leaky => phase = "transfer" /\ paused[p] /\ p \in awaited
  BY <1>1, <1>2 DEF SyncTypeOK, Stages, Whole, Phase
<1>5. /\ ~loading'[p] /\ weights'[p] = version
      /\ \A q \in Replicas : q # p => loading'[q] = loading[q] /\ weights'[q] = weights[q]
  BY <1>1, <1>2 DEF SyncTypeOK
<1>6. Stages'
  BY <1>1, <1>2, <1>4, <1>5 DEF Stages, Whole
<1>7. RunsAdmitted'
  <2>1. /\ call' = call /\ at' = at /\ fresh' = fresh
    BY <1>2 DEF callVars
  <2>2. \A r \in Requests : at[r] \in Replicas
    BY <1>1 DEF SyncTypeOK
  <2> QED
    BY <1>1, <1>2, <1>4, <1>5, <2>1, <2>2 DEF RunsAdmitted
<1>8. Stamped'
  BY <1>1, <1>2 DEF Stamped, callVars
<1>9. StampsCover' /\ RoomLeft'
  BY <1>1, <1>2, StampsStay, RoomStays
<1> QED
  BY <1>3, <1>6, <1>7, <1>8, <1>9 DEF IInv

LEMMA SetGlobalStepsStep ==
    ASSUME IInv, NEW p \in Replicas, SetGlobalSteps(p)
    PROVE  IInv'
<1>1. SyncTypeOK /\ Stages /\ RunsAdmitted /\ Stamped /\ StampsCover /\ RoomLeft
  BY DEF IInv
<1>2. /\ phase = "transfer" /\ p \in awaited /\ weights[p] = version
      /\ steps' = [steps EXCEPT ![p] = version]
      /\ UNCHANGED <<config, callVars>>
      /\ paused' = paused /\ loading' = loading /\ weights' = weights
      /\ version' = version /\ leaky' = leaky
  BY DEF SetGlobalSteps
<1>3. /\ phase' \in Phase /\ awaited' \subseteq Replicas
      /\ \/ phase' = "resume" /\ awaited \subseteq {p} /\ awaited' = Replicas
         \/ phase' = phase /\ awaited' = awaited \ {p}
  BY <1>1, GatherAnswered DEF SetGlobalSteps, SyncTypeOK, Phase
<1>4. version \in Nat
  BY <1>1, SyncAssumption DEF SyncTypeOK
<1>5. /\ steps'[p] = version
      /\ \A q \in Replicas : q # p => steps'[q] = steps[q]
  BY <1>1, <1>2 DEF SyncTypeOK
<1>6. SyncTypeOK'
  BY <1>1, <1>2, <1>3 DEF SyncTypeOK, callVars
<1>7. ~leaky => steps[p] = version - 1 /\ ~loading[p]
  BY <1>1, <1>2 DEF Stages
<1>8. Stages'
  BY <1>1, <1>2, <1>3, <1>5, <1>7 DEF Stages, Whole
<1>9. RunsAdmitted'
  BY <1>1, <1>2 DEF RunsAdmitted, callVars
<1>10. Stamped'
  <2>1. minSteps' = minSteps /\ maxSteps' = maxSteps /\ kept' = kept
    BY <1>2 DEF callVars
  <2> SUFFICES ASSUME NEW r \in Requests
               PROVE  IF minSteps[r] = None THEN maxSteps[r] = None /\ kept[r] = <<>>
                      ELSE /\ maxSteps[r] # None
                           /\ ~leaky => /\ minSteps[r] <= maxSteps[r]
                                        /\ \A q \in Replicas : maxSteps[r] <= steps'[q]
    BY <1>2, <2>1 DEF Stamped
  <2>2. maxSteps[r] \in Nat \cup {None} /\ steps[p] \in Int
    BY <1>1, SyncAssumption DEF SyncTypeOK
  <2>3. ASSUME ~leaky, minSteps[r] # None, NEW q \in Replicas
        PROVE  maxSteps[r] <= steps'[q]
    <3>1. maxSteps[r] <= steps[q] /\ maxSteps[r] <= steps[p] /\ maxSteps[r] # None
      BY <1>1, <2>3 DEF Stamped
    <3> QED
      BY <1>4, <1>5, <1>7, <2>2, <2>3, <3>1
  <2> QED
    BY <1>1, <2>3 DEF Stamped
<1>11. StampsCover' /\ RoomLeft'
  BY <1>1, <1>2, StampsStay, RoomStays
<1> QED
  BY <1>6, <1>8, <1>9, <1>10, <1>11 DEF IInv

LEMMA ResumeStep ==
    ASSUME IInv, NEW p \in Replicas, ResumeGeneration(p)
    PROVE  IInv'
<1>1. SyncTypeOK /\ Stages /\ RunsAdmitted /\ Stamped /\ StampsCover /\ RoomLeft
  BY DEF IInv
<1>2. /\ phase = "resume" /\ p \in awaited
      /\ paused' = [paused EXCEPT ![p] = FALSE]
      /\ UNCHANGED <<config, callVars>>
      /\ loading' = loading /\ weights' = weights /\ steps' = steps
      /\ version' = version /\ leaky' = leaky
  BY DEF ResumeGeneration
<1>3. /\ phase' \in Phase /\ awaited' \subseteq Replicas
      /\ \/ phase' = "idle" /\ awaited \subseteq {p} /\ awaited' = {}
         \/ phase' = phase /\ awaited' = awaited \ {p}
  BY <1>1, GatherAnswered DEF ResumeGeneration, SyncTypeOK, Phase
<1>4. ~paused'[p] /\ \A q \in Replicas : q # p => paused'[q] = paused[q]
  BY <1>1, <1>2 DEF SyncTypeOK
<1>5. SyncTypeOK'
  BY <1>1, <1>2, <1>3 DEF SyncTypeOK, callVars
<1>6. Stages'
  BY <1>1, <1>2, <1>3, <1>4 DEF Stages, Whole
<1>7. RunsAdmitted' /\ Stamped'
  <2>1. \A r \in Requests : at[r] \in Replicas
    BY <1>1 DEF SyncTypeOK
  <2> QED
    BY <1>1, <1>2, <1>4, <2>1 DEF RunsAdmitted, Stamped, callVars
<1>8. StampsCover' /\ RoomLeft'
  BY <1>1, <1>2, StampsStay, RoomStays
<1> QED
  BY <1>5, <1>6, <1>7, <1>8 DEF IInv

---------------------------------------------------------------------------
LEMMA StepIInv == IInv /\ [Next]_vars => IInv'
<1> SUFFICES ASSUME IInv, [Next]_vars PROVE IInv'
  OBVIOUS
<1>1. CASE UNCHANGED vars
  BY <1>1 DEF IInv, vars, callVars, engineVars, managerVars, SyncTypeOK, Stages, Whole,
              RunsAdmitted, Stamped, StampsCover, RoomLeft, Room
<1>2. ASSUME NEW r \in Requests, CallStep(r) PROVE IInv'
  BY <1>2, SendStep, StartStep, GenerateStep DEF CallStep
<1>3. CASE BeginSync
  BY <1>3, BeginSyncStep
<1>4. ASSUME NEW p \in Replicas, ReplicaStep(p) PROVE IInv'
  BY <1>4, AbortStep, AbortFailsStep, SleepStep, LoadStep, LoadedStep,
     SetGlobalStepsStep, ResumeStep DEF ReplicaStep
<1> QED
  BY <1>1, <1>2, <1>3, <1>4 DEF Next

LEMMA AlwaysIInv == Spec => []IInv
BY InitIInv, StepIInv, PTL DEF Spec

(* The state of calls, engines and manager keeps its type through every    *)
(* generate, abort, load and resume.                                       *)
THEOREM SyncTypeCorrect == Spec => []SyncTypeOK
<1>1. IInv => SyncTypeOK
  BY DEF IInv
<1> QED
  BY <1>1, AlwaysIInv, PTL

(* CheckpointEngineManager.update_weights is a barrier: with any number of *)
(* replicas, two that admit requests hold whole weights of one version.    *)
THEOREM ReplicasServeSame == Spec => []ServeSameWeights
<1>1. IInv => ServeSameWeights
  <2> SUFFICES ASSUME IInv, ~leaky, NEW p \in Replicas, NEW q \in Replicas,
                      ~paused[p], ~paused[q]
               PROVE  ~loading[p] /\ weights[p] = weights[q] /\ steps[p] = weights[q]
    BY DEF ServeSameWeights
  <2>1. SyncTypeOK /\ Stages
    BY DEF IInv
  <2> QED
    BY <2>1, OneVersion
<1> QED
  BY <1>1, AlwaysIInv, PTL

(* However often FullyAsyncLLMServerManager.generate is interrupted, the   *)
(* versions it returns enclose those of all its tokens.                    *)
THEOREM StampsAreCovering == Spec => []StampsCover
<1>1. IInv => StampsCover
  BY DEF IInv
<1> QED
  BY <1>1, AlwaysIInv, PTL

(* However often it is interrupted, the call stays within its limit and    *)
(* vLLMHttpServer.generate never refuses to go on with it.                 *)
THEOREM RoomIsLeftOver == Spec => []RoomLeft
<1>1. IInv => RoomLeft
  BY DEF IInv
<1> QED
  BY <1>1, AlwaysIInv, PTL

---------------------------------------------------------------------------
(* What a call has so far, the tokens of the generation that runs included.*)
Tokens(r) == kept[r] \o fresh[r]

(* A generation that runs is served the version its callers are told of.   *)
LEMMA RunningServed ==
    ASSUME IInv, ~leaky, NEW r \in Requests, call[r] = "running"
    PROVE  Made(at[r]) = Served /\ steps[at[r]] = Served
<1>1. SyncTypeOK /\ Stages /\ at[r] \in Replicas /\ ~paused[at[r]]
  BY DEF IInv, RunsAdmitted, SyncTypeOK
<1> QED
  BY <1>1 DEF SyncTypeOK, Stages, Whole, Phase, Made, Served

LEMMA AppendLast ==
    ASSUME NEW s \in Seq(Nat \cup {Torn}), NEW t \in Seq(Nat \cup {Torn}),
           NEW x \in Nat \cup {Torn}
    PROVE  /\ s \o Append(t, x) = Append(s \o t, x)
           /\ s \o <<>> = s
           /\ (s \o t) \o <<>> = s \o t
OBVIOUS

(* Generations that end, those of made with one more token of the version  *)
(* that is served, are answers of that version.                            *)
LEMMA ReturnServes ==
    ASSUME IInv, ~leaky, NEW S \in SUBSET Requests, NEW made \in SUBSET S,
           NEW segments \in [Requests -> Seq(Nat \cup {Torn})],
           NEW reason \in {"completed", "aborted"},
           Return(S, segments, reason), Served' = Served,
           \A r \in S : call[r] = "running",
           \A r \in S : segments[r] = IF r \in made THEN Append(fresh[r], Served)
                                      ELSE fresh[r]
    PROVE  Atomic!Next
<1>0. PICK finished \in SUBSET S : \A r \in S : r \in finished <=> call'[r] = "done"
  <2>1. {r \in S : call'[r] = "done"} \in SUBSET S
    OBVIOUS
  <2> QED
    BY <2>1
<1>1. SyncTypeOK /\ \A r \in Requests : kept[r] \in Seq(Nat \cup {Torn})
  BY DEF IInv, SyncTypeOK
<1>2. /\ \A r \in Requests \ S : Unchanged(r)
      /\ \A r \in S : Ends(r, segments[r], reason)
  BY <1>1, Returned
<1>3. \A r \in S : steps[at[r]] = Served
  BY RunningServed
<1>4. \A r \in Requests : fresh[r] \in Seq(Nat \cup {Torn})
  BY <1>1 DEF SyncTypeOK
<1>5. ASSUME NEW r \in Requests
      PROVE  Tokens(r)' = IF r \in made THEN Append(Tokens(r), Served) ELSE Tokens(r)
  <2>1. CASE r \in S \ made
    <3>1. kept'[r] = kept[r] \o fresh[r] /\ fresh'[r] = <<>>
      BY <1>2, <2>1 DEF Ends
    <3>2. (kept[r] \o fresh[r]) \o <<>> = kept[r] \o fresh[r]
      BY <1>1, <1>4, AppendLast
    <3> QED
      BY <2>1, <3>1, <3>2 DEF Tokens
  <2>2. CASE r \in made
    <3>1. kept'[r] = kept[r] \o Append(fresh[r], Served) /\ fresh'[r] = <<>>
      BY <1>2, <2>2 DEF Ends
    <3>2. Append(fresh[r], Served) \in Seq(Nat \cup {Torn}) /\ Served \in Nat \cup {Torn}
      <4>1. Served \in Nat
        BY <1>1, <1>3, <2>2, SyncAssumption DEF SyncTypeOK
      <4> QED
        BY <1>4, <4>1
    <3>3. (kept[r] \o Append(fresh[r], Served)) \o <<>> = kept[r] \o Append(fresh[r], Served)
      BY <1>1, <3>2, AppendLast
    <3>4. kept[r] \o Append(fresh[r], Served) = Append(kept[r] \o fresh[r], Served)
      BY <1>1, <1>4, <3>2, AppendLast
    <3> QED
      BY <2>2, <3>1, <3>3, <3>4 DEF Tokens
  <2>3. CASE r \notin S
    BY <1>2, <2>3 DEF Unchanged, Tokens
  <2> QED
    BY <2>1, <2>2, <2>3
<1>6. ASSUME NEW r \in Requests
      PROVE  /\ minSteps'[r] = IF r \in S /\ minSteps[r] = None THEN Served ELSE minSteps[r]
             /\ maxSteps'[r] = IF r \in S THEN Served ELSE maxSteps[r]
             /\ call'[r] = "done" <=> call[r] = "done" \/ r \in finished
  <2>1. CASE r \in S
    <3>1. Ends(r, segments[r], reason) /\ steps[at[r]] = Served /\ call[r] # "done"
      BY <1>2, <1>3, <2>1
    <3> QED
      BY <1>0, <2>1, <3>1 DEF Ends
  <2>2. CASE r \notin S
    <3>1. Unchanged(r)
      BY <1>2, <2>2
    <3> QED
      BY <2>2, <3>1 DEF Unchanged
  <2> QED
    BY <2>1, <2>2
<1>7. /\ minSteps' \in [Requests -> Nat \cup {None}]
      /\ maxSteps' \in [Requests -> Nat \cup {None}]
  BY <1>1, Returned
<1>8. Atomic!Serve(made, S, finished)
  <2>1. {r \in Requests : call'[r] = "done"} = {r \in Requests : call[r] = "done"} \cup finished
    BY <1>6
  <2>2. /\ made \cap {r \in Requests : call[r] = "done"} = {}
        /\ S \cap {r \in Requests : call[r] = "done"} = {} /\ finished \subseteq S
    OBVIOUS
  <2>3. [r \in Requests |-> kept'[r] \o fresh'[r]]
          = [r \in Requests |-> IF r \in made
                               THEN Append([q \in Requests |-> kept[q] \o fresh[q]][r], Served)
                               ELSE [q \in Requests |-> kept[q] \o fresh[q]][r]]
    BY <1>5 DEF Tokens
  <2>4. /\ minSteps' = [r \in Requests |-> IF r \in S /\ minSteps[r] = None THEN Served
                                          ELSE minSteps[r]]
        /\ maxSteps' = [r \in Requests |-> IF r \in S THEN Served ELSE maxSteps[r]]
    BY <1>6, <1>7
  <2> QED
    BY <2>1, <2>2, <2>3, <2>4 DEF Atomic!Serve
<1>9. made \in SUBSET Requests /\ S \in SUBSET Requests /\ finished \in SUBSET Requests
  OBVIOUS
<1> QED
  BY <1>8, <1>9 DEF Atomic!Next

(* What only replicas and the manager do changes at most the version.      *)
LEMMA CallsUnserved ==
    ASSUME UNCHANGED callVars, Served' \in {Served, Served + 1}
    PROVE  [Atomic!Next]_(Atomic!vars)
BY DEF callVars, Atomic!Next, Atomic!Update, Atomic!vars

(* A call that is sent or admitted has no token and no answer more.        *)
LEMMA SendUnserved ==
    ASSUME IInv, NEW r \in Requests, Start(r) \/ \E p \in Replicas : Send(r, p)
    PROVE  UNCHANGED Atomic!vars
<1>1. /\ call[r] \notin {"done"} /\ call'[r] # "done"
      /\ \A q \in Requests : q # r => call'[q] = call[q]
      /\ UNCHANGED <<kept, fresh, minSteps, maxSteps, managerVars>>
  BY DEF IInv, SyncTypeOK, Start, Send
<1>2. {q \in Requests : call'[q] = "done"} = {q \in Requests : call[q] = "done"}
  BY <1>1
<1> QED
  BY <1>1, <1>2 DEF Atomic!vars, Served, managerVars

LEMMA GenerateServes ==
    ASSUME IInv, ~leaky, NEW r \in Requests, Generate(r)
    PROVE  Atomic!Next
<1> DEFINE longer == Append(fresh[r], Made(at[r]))
           segments == [fresh EXCEPT ![r] = longer]
<1>1. SyncTypeOK /\ call[r] = "running" /\ UNCHANGED <<at, engineVars, managerVars>>
  BY DEF IInv, Generate
<1>2. Made(at[r]) = Served /\ Served' = Served /\ Served \in Nat
  <2>1. Made(at[r]) = Served /\ steps[at[r]] = Served
    BY <1>1, RunningServed
  <2> QED
    BY <1>1, <2>1, SyncAssumption DEF Served, managerVars, SyncTypeOK
<1>3. fresh[r] \in Seq(Nat \cup {Torn}) /\ longer \in Seq(Nat \cup {Torn})
  BY <1>1, <1>2 DEF SyncTypeOK
<1>4. segments \in [Requests -> Seq(Nat \cup {Torn})] /\ segments[r] = Append(fresh[r], Served)
  BY <1>1, <1>2, <1>3 DEF SyncTypeOK
<1>5. CASE /\ fresh' = segments
           /\ UNCHANGED <<call, kept, minSteps, maxSteps, stop>>
  <2>1. \A q \in Requests : q # r => fresh'[q] = fresh[q]
    BY <1>1, <1>5 DEF SyncTypeOK
  <2>2. kept[r] \o Append(fresh[r], Served) = Append(kept[r] \o fresh[r], Served)
    BY <1>1, <1>2, <1>3, AppendLast DEF SyncTypeOK
  <2>3. [q \in Requests |-> kept'[q] \o fresh'[q]]
          = [q \in Requests |-> IF q \in {r}
                               THEN Append([s \in Requests |-> kept[s] \o fresh[s]][q], Served)
                               ELSE [s \in Requests |-> kept[s] \o fresh[s]][q]]
    <3> SUFFICES ASSUME NEW q \in Requests
                 PROVE  kept'[q] \o fresh'[q] = IF q = r THEN Append(kept[q] \o fresh[q], Served)
                                               ELSE kept[q] \o fresh[q]
      OBVIOUS
    <3> HIDE DEF segments
    <3> QED
      BY <1>4, <1>5, <2>1, <2>2
  <2>4. /\ minSteps' = [q \in Requests |-> IF q \in {} /\ minSteps[q] = None THEN Served
                                          ELSE minSteps[q]]
        /\ maxSteps' = [q \in Requests |-> IF q \in {} THEN Served ELSE maxSteps[q]]
    BY <1>1, <1>5 DEF SyncTypeOK
  <2>5. {q \in Requests : call'[q] = "done"} = {q \in Requests : call[q] = "done"} \cup {}
    BY <1>5
  <2>6. Atomic!Serve({r}, {}, {})
    <3>1. {r} \cap {q \in Requests : call[q] = "done"} = {}
      BY <1>1
    <3> HIDE DEF segments
    <3> QED
      BY <1>2, <2>3, <2>4, <2>5, <3>1 DEF Atomic!Serve
  <2> QED
    BY <2>6 DEF Atomic!Next
<1>6. CASE Return({r}, segments, "completed")
  <2>1. /\ {r} \in SUBSET Requests /\ {r} \in SUBSET {r}
        /\ "completed" \in {"completed", "aborted"}
        /\ \A q \in {r} : call[q] = "running"
        /\ \A q \in {r} : segments[q] = IF q \in {r} THEN Append(fresh[q], Served)
                                        ELSE fresh[q]
    BY <1>1, <1>4
  <2> HIDE DEF segments
  <2> QED
    BY <1>2, <1>4, <1>6, <2>1, ReturnServes
<1> QED
  BY <1>5, <1>6 DEF Generate

LEMMA AbortServes ==
    ASSUME IInv, ~leaky, NEW p \in Replicas, AbortAllRequests(p)
    PROVE  Atomic!Next
<1> DEFINE S == {r \in Requests : call[r] = "running" /\ at[r] = p}
           made == {}
<1>1. /\ SyncTypeOK /\ phase = "abort" /\ version' = version
      /\ p \in awaited /\ Answered(p, "sleep") /\ Return(S, fresh, "aborted")
  BY DEF IInv, AbortAllRequests
<1>2. phase' \in {"abort", "sleep"}
  BY <1>1 DEF Answered
<1>3. Served' = Served
  BY <1>1, <1>2 DEF Served
<1>4. /\ S \in SUBSET Requests /\ made \in SUBSET S
      /\ "aborted" \in {"completed", "aborted"}
      /\ fresh \in [Requests -> Seq(Nat \cup {Torn})]
      /\ \A r \in S : call[r] = "running"
      /\ \A r \in S : fresh[r] = IF r \in made THEN Append(fresh[r], Served) ELSE fresh[r]
  BY <1>1 DEF SyncTypeOK
<1> HIDE DEF S, made
<1> QED
  BY <1>1, <1>3, <1>4, ReturnServes

(* Only the last server to be told its version moves the version served.   *)
LEMMA ManagerServes ==
    ASSUME IInv, NEW p \in Replicas,
           \/ BeginSync \/ AbortFails(p) \/ Sleep(p) \/ Load(p) \/ Loaded(p)
           \/ SetGlobalSteps(p) \/ ResumeGeneration(p)
    PROVE  UNCHANGED callVars /\ Served' \in {Served, Served + 1}
<1>1. version \in Int /\ phase \in Phase
  BY SyncAssumption DEF IInv, SyncTypeOK
<1>2. UNCHANGED callVars
  BY DEF BeginSync, AbortFails, Sleep, Load, Loaded, SetGlobalSteps, ResumeGeneration
<1>3. CASE BeginSync
  BY <1>1, <1>3 DEF BeginSync, Served
<1>4. CASE AbortFails(p) \/ Sleep(p) \/ SetGlobalSteps(p) \/ ResumeGeneration(p)
  BY <1>1, <1>4 DEF AbortFails, Sleep, SetGlobalSteps, ResumeGeneration, Answered, Served
<1>5. CASE Load(p) \/ Loaded(p)
  BY <1>1, <1>5 DEF Load, Loaded, managerVars, Served
<1> QED
  BY <1>2, <1>3, <1>4, <1>5

(* CheckpointEngineManager.update_weights implements an update in one      *)
(* step: callers of FullyAsyncLLMServerManager.generate see one system     *)
(* that serves one version at a time, with any number of replicas, each    *)
(* aborted, loaded and resumed when it likes.                              *)
THEOREM UpdateIsAtomic == Spec => UpdatesAtomically
<1>1. Init => Atomic!Init
  <2> SUFFICES ASSUME Init PROVE Atomic!Init
    OBVIOUS
  <2>1. /\ [r \in Requests |-> kept[r] \o fresh[r]] = [r \in Requests |-> <<>>]
        /\ {r \in Requests : call[r] = "done"} = {} /\ Served = 0
    BY DEF Init, Served
  <2> QED
    BY <2>1 DEF Init, Atomic!Init
<1>2. IInv /\ [Next]_vars => [~leaky => Atomic!Next]_(Atomic!vars)
  <2> SUFFICES ASSUME IInv, ~leaky, [Next]_vars PROVE [Atomic!Next]_(Atomic!vars)
    OBVIOUS
  <2>1. CASE UNCHANGED vars
    BY <2>1 DEF vars, callVars, managerVars, Atomic!vars, Served
  <2>2. ASSUME NEW r \in Requests, CallStep(r) PROVE [Atomic!Next]_(Atomic!vars)
    BY <2>2, SendUnserved, GenerateServes DEF CallStep
  <2>3. CASE BeginSync
    <3>1. PICK p \in Replicas : TRUE
      BY SyncAssumption
    <3> QED
      BY <2>3, <3>1, ManagerServes, CallsUnserved
  <2>4. ASSUME NEW p \in Replicas, ReplicaStep(p) PROVE [Atomic!Next]_(Atomic!vars)
    BY <2>4, AbortServes, ManagerServes, CallsUnserved DEF ReplicaStep
  <2> QED
    BY <2>1, <2>2, <2>3, <2>4 DEF Next
<1> QED
  BY <1>1, <1>2, AlwaysIInv, PTL DEF Spec, UpdatesAtomically

=============================================================================
