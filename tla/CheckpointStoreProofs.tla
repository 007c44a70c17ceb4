------------------------ MODULE CheckpointStoreProofs ------------------------
(***************************************************************************)
(* Theorems about checkpoints and crashes, for every number of epochs,     *)
(* steps and crashes and every setting.                                    *)
(***************************************************************************)
EXTENDS CheckpointStore, TLAPS

Saving == stage \in {"open", "write", "register"}

Lineage(k) == [i \in 1..k |-> i - 1]

(* The loader stands where global_steps says.                              *)
Located ==
    /\ globalSteps = loader.epoch * EpochLength + loader.next
    /\ loader.epoch = TotalEpochs => loader.next = 0
    /\ stage = "down" => globalSteps = 0
    /\ Saving => globalSteps \in Steps
    /\ Saving /\ part = "critic" => config.critic
    /\ stage = "register" => part \in Managers

(* What is whole on disk is what was trained on when it was saved.         *)
Stored ==
    \A v \in Steps :
       /\ \A m \in Used : Whole(disk[m][v]) => disk[m][v] = Lineage(v)
       /\ Whole(data[v]) /\ v % EpochLength # 0 => data[v] = v % EpochLength

(* The loader's position is never removed once it was saved.               *)
DataThere ==
    /\ tracker \in Steps => data[tracker] # Missing
    /\ Saving /\ part = "tracker" => data[globalSteps] # Missing

LInv == StoreTypeOK /\ Located /\ Stored /\ DataThere /\ LineageExact

(* The manager's turn in this save is over.                                *)
Before(m, p) == p \in {"data", "tracker"} \/ (m = "actor" /\ p = "critic")

Several == \A m \in Managers : config.keep[m] # 1

(* The tracker names an earlier step than the one being saved.             *)
Behind ==
    tracker \in Steps =>
        /\ Saving => tracker < globalSteps
        /\ stage \in {"training", "finished"} => tracker <= globalSteps

(* A manager's list is in the order of the steps, and the tracked step is  *)
(* its last, or the one before it while a save is past this manager.       *)
Lists ==
    \A m \in Managers :
       /\ stage \in {"down", "failed"} => Len(previousSaved[m]) = 0
       /\ \A i \in 1..Len(previousSaved[m]) :
             /\ previousSaved[m][i] <= globalSteps
             /\ i < Len(previousSaved[m]) \/ (Saving /\ ~Before(m, part)) =>
                   previousSaved[m][i] < globalSteps
             /\ tracker = previousSaved[m][i] =>
                   \/ i = Len(previousSaved[m])
                   \/ Saving /\ Before(m, part) /\ i = Len(previousSaved[m]) - 1

(* The parts of a save that are done are whole.                            *)
Written ==
    Saving =>
        /\ \A m \in Used : Before(m, part) \/ (stage = "register" /\ m = part) =>
              Whole(disk[m][globalSteps])
        /\ part = "tracker" => Whole(data[globalSteps])

SInv == LInv /\ Several /\ Behind /\ Lists /\ Written /\ KeptUntilSaved

-----------------------------------------------------------------------------
(* Arithmetic of epochs.                                                   *)
LEMMA Division ==
    ASSUME NEW n \in Nat \ {0}, NEW v \in Nat
    PROVE  /\ v \div n \in Nat /\ v % n \in 0..n-1
           /\ v = (v \div n) * n + (v % n)
OBVIOUS

LEMMA Remainder ==
    ASSUME NEW n \in Nat \ {0}, NEW e \in Nat, NEW k \in 0..n
    PROVE  (e * n + k) % n = IF k = n THEN 0 ELSE k
OBVIOUS

LEMMA WithinEpochs ==
    ASSUME NEW n \in Nat \ {0}, NEW e \in Nat, NEW total \in Nat, NEW k \in 1..n, e < total
    PROVE  e * n + k \in 1..n * total
OBVIOUS

LEMMA EpochOf ==
    ASSUME NEW n \in Nat \ {0}, NEW total \in Nat, NEW v \in 1..n * total
    PROVE  v \div n \in 0..total /\ (v \div n = total => v % n = 0)
OBVIOUS

LEMMA NextEpoch ==
    ASSUME NEW n \in Nat \ {0}, NEW e \in Nat
    PROVE  (e + 1) * n = e * n + n
OBVIOUS

LEMMA StepNumbers ==
    /\ EpochLength * TotalEpochs \in Nat
    /\ Steps \subseteq Nat
    /\ \A v \in Steps : v \in 1 .. EpochLength * TotalEpochs /\ v \in 0 .. EpochLength * TotalEpochs
BY StoreAssumption DEF Steps

LEMMA Distinct ==
    /\ Missing # Torn /\ Missing \notin Nat /\ Torn \notin Nat
    /\ \A s \in Seq(Nat) : Whole(s)
    /\ \A n \in Nat : Whole(n)
    /\ ~Whole(Missing) /\ ~Whole(Torn)
BY StoreAssumption DEF Whole

LEMMA Keeps ==
    ASSUME StoreTypeOK, NEW m \in Managers
    PROVE  config.keep[m] \in Nat
BY StoreAssumption DEF StoreTypeOK, Configuration

LEMMA Lineages ==
    ASSUME NEW k \in Nat
    PROVE  /\ Lineage(k) \in Seq(Nat)
           /\ Append(Lineage(k), k) = Lineage(k + 1)
<1>1. Lineage(k) \in Seq(Nat) /\ Len(Lineage(k)) = k
  BY DEF Lineage
<1>2. Append(Lineage(k), k) = Lineage(k + 1)
  BY DEF Lineage
<1> QED
  BY <1>1, <1>2

(* The first n elements of a list are dropped.                             *)
LEMMA KeptElements ==
    ASSUME NEW T, NEW s \in Seq(T), NEW n \in 0..Len(s)
    PROVE  /\ Kept(s, n) \in Seq(T)
           /\ Len(Kept(s, n)) = Len(s) - n
           /\ \A i \in 1..Len(s) - n : Kept(s, n)[i] = s[i + n]
BY DEF Kept

(* What is dropped is gone, the rest of the disk is as it was.             *)
LEMMA DroppedDisk ==
    ASSUME StoreTypeOK, NEW m \in Managers, NEW paths, NEW n
    PROVE  /\ Dropped(m, paths, n) \in [Steps -> {Missing, Torn} \cup Seq(Nat)]
           /\ \A v \in Steps : \/ Dropped(m, paths, n)[v] = disk[m][v]
                               \/ /\ Dropped(m, paths, n)[v] = Missing
                                  /\ \E i \in 1..n : paths[i] = v
BY DEF Dropped, StoreTypeOK

LEMMA Excesses ==
    ASSUME StoreTypeOK, NEW m \in Managers
    PROVE  /\ ExcessBefore(previousSaved[m], config.keep[m]) \in 0..Len(previousSaved[m])
           /\ ExcessAfter(Append(previousSaved[m], globalSteps), config.keep[m])
                 \in 0..Len(previousSaved[m]) + 1
<1>1. config.keep[m] \in Nat
  BY Keeps
<1>2. /\ previousSaved[m] \in Seq(Steps) /\ Len(previousSaved[m]) \in Nat
      /\ Len(Append(previousSaved[m], globalSteps)) = Len(previousSaved[m]) + 1
  BY DEF StoreTypeOK
<1> QED
  BY <1>1, <1>2 DEF ExcessBefore, ExcessAfter

-----------------------------------------------------------------------------
LEMMA InitLInv == Init => LInv
<1> SUFFICES ASSUME Init PROVE LInv
  OBVIOUS
<1>1. StoreTypeOK
  <2>1. 0 \in 0..EpochLength * TotalEpochs /\ 0 \in 0..TotalEpochs /\ 0 \in 0..EpochLength
        /\ 0 \in 0..MaxCrashes
    BY StepNumbers, StoreAssumption
  <2>2. previousSaved \in [Managers -> Seq(Steps)]
        /\ \A m \in Managers : config.keep[m] > 0 => Len(previousSaved[m]) <= config.keep[m]
    <3>1. \A m \in Managers : config.keep[m] \in Nat
      BY StoreAssumption DEF Init, Configuration
    <3>2. \A m \in Managers : Len(previousSaved[m]) = 0
      BY DEF Init
    <3> QED
      BY <3>1, <3>2 DEF Init
  <2> QED
    BY <2>1, <2>2 DEF Init, StoreTypeOK, Managers, Stage, Untrained, Beginning
<1>2. Located
  BY StoreAssumption DEF Init, Located, Beginning, Saving
<1>3. Stored
  BY Distinct DEF Init, Stored, Used, Managers
<1>4. LineageExact
  BY DEF Init, LineageExact, Used, Managers, Untrained
<1>5. DataThere
  BY Distinct, StepNumbers DEF Init, DataThere, Saving
<1> QED
  BY <1>1, <1>2, <1>3, <1>4, <1>5 DEF LInv

-----------------------------------------------------------------------------
(* Steps that leave the engines alone keep the lineage, those that leave   *)
(* the disk alone what is stored.                                          *)
LEMMA LineageStays ==
    ASSUME LineageExact, config' = config, UNCHANGED engineVars
    PROVE  LineageExact'
BY DEF LineageExact, Used, engineVars

LEMMA StoredStays ==
    ASSUME Stored, config' = config, disk' = disk, data' = data
    PROVE  Stored'
BY DEF Stored, Used

LEMMA PositionFacts ==
    ASSUME LInv, Position.epoch < TotalEpochs
    PROVE  /\ Position \in [epoch : 0..TotalEpochs, next : 0..EpochLength - 1]
           /\ globalSteps = Position.epoch * EpochLength + Position.next
<1>1. /\ loader \in [epoch : 0..TotalEpochs, next : 0..EpochLength]
      /\ globalSteps = loader.epoch * EpochLength + loader.next
      /\ EpochLength \in Nat \ {0} /\ TotalEpochs \in Nat
  BY StoreAssumption DEF LInv, StoreTypeOK, Located
<1>2. CASE loader.next < EpochLength
  BY <1>1, <1>2 DEF Position
<1>3. CASE ~(loader.next < EpochLength)
  <2>1. loader.next = EpochLength
    BY <1>1, <1>3
  <2>2. Position = [epoch |-> loader.epoch + 1, next |-> 0]
    BY <1>3 DEF Position
  <2>3. (loader.epoch + 1) * EpochLength = loader.epoch * EpochLength + EpochLength
    BY <1>1, NextEpoch
  <2>4. Position.epoch \in 0..TotalEpochs
    BY <1>1, <2>2
  <2> QED
    BY <1>1, <2>1, <2>2, <2>3, <2>4
<1> QED
  BY <1>2, <1>3

LEMMA TrainLInv ==
    ASSUME LInv, Train
    PROVE  LInv'
<1>1. StoreTypeOK /\ Located /\ Stored /\ DataThere /\ LineageExact
  BY DEF LInv
<1> DEFINE e == Position.epoch
           k == Position.next
<1>2. /\ e \in 0..TotalEpochs /\ k \in 0..EpochLength - 1 /\ e < TotalEpochs
      /\ Position = [epoch |-> e, next |-> k]
      /\ globalSteps = e * EpochLength + k
  BY PositionFacts DEF Train
<1>3. /\ globalSteps' = globalSteps + 1
      /\ weights' = [m \in Managers |-> IF m \in Used
            THEN Append(weights[m], globalSteps) ELSE weights[m]]
      /\ loader' = [epoch |-> e, next |-> k + 1]
      /\ \/ stage' = "open" /\ part' = "actor"
         \/ stage' \in {"finished", "training"} /\ part' = part
      /\ config' = config /\ disk' = disk /\ data' = data /\ tracker' = tracker
      /\ previousSaved' = previousSaved /\ crashes' = crashes
  <2>1. /\ globalSteps' = globalSteps + 1
        /\ weights' = [m \in Managers |-> IF m \in Used
              THEN Append(weights[m], globalSteps) ELSE weights[m]]
        /\ config' = config /\ disk' = disk /\ data' = data /\ tracker' = tracker
        /\ previousSaved' = previousSaved /\ crashes' = crashes
    BY <1>2 DEF Train, diskVars
  <2>2. loader' = [epoch |-> e, next |-> k + 1]
    BY <1>2 DEF Train
  <2>3. \/ stage' = "open" /\ part' = "actor"
        \/ stage' \in {"finished", "training"} /\ part' = part
    BY DEF Train, StepEnds
  <2> QED
    BY <2>1, <2>2, <2>3
<1> HIDE DEF e, k
<1>4. EpochLength \in Nat \ {0} /\ TotalEpochs \in Nat /\ e \in Nat /\ k + 1 \in 1..EpochLength
  BY <1>2, StoreAssumption
<1>5. /\ globalSteps' = e * EpochLength + (k + 1)
      /\ globalSteps' \in Steps
  <2>1. e * EpochLength + (k + 1) \in Steps
    BY <1>2, <1>4, WithinEpochs DEF Steps
  <2>2. e * EpochLength \in Nat /\ k \in Int
    BY <1>2, <1>4
  <2> QED
    BY <1>2, <1>3, <2>1, <2>2
<1>6. StoreTypeOK'
  <2>1. globalSteps \in Nat /\ globalSteps' \in 0..EpochLength * TotalEpochs
    BY <1>1, <1>5, StepNumbers DEF StoreTypeOK
  <2>2. weights' \in [Managers -> Seq(Nat)]
    BY <1>1, <1>3, <2>1 DEF StoreTypeOK
  <2>3. loader' \in [epoch : 0..TotalEpochs, next : 0..EpochLength]
    BY <1>2, <1>3, <1>4
  <2>4. stage' \in Stage /\ part' \in Managers \cup {"data", "tracker"}
    BY <1>1, <1>3 DEF StoreTypeOK, Stage, Managers
  <2> QED
    BY <1>1, <1>3, <2>1, <2>2, <2>3, <2>4 DEF StoreTypeOK
<1>7. Located'
  <2>1. loader'.epoch = e /\ loader'.next = k + 1
    BY <1>3
  <2> QED
    BY <1>2, <1>3, <1>4, <1>5, <2>1 DEF Located, Saving
<1>8. LineageExact'
  <2>1. globalSteps \in Nat
    BY <1>1, StepNumbers DEF StoreTypeOK
  <2>2. ASSUME NEW m \in Used PROVE weights'[m] = Lineage(globalSteps + 1)
    <3>1. m \in Managers /\ weights[m] = Lineage(globalSteps)
      BY <1>1 DEF Used, Managers, LineageExact, Lineage
    <3> QED
      BY <1>3, <2>1, <3>1, Lineages
  <2> QED
    BY <1>3, <2>2 DEF LineageExact, Used, Lineage
<1>9. DataThere'
  BY <1>1, <1>3 DEF DataThere, Saving
<1> QED
  BY <1>9, <1>1, <1>3, <1>6, <1>7, <1>8, StoredStays DEF LInv

LEMMA OpenEngineLInv ==
    ASSUME LInv, OpenEngine
    PROVE  LInv'
<1>1. StoreTypeOK /\ Located /\ Stored /\ DataThere /\ LineageExact
  BY DEF LInv
<1> DEFINE paths == previousSaved[part]
           n == ExcessBefore(paths, config.keep[part])
<1>2. /\ part \in Managers
      /\ disk' = [disk EXCEPT ![part] = [Dropped(part, paths, n) EXCEPT ![globalSteps] = Torn]]
      /\ previousSaved' = [previousSaved EXCEPT ![part] = Kept(paths, n)]
      /\ stage = "open" /\ stage' = "write"
      /\ config' = config /\ data' = data /\ tracker' = tracker /\ part' = part
      /\ UNCHANGED engineVars /\ crashes' = crashes
  BY DEF OpenEngine
<1>3. /\ paths \in Seq(Steps) /\ n \in 0..Len(paths)
  BY <1>1, <1>2, Excesses DEF StoreTypeOK
<1> HIDE DEF n
<1>4. Kept(paths, n) \in Seq(Steps) /\ Len(Kept(paths, n)) <= Len(paths)
  BY <1>3, KeptElements
<1>5. /\ Dropped(part, paths, n) \in [Steps -> {Missing, Torn} \cup Seq(Nat)]
      /\ \A v \in Steps : \/ Dropped(part, paths, n)[v] = disk[part][v]
                          \/ Dropped(part, paths, n)[v] = Missing
  <2>1. StoreTypeOK /\ part \in Managers
    BY <1>1, <1>2
  <2> QED
    BY <2>1, DroppedDisk
<1>6. StoreTypeOK'
  <2>1. disk' \in [Managers -> [Steps -> {Missing, Torn} \cup Seq(Nat)]]
    BY <1>1, <1>2, <1>5 DEF StoreTypeOK
  <2>2. /\ previousSaved' \in [Managers -> Seq(Steps)]
        /\ \A m \in Managers : config.keep[m] > 0 => Len(previousSaved'[m]) <= config.keep[m]
    <3>1. config.keep[part] > 0 => Len(Kept(paths, n)) <= config.keep[part]
      <4>1. config.keep[part] \in Nat /\ Len(Kept(paths, n)) \in Nat /\ Len(paths) \in Nat
        BY <1>1, <1>2, <1>3, <1>4, Keeps
      <4> QED
        BY <1>1, <1>2, <1>4, <4>1 DEF StoreTypeOK
    <3> HIDE DEF paths
    <3> QED
      BY <1>1, <1>2, <1>4, <3>1 DEF StoreTypeOK
  <2> QED
    BY <1>1, <1>2, <2>1, <2>2 DEF StoreTypeOK, Stage, engineVars
<1>7. Located'
  BY <1>1, <1>2 DEF Located, Saving, engineVars
<1>8. Stored'
  <2> HIDE DEF paths
  <2>1. ASSUME NEW m \in Managers, NEW v \in Steps, Whole(disk'[m][v])
        PROVE  disk'[m][v] = disk[m][v]
    <3>1. CASE m # part
      BY <1>1, <1>2, <3>1 DEF StoreTypeOK
    <3>2. CASE m = part
      <4>1. disk'[m] = [Dropped(part, paths, n) EXCEPT ![globalSteps] = Torn]
        BY <1>1, <1>2, <3>2 DEF StoreTypeOK
      <4>2. v # globalSteps
        BY <1>5, <2>1, <4>1, Distinct
      <4>3. disk'[m][v] = Dropped(part, paths, n)[v]
        BY <1>5, <4>1, <4>2
      <4> QED
        BY <1>5, <2>1, <3>2, <4>3, Distinct
    <3> QED
      BY <3>1, <3>2
  <2> QED
    BY <1>1, <1>2, <2>1 DEF Stored, Used, Managers
<1>9. DataThere'
  BY <1>1, <1>2 DEF DataThere, Saving, engineVars, Managers
<1> QED
  BY <1>9, <1>1, <1>2, <1>6, <1>7, <1>8, LineageStays DEF LInv

LEMMA WriteEngineLInv ==
    ASSUME LInv, WriteEngine
    PROVE  LInv'
<1>1. StoreTypeOK /\ Located /\ Stored /\ DataThere /\ LineageExact
  BY DEF LInv
<1>2. /\ part \in Managers
      /\ disk' = [disk EXCEPT ![part][globalSteps] = weights[part]]
      /\ stage = "write" /\ stage' = "register"
      /\ config' = config /\ data' = data /\ tracker' = tracker /\ part' = part
      /\ UNCHANGED engineVars /\ previousSaved' = previousSaved /\ crashes' = crashes
  BY DEF WriteEngine
<1>3. weights[part] \in Seq(Nat) /\ globalSteps \in Steps
  BY <1>1, <1>2 DEF StoreTypeOK, Located, Saving
<1>4. StoreTypeOK'
  <2>1. disk' \in [Managers -> [Steps -> {Missing, Torn} \cup Seq(Nat)]]
    BY <1>1, <1>2, <1>3 DEF StoreTypeOK
  <2> QED
    BY <1>1, <1>2, <2>1 DEF StoreTypeOK, Stage, engineVars
<1>5. Located'
  BY <1>1, <1>2 DEF Located, Saving, engineVars
<1>6. Stored'
  <2>1. weights[part] = Lineage(globalSteps)
    BY <1>1, <1>2 DEF Located, Saving, LineageExact, Used, Managers, Lineage
  <2>2. ASSUME NEW m \in Managers, NEW v \in Steps
        PROVE  disk'[m][v] = IF m = part /\ v = globalSteps THEN Lineage(v) ELSE disk[m][v]
    BY <1>1, <1>2, <2>1 DEF StoreTypeOK
  <2> QED
    BY <1>1, <1>2, <2>2 DEF Stored, Used, Managers
<1>7. DataThere'
  BY <1>1, <1>2 DEF DataThere, Saving, engineVars, Managers
<1> QED
  BY <1>7, <1>1, <1>2, <1>4, <1>5, <1>6, LineageStays DEF LInv

LEMMA RegisterLInv ==
    ASSUME LInv, Register
    PROVE  LInv'
<1>1. StoreTypeOK /\ Located /\ Stored /\ DataThere /\ LineageExact
  BY DEF LInv
<1> DEFINE paths == Append(previousSaved[part], globalSteps)
           n == ExcessAfter(paths, config.keep[part])
<1>2. /\ stage = "register" /\ stage' = "open"
      /\ disk' = [disk EXCEPT ![part] = Dropped(part, paths, n)]
      /\ previousSaved' = [previousSaved EXCEPT ![part] = Kept(paths, n)]
      /\ part' = IF part = "actor" /\ config.critic THEN "critic" ELSE "data"
      /\ config' = config /\ data' = data /\ tracker' = tracker
      /\ UNCHANGED engineVars /\ crashes' = crashes
  BY DEF Register
<1>3. part \in Managers /\ globalSteps \in Steps
  BY <1>1, <1>2 DEF Located, Saving
<1>4. /\ paths \in Seq(Steps) /\ n \in 0..Len(paths)
      /\ Len(paths) = Len(previousSaved[part]) + 1 /\ Len(previousSaved[part]) \in Nat
  BY <1>1, <1>3, Excesses DEF StoreTypeOK
<1>5. Kept(paths, n) \in Seq(Steps) /\ Len(Kept(paths, n)) = Len(paths) - n
  <2> HIDE DEF n, paths
  <2> QED
    BY <1>4, KeptElements
<1>6. config.keep[part] > 0 => Len(Kept(paths, n)) <= config.keep[part]
  <2>1. config.keep[part] \in Nat
    BY <1>1, <1>3, Keeps
  <2>2. n = IF config.keep[part] > 0 /\ Len(paths) > config.keep[part]
            THEN Len(paths) - config.keep[part] ELSE 0
    BY DEF ExcessAfter
  <2> HIDE DEF n, paths
  <2> QED
    BY <1>4, <1>5, <2>1, <2>2
<1> HIDE DEF n, paths
<1>7. /\ Dropped(part, paths, n) \in [Steps -> {Missing, Torn} \cup Seq(Nat)]
      /\ \A v \in Steps : \/ Dropped(part, paths, n)[v] = disk[part][v]
                          \/ Dropped(part, paths, n)[v] = Missing
  <2>1. StoreTypeOK /\ part \in Managers
    BY <1>1, <1>3
  <2> QED
    BY <2>1, DroppedDisk
<1>8. StoreTypeOK'
  <2>1. disk' \in [Managers -> [Steps -> {Missing, Torn} \cup Seq(Nat)]]
    BY <1>1, <1>2, <1>3, <1>7 DEF StoreTypeOK
  <2>2. /\ previousSaved' \in [Managers -> Seq(Steps)]
        /\ \A m \in Managers : config.keep[m] > 0 => Len(previousSaved'[m]) <= config.keep[m]
    BY <1>1, <1>2, <1>3, <1>5, <1>6 DEF StoreTypeOK
  <2>3. part' \in Managers \cup {"data", "tracker"}
    BY <1>2 DEF Managers
  <2> QED
    BY <1>1, <1>2, <2>1, <2>2, <2>3 DEF StoreTypeOK, Stage, engineVars
<1>9. Located'
  BY <1>1, <1>2 DEF Located, Saving, engineVars
<1>10. Stored'
  <2>1. ASSUME NEW m \in Managers, NEW v \in Steps, Whole(disk'[m][v])
        PROVE  disk'[m][v] = disk[m][v]
    BY <1>1, <1>2, <1>3, <1>7, <2>1, Distinct DEF StoreTypeOK
  <2> QED
    BY <1>1, <1>2, <2>1 DEF Stored, Used, Managers
<1>11. DataThere'
  BY <1>1, <1>2 DEF DataThere, Saving, engineVars
<1> QED
  BY <1>11, <1>1, <1>2, <1>8, <1>9, <1>10, LineageStays DEF LInv

LEMMA OpenDataLInv ==
    ASSUME LInv, OpenData
    PROVE  LInv'
<1>1. StoreTypeOK /\ Located /\ Stored /\ DataThere /\ LineageExact
  BY DEF LInv
<1>2. /\ data' = [data EXCEPT ![globalSteps] = Torn]
      /\ stage = "open" /\ stage' = "write" /\ part' = part /\ part = "data"
      /\ config' = config /\ disk' = disk /\ tracker' = tracker
      /\ UNCHANGED engineVars /\ previousSaved' = previousSaved /\ crashes' = crashes
  BY DEF OpenData
<1>3. StoreTypeOK'
  BY <1>1, <1>2 DEF StoreTypeOK, Stage, engineVars
<1>4. Located'
  BY <1>1, <1>2 DEF Located, Saving, engineVars
<1>5. Stored'
  <2>1. ASSUME NEW v \in Steps, Whole(data'[v]) PROVE data'[v] = data[v]
    BY <1>1, <1>2, <2>1, Distinct DEF StoreTypeOK
  <2> QED
    BY <1>1, <1>2, <2>1 DEF Stored, Used
<1>6. DataThere'
  BY <1>1, <1>2, Distinct DEF DataThere, StoreTypeOK, engineVars
<1> QED
  BY <1>6, <1>1, <1>2, <1>3, <1>4, <1>5, LineageStays DEF LInv

LEMMA WriteDataLInv ==
    ASSUME LInv, WriteData
    PROVE  LInv'
<1>1. StoreTypeOK /\ Located /\ Stored /\ DataThere /\ LineageExact
  BY DEF LInv
<1>2. /\ data' = [data EXCEPT ![globalSteps] = loader.next]
      /\ stage = "write" /\ stage' = "open" /\ part' = "tracker"
      /\ config' = config /\ disk' = disk /\ tracker' = tracker
      /\ UNCHANGED engineVars /\ previousSaved' = previousSaved /\ crashes' = crashes
  BY DEF WriteData
<1>3. StoreTypeOK'
  <2>1. loader.next \in 0..EpochLength
    BY <1>1 DEF StoreTypeOK
  <2>2. data' \in [Steps -> {Missing, Torn} \cup 0..EpochLength]
    BY <1>1, <1>2, <2>1 DEF StoreTypeOK
  <2> QED
    BY <1>1, <1>2, <2>2 DEF StoreTypeOK, Stage, engineVars
<1>4. Located'
  BY <1>1, <1>2 DEF Located, Saving, engineVars
<1>5. Stored'
  <2>1. globalSteps % EpochLength = IF loader.next = EpochLength THEN 0 ELSE loader.next
    <3>1. /\ loader.epoch \in Nat /\ loader.next \in 0..EpochLength
          /\ globalSteps = loader.epoch * EpochLength + loader.next
          /\ EpochLength \in Nat \ {0}
      BY <1>1, StoreAssumption DEF StoreTypeOK, Located
    <3> QED
      BY <3>1, Remainder
  <2>2. ASSUME NEW v \in Steps
        PROVE  data'[v] = IF v = globalSteps THEN loader.next ELSE data[v]
    BY <1>1, <1>2 DEF StoreTypeOK
  <2> QED
    BY <1>1, <1>2, <2>1, <2>2 DEF Stored, Used
<1>6. DataThere'
  <2>1. loader.next \in Nat /\ globalSteps \in Steps
    BY <1>1, <1>2, StoreAssumption DEF StoreTypeOK, Located, Saving
  <2> QED
    BY <1>1, <1>2, <2>1, Distinct DEF DataThere, StoreTypeOK, engineVars
<1> QED
  BY <1>6, <1>1, <1>2, <1>3, <1>4, <1>5, LineageStays DEF LInv

(* Steps that change the tracker, the stage or nothing that counts.        *)
LEMMA StageLInv ==
    ASSUME LInv, config' = config, disk' = disk, data' = data, UNCHANGED engineVars,
           previousSaved' = previousSaved, crashes' = crashes, part' = part,
           \/ tracker' = tracker \/ tracker' = Torn
           \/ tracker' = globalSteps /\ stage = "write" /\ part = "tracker",
           stage' \in {"finished", "training", "failed"} \/ (stage = "open" /\ stage' = "write")
    PROVE  LInv'
<1>1. StoreTypeOK /\ Located /\ Stored /\ DataThere /\ LineageExact
  BY DEF LInv
<1>2. tracker' \in Steps \cup {Missing, Torn}
  BY <1>1 DEF StoreTypeOK, Located, Saving
<1>3. StoreTypeOK'
  BY <1>1, <1>2 DEF StoreTypeOK, Stage, engineVars
<1>4. Located'
  BY <1>1 DEF Located, Saving, engineVars
<1>5. DataThere'
  BY <1>1, Distinct, StepNumbers DEF DataThere, Saving, engineVars
<1> QED
  BY <1>1, <1>3, <1>4, <1>5, StoredStays, LineageStays DEF LInv

LEMMA CrashLInv ==
    ASSUME LInv, Crash
    PROVE  LInv'
<1>1. StoreTypeOK /\ Located /\ Stored /\ DataThere /\ LineageExact
  BY DEF LInv
<1>2. /\ crashes' = crashes + 1 /\ crashes < MaxCrashes
      /\ stage' = "down" /\ part' = "actor"
      /\ globalSteps' = 0 /\ weights' = Untrained /\ loader' = Beginning
      /\ previousSaved' = [m \in Managers |-> <<>>]
      /\ config' = config /\ disk' = disk /\ data' = data /\ tracker' = tracker
  BY DEF Crash, diskVars
<1>3. StoreTypeOK'
  <2>1. /\ 0 \in 0..EpochLength * TotalEpochs /\ 0 \in 0..TotalEpochs /\ 0 \in 0..EpochLength
        /\ crashes' \in 0..MaxCrashes
    BY <1>1, <1>2, StepNumbers, StoreAssumption DEF StoreTypeOK
  <2>2. previousSaved' \in [Managers -> Seq(Steps)]
        /\ \A m \in Managers : config.keep[m] > 0 => Len(previousSaved'[m]) <= config.keep[m]
    <3>1. \A m \in Managers : config.keep[m] \in Nat
      BY <1>1, Keeps
    <3>2. \A m \in Managers : Len(previousSaved'[m]) = 0
      BY <1>2
    <3> QED
      BY <1>2, <3>1, <3>2
  <2> QED
    BY <1>1, <1>2, <2>1, <2>2 DEF StoreTypeOK, Managers, Stage, Untrained, Beginning
<1>4. Located'
  BY <1>2, StoreAssumption DEF Located, Beginning, Saving
<1>5. LineageExact'
  BY <1>2 DEF LineageExact, Used, Managers, Untrained
<1>6. DataThere'
  BY <1>1, <1>2 DEF DataThere, Saving
<1> QED
  BY <1>6, <1>1, <1>2, <1>3, <1>4, <1>5, StoredStays DEF LInv

LEMMA ResumeLInv ==
    ASSUME LInv, Resume
    PROVE  LInv'
<1>1. StoreTypeOK /\ Located /\ Stored /\ DataThere /\ LineageExact
  BY DEF LInv
<1>2. /\ tracker \in Steps /\ \A m \in Used : Whole(disk[m][tracker])
      /\ data[tracker] # Torn
      /\ globalSteps' = tracker
      /\ weights' = [m \in Managers |-> IF m \in Used THEN disk[m][tracker] ELSE <<>>]
      /\ loader' = [epoch |-> tracker \div EpochLength, next |-> Restored(tracker)]
      /\ stage' = "training" /\ part' = part
      /\ config' = config /\ disk' = disk /\ data' = data /\ tracker' = tracker
      /\ previousSaved' = previousSaved /\ crashes' = crashes
  BY DEF Resume, Loadable, diskVars
<1>3. /\ tracker \in 1..EpochLength * TotalEpochs /\ tracker \in Nat
      /\ EpochLength \in Nat \ {0} /\ TotalEpochs \in Nat
  BY <1>2, StepNumbers, StoreAssumption
<1>4. /\ tracker \div EpochLength \in 0..TotalEpochs
      /\ tracker \div EpochLength = TotalEpochs => tracker % EpochLength = 0
      /\ tracker = (tracker \div EpochLength) * EpochLength + (tracker % EpochLength)
      /\ tracker % EpochLength \in 0..EpochLength - 1
  BY <1>3, Division, EpochOf
<1>5. Restored(tracker) = tracker % EpochLength
  <2>1. Whole(data[tracker])
    BY <1>1, <1>2 DEF DataThere, Whole
  <2> QED
    BY <1>1, <1>2, <2>1 DEF Restored, Stored, Whole
<1>6. StoreTypeOK'
  <2>1. tracker \in 0..EpochLength * TotalEpochs
    BY <1>3
  <2>2. weights' \in [Managers -> Seq(Nat)]
    <3>1. ASSUME NEW m \in Used PROVE disk[m][tracker] \in Seq(Nat) /\ m \in Managers
      BY <1>1, <1>2, <3>1, Distinct DEF StoreTypeOK, Used, Managers
    <3>2. <<>> \in Seq(Nat)
      OBVIOUS
    <3> QED
      BY <1>2, <3>1, <3>2
  <2>3. loader' \in [epoch : 0..TotalEpochs, next : 0..EpochLength]
    BY <1>2, <1>3, <1>4, <1>5
  <2> QED
    BY <1>1, <1>2, <2>1, <2>2, <2>3 DEF StoreTypeOK, Stage
<1>7. Located'
  <2>1. loader'.epoch = tracker \div EpochLength /\ loader'.next = tracker % EpochLength
    BY <1>2, <1>5
  <2> QED
    BY <1>2, <1>4, <2>1 DEF Located, Saving
<1>8. LineageExact'
  <2>1. \A m \in Used : weights'[m] = Lineage(tracker)
    BY <1>1, <1>2 DEF Stored, Used, Managers
  <2> QED
    BY <1>2, <2>1 DEF LineageExact, Used, Lineage
<1>9. DataThere'
  BY <1>1, <1>2 DEF DataThere, Saving
<1> QED
  BY <1>1, <1>2, <1>6, <1>7, <1>8, <1>9, StoredStays DEF LInv

LEMMA StepLInv == LInv /\ [Next]_vars => LInv'
<1> SUFFICES ASSUME LInv, [Next]_vars PROVE LInv'
  OBVIOUS
<1>1. CASE UNCHANGED vars
  <2>1. /\ config' = config /\ disk' = disk /\ data' = data /\ UNCHANGED engineVars
        /\ stage' = stage /\ part' = part /\ tracker' = tracker
        /\ previousSaved' = previousSaved /\ crashes' = crashes
    BY <1>1 DEF vars, diskVars
  <2>2. StoreTypeOK' /\ Located' /\ DataThere'
    BY <2>1 DEF LInv, StoreTypeOK, Located, DataThere, Saving, engineVars
  <2> QED
    BY <2>1, <2>2, StoredStays, LineageStays DEF LInv
<1>2. CASE EpochsEnd
  BY <1>2, StageLInv DEF EpochsEnd, diskVars
<1>3. CASE OpenTracker
  BY <1>3, StageLInv DEF OpenTracker
<1>4. CASE WriteTracker
  BY <1>4, StageLInv DEF WriteTracker, StepEnds
<1>5. CASE StartFromScratch
  BY <1>5, StageLInv DEF StartFromScratch, diskVars
<1>6. CASE ResumeFails
  BY <1>6, StageLInv DEF ResumeFails, diskVars
<1> QED
  BY <1>1, <1>2, <1>3, <1>4, <1>5, <1>6, TrainLInv, OpenEngineLInv, WriteEngineLInv,
     RegisterLInv, OpenDataLInv, WriteDataLInv, CrashLInv, ResumeLInv DEF Next

LEMMA AlwaysLInv == Spec => []LInv
BY InitLInv, StepLInv, PTL DEF Spec

(* The files, the managers' lists and the loader keep their types, and a   *)
(* list never grows past its limit, through saves, crashes and resumptions.*)
THEOREM StoreTypeCorrect == Spec => []StoreTypeOK
<1>1. LInv => StoreTypeOK
  BY DEF LInv
<1> QED
  BY <1>1, AlwaysLInv, PTL

(* Whenever the process crashes and resumes (_load_checkpoint), it trains  *)
(* on every batch exactly once, in order; at an epoch's end too, where the *)
(* saved position is not restored.                                         *)
THEOREM LineageIsExact == Spec => []LineageExact
<1>1. LInv => LineageExact
  BY DEF LInv
<1> QED
  BY <1>1, AlwaysLInv, PTL

-----------------------------------------------------------------------------
(* The checkpoint the tracker names.                                       *)
Safe == Behind /\ Lists /\ Written /\ KeptUntilSaved

LEMMA Numbers ==
    ASSUME LInv
    PROVE  /\ globalSteps \in Nat
           /\ tracker \in Steps => tracker \in Nat
           /\ \A m \in Managers :
                 /\ previousSaved[m] \in Seq(Steps) /\ Len(previousSaved[m]) \in Nat
                 /\ \A i \in 1..Len(previousSaved[m]) :
                       previousSaved[m][i] \in Steps /\ previousSaved[m][i] \in Nat
<1>1. StoreTypeOK
  BY DEF LInv
<1>2. globalSteps \in Nat
  BY <1>1, StepNumbers DEF StoreTypeOK
<1>3. ASSUME NEW m \in Managers
      PROVE  /\ previousSaved[m] \in Seq(Steps) /\ Len(previousSaved[m]) \in Nat
             /\ \A i \in 1..Len(previousSaved[m]) : previousSaved[m][i] \in Steps
  BY <1>1 DEF StoreTypeOK
<1> QED
  BY <1>2, <1>3, StepNumbers

LEMMA TrainSafe ==
    ASSUME LInv, Several, Safe, Train
    PROVE  Safe'
<1>1. Behind /\ Lists /\ Written /\ KeptUntilSaved
  BY DEF Safe
<1>2. /\ stage = "training" /\ globalSteps' = globalSteps + 1
      /\ \/ stage' = "open" /\ part' = "actor"
         \/ stage' \in {"finished", "training"} /\ part' = part
      /\ config' = config /\ disk' = disk /\ data' = data /\ tracker' = tracker
      /\ previousSaved' = previousSaved
  BY DEF Train, StepEnds, diskVars
<1>3. Behind'
  BY <1>1, <1>2, Numbers DEF Behind, Saving
<1>4. Lists'
  <2>1. ASSUME NEW m \in Managers, NEW i \in 1..Len(previousSaved[m])
        PROVE  /\ previousSaved[m][i] < globalSteps'
               /\ tracker = previousSaved[m][i] => i = Len(previousSaved[m])
    BY <1>1, <1>2, Numbers DEF Lists, Saving
  <2> QED
    BY <1>2, <2>1, Numbers DEF Lists
<1>5. Written'
  BY <1>2 DEF Written, Saving, Before
<1>6. KeptUntilSaved'
  BY <1>1, <1>2 DEF KeptUntilSaved, WholeAt, Used
<1> QED
  BY <1>3, <1>4, <1>5, <1>6 DEF Safe

LEMMA OpenEngineSafe ==
    ASSUME LInv, Several, Safe, OpenEngine
    PROVE  Safe'
<1>1. Behind /\ Lists /\ Written /\ KeptUntilSaved /\ StoreTypeOK /\ Located
  BY DEF Safe, LInv
<1> DEFINE paths == previousSaved[part]
           n == ExcessBefore(paths, config.keep[part])
<1>2. /\ part \in Managers
      /\ disk' = [disk EXCEPT ![part] = [Dropped(part, paths, n) EXCEPT ![globalSteps] = Torn]]
      /\ previousSaved' = [previousSaved EXCEPT ![part] = Kept(paths, n)]
      /\ stage = "open" /\ stage' = "write"
      /\ config' = config /\ data' = data /\ tracker' = tracker /\ part' = part
      /\ globalSteps' = globalSteps
  BY DEF OpenEngine, engineVars
<1>3. /\ paths \in Seq(Steps) /\ Len(paths) \in Nat /\ n \in 0..Len(paths)
      /\ n = 0 \/ n < Len(paths)
  <2>1. config.keep[part] \in Nat /\ (config.keep[part] > 0 => Len(paths) <= config.keep[part])
    BY <1>1, <1>2, Keeps DEF StoreTypeOK
  <2>2. paths \in Seq(Steps) /\ Len(paths) \in Nat /\ n \in 0..Len(paths)
    BY <1>1, <1>2, Excesses, Numbers
  <2>3. n = IF config.keep[part] > 1 /\ Len(paths) >= config.keep[part]
            THEN Len(paths) - config.keep[part] + 1 ELSE 0
    BY DEF ExcessBefore
  <2> HIDE DEF n, paths
  <2> QED
    BY <2>1, <2>2, <2>3
<1>4. ~Before(part, part)
  BY <1>2 DEF Before, Managers
<1>5. /\ Kept(paths, n) \in Seq(Steps) /\ Len(Kept(paths, n)) = Len(paths) - n
      /\ \A i \in 1..Len(paths) - n : Kept(paths, n)[i] = paths[i + n]
  <2> HIDE DEF n, paths
  <2> QED
    BY <1>3, KeptElements
<1>6. /\ Dropped(part, paths, n) \in [Steps -> {Missing, Torn} \cup Seq(Nat)]
      /\ \A v \in Steps : \/ Dropped(part, paths, n)[v] = disk[part][v]
                          \/ /\ Dropped(part, paths, n)[v] = Missing
                             /\ \E i \in 1..n : paths[i] = v
  <2>1. StoreTypeOK /\ part \in Managers
    BY <1>1, <1>2
  <2> QED
    BY <2>1, DroppedDisk
<1>7. \A i \in 1..Len(paths) :
         /\ paths[i] < globalSteps /\ paths[i] \in Nat
         /\ tracker = paths[i] => i = Len(paths)
  BY <1>1, <1>2, <1>4, Numbers DEF Lists, Saving
<1> HIDE DEF n, paths
<1>8. Behind'
  BY <1>1, <1>2 DEF Behind, Saving
<1>9. Lists'
  <2>1. ASSUME NEW m \in Managers, m # part
        PROVE  previousSaved'[m] = previousSaved[m]
    BY <1>1, <1>2, <2>1 DEF StoreTypeOK
  <2>2. previousSaved'[part] = Kept(paths, n)
    BY <1>1, <1>2 DEF StoreTypeOK
  <2>3. ASSUME NEW i \in 1..Len(Kept(paths, n))
        PROVE  /\ Kept(paths, n)[i] < globalSteps /\ Kept(paths, n)[i] <= globalSteps
               /\ tracker = Kept(paths, n)[i] => i = Len(Kept(paths, n))
    <3>1. i + n \in 1..Len(paths) /\ Kept(paths, n)[i] = paths[i + n]
      BY <1>3, <1>5
    <3>2. globalSteps \in Nat
      BY Numbers
    <3> QED
      BY <1>3, <1>5, <1>7, <3>1, <3>2
  <2>4. ASSUME NEW m \in Managers
        PROVE  \A i \in 1..Len(previousSaved'[m]) :
                 /\ previousSaved'[m][i] <= globalSteps
                 /\ i < Len(previousSaved'[m]) \/ ~Before(m, part) =>
                       previousSaved'[m][i] < globalSteps
                 /\ tracker = previousSaved'[m][i] =>
                       \/ i = Len(previousSaved'[m])
                       \/ Before(m, part) /\ i = Len(previousSaved'[m]) - 1
    <3>1. CASE m = part
      BY <2>2, <2>3, <3>1
    <3>2. CASE m # part
      BY <1>1, <1>2, <2>1, <3>2 DEF Lists, Saving
    <3> QED
      BY <3>1, <3>2
  <2> QED
    BY <1>2, <2>4 DEF Lists, Saving
<1>10. ASSUME NEW m \in Managers, m # part PROVE disk'[m] = disk[m]
  BY <1>1, <1>2, <1>10 DEF StoreTypeOK
<1>11. Written'
  BY <1>1, <1>2, <1>4, <1>10 DEF Written, Saving, Used, Managers
<1>12. KeptUntilSaved'
  <2> SUFFICES ASSUME tracker \in Steps
               PROVE  Whole(data[tracker]) /\ \A m \in Used : Whole(disk'[m][tracker])
    BY <1>2 DEF KeptUntilSaved, WholeAt, Used
  <2>1. tracker # globalSteps
    BY <1>1, <1>2, Numbers DEF Behind, Saving
  <2>2. disk'[part][tracker] = Dropped(part, paths, n)[tracker]
    BY <1>1, <1>2, <1>6, <2>1 DEF StoreTypeOK
  <2>3. ~\E i \in 1..n : paths[i] = tracker
    BY <1>3, <1>7
  <2>4. disk'[part][tracker] = disk[part][tracker]
    BY <1>6, <2>2, <2>3
  <2> QED
    BY <1>1, <1>10, <2>4 DEF KeptUntilSaved, WholeAt, Used, Managers
<1> QED
  BY <1>8, <1>9, <1>11, <1>12 DEF Safe

LEMMA WriteEngineSafe ==
    ASSUME LInv, Several, Safe, WriteEngine
    PROVE  Safe'
<1>1. Behind /\ Lists /\ Written /\ KeptUntilSaved /\ StoreTypeOK /\ Located
  BY DEF Safe, LInv
<1>2. /\ part \in Managers
      /\ disk' = [disk EXCEPT ![part][globalSteps] = weights[part]]
      /\ stage = "write" /\ stage' = "register"
      /\ config' = config /\ data' = data /\ tracker' = tracker /\ part' = part
      /\ globalSteps' = globalSteps /\ previousSaved' = previousSaved
  BY DEF WriteEngine, engineVars
<1>3. globalSteps \in Steps /\ Whole(weights[part])
  BY <1>1, <1>2, Distinct DEF StoreTypeOK, Located, Saving
<1>4. \A m \in Managers, v \in Steps : disk'[m][v] =
         IF m = part /\ v = globalSteps THEN weights[part] ELSE disk[m][v]
  BY <1>1, <1>2 DEF StoreTypeOK
<1>5. Behind'
  BY <1>1, <1>2 DEF Behind, Saving
<1>6. Lists'
  BY <1>1, <1>2 DEF Lists, Saving
<1>7. Written'
  BY <1>1, <1>2, <1>3, <1>4 DEF Written, Saving, Used, Managers
<1>8. KeptUntilSaved'
  BY <1>1, <1>2, <1>3, <1>4 DEF KeptUntilSaved, WholeAt, Used, Managers
<1> QED
  BY <1>5, <1>6, <1>7, <1>8 DEF Safe

LEMMA RegisterSafe ==
    ASSUME LInv, Several, Safe, Register
    PROVE  Safe'
<1>1. Behind /\ Lists /\ Written /\ KeptUntilSaved /\ StoreTypeOK /\ Located
  BY DEF Safe, LInv
<1> DEFINE old == previousSaved[part]
           paths == Append(old, globalSteps)
           n == ExcessAfter(paths, config.keep[part])
<1>2. /\ stage = "register" /\ stage' = "open"
      /\ disk' = [disk EXCEPT ![part] = Dropped(part, paths, n)]
      /\ previousSaved' = [previousSaved EXCEPT ![part] = Kept(paths, n)]
      /\ part' = IF part = "actor" /\ config.critic THEN "critic" ELSE "data"
      /\ config' = config /\ data' = data /\ tracker' = tracker
      /\ globalSteps' = globalSteps
  BY DEF Register, engineVars
<1>3. part \in Managers /\ globalSteps \in Steps /\ globalSteps \in Nat
  BY <1>1, <1>2, Numbers DEF Located, Saving
<1>4. /\ old \in Seq(Steps) /\ Len(old) \in Nat
      /\ paths \in Seq(Steps) /\ Len(paths) = Len(old) + 1
      /\ paths[Len(old) + 1] = globalSteps
      /\ \A i \in 1..Len(old) : paths[i] = old[i]
  BY <1>3, Numbers
<1>5. n \in Nat /\ (n = 0 \/ n < Len(old))
  <2>1. /\ config.keep[part] \in Nat /\ config.keep[part] # 1
        /\ config.keep[part] > 0 => Len(old) <= config.keep[part]
    BY <1>1, <1>3, Keeps DEF StoreTypeOK, Several
  <2>2. n = IF config.keep[part] > 0 /\ Len(paths) > config.keep[part]
            THEN Len(paths) - config.keep[part] ELSE 0
    BY DEF ExcessAfter
  <2> HIDE DEF n, paths, old
  <2> QED
    BY <1>4, <2>1, <2>2
<1>6. /\ Kept(paths, n) \in Seq(Steps) /\ Len(Kept(paths, n)) = Len(paths) - n
      /\ \A i \in 1..Len(paths) - n : Kept(paths, n)[i] = paths[i + n]
  <2> HIDE DEF n, paths, old
  <2>1. n \in 0..Len(paths)
    BY <1>4, <1>5
  <2> QED
    BY <1>4, <2>1, KeptElements
<1>8. ~Before(part, part) /\ Before(part, part')
  BY <1>2, <1>3 DEF Before, Managers
<1>9. \A i \in 1..Len(old) :
         /\ old[i] < globalSteps /\ old[i] \in Nat
         /\ tracker = old[i] => i = Len(old)
  BY <1>1, <1>2, <1>3, <1>8, Numbers DEF Lists, Saving
<1>10. tracker # globalSteps
  BY <1>1, <1>2, <1>3 DEF Behind, Saving
<1> HIDE DEF n, paths, old
<1>7. /\ Dropped(part, paths, n) \in [Steps -> {Missing, Torn} \cup Seq(Nat)]
      /\ \A v \in Steps : \/ Dropped(part, paths, n)[v] = disk[part][v]
                          \/ /\ Dropped(part, paths, n)[v] = Missing
                             /\ \E i \in 1..n : paths[i] = v
  <2>1. StoreTypeOK /\ part \in Managers
    BY <1>1, <1>3
  <2> QED
    BY <2>1, DroppedDisk
<1>11. \A i \in 1..n : paths[i] # globalSteps /\ paths[i] # tracker
  BY <1>3, <1>4, <1>5, <1>9
<1>12. Behind'
  BY <1>1, <1>2 DEF Behind, Saving
<1>13. ASSUME NEW m \in Managers, m # part
       PROVE  previousSaved'[m] = previousSaved[m] /\ disk'[m] = disk[m]
  BY <1>1, <1>2, <1>13 DEF StoreTypeOK
<1>14. Lists'
  <2>1. previousSaved'[part] = Kept(paths, n)
    BY <1>1, <1>2, <1>3 DEF StoreTypeOK
  <2>2. ASSUME NEW i \in 1..Len(Kept(paths, n))
        PROVE  /\ Kept(paths, n)[i] <= globalSteps
               /\ i < Len(Kept(paths, n)) => Kept(paths, n)[i] < globalSteps
               /\ tracker = Kept(paths, n)[i] => i = Len(Kept(paths, n)) - 1
    <3>1. i + n \in 1..Len(old) + 1 /\ Kept(paths, n)[i] = paths[i + n]
      BY <1>4, <1>5, <1>6
    <3>2. CASE i + n = Len(old) + 1
      BY <1>3, <1>4, <1>5, <1>6, <1>10, <3>1, <3>2
    <3>3. CASE i + n \in 1..Len(old)
      <4>1. Kept(paths, n)[i] = old[i + n]
        BY <1>4, <3>1, <3>3
      <4>2. /\ old[i + n] < globalSteps /\ old[i + n] \in Nat
            /\ tracker = old[i + n] => i + n = Len(old)
        BY <1>9, <3>3
      <4>3. i \in Nat /\ n \in Nat /\ Len(Kept(paths, n)) = Len(old) + 1 - n
        BY <1>4, <1>5, <1>6
      <4> QED
        BY <1>3, <1>4, <4>1, <4>2, <4>3
    <3> QED
      BY <1>4, <1>5, <3>1, <3>2, <3>3
  <2>3. ASSUME NEW m \in Managers
        PROVE  \A i \in 1..Len(previousSaved'[m]) :
                 /\ previousSaved'[m][i] <= globalSteps
                 /\ i < Len(previousSaved'[m]) \/ ~Before(m, part') =>
                       previousSaved'[m][i] < globalSteps
                 /\ tracker = previousSaved'[m][i] =>
                       \/ i = Len(previousSaved'[m])
                       \/ Before(m, part') /\ i = Len(previousSaved'[m]) - 1
    <3>1. CASE m = part
      BY <1>8, <2>1, <2>2, <3>1
    <3>2. CASE m # part
      <4>1. Before(m, part) => Before(m, part')
        BY <1>2, <1>3 DEF Before, Managers
      <4>2. previousSaved'[m] = previousSaved[m]
        BY <1>13, <3>2
      <4>3. \A i \in 1..Len(previousSaved[m]) :
              /\ previousSaved[m][i] <= globalSteps
              /\ i < Len(previousSaved[m]) \/ ~Before(m, part) =>
                    previousSaved[m][i] < globalSteps
              /\ tracker = previousSaved[m][i] =>
                    \/ i = Len(previousSaved[m])
                    \/ Before(m, part) /\ i = Len(previousSaved[m]) - 1
        BY <1>1, <1>2 DEF Lists, Saving
      <4> QED
        BY <4>1, <4>2, <4>3
    <3> QED
      BY <3>1, <3>2
  <2> QED
    BY <1>2, <2>3 DEF Lists, Saving
<1>15. disk'[part] = Dropped(part, paths, n)
  BY <1>1, <1>2, <1>3 DEF StoreTypeOK
<1>16. Written'
  <2>1. disk'[part][globalSteps] = disk[part][globalSteps]
    BY <1>3, <1>7, <1>11, <1>15
  <2>2. \A m \in Used : Before(m, part') => Whole(disk'[m][globalSteps])
    <3>1. ASSUME NEW m \in Used, Before(m, part') PROVE Whole(disk'[m][globalSteps])
      <4>1. CASE m = part
        BY <1>1, <1>2, <2>1, <4>1 DEF Written, Saving
      <4>2. CASE m # part
        <5>1. m \in Managers /\ Before(m, part)
          BY <1>2, <1>3, <3>1, <4>2 DEF Before, Used, Managers
        <5> QED
          BY <1>1, <1>2, <1>13, <4>2, <5>1 DEF Written, Saving
      <4> QED
        BY <4>1, <4>2
    <3> QED
      BY <3>1
  <2> QED
    BY <1>2, <2>2 DEF Written, Saving, Used
<1>17. KeptUntilSaved'
  <2> SUFFICES ASSUME tracker \in Steps
               PROVE  Whole(data[tracker]) /\ \A m \in Used : Whole(disk'[m][tracker])
    BY <1>2 DEF KeptUntilSaved, WholeAt, Used
  <2>1. disk'[part][tracker] = disk[part][tracker]
    BY <1>7, <1>11, <1>15
  <2> QED
    BY <1>1, <1>13, <2>1 DEF KeptUntilSaved, WholeAt, Used, Managers
<1> QED
  BY <1>12, <1>14, <1>16, <1>17 DEF Safe

LEMMA OpenDataSafe ==
    ASSUME LInv, Several, Safe, OpenData
    PROVE  Safe'
<1>1. Behind /\ Lists /\ Written /\ KeptUntilSaved /\ StoreTypeOK
  BY DEF Safe, LInv
<1>2. /\ data' = [data EXCEPT ![globalSteps] = Torn]
      /\ stage = "open" /\ stage' = "write" /\ part' = part /\ part = "data"
      /\ config' = config /\ disk' = disk /\ tracker' = tracker
      /\ globalSteps' = globalSteps /\ previousSaved' = previousSaved
  BY DEF OpenData, engineVars
<1>3. Behind' /\ Lists'
  BY <1>1, <1>2 DEF Behind, Lists, Saving
<1>4. Written'
  BY <1>1, <1>2 DEF Written, Saving, Used
<1>5. KeptUntilSaved'
  <2>1. tracker \in Steps => tracker # globalSteps
    BY <1>1, <1>2, Numbers DEF Behind, Saving
  <2> QED
    BY <1>1, <1>2, <2>1 DEF KeptUntilSaved, WholeAt, Used, StoreTypeOK
<1> QED
  BY <1>3, <1>4, <1>5 DEF Safe

LEMMA WriteDataSafe ==
    ASSUME LInv, Several, Safe, WriteData
    PROVE  Safe'
<1>1. Behind /\ Lists /\ Written /\ KeptUntilSaved /\ StoreTypeOK /\ Located
  BY DEF Safe, LInv
<1>2. /\ data' = [data EXCEPT ![globalSteps] = loader.next]
      /\ stage = "write" /\ stage' = "open" /\ part = "data" /\ part' = "tracker"
      /\ config' = config /\ disk' = disk /\ tracker' = tracker
      /\ globalSteps' = globalSteps /\ previousSaved' = previousSaved
  BY DEF WriteData, engineVars
<1>3. globalSteps \in Steps /\ Whole(loader.next)
  BY <1>1, <1>2, Distinct, StoreAssumption DEF StoreTypeOK, Located, Saving
<1>4. \A v \in Steps : data'[v] = IF v = globalSteps THEN loader.next ELSE data[v]
  BY <1>1, <1>2 DEF StoreTypeOK
<1>5. Behind' /\ Lists'
  BY <1>1, <1>2 DEF Behind, Lists, Saving, Before
<1>6. Written'
  BY <1>1, <1>2, <1>3, <1>4 DEF Written, Saving, Used, Before
<1>7. KeptUntilSaved'
  BY <1>1, <1>2, <1>3, <1>4 DEF KeptUntilSaved, WholeAt, Used
<1> QED
  BY <1>5, <1>6, <1>7 DEF Safe

LEMMA OpenTrackerSafe ==
    ASSUME LInv, Several, Safe, OpenTracker
    PROVE  Safe'
<1>1. /\ stage = "open" /\ stage' = "write" /\ part' = part /\ tracker' = Torn
      /\ config' = config /\ disk' = disk /\ data' = data
      /\ globalSteps' = globalSteps /\ previousSaved' = previousSaved
  BY DEF OpenTracker, engineVars
<1>2. Torn \notin Nat /\ Torn \notin Steps
  BY Distinct, StepNumbers
<1>3. Behind' /\ KeptUntilSaved'
  BY <1>1, <1>2 DEF Behind, KeptUntilSaved, WholeAt
<1>4. Lists'
  BY <1>1, <1>2, Numbers DEF Safe, Lists, Saving
<1>5. Written'
  BY <1>1 DEF Safe, Written, Saving, Used
<1> QED
  BY <1>3, <1>4, <1>5 DEF Safe

LEMMA WriteTrackerSafe ==
    ASSUME LInv, Several, Safe, WriteTracker
    PROVE  Safe'
<1>1. Behind /\ Lists /\ Written /\ KeptUntilSaved
  BY DEF Safe
<1>2. /\ stage = "write" /\ part = "tracker" /\ tracker' = globalSteps
      /\ stage' \in {"finished", "training"}
      /\ config' = config /\ disk' = disk /\ data' = data
      /\ globalSteps' = globalSteps /\ previousSaved' = previousSaved
  BY DEF WriteTracker, StepEnds, engineVars
<1>3. \A m \in Managers : Before(m, part)
  BY <1>2 DEF Before
<1>4. Behind'
  BY <1>2, Numbers DEF Behind, Saving
<1>5. Lists'
  <2>1. ASSUME NEW m \in Managers, NEW i \in 1..Len(previousSaved[m])
        PROVE  /\ previousSaved[m][i] <= globalSteps
               /\ i < Len(previousSaved[m]) => previousSaved[m][i] < globalSteps
               /\ globalSteps = previousSaved[m][i] => i = Len(previousSaved[m])
    BY <1>1, <1>2, Numbers DEF Lists
  <2> QED
    BY <1>2, <2>1 DEF Lists, Saving
<1>6. Written'
  BY <1>2 DEF Written, Saving
<1>7. KeptUntilSaved'
  BY <1>1, <1>2, <1>3 DEF Written, Saving, KeptUntilSaved, WholeAt, Used, Managers
<1> QED
  BY <1>4, <1>5, <1>6, <1>7 DEF Safe

(* Steps of the stage alone: the loop ends, or a process finds no          *)
(* checkpoint, or none it can load.                                        *)
LEMMA StageSafe ==
    ASSUME LInv, Safe, config' = config, disk' = disk, data' = data, tracker' = tracker,
           globalSteps' = globalSteps, previousSaved' = previousSaved,
           \/ stage = "training" /\ stage' = "finished"
           \/ stage = "down" /\ stage' = "failed"
           \/ stage = "down" /\ stage' = "training" /\ tracker = Missing
    PROVE  Safe'
<1>1. Behind /\ Lists /\ Written /\ KeptUntilSaved
  BY DEF Safe
<1>2. Missing \notin Steps
  BY Distinct, StepNumbers
<1>3. Behind'
  BY <1>1, <1>2 DEF Behind, Saving
<1>4. Lists'
  BY <1>1, Numbers DEF Lists, Saving
<1>5. Written' /\ KeptUntilSaved'
  BY <1>1 DEF Written, KeptUntilSaved, WholeAt, Saving, Used
<1> QED
  BY <1>3, <1>4, <1>5 DEF Safe

LEMMA CrashSafe ==
    ASSUME LInv, Safe, Crash
    PROVE  Safe'
<1>1. /\ stage' = "down" /\ config' = config /\ disk' = disk /\ data' = data
      /\ tracker' = tracker
      /\ \A m \in Managers : Len(previousSaved'[m]) = 0
  BY DEF Crash, diskVars
<1>2. Behind' /\ Written'
  BY <1>1 DEF Behind, Written, Saving
<1>3. Lists'
  BY <1>1 DEF Lists
<1>4. KeptUntilSaved'
  BY <1>1 DEF Safe, KeptUntilSaved, WholeAt, Used
<1> QED
  BY <1>2, <1>3, <1>4 DEF Safe

LEMMA ResumeSafe ==
    ASSUME LInv, Safe, Resume
    PROVE  Safe'
<1>1. /\ stage = "down" /\ stage' = "training" /\ globalSteps' = tracker
      /\ config' = config /\ disk' = disk /\ data' = data /\ tracker' = tracker
      /\ previousSaved' = previousSaved /\ tracker \in Steps
  BY DEF Resume, Loadable, diskVars
<1>2. \A m \in Managers : Len(previousSaved'[m]) = 0
  BY <1>1 DEF Safe, Lists
<1>3. Behind' /\ Written'
  BY <1>1, Numbers DEF Behind, Written, Saving
<1>4. Lists'
  BY <1>1, <1>2 DEF Lists
<1>5. KeptUntilSaved'
  BY <1>1 DEF Safe, KeptUntilSaved, WholeAt, Used
<1> QED
  BY <1>3, <1>4, <1>5 DEF Safe

LEMMA InitSafe == Init => Safe
<1> SUFFICES ASSUME Init PROVE Safe
  OBVIOUS
<1>1. Missing \notin Steps
  BY Distinct, StepNumbers
<1> QED
  BY <1>1 DEF Init, Safe, Behind, Lists, Written, KeptUntilSaved, WholeAt, Saving

LEMMA StepSInv == SInv /\ [Next]_vars => SInv'
<1> SUFFICES ASSUME SInv, [Next]_vars PROVE SInv'
  OBVIOUS
<1>1. LInv /\ Several /\ Safe /\ LInv'
  BY StepLInv DEF SInv, Safe
<1>2. config' = config
  BY DEF Next, Train, EpochsEnd, OpenEngine, WriteEngine, Register, OpenData, WriteData,
     OpenTracker, WriteTracker, Crash, StartFromScratch, Resume, ResumeFails, vars
<1>3. Several'
  BY <1>1, <1>2 DEF Several
<1>4. Safe'
  <2>1. CASE UNCHANGED vars
    <3>1. /\ config' = config /\ disk' = disk /\ data' = data /\ tracker' = tracker
          /\ globalSteps' = globalSteps /\ previousSaved' = previousSaved
          /\ stage' = stage /\ part' = part
      BY <2>1 DEF vars, diskVars, engineVars
    <3> QED
      BY <1>1, <3>1 DEF Safe, Behind, Lists, Written, KeptUntilSaved, WholeAt, Saving, Used
  <2>2. CASE EpochsEnd
    BY <1>1, <2>2, StageSafe DEF EpochsEnd, diskVars, engineVars
  <2>3. CASE StartFromScratch
    BY <1>1, <2>3, StageSafe DEF StartFromScratch, diskVars, engineVars
  <2>4. CASE ResumeFails
    BY <1>1, <2>4, StageSafe DEF ResumeFails, diskVars, engineVars
  <2> QED
    BY <1>1, <2>1, <2>2, <2>3, <2>4, TrainSafe, OpenEngineSafe, WriteEngineSafe,
       RegisterSafe, OpenDataSafe, WriteDataSafe, OpenTrackerSafe, WriteTrackerSafe,
       CrashSafe, ResumeSafe DEF Next
<1> QED
  BY <1>1, <1>3, <1>4 DEF SInv, Safe

-----------------------------------------------------------------------------
(* While the tracker is empty.                                             *)
Emptied ==
    tracker = Torn =>
        /\ stage \in {"down", "failed"} \/ (stage = "write" /\ part = "tracker")
        /\ \E v \in Steps : WholeAt(v)

LEMMA TornNoStep == Torn \notin Steps /\ Torn # Missing
  BY StepNumbers, StoreAssumption

LEMMA EmptiedStep ==
    ASSUME SInv, Emptied, [Next]_vars
    PROVE  Emptied'
<1>1. CASE OpenTracker
  <2>1. /\ stage = "open" /\ part = "tracker" /\ stage' = "write"
        /\ UNCHANGED <<config, disk, data, part>>
    BY <1>1 DEF OpenTracker
  <2>2. globalSteps \in Steps
    BY <2>1 DEF SInv, LInv, Located, Saving
  <2>3. WholeAt(globalSteps)
    BY <2>1 DEF SInv, Written, Saving, Before, WholeAt
  <2>4. WholeAt(globalSteps)'
    <3>1. globalSteps' = globalSteps
      BY <1>1 DEF OpenTracker, engineVars
    <3> QED
      BY <2>1, <2>3, <3>1 DEF WholeAt, Used
  <2>5. globalSteps' \in Steps
    BY <1>1, <2>2 DEF OpenTracker, engineVars
  <2> QED
    BY <2>1, <2>4, <2>5 DEF Emptied
<1>2. CASE WriteTracker
  <2>1. stage = "write" /\ tracker' = globalSteps
    BY <1>2 DEF WriteTracker
  <2>2. globalSteps \in Steps
    BY <2>1 DEF SInv, LInv, Located, Saving
  <2> QED
    BY <2>1, <2>2, TornNoStep DEF Emptied
<1>3. CASE Crash \/ ResumeFails \/ UNCHANGED vars
  <2>1. UNCHANGED <<config, disk, data, tracker>>
    BY <1>3 DEF Crash, ResumeFails, vars, diskVars
  <2>2. stage' \in {"down", "failed"} \/ UNCHANGED <<stage, part>>
    BY <1>3 DEF Crash, ResumeFails, vars
  <2>3. ASSUME NEW v \in Steps, WholeAt(v) PROVE WholeAt(v)'
    BY <2>1, <2>3 DEF WholeAt, Used
  <2> QED
    BY <2>1, <2>2, <2>3 DEF Emptied
<1>4. CASE StartFromScratch \/ Resume
  BY <1>4, TornNoStep DEF StartFromScratch, Resume, Loadable, Emptied, diskVars
<1>5. CASE \/ Train \/ EpochsEnd \/ OpenEngine \/ WriteEngine \/ Register
           \/ OpenData \/ WriteData
  <2>1. tracker' = tracker
    BY <1>5 DEF Train, EpochsEnd, OpenEngine, WriteEngine, Register, OpenData, WriteData,
                diskVars
  <2>2. stage \notin {"down", "failed"} /\ ~(stage = "write" /\ part = "tracker")
    BY <1>5 DEF Train, EpochsEnd, OpenEngine, WriteEngine, Register, OpenData, WriteData,
                Managers
  <2> QED
    BY <2>1, <2>2 DEF Emptied
<1> QED
  BY <1>1, <1>2, <1>3, <1>4, <1>5 DEF Next

(* As long as neither manager keeps just one checkpoint, the checkpoint    *)
(* that latest_checkpointed_iteration.txt names is whole at every moment,  *)
(* whatever save_checkpoint and the removals it causes have done so far;   *)
(* while the file is being rewritten and names none, some step is whole.   *)
THEOREM TrackedIsWhole ==
    ASSUME \A c \in Configurations : \A m \in Managers : c.keep[m] # 1
    PROVE  Spec => []TrackedWhole
<1>1. Init => SInv /\ Emptied
  <2>1. Init => Emptied
    BY TornNoStep DEF Init, Emptied
  <2> QED
    BY <2>1, InitLInv, InitSafe DEF SInv, Safe, Init, Several
<1>2. SInv /\ Emptied => TrackedWhole
  BY DEF SInv, Emptied, TrackedWhole
<1>3. SInv /\ Emptied /\ [Next]_vars => SInv' /\ Emptied'
  BY StepSInv, EmptiedStep
<1> QED
  BY <1>1, <1>2, <1>3, PTL DEF Spec

=============================================================================
