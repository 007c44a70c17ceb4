SPECIFICATION FairSpec
CONSTANTS
    TheTrainer = trainer
    None = None
    FirstStep = 3
    StartVersion = 1
    Surplus = 1
    TotalRolloutSteps = 8
    PendingCapacity = 2
    MaxRequiredSamples = 3
    MaxConcurrentSamples = 2
    RequiredSamples = 1
    TriggerParameterSyncStep = 2
    MayFail = {4, 7}
    TestFreq = 2
    SaveFreq = 2
    EsiAnswers = {TRUE, FALSE}
    Timings = {TRUE, FALSE}
INVARIANTS TypeOK LockDiscipline EachSampleOnce AtMostOneOver WithinBudget Fresh NothingDropped ConcurrencyLimit EndMarkerLast EverythingTrained ServedMatchesVersion CheckpointMatchesVersion NotStarvedInTime
PROPERTIES Terminates BoundsStaleness
CHECK_DEADLOCK FALSE
