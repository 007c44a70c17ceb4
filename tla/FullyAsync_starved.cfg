SPECIFICATION Spec
CONSTANTS
    TheTrainer = trainer
    None = None
    FirstStep = 1
    StartVersion = 0
    Surplus = 0
    TotalRolloutSteps = 4
    PendingCapacity = 2
    MaxRequiredSamples = 2
    MaxConcurrentSamples = 2
    RequiredSamples = 1
    TriggerParameterSyncStep = 2
    MayFail = {}
    TestFreq = 1
    SaveFreq = 1
    EsiAnswers = {FALSE}
    Timings = {FALSE}
INVARIANT NeverStarved
CHECK_DEADLOCK FALSE
