SPECIFICATION Spec
CONSTANTS
    EpochLength = 2
    TotalEpochs = 1
    MaxCrashes = 1
    Missing = missing
    Torn = torn
    Configurations <- KeepOne
INVARIANT KeptUntilSaved
CHECK_DEADLOCK FALSE
