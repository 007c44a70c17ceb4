SPECIFICATION Spec
CONSTANTS
    EpochLength = 2
    TotalEpochs = 3
    MaxCrashes = 2
    Missing = missing
    Torn = torn
    Configurations <- KeepSeveral
INVARIANTS StoreTypeOK TrackedWhole LineageExact
CHECK_DEADLOCK FALSE
