SPECIFICATION FairSpec
CONSTANTS
    Consumers = {c1, c2}
    MaxQueueSize = 2
    Validations = {v1}
    Samples = {1, 2, 3, 4, 5}
    MaxPuts = 5
    MaxValidations = 1
INVARIANTS NoLostWakeup HoldsNewest StatisticsAgree
PROPERTIES ImplementsStream ShutdownReleases
