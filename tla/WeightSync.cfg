SPECIFICATION FairSpec
CONSTANTS
    Requests = {r1, r2}
    Replicas = {p1, p2}
    MaxSyncs = 2
    ResponseLength = 2
    PromptSlack = 1
    Configurations <- Settings
    NoLimit = NoLimit
    None = None
    Torn = Torn
INVARIANTS SyncTypeOK ServeSameWeights StampsCover RoomLeft
PROPERTIES CallsAnswered UpdatesAtomically
CHECK_DEADLOCK FALSE
