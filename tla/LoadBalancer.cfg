SPECIFICATION FairSpec
CONSTANTS
    NumServers = 2
    Conversations = {c1, c2, c3}
    MaxCacheSize = 2
    MaxTurns = 3
    NoServer = NoServer
INVARIANTS TypeOK CountersExact
PROPERTIES StickyUntilEvicted Drains
CHECK_DEADLOCK FALSE
