SPECIFICATION Spec
CONSTANTS
    Requests = {r1}
    Replicas = {p1}
    MaxSyncs = 1
    ResponseLength = 3
    PromptSlack = 0
    Configurations <- WaitsForTasks
    NoLimit = NoLimit
    None = None
    Torn = Torn
INVARIANT ActiveTasksComplete
CHECK_DEADLOCK FALSE
