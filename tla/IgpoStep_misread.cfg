SPECIFICATION Spec
CONSTANTS
    Conversations = {c1}
    ResponseLength = 5
    PromptSlack = 1
    GenerationLengths = {1}
    ObservationLengths = {2}
    MaxAssistantTurns = 0
    MaxUserTurns = 0
    InteractionChoices = {FALSE}
    AnswerLength = 3
    LogProbRows <- RowsOfLogProbs
    Scores = {0, 20}
    Penalties <- PenaltyRows
    StreamedChoices = {FALSE}
    Missing = Missing
INVARIANT ReadsAnswer
CHECK_DEADLOCK FALSE
