SPECIFICATION FairSpec
CONSTANTS
    Conversations = {c1, c2}
    ResponseLength = 7
    PromptSlack = 1
    GenerationLengths = {1}
    ObservationLengths = {2, 3}
    MaxAssistantTurns = 0
    MaxUserTurns = 0
    InteractionChoices = {TRUE, FALSE}
    AnswerLength = 3
    LogProbRows <- RowsOfLogProbs
    Scores = {0, 20}
    Penalties <- PenaltyRows
    StreamedChoices = {TRUE, FALSE}
    Missing = Missing
INVARIANTS AgentTypeOK MaskAligned ToolsLeaveRoom LastWord OutcomeSurvives ReturnsAreSuffixSums
PROPERTIES ConversationsEnd
CHECK_DEADLOCK FALSE
