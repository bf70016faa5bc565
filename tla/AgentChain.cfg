\* Three agents and three filters, one more of each that is not configured, four listeners.
CONSTANTS
    AgentTypes <- MCAgentTypes
    Listeners <- MCListeners
    HasStorage = TRUE
    Earlier <- MCEarlier
    Requests <- MCRequests
    Replies <- MCReplies
    MaxRequests = 2
    MaxTokenLength = 12
    SystemTokens = 4
    MaxRoutingTurns = 3
SPECIFICATION Spec
CHECK_DEADLOCK FALSE
INVARIANTS EachCallGetsItsInput SessionsAreTheirOwn PromptKeepsIntent StoredIsAnswered
