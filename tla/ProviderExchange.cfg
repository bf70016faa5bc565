\* A conversation of up to two answers and three requests, with upstreams of any API, to a client of any API.
SPECIFICATION Spec
CONSTANTS
    Clients = {"chat", "messages", "responses"}
    Upstreams = {"chat", "messages", "responses", "converse"}
    Shapes <- MCShapes
    ToolChoices = {"omitted", "none", "named", "unnamed"}
    Keeping = {"as issued", "without ids"}
    Outputs = {"text", "empty", "nothing"}
    MaxTurns = 2
INVARIANTS
    RequestTellsAll
    ResultsFollowTheirCalls
    BedrockIsSentNothingEmpty
    AnswerArrives
CHECK_DEADLOCK FALSE
