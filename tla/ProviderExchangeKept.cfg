\* A Responses conversation that brightstaff keeps.
SPECIFICATION Spec
CONSTANTS
    Clients = {"responses"}
    Upstreams = {"chat"}
    Shapes <- MCShapes
    ToolChoices = {"omitted"}
    Keeping = {"by plano"}
    Outputs = {"text", "empty", "nothing"}
    MaxTurns = 2
INVARIANT
    ResultsFollowTheirCalls
CHECK_DEADLOCK FALSE
