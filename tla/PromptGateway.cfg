\* Two streams in a worker, seven deployments.
CONSTANTS
    Contexts = {s1, s2}
    Tokens = {1, 2}
    Configs <- MCConfigs
    Requests <- MCRequests
    Replies <- MCReplies
    MaxRequests <- MCMaxRequests
    MaxParts = 2
SPECIFICATION Spec
CHECK_DEADLOCK FALSE
INVARIANTS WaitsForOneCall AnswersTrusted ConversationKept ResultOnce
PROPERTY EveryRequestSettles
