\* Conversations of up to nine messages, analysed after each; a window of sixteen rows.
SPECIFICATION SignalsSpec
CONSTANTS
    Dialogues <- MCDialogues
    BaselineTurns = 1
    MaxMessages = 16
    NoTopic = NoTopic
INVARIANTS
    LoopsFound
    SignsMoveTheScore
PROPERTIES
    EvidenceAccumulates
CHECK_DEADLOCK FALSE
