------------------------ MODULE MCConversationState ------------------------
(* Small instances of ConversationState, whose constants are plain values. *)
EXTENDS ConversationState

=============================================================================
