------------------------ MODULE MCConversationHistory ------------------------
(* Small instances of ConversationHistory for TLC.                         *)
EXTENDS ConversationHistory
=============================================================================
