--------------------------- MODULE MCConversation ---------------------------
(* Two operations with two Turns and two calls between them: enough for a  *)
(* retry, an overflow, a pair of Tools and a reload between two operations.*)
EXTENDS Conversation
=============================================================================
