------------------------ MODULE MCConversationMemory ------------------------
(* Instances of ConversationMemory for TLC: the bounds are given in the    *)
(* configurations.                                                         *)
EXTENDS ConversationMemory
=============================================================================
