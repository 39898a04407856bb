----------------------------- MODULE MCAutoReply -----------------------------
(* Instances of AutoReply.tla: one message whose life is followed closely, and *)
(* two messages that share a chat.                                             *)
EXTENDS AutoReply
CONSTANTS c1

MCOne == {1}
MCTwo == {1, 2}
MCChats == {c1}
MCChat == [m \in Messages |-> c1]
=============================================================================
