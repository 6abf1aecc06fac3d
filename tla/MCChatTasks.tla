------------------------------ MODULE MCChatTasks ------------------------------
(* Instances of ChatTasks for TLC: all constants are numbers.              *)
EXTENDS ChatTasks

=============================================================================
