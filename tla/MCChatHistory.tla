---------------------------- MODULE MCChatHistory ----------------------------
(* ChatHistory on a small instance. *)
EXTENDS ChatHistory, TLC

Symmetry == Permutations(Message) \cup Permutations(Worker)
=============================================================================
