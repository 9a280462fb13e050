------------------------------ MODULE MCChatTurn ------------------------------
(* A small instance of ChatTurn for TLC.                                   *)
EXTENDS ChatTurn
=============================================================================
