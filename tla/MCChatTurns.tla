----------------------------- MODULE MCChatTurns -----------------------------
(* Small instances of ChatTurns for TLC. *)
EXTENDS ChatTurns

=============================================================================
