---------------------------- MODULE MCTokenRefresh ----------------------------
(* Small instances of TokenRefresh for TLC. *)
EXTENDS TokenRefresh

=============================================================================
