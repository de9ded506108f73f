-------------------------- MODULE MCRequestGuards --------------------------
(* A small instance of RequestGuards for TLC. *)
EXTENDS RequestGuards, TLC

CONSTANTS n1, n2, n3

\* The third envelope comes from a sender whose clock is ahead.
StampOf == n1 :> 0 @@ n2 :> 0 @@ n3 :> 4

=============================================================================
