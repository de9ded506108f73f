---------------------------- MODULE MCBookkeeping ----------------------------
(* Small instances of Bookkeeping for TLC. *)
EXTENDS Bookkeeping, TLC

\* Workers are alike.
Symmetry == Permutations(Jobs)

=============================================================================
