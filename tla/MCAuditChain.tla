---------------------------- MODULE MCAuditChain ----------------------------
(* Small instances of AuditChain for TLC: the ids bound the rows written, and *)
(* the clock, advanced only by Insert, is bounded for aborted ones.           *)
EXTENDS AuditChain, TLC

CONSTANTS MaxTime

\* Bound on the clock, and so on the number of inserts.
ClockBound == clock <= MaxTime

Symmetry == Permutations(Writers) \cup Permutations(TenantIds)

=============================================================================
