-------------------------- MODULE MCPendingActions --------------------------
(* Small instances of PendingActions for TLC. *)
EXTENDS PendingActions, TLC

CONSTANTS a1, a2, r1, r2, r3, t1, t2

\* One card, one tenant.
OneOwner == [a \in Actions |-> t1]
\* Two cards of one tenant; a fresh nonce per propose, so every key differs.
FreshKeys == [a \in Actions |-> a]
\* Rows written before keys had a nonce: equal content, equal key.
ContentKeys == [a \in Actions |-> "content"]

Symmetry == Permutations(Requests)

=============================================================================
