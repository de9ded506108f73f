---------------------------- MODULE WindowLimit ----------------------------
(***************************************************************************)
(* What a rate limiter promises: an attempt is let in exactly when fewer   *)
(* than Max attempts under its key were let in during the last Window      *)
(* ticks, counting from the last time the key was cleared.                 *)
(***************************************************************************)
EXTENDS Naturals, FiniteSets

CONSTANTS Keys, Max, Window

VARIABLES
    now,
    hits,   \* how many attempts were let in, which numbers them
    log,    \* log[k]: the attempts let in since k was cleared
    answer  \* answer[k]: what the last attempt under k was told

vars == << now, hits, log, answer >>

Recent(k) == {h \in log[k] : h.at + Window > now}

Init ==
    /\ now = 0
    /\ hits = 0
    /\ log = [k \in Keys |-> {}]
    /\ answer = [k \in Keys |-> "none"]

Pass == now' = now + 1 /\ UNCHANGED << hits, log, answer >>

Admit(k) ==
    /\ Cardinality(Recent(k)) < Max
    /\ hits' = hits + 1
    /\ log' = [log EXCEPT ![k] = @ \cup {[id |-> hits, at |-> now]}]
    /\ answer' = [answer EXCEPT ![k] = "allowed"]
    /\ UNCHANGED now

Refuse(k) ==
    /\ Cardinality(Recent(k)) >= Max
    /\ answer' = [answer EXCEPT ![k] = "refused"]
    /\ UNCHANGED << now, hits, log >>

\* A key is cleared, or all of them at once.
Forget(S) ==
    /\ log' = [k \in Keys |-> IF k \in S THEN {} ELSE log[k]]
    /\ UNCHANGED << now, hits, answer >>

Next ==
    \/ Pass
    \/ \E k \in Keys : Admit(k) \/ Refuse(k)
    \/ \E S \in SUBSET Keys : Forget(S)

Spec == Init /\ [][Next]_vars

=============================================================================
