--------------------------- MODULE RequestGuards ---------------------------
(***************************************************************************)
(* What one API process of Tigeri V2 keeps in memory to turn requests      *)
(* away: the rate limiter and the replay cache, on one clock.  Both are    *)
(* empty after a restart.                                                  *)
(***************************************************************************)
EXTENDS RateLimiter, Sequences

CONSTANTS
    Nonces, Stamp, ReplayWindow, MaxEntries,
    MaxRequests,    \* bound on the attempts let in and envelopes accepted
    Horizon         \* bound on the clock

ASSUME CacheAssumption == MaxEntries \in Nat

VARIABLES seen, accepted,
          deliveries  \* envelopes accepted so far, over restarts

guardVars == << vars, seen, accepted, deliveries >>

Cache == INSTANCE ReplayCache

GuardsInit == Init /\ Cache!CacheInit /\ deliveries = 0

Deliver(n) ==
    /\ hits + deliveries < MaxRequests
    /\ Cache!Verify(n)
    /\ deliveries' = deliveries + 1
    /\ UNCHANGED << bucket, signing, hits, log, answer, promise >>

Attempt(k) ==
    /\ Step(k)
    /\ hits' + deliveries <= MaxRequests
    /\ UNCHANGED << seen, accepted, deliveries >>

GuardsNext ==
    \/ now < Horizon /\ Tick /\ UNCHANGED << seen, accepted, deliveries >>
    \/ \E k \in Keys : Attempt(k)
    \/ \E n \in Nonces : Deliver(n)
    \/ Restart /\ Cache!CacheRestart /\ UNCHANGED deliveries

GuardsSpec == GuardsInit /\ [][GuardsNext]_guardVars

\* An envelope is accepted twice by one process only after a flood of others
\* (ReplayCache.add forgets the oldest), and refused in its window only when it
\* was accepted: verify spends no nonce of a stale delivery.
ReplaysRefused == Cache!ReplayNeedsFlood /\ Cache!OnlyAcceptedAreSpent

=============================================================================
