---------------------------- MODULE ReplayCache ----------------------------
(***************************************************************************)
(* The receiver of signed A2A envelopes: verify refuses a timestamp that   *)
(* is too far from the clock, then a nonce it remembers.  It remembers the *)
(* last MaxEntries nonces it accepted, in the memory of one process.  A    *)
(* delivery may come late, early (the sender's clock is ahead) or again.   *)
(***************************************************************************)
EXTENDS Integers, Sequences, SequencesExt

CONSTANTS
    Nonces,
    Stamp,          \* Stamp[n]: timestamp_utc of the envelope with nonce n
    ReplayWindow,   \* a2a_replay_window_seconds
    MaxEntries      \* max_entries

VARIABLES
    now,
    seen,       \* the nonces remembered, oldest first
    (* what the properties speak of *)
    accepted    \* the nonces accepted since the process started

cacheVars == << seen, accepted >>

CacheInit == seen = << >> /\ accepted = << >>

Stale(n) == now - Stamp[n] > ReplayWindow \/ Stamp[n] - now > ReplayWindow

\* One more nonce, and the oldest goes if they are too many.
Remember(n) ==
    LET s == Append(seen, n) IN IF Len(s) > MaxEntries THEN Tail(s) ELSE s

\* Mutant: the nonce is spent before the timestamp is looked at.
VerifySpendingFirst(n) ==
    /\ n \notin Range(seen)
    /\ seen' = Remember(n)
    /\ accepted' = IF Stale(n) THEN accepted ELSE Append(accepted, n)
    /\ UNCHANGED now

\* verify of a well-signed envelope; one it refuses leaves no trace.
Verify(n) ==
    /\ ~ Stale(n)
    /\ n \notin Range(seen)
    /\ seen' = Remember(n)
    /\ accepted' = Append(accepted, n)
    /\ UNCHANGED now

CacheRestart == seen' = << >> /\ accepted' = << >>

-----------------------------------------------------------------------------

\* An envelope is accepted twice by one process only when MaxEntries others
\* were accepted in between, and never outside its window (ReplayCache.add).
ReplayNeedsFlood ==
    \A i, j \in DOMAIN accepted :
        i < j /\ accepted[i] = accepted[j] => j - i > MaxEntries

\* An envelope in its window that was never accepted is not refused: a stale
\* delivery does not spend its nonce (verify checks the time first).
OnlyAcceptedAreSpent == Range(seen) \subseteq Range(accepted)

=============================================================================
