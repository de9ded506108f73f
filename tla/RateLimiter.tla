---------------------------- MODULE RateLimiter ----------------------------
(***************************************************************************)
(* The sliding-window limiter before sign-in and sign-up: for each key the *)
(* attempts let in, oldest first, kept in the memory of one API process.   *)
(* A call of hit or reset runs without an await, and so in one step; the   *)
(* password check between them does not.  The clock is monotonic and is    *)
(* counted in half seconds, since what a refused client is told is whole   *)
(* seconds.                                                                *)
(***************************************************************************)
EXTENDS Naturals, FiniteSets

CONSTANTS
    Keys,           \* (address, e-mail) pairs
    Max,            \* max_hits
    Window,         \* window_seconds, in half seconds
    MaxBuckets,     \* 4096: more buckets than that are pruned
    MaxHits         \* bound on the attempts let in

ASSUME LimitAssumption == Max \in Nat \ {0} /\ Window \in Nat \ {0}
ASSUME BucketAssumption == MaxBuckets \in Nat /\ MaxHits \in Nat

VARIABLES
    now,
    bucket,     \* bucket[k]: the attempts kept, as records of id and time
    signing,    \* signing[k]: requests let in whose password is being checked
    hits,       \* attempts let in so far, which numbers them
    (* what the properties speak of *)
    log,        \* log[k]: the attempts let in since k was cleared
    answer,     \* answer[k]: what the last attempt was told
    promise     \* promise[k]: when a refused client may come back, or 0

vars == << now, bucket, signing, hits, log, answer, promise >>

Attempts == [id : Nat, at : Nat]

Init ==
    /\ now = 0
    /\ bucket = [k \in Keys |-> {}]
    /\ signing = [k \in Keys |-> 0]
    /\ hits = 0
    /\ log = [k \in Keys |-> {}]
    /\ answer = [k \in Keys |-> "none"]
    /\ promise = [k \in Keys |-> 0]

Tick ==
    /\ now' = now + 1
    /\ UNCHANGED << bucket, signing, hits, log, answer, promise >>

\* What eviction leaves of a bucket.
Live(k) == {h \in bucket[k] : h.at + Window > now}

Full(k) == Cardinality(Live(k)) >= Max

IsOldest(h, S) == h \in S /\ \A g \in S : h.id <= g.id
IsNewest(h, S) == h \in S /\ \A g \in S : g.id <= h.id

AtLeastOne(n) == IF n = 0 THEN 1 ELSE n

\* Mutant: without the second that makes up for rounding down.
RetryAfterRounded(h) == AtLeastOne((h.at + Window - now) \div 2)

\* The seconds till an attempt ages out, rounded down and one added.
RetryAfter(h) == AtLeastOne((h.at + Window - now) \div 2 + 1)

\* Mutant: a bucket is pruned by its oldest attempt.
AgedByOldest(S) == \E h \in S : IsOldest(h, S) /\ h.at + Window < now

\* The newest attempt of a bucket has aged out.
Aged(S) == \E h \in S : IsNewest(h, S) /\ h.at + Window < now

Crowded(b) == Cardinality({k \in Keys : b[k] # {}}) > MaxBuckets

\* Too many buckets: the aged ones go.
Prune(b) ==
    [k \in Keys |-> IF Crowded(b) /\ Aged(b[k]) THEN {} ELSE b[k]]

Admit(k) ==
    LET h == [id |-> hits, at |-> now]
    IN  /\ hits < MaxHits
        /\ ~ Full(k)
        /\ bucket' = Prune([bucket EXCEPT ![k] = Live(k) \cup {h}])
        /\ hits' = hits + 1
        /\ signing' = [signing EXCEPT ![k] = @ + 1]
        /\ log' = [log EXCEPT ![k] = @ \cup {h}]
        /\ answer' = [answer EXCEPT ![k] = "allowed"]
        /\ promise' = [promise EXCEPT ![k] = 0]
        /\ UNCHANGED now

Refuse(k) ==
    /\ Full(k)
    /\ bucket' = [bucket EXCEPT ![k] = Live(k)]
    /\ answer' = [answer EXCEPT ![k] = "refused"]
    /\ \E h \in Live(k) :
          /\ IsOldest(h, Live(k))
          /\ promise' = [promise EXCEPT ![k] = now + 2 * RetryAfter(h)]
    /\ UNCHANGED << now, signing, hits, log >>

Hit(k) == Admit(k) \/ Refuse(k)

\* The password was right: the bucket goes, whoever has filled it meanwhile.
SignIn(k) ==
    /\ signing[k] > 0
    /\ signing' = [signing EXCEPT ![k] = @ - 1]
    /\ bucket' = [bucket EXCEPT ![k] = {}]
    /\ log' = [log EXCEPT ![k] = {}]
    /\ promise' = [promise EXCEPT ![k] = 0]
    /\ UNCHANGED << now, hits, answer >>

SignInFails(k) ==
    /\ signing[k] > 0
    /\ signing' = [signing EXCEPT ![k] = @ - 1]
    /\ UNCHANGED << now, bucket, hits, log, answer, promise >>

\* A new process starts with empty buckets.
Restart ==
    /\ bucket' = [k \in Keys |-> {}]
    /\ signing' = [k \in Keys |-> 0]
    /\ log' = [k \in Keys |-> {}]
    /\ promise' = [k \in Keys |-> 0]
    /\ UNCHANGED << now, hits, answer >>

Step(k) == Hit(k) \/ SignIn(k) \/ SignInFails(k)

Next == Tick \/ Restart \/ \E k \in Keys : Step(k)

Spec == Init /\ [][Next]_vars

-----------------------------------------------------------------------------

\* A bucket never holds more than the limit, and every counter is in range.
TypeOK ==
    /\ now \in Nat
    /\ hits \in Nat
    /\ \A k \in Keys :
          /\ bucket[k] \subseteq Attempts
          /\ IsFiniteSet(bucket[k])
          /\ Cardinality(bucket[k]) <= Max
          /\ log[k] \subseteq Attempts
    /\ bucket \in [Keys -> SUBSET Attempts]
    /\ log \in [Keys -> SUBSET Attempts]
    /\ signing \in [Keys -> Nat]
    /\ answer \in [Keys -> {"none", "allowed", "refused"}]
    /\ promise \in [Keys -> Nat]

\* Evicting, pruning and clearing buckets never changes an answer: the
\* limiter admits exactly the attempts a full log would admit (hit, _gc).
Limit == INSTANCE WindowLimit WITH
             now <- now, hits <- hits, log <- log, answer <- answer
LimitsTheWindow == Limit!Spec

\* A client that was told to come back in n seconds and does is let in, unless
\* somebody else took the place meanwhile (retry_after_seconds).
PromiseKept ==
    [][\A k \in Keys : promise[k] # 0 /\ now >= promise[k] => ~ Refuse(k)]_vars

=============================================================================
