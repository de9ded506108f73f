--------------------------- MODULE CircuitBreaker ---------------------------
(***************************************************************************)
(* The circuit breaker Tigeri V1 puts before a provider: three Redis keys  *)
(* with a time to live, read and written by Celery workers one command at  *)
(* a time.  A TTL of 0 is a key that is absent.  Only commands on these    *)
(* keys are atomic: the state a worker has read may be another one when it *)
(* acts on it.                                                             *)
(***************************************************************************)
EXTENDS Naturals

CONSTANTS
    Workers,
    Threshold,      \* BREAKER_FAILURE_THRESHOLD
    WindowTtl,      \* BREAKER_WINDOW_SECONDS, in ticks
    OpenTtl,        \* BREAKER_OPEN_SECONDS
    ProbeTtl,       \* PROBE_LOCK_TTL
    RoundsToZero,   \* TTLs so short that Redis rounds them to 0 seconds
    MaxCall,        \* bound on a call: its retries and their timeouts
    MaxDeaths       \* bound on workers killed in a call

ASSUME ThresholdAssumption == Threshold \in Nat \ {0}
ASSUME TtlAssumption == /\ WindowTtl \in Nat \ {0}
                        /\ ProbeTtl \in Nat \ {0}
                        /\ OpenTtl \in Nat \ {0}
                        /\ RoundsToZero \in Nat
                        /\ MaxCall \in Nat
                        /\ MaxDeaths \in Nat
\* 120 and 300 seconds.
ASSUME WindowAssumption == WindowTtl <= OpenTtl

VARIABLES
    fails,      \* failure_key, counted up to Threshold
    failTtl,    \* ... and its TTL
    openTtl,    \* TTL of open_key
    probeTtl,   \* TTL of probe_key
    pc,         \* where a worker is in call
    age,        \* for how long it has been in call
    deaths,
    (* what the properties speak of *)
    health,     \* "down" once the breaker has opened, till its keys are deleted
    openAge     \* ticks since it opened, counted up to OpenTtl

counter == << fails, failTtl >>
opening == << openTtl, openAge, health >>
vars == << fails, failTtl, openTtl, probeTtl, pc, age, deaths, health, openAge >>

Waiting == {"read_ttl", "lock_probe"}
Calling == {"calling", "probing"}
Positions == {"idle", "set_open", "unlock_probe"} \cup Waiting \cup Calling

Least(m, n) == IF m < n THEN m ELSE n
Less(n) == IF n = 0 THEN 0 ELSE n - 1

Init ==
    /\ fails = 0 /\ failTtl = 0
    /\ openTtl = 0 /\ openAge = OpenTtl /\ health = "up"
    /\ probeTtl = 0
    /\ pc = [w \in Workers |-> "idle"]
    /\ age = [w \in Workers |-> 0]
    /\ deaths = 0

-----------------------------------------------------------------------------
(* Redis commands *)

\* DELETE failure_key open_key probe_key
DeleteAll ==
    /\ fails' = 0 /\ failTtl' = 0
    /\ openTtl' = 0 /\ health' = "up"
    /\ probeTtl' = 0
    /\ UNCHANGED openAge

\* Mutant: the breaker is opened with the TTL of the probe lock.
SetOpenBriefly ==
    /\ openTtl' = ProbeTtl
    /\ openAge' = 0
    /\ health' = "down"

\* SETEX open_key
SetOpen ==
    /\ openTtl' = OpenTtl
    /\ openAge' = 0
    /\ health' = "down"

\* MULTI; INCR failure_key; EXPIRE failure_key; EXEC.  Only whether the count
\* has reached Threshold is ever looked at.
CountFailure ==
    /\ fails' = Least(fails + 1, Threshold)
    /\ failTtl' = WindowTtl

-----------------------------------------------------------------------------
(* A worker in call *)

Goto(w, position) == pc' = [pc EXCEPT ![w] = position]

\* The call is over, by a result or an exception.
Leave(w) ==
    /\ Goto(w, "idle")
    /\ age' = [age EXCEPT ![w] = 0]

\* func is called.
LetIn(w, position) ==
    /\ Goto(w, position)
    /\ UNCHANGED age

\* _state: EXISTS open_key ...
ReadOpen(w) ==
    /\ pc[w] = "idle"
    /\ \/ openTtl = 0 /\ LetIn(w, "calling")
       \/ openTtl > 0 /\ Goto(w, "read_ttl") /\ UNCHANGED age
    /\ UNCHANGED << counter, opening, probeTtl, deaths >>

\* Mutant: a rejected call renews the open key.
ReadTtlRenewing(w) ==
    /\ pc[w] = "read_ttl"
    /\ \/ openTtl > RoundsToZero /\ Leave(w) /\ openTtl' = OpenTtl
       \/ openTtl <= RoundsToZero /\ Goto(w, "lock_probe")
          /\ UNCHANGED << age, openTtl >>
    /\ UNCHANGED << counter, openAge, health, probeTtl, deaths >>

\* ... then TTL open_key, which may be gone by now; CircuitOpenError.
ReadTtl(w) ==
    /\ pc[w] = "read_ttl"
    /\ \/ openTtl > RoundsToZero /\ Leave(w)
       \/ openTtl <= RoundsToZero /\ Goto(w, "lock_probe")
          /\ UNCHANGED age
    /\ UNCHANGED << counter, opening, probeTtl, deaths >>

\* _probe_call: SET probe_key NX EX; ProbeInProgressError.
LockProbe(w) ==
    /\ pc[w] = "lock_probe"
    /\ \/ probeTtl > 0 /\ Leave(w) /\ UNCHANGED probeTtl
       \/ probeTtl = 0 /\ LetIn(w, "probing") /\ probeTtl' = ProbeTtl
    /\ UNCHANGED << counter, opening, deaths >>

\* func returns: _on_success.
CallSucceeds(w) ==
    /\ pc[w] = "calling"
    /\ DeleteAll
    /\ Leave(w)
    /\ UNCHANGED deaths

\* func raises CircuitOpenError, or an error that is not retryable.
CallRefused(w) ==
    /\ pc[w] = "calling"
    /\ Leave(w)
    /\ UNCHANGED << counter, opening, probeTtl, deaths >>

\* func raises any other error: _on_failure.
CallFails(w) ==
    /\ pc[w] = "calling"
    /\ CountFailure
    /\ \/ fails' = Threshold /\ Goto(w, "set_open") /\ UNCHANGED age
       \/ fails' < Threshold /\ Leave(w)
    /\ UNCHANGED << opening, probeTtl, deaths >>

Opens(w) ==
    /\ pc[w] = "set_open"
    /\ SetOpen
    /\ Leave(w)
    /\ UNCHANGED << counter, probeTtl, deaths >>

ProbeSucceeds(w) ==
    /\ pc[w] = "probing"
    /\ DeleteAll
    /\ Goto(w, "unlock_probe")
    /\ UNCHANGED << age, deaths >>

\* Mutant: CircuitOpenError skips the finally clause.
ProbeRefusedLeaving(w) ==
    /\ pc[w] = "probing"
    /\ Leave(w)
    /\ UNCHANGED << counter, opening, probeTtl, deaths >>

\* Only CircuitOpenError, of a breaker inside func, is let through ...
ProbeRefused(w) ==
    /\ pc[w] = "probing"
    /\ Goto(w, "unlock_probe")
    /\ UNCHANGED << counter, opening, probeTtl, age, deaths >>

\* ... any other error opens the breaker again, one about the data included.
ProbeFails(w) ==
    /\ pc[w] = "probing"
    /\ SetOpen
    /\ Goto(w, "unlock_probe")
    /\ UNCHANGED << counter, probeTtl, age, deaths >>

\* finally: DELETE probe_key, whoever holds it.
UnlockProbe(w) ==
    /\ pc[w] = "unlock_probe"
    /\ probeTtl' = 0
    /\ Leave(w)
    /\ UNCHANGED << counter, opening, deaths >>

\* reset, by the token sweep, which found the breaker not closed some time ago.
Reset ==
    /\ DeleteAll
    /\ UNCHANGED << pc, age, deaths >>

\* _handle_dead_token: DELETE failure_key open_key, the probe lock stays.
ForgetDead ==
    /\ fails' = 0 /\ failTtl' = 0
    /\ openTtl' = 0 /\ health' = "up"
    /\ UNCHANGED << openAge, probeTtl, pc, age, deaths >>

\* The worker is killed.
Die(w) ==
    /\ pc[w] # "idle"
    /\ deaths < MaxDeaths
    /\ deaths' = deaths + 1
    /\ Leave(w)
    /\ UNCHANGED << counter, opening, probeTtl >>

\* A call ends within MaxCall.
Tick ==
    /\ \A w \in Workers : pc[w] # "idle" => age[w] < MaxCall
    /\ age' = [w \in Workers |-> IF pc[w] = "idle" THEN 0 ELSE age[w] + 1]
    /\ failTtl' = Less(failTtl)
    /\ fails' = IF failTtl' = 0 THEN 0 ELSE fails
    /\ openTtl' = Less(openTtl)
    /\ openAge' = Least(openAge + 1, OpenTtl)
    /\ probeTtl' = Less(probeTtl)
    /\ UNCHANGED << pc, deaths, health >>

-----------------------------------------------------------------------------
\* What a worker does by itself once it is in call.
Proceed(w) ==
    \/ ReadTtl(w) \/ LockProbe(w)
    \/ CallSucceeds(w) \/ CallRefused(w) \/ CallFails(w) \/ Opens(w)
    \/ ProbeSucceeds(w) \/ ProbeRefused(w) \/ ProbeFails(w) \/ UnlockProbe(w)

Next ==
    \/ \E w \in Workers : ReadOpen(w) \/ Proceed(w) \/ Die(w)
    \/ Reset \/ ForgetDead
    \/ Tick

Spec == Init /\ [][Next]_vars

\* Time passes, and calls end.
FairSpec == Spec /\ WF_vars(Tick) /\ \A w \in Workers : WF_vars(Proceed(w))

-----------------------------------------------------------------------------
(* Properties *)

\* Every variable has its type.
TypeOK ==
    /\ fails \in 0..Threshold
    /\ failTtl \in 0..WindowTtl
    /\ openTtl \in 0..OpenTtl
    /\ probeTtl \in 0..ProbeTtl
    /\ pc \in [Workers -> Positions]
    /\ age \in [Workers -> 0..MaxCall]
    /\ deaths \in 0..MaxDeaths
    /\ health \in {"up", "down"}
    /\ openAge \in 0..OpenTtl

\* An outage is acted upon: while the failure count is at the threshold the
\* breaker is open or about to be, although the two keys lapse on their own,
\* and no success clears one of them without the other.
OutageActedUpon ==
    deaths = 0 /\ fails = Threshold =>
        openTtl > 0 \/ \E w \in Workers : pc[w] = "set_open"

\* The probe lock is never left behind by a call that ended, however it ended:
\* only a killed worker leaves it to its TTL.
NoOrphanLock ==
    deaths = 0 /\ probeTtl > 0 =>
        \E w \in Workers : pc[w] \in {"probing", "unlock_probe"}

NothingFails ==
    <>[][\A w \in Workers : ~CallFails(w) /\ ~Opens(w) /\ ~ProbeFails(w)]_vars

\* Once the provider works again the breaker does not stay open, whatever
\* workers were killed and whatever inner breakers refuse meanwhile.
BreakerRecovers == NothingFails => []<>(openTtl = 0)

\* While the breaker is open for an outage nobody walks in: short of a success
\* or a reset, which delete its keys, the next call after an opening that is
\* not a probe begins when the cool-down is over.
OpenHolds ==
    [][\A w \in Workers :
          /\ pc[w] = "idle" /\ pc'[w] = "calling"
          /\ health = "down"
          => openAge >= OpenTtl]_vars

=============================================================================
