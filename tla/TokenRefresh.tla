---------------------------- MODULE TokenRefresh ----------------------------
(***************************************************************************)
(* The OAuth token of one integration of Tigeri V1: requests that need it, *)
(* the half-hourly sweep that refreshes early, and the user who connects   *)
(* and disconnects.  A token is its generation, the number of the exchange *)
(* that issued it; 0 is no token.  The row in Postgres is the source of    *)
(* truth, Redis holds a copy of it, the lock and the count of refusals.    *)
(***************************************************************************)
EXTENDS Naturals, FiniteSets

CONSTANTS
    Callers,        \* requests that ask for the token
    Sweep, User,    \* the scheduled task; the browser of the client
    Threshold,      \* DEAD_TOKEN_THRESHOLD
    MaxPolls,       \* how often a request without the lock looks again
    MaxCalls,       \* bound on the calls, of the three kinds together
    MaxGen,         \* bound on the tokens issued
    MaxRefusals,    \* bound on the refusals between two resets of the count
    MaxLapses,      \* bound on the TTL of the lock passing
    MaxExpiries,    \* bound on everything else that expires
    MaxFaults       \* bound on crashes, lost answers and failing stores

ASSUME BoundsAssumption ==
    /\ Threshold \in Nat \ {0} /\ MaxPolls \in Nat \ {0}
    /\ MaxCalls \in Nat /\ MaxGen \in Nat \ {0} /\ MaxRefusals \in Nat
    /\ MaxLapses \in Nat /\ MaxExpiries \in Nat /\ MaxFaults \in Nat

ASSUME WorkersAssumption ==
    /\ IsFiniteSet(Callers)
    /\ Sweep \notin Callers /\ User \notin Callers /\ Sweep # User

VARIABLES
    \* the provider
    rotates,    \* whether an exchange replaces the refresh token: "yes" or "no"
    issued,     \* the newest generation
    floor,      \* older refresh tokens were replaced
    ended,      \* up to here the grant is over: revoked, or its period passed
    aged,       \* up to here the access token has expired
    \* the stores
    row,        \* the generation in client_integrations, 0 for meta = '{}'
    connected,  \* its flag
    cache,      \* token:<service>
    lock,       \* token:lock:<service>, "held" or "free"
    fatal,      \* token:fatal:<service>
    alerted,    \* dead_token:alerted:<service>, "yes" or "no"
    \* the workers
    pc,
    held,       \* the token it has read
    got,        \* the token the provider gave it
    polls,      \* looks taken while another holds the lock
    due,        \* increments of the count it still makes for a refusal
    \* history
    stored,     \* the newest generation the row has had
    refused,    \* refusals since the count was reset
    reconnects, calls, lapses, expiries, faults

provider == << rotates, issued, floor, ended, aged >>
database == << row, connected, stored >>
stores == << row, connected, stored, cache >>
keys == << lock, fatal, alerted >>
locals == << held, got, polls, due >>
history == << refused, reconnects, calls, lapses, expiries, faults >>
vars == << rotates, issued, floor, ended, aged, row, connected, cache, lock, fatal,
           alerted, pc, held, got, polls, due, stored, refused, reconnects, calls,
           lapses, expiries, faults >>

Workers == Callers \cup {Sweep, User}
Fresh(g) == g > aged
Live(g) == g >= floor /\ g > ended

\* What a request does inside the try whose finally deletes the lock.
Critical == {"exchanging", "resetting", "storing", "caching", "settling",
             "counting", "dying", "burying", "clearing", "releasing"}
Positions == {"idle", "reading", "loading", "warming", "judging", "locking",
              "erasing", "marking"} \cup Critical
Refreshing == {c \in Callers : pc[c] \in Critical}

Init ==
    /\ rotates \in {"yes", "no"}
    /\ issued = 1 /\ floor = 1 /\ ended = 0 /\ aged = 0
    /\ row = 1 /\ connected = "yes" /\ stored = 1 /\ cache = 1
    /\ lock = "free" /\ fatal = 0 /\ alerted = "no"
    /\ pc = [w \in Workers |-> "idle"]
    /\ held = [w \in Workers |-> 0] /\ got = [w \in Workers |-> 0]
    /\ polls = [w \in Workers |-> 0] /\ due = [w \in Workers |-> 0]
    /\ refused = 0 /\ reconnects = 0 /\ calls = 0 /\ lapses = 0 /\ expiries = 0
    /\ faults = 0

-----------------------------------------------------------------------------
(* Reading the token *)

Goto(w, position) == pc' = [pc EXCEPT ![w] = position]

\* A worker's call is over: a request has its answer, the sweep its result.
Return(w) ==
    /\ Goto(w, "idle")
    /\ held' = [held EXCEPT ![w] = 0] /\ got' = [got EXCEPT ![w] = 0]
    /\ polls' = [polls EXCEPT ![w] = 0] /\ due' = [due EXCEPT ![w] = 0]

Call ==
    /\ calls < MaxCalls
    /\ calls' = calls + 1
    /\ UNCHANGED << lapses, expiries, faults >>

\* The sweep selects connected rows only.
Begin(w) ==
    /\ w # User /\ pc[w] = "idle"
    /\ w = Sweep => connected = "yes"
    /\ Call
    /\ Goto(w, "reading")
    /\ UNCHANGED << provider, stores, keys, locals, refused, reconnects >>

ReadCache(w) ==
    /\ pc[w] = "reading"
    /\ held' = [held EXCEPT ![w] = cache]
    /\ Goto(w, IF cache = 0 THEN "loading" ELSE "judging")
    /\ UNCHANGED << provider, stores, keys, got, polls, due, history >>

\* _pg_load: a row that is not connected, or has no token, is none.
LoadRow(w) ==
    /\ pc[w] = "loading"
    /\ IF connected = "yes" /\ row # 0
       THEN held' = [held EXCEPT ![w] = row] /\ Goto(w, "warming")
       ELSE UNCHANGED held /\ Goto(w, "judging")
    /\ UNCHANGED << provider, stores, keys, got, polls, due, history >>

\* setex, whatever the cache holds by now
Warm(w) ==
    /\ pc[w] = "warming"
    /\ cache' = held[w]
    /\ Goto(w, "judging")
    /\ UNCHANGED << provider, database, keys, locals, history >>

\* Mutant: a request that waits until the token is fresh.
JudgeAnswerFresh(c) ==
    /\ c \in Callers /\ pc[c] = "judging"
    /\ Fresh(held[c]) \/ polls[c] = 0
    /\ Return(c)
    /\ UNCHANGED << provider, stores, keys, history >>

\* A fresh token is the answer, and so is a stale one, or an error, behind an
\* open circuit or after the last look.
JudgeAnswer(c) ==
    /\ c \in Callers /\ pc[c] = "judging"
    /\ Fresh(held[c]) \/ polls[c] \in {0, MaxPolls}
    /\ Return(c)
    /\ UNCHANGED << provider, stores, keys, history >>

JudgeStale(c) ==
    /\ c \in Callers /\ pc[c] = "judging"
    /\ ~Fresh(held[c]) /\ polls[c] = 0
    /\ Goto(c, "locking")
    /\ UNCHANGED << provider, stores, keys, locals, history >>

LookAgain(c) ==
    /\ c \in Callers /\ pc[c] = "judging"
    /\ ~Fresh(held[c]) /\ polls[c] \in 1 .. MaxPolls - 1
    /\ polls' = [polls EXCEPT ![c] = @ + 1]
    /\ held' = [held EXCEPT ![c] = 0]
    /\ Goto(c, "reading")
    /\ UNCHANGED << provider, stores, keys, got, due, history >>

\* Mutant: SET without NX.
TakeLockAnyway(c) ==
    /\ pc[c] = "locking"
    /\ lock' = "held"
    /\ Goto(c, IF held[c] = 0 THEN "dying" ELSE "exchanging")
    /\ UNCHANGED << provider, stores, fatal, alerted, locals, history >>

\* SET lock NX EX 20.  Without a token there is nothing to refresh with.
TakeLock(c) ==
    /\ pc[c] = "locking" /\ lock = "free"
    /\ lock' = "held"
    /\ Goto(c, IF held[c] = 0 THEN "dying" ELSE "exchanging")
    /\ UNCHANGED << provider, stores, fatal, alerted, locals, history >>

WaitForLock(c) ==
    /\ pc[c] = "locking" /\ lock = "held"
    /\ polls' = [polls EXCEPT ![c] = 1]
    /\ held' = [held EXCEPT ![c] = 0]
    /\ Goto(c, "reading")
    /\ UNCHANGED << provider, stores, keys, got, due, history >>

\* The sweep: no token, a refresh token past its period, one with half an hour
\* left, or a refresh.  It takes no lock.
SweepJudge ==
    /\ pc[Sweep] = "judging"
    /\ \/ held[Sweep] = 0 /\ Goto(Sweep, "marking") /\ UNCHANGED locals
       \/ held[Sweep] \in 1 .. ended /\ Goto(Sweep, "dying") /\ UNCHANGED locals
       \/ Fresh(held[Sweep]) /\ Return(Sweep)
       \/ held[Sweep] # 0 /\ Goto(Sweep, "exchanging") /\ UNCHANGED locals
    /\ UNCHANGED << provider, stores, keys, history >>

-----------------------------------------------------------------------------
(* The exchange and the stores *)

\* Where a worker goes when its part in the refresh is over.
Leave(w) == IF w \in Callers THEN Goto(w, "releasing") /\ UNCHANGED locals
                             ELSE Return(w)

\* Mutant: the refresh token of the answer is left aside.
ExchangeKeepingToken(w) ==
    /\ pc[w] = "exchanging" /\ Live(held[w])
    /\ issued < MaxGen
    /\ issued' = issued + 1
    /\ got' = [got EXCEPT ![w] = held[w]] /\ held' = [held EXCEPT ![w] = 0]
    /\ floor' = IF rotates = "yes" THEN issued + 1 ELSE floor
    /\ Goto(w, "resetting")
    /\ UNCHANGED << rotates, ended, aged, stores, keys, polls, due, history >>

Exchange(w) ==
    /\ pc[w] = "exchanging" /\ Live(held[w])
    /\ issued < MaxGen
    /\ issued' = issued + 1
    /\ got' = [got EXCEPT ![w] = issued + 1] /\ held' = [held EXCEPT ![w] = 0]
    /\ floor' = IF rotates = "yes" THEN issued + 1 ELSE floor
    /\ Goto(w, "resetting")
    /\ UNCHANGED << rotates, ended, aged, stores, keys, polls, due, history >>

\* The answer is lost and the worker posts the same refresh token again.
ExchangeLost(w) ==
    /\ pc[w] = "exchanging" /\ Live(held[w])
    /\ issued < MaxGen /\ faults < MaxFaults
    /\ issued' = issued + 1
    /\ floor' = IF rotates = "yes" THEN issued + 1 ELSE floor
    /\ faults' = faults + 1
    /\ UNCHANGED << rotates, ended, aged, stores, keys, pc, locals, refused,
                    reconnects, calls, lapses, expiries >>

\* Mutant: a failed exchange stores the token it was for.
ExchangeFailsStoring(w) ==
    /\ pc[w] = "exchanging"
    /\ got' = [got EXCEPT ![w] = held[w]]
    /\ Goto(w, "storing")
    /\ UNCHANGED << provider, stores, keys, held, polls, due, history >>

\* A server error, or the third network error.
ExchangeFails(w) ==
    /\ pc[w] = "exchanging"
    /\ Leave(w)
    /\ UNCHANGED << provider, stores, keys, history >>

\* The count is deleted once the provider has answered.
ResetCount(w) ==
    /\ pc[w] \in {"resetting", "settling"}
    /\ fatal' = 0
    /\ refused' = Cardinality({v \in Workers : due[v] > 0})
    /\ IF pc[w] = "resetting" THEN Goto(w, "storing") /\ UNCHANGED locals
                              ELSE Leave(w)
    /\ UNCHANGED << provider, stores, lock, alerted, reconnects, calls, lapses,
                    expiries, faults >>

StoreRow(w) ==
    /\ pc[w] = "storing"
    /\ row' = got[w] /\ connected' = "yes"
    /\ stored' = IF got[w] > stored THEN got[w] ELSE stored
    /\ Goto(w, "caching")
    /\ UNCHANGED << provider, cache, keys, locals, history >>

StoreCache(w) ==
    /\ pc[w] = "caching"
    /\ cache' = got[w]
    /\ Goto(w, "settling")
    /\ UNCHANGED << provider, database, keys, locals, history >>

Release(c) ==
    /\ c \in Callers /\ pc[c] = "releasing"
    /\ lock' = "free"
    /\ Return(c)
    /\ UNCHANGED << provider, stores, fatal, alerted, history >>

-----------------------------------------------------------------------------
(* A refresh token that is refused *)

\* A 400, 401 or 403.  A request counts a fatal grant error in _post_with_retry
\* and a 400 or 401 in _get_valid_token, so most refusals twice; for the sweep
\* only the first of the two counts.
Refuse(w) ==
    /\ pc[w] = "exchanging" /\ ~Live(held[w]) /\ refused < MaxRefusals
    /\ \E n \in IF w = Sweep THEN {1} ELSE {1, 2} :
           due' = [due EXCEPT ![w] = n]
    /\ held' = [held EXCEPT ![w] = 0]
    /\ refused' = refused + 1
    /\ Goto(w, "counting")
    /\ UNCHANGED << provider, stores, keys, got, polls, reconnects, calls, lapses,
                    expiries, faults >>

\* A 403 that is no grant error, or for the sweep any answer that is not one:
\* not counted, but a 400 or 401 is the end for the sweep.
RefuseUncounted(w) ==
    /\ pc[w] = "exchanging" /\ ~Live(held[w])
    /\ \/ Leave(w)
       \/ w = Sweep /\ Goto(w, "dying") /\ UNCHANGED locals
    /\ UNCHANGED << provider, stores, keys, history >>

\* Mutant: off by one.
CountEarly(w) ==
    /\ pc[w] = "counting" /\ due[w] > 0
    /\ fatal' = fatal + 1
    /\ due' = [due EXCEPT ![w] = @ - 1]
    /\ \/ (fatal + 1 >= Threshold - 1 \/ w = Sweep) /\ Goto(w, "dying")
       \/ fatal + 1 < Threshold /\ Goto(w, "counting")
    /\ UNCHANGED << provider, stores, lock, alerted, held, got, polls, history >>

\* The count at which a request gives the token up, or any for the sweep.
Hopeless(w) == fatal + 1 >= Threshold \/ w = Sweep
Count(w) ==
    /\ pc[w] = "counting" /\ due[w] > 0
    /\ fatal' = fatal + 1
    /\ due' = [due EXCEPT ![w] = @ - 1]
    /\ \/ Hopeless(w) /\ Goto(w, "dying")
       \/ fatal + 1 < Threshold /\ Goto(w, "counting")
    /\ UNCHANGED << provider, stores, lock, alerted, held, got, polls, history >>

Counted(w) ==
    /\ pc[w] = "counting" /\ due[w] = 0
    /\ Leave(w)
    /\ UNCHANGED << provider, stores, keys, history >>

\* _handle_dead_token is over.
Buried(w) == IF due[w] > 0 THEN Goto(w, "counting") /\ UNCHANGED locals
                           ELSE Leave(w)

\* SET alerted NX EX 300, else somebody has just done it
Alert(w) ==
    /\ pc[w] = "dying"
    /\ alerted' = "yes"
    /\ IF alerted = "no" THEN Goto(w, "burying") /\ UNCHANGED locals ELSE Buried(w)
    /\ UNCHANGED << provider, stores, lock, fatal, history >>

Bury(w) ==
    /\ pc[w] = "burying"
    /\ connected' = "no"
    /\ Goto(w, "clearing")
    /\ UNCHANGED << provider, row, stored, cache, keys, locals, history >>

Clear(w) ==
    /\ pc[w] = "clearing"
    /\ cache' = 0 /\ fatal' = 0
    /\ refused' = Cardinality({v \in Workers : due[v] > 0})
    /\ Buried(w)
    /\ UNCHANGED << provider, database, lock, alerted, reconnects, calls,
                    lapses, expiries, faults >>

-----------------------------------------------------------------------------
(* The user, and what nobody does *)

\* The callback of the provider: a new grant, which supersedes the old one.
Reconnect ==
    /\ pc[User] = "idle" /\ issued < MaxGen
    /\ Call
    /\ issued' = issued + 1 /\ floor' = issued + 1
    /\ got' = [got EXCEPT ![User] = issued + 1]
    /\ Goto(User, "storing")
    /\ reconnects' = reconnects + 1
    /\ UNCHANGED << rotates, ended, aged, stores, keys, held, polls, due, refused >>

\* DELETE /disconnect: one pipeline over Redis, then _clear_provider_meta, then
\* _mark_disconnected.
Disconnect ==
    /\ pc[User] = "idle"
    /\ Call
    /\ cache' = 0 /\ fatal' = 0
    /\ refused' = Cardinality({v \in Workers : due[v] > 0})
    /\ Goto(User, "erasing")
    /\ UNCHANGED << provider, database, lock, alerted, locals, reconnects >>

\* meta = '{}', where the tokens are
EraseRow ==
    /\ pc[User] = "erasing"
    /\ row' = 0
    /\ Goto(User, "marking")
    /\ UNCHANGED << provider, connected, stored, cache, keys, locals, history >>

\* The flag alone, by the user's disconnect or by the sweep.
MarkDisconnected(w) ==
    /\ pc[w] = "marking"
    /\ connected' = "no"
    /\ Return(w)
    /\ UNCHANGED << provider, row, stored, cache, keys, history >>

\* An error the code logs and passes over: the load answers "no token", the
\* writes are left out.
Swallow(w) ==
    /\ faults < MaxFaults
    /\ faults' = faults + 1
    /\ \/ pc[w] = "loading" /\ Goto(w, "judging") /\ UNCHANGED locals
       \/ pc[w] = "warming" /\ Goto(w, "judging") /\ UNCHANGED locals
       \/ pc[w] = "storing" /\ Goto(w, "caching") /\ UNCHANGED locals
       \/ pc[w] = "caching" /\ Goto(w, "settling") /\ UNCHANGED locals
       \/ pc[w] \in {"burying", "clearing"} /\ Buried(w)
       \/ pc[w] = "erasing" /\ Goto(w, "marking") /\ UNCHANGED locals
       \/ pc[w] = "marking" /\ Return(w)
    /\ UNCHANGED << provider, stores, keys, refused, reconnects, calls, lapses, expiries >>

\* The process is killed; the keys it has set stay.
Die(w) ==
    /\ pc[w] # "idle" /\ faults < MaxFaults
    /\ faults' = faults + 1
    /\ Return(w)
    /\ UNCHANGED << provider, stores, keys, refused, reconnects, calls, lapses, expiries >>

\* 20 seconds
LapseLock ==
    /\ lock = "held" /\ lapses < MaxLapses
    /\ lock' = "free" /\ lapses' = lapses + 1
    /\ UNCHANGED << provider, stores, fatal, alerted, pc, locals, refused,
                    reconnects, calls, expiries, faults >>

\* What else may expire, one thing at a time.
Expire ==
    /\ expiries < MaxExpiries
    /\ expiries' = expiries + 1
    /\ UNCHANGED << pc, locals, reconnects, calls, lapses, faults >>

\* Two hours
LapseCache ==
    /\ cache # 0
    /\ cache' = 0
    /\ Expire
    /\ UNCHANGED << provider, database, keys, refused >>

\* Ten minutes without a refusal
LapseCount ==
    /\ fatal # 0
    /\ fatal' = 0
    /\ refused' = Cardinality({v \in Workers : due[v] > 0})
    /\ Expire
    /\ UNCHANGED << provider, stores, lock, alerted >>

\* Five minutes
LapseAlert ==
    /\ alerted = "yes"
    /\ alerted' = "no"
    /\ Expire
    /\ UNCHANGED << provider, stores, lock, fatal, refused >>

\* The oldest access token still fresh expires.
Age ==
    /\ aged < issued
    /\ aged' = aged + 1
    /\ Expire
    /\ UNCHANGED << rotates, issued, floor, ended, stores, keys, refused >>

EndGrant ==
    /\ ended < issued
    /\ ended' = issued
    /\ Expire
    /\ UNCHANGED << rotates, issued, floor, aged, stores, keys, refused >>

-----------------------------------------------------------------------------

\* One step of the code a worker runs.
Step(w) ==
    \/ ReadCache(w) \/ LoadRow(w) \/ Warm(w)
    \/ JudgeAnswer(w) \/ JudgeStale(w) \/ LookAgain(w)
    \/ TakeLock(w) \/ WaitForLock(w)
    \/ w = Sweep /\ SweepJudge
    \/ Exchange(w) \/ ExchangeFails(w) \/ ResetCount(w) \/ StoreRow(w)
    \/ StoreCache(w) \/ Release(w)
    \/ Refuse(w) \/ RefuseUncounted(w) \/ Count(w) \/ Counted(w)
    \/ Alert(w) \/ Bury(w) \/ Clear(w)
    \/ MarkDisconnected(w)
    \/ w = User /\ EraseRow

Lapse == LapseLock \/ LapseCache \/ LapseCount \/ LapseAlert \/ Age \/ EndGrant

Next ==
    \/ \E w \in Workers : Begin(w) \/ Step(w) \/ ExchangeLost(w) \/ Swallow(w) \/ Die(w)
    \/ Reconnect \/ Disconnect
    \/ Lapse

Spec == Init /\ [][Next]_vars

\* A process that runs goes on; nobody has to ask, to connect or to fail.
FairSpec == Spec /\ \A w \in Workers : WF_vars(Step(w))

-----------------------------------------------------------------------------

\* Every variable has its type.
TypeOK ==
    /\ rotates \in {"yes", "no"}
    /\ issued \in 1 .. MaxGen /\ floor \in 1 .. issued
    /\ ended \in 0 .. issued /\ aged \in 0 .. issued
    /\ row \in 0 .. issued /\ stored \in 1 .. issued /\ cache \in 0 .. issued
    /\ connected \in {"yes", "no"} /\ alerted \in {"yes", "no"}
    /\ lock \in {"held", "free"}
    /\ fatal \in Nat /\ refused \in Nat
    /\ pc \in [Workers -> Positions]
    /\ held \in [Workers -> 0 .. issued] /\ got \in [Workers -> 0 .. issued]
    /\ polls \in [Workers -> 0 .. MaxPolls] /\ due \in [Workers -> 0 .. 2]
    /\ reconnects \in 0 .. MaxGen
    /\ calls \in 0 .. MaxCalls
    /\ lapses \in 0 .. MaxLapses /\ expiries \in 0 .. MaxExpiries
    /\ faults \in 0 .. MaxFaults

\* Requests refresh one at a time, but for one more each time the lock runs out
\* under its holder: the finally of the one it ran out for deletes the lock of
\* the next (token_manager.py:417).
RefreshersExclude ==
    Cardinality(Refreshing) <= lapses + IF lock = "held" THEN 1 ELSE 0

\* While no worker is killed a lock that is held has a request at work under
\* it: no path out of the refresh, the refusals and the dead token included,
\* leaves the next requests to wait for nobody.
LockIsManned == faults = 0 /\ lock = "held" => Refreshing # {}

\* The invariant of the refresh lock (_get_valid_token): types, exclusion, and
\* that it is given back.
Inv == TypeOK /\ RefreshersExclude /\ LockIsManned

\* The newest refresh token of a provider that rotates them has come to the row,
\* and is there unless the user erased it, or is with the worker that is about
\* to write it, while nothing fails and nobody reconnects: workers that refresh
\* at once, or while the user disconnects, do not lose it between them.
TokenKept ==
    rotates = "yes" /\ faults = 0 /\ reconnects = 0 =>
        \/ stored = issued /\ row \in {0, issued}
        \/ \E w \in Workers : pc[w] \in {"resetting", "storing"} /\ got[w] = issued

\* Under rotation, and while nobody reconnects, what is written to the row is
\* newer than all it has had, though nothing compares versions (_pg_store): a
\* worker that is late with an old token gets none to write, and no token that
\* the user's disconnect erased comes back.
RowNeverGoesBack ==
    [][rotates = "yes" /\ reconnects' = 0 /\ row' # row =>
          \/ row' > stored
          \/ row' = 0 /\ pc[User] = "erasing"]_vars

\* A request that declares the token dead for its refusals has seen enough of
\* them since the count was reset: half the threshold, since a refusal counts
\* twice, whoever else counts and resets at the same time.
DeadIsDeserved ==
    [][\A c \in Callers :
          pc[c] = "counting" /\ pc'[c] = "dying" => 2 * refused >= Threshold]_vars

\* Every request gets a token or an error, whatever the holder of the lock does.
RequestsAnswered == \A c \in Callers : pc[c] # "idle" ~> pc[c] = "idle"

=============================================================================
