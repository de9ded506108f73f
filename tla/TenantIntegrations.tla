-------------------------- MODULE TenantIntegrations --------------------------
(***************************************************************************)
(* The row of one tenant and provider in tenant_integrations of Tiger V2,  *)
(* and the one-time codes that lead to it: the nonce of an OAuth connect   *)
(* or the code of a Telegram link.  Every request is one transaction of    *)
(* Postgres at READ COMMITTED: it sees what is committed, a row it has     *)
(* changed is locked until it commits or rolls back, and an insert waits   *)
(* for, and then clashes with, the one that came first.                    *)
(***************************************************************************)
EXTENDS Naturals, FiniteSets

CONSTANTS
    Requests,
    Codes,      \* nonces or link codes, issued for this tenant
    Nobody,     \* no request, or one of long ago
    NoRow,
    MaxTokens   \* bound on the tokens the provider issues

ASSUME ConstantsAssumption == Nobody \notin Requests /\ MaxTokens \in Nat \ {0}

VARIABLES
    kind,       \* "oauth" or "chat"
    \* committed
    alive,      \* codes in their table
    stale,      \* codes past their lifetime, or issued for another provider
    row,        \* the integration
    \* the transactions
    deleting,   \* the code whose row each request has deleted, a set
    locker,     \* the request that has changed the integration
    draft,      \* what it has changed it to
    \* the requests
    pc, task, code,
    first,      \* the integration as the request has read it to refresh
    seen,       \* the integration as the request has read it to write it
    new,        \* the token the provider gave it
    told,       \* what its user was told
    \* the provider
    issued, valid,
    \* history
    late,       \* codes whose redemption was committed before a request began
    written,    \* requests whose change was committed
    wasted      \* requests rolled back after they had refreshed

transactions == << deleting, locker, draft >>
locals == << task, code, first, seen, new, told >>
provider == << issued, valid >>
history == << late, written, wasted >>
vars == << kind, alive, stale, row, deleting, locker, draft, pc, task, code,
           first, seen, new, told, issued, valid, late, written, wasted >>

\* id: the request that inserted the row; token: 0 for the dummies; by: the
\* request that linked it last.
Rows == [id : Requests \cup {Nobody}, token : 0 .. MaxTokens,
         mode : {"real", "sandbox"}, by : Requests \cup {Nobody}]
Tasks == {"redeem", "demo", "use", "disconnect"}
Positions == {"new", "reading", "deleting", "judging", "exchanging", "selecting",
              "refreshing", "rereading", "writing", "working", "committing",
              "aborting", "done"}
Told == {"nothing", "invalid", "failed", "linked"}

\* The row of a tenant who connected an OAuth provider some time ago.
Connected == [id |-> Nobody, token |-> 1, mode |-> "real", by |-> Nobody]

Init ==
    /\ kind \in {"oauth", "chat"}
    /\ alive = Codes /\ stale = {}
    /\ \/ row = NoRow /\ issued = 0
       \/ row = Connected /\ issued = 1 /\ kind = "oauth"
    /\ deleting = [h \in Requests |-> {}] /\ locker = Nobody /\ draft = NoRow
    /\ pc = [h \in Requests |-> "new"]
    /\ task = [h \in Requests |-> "redeem"]
    /\ code \in [Requests -> Codes]
    /\ first = [h \in Requests |-> NoRow] /\ seen = [h \in Requests |-> NoRow]
    /\ new = [h \in Requests |-> 0]
    /\ told = [h \in Requests |-> "nothing"]
    /\ valid = 1 .. issued
    /\ late = [h \in Requests |-> {}] /\ written = {} /\ wasted = {}

-----------------------------------------------------------------------------

Goto(h, position) == pc' = [pc EXCEPT ![h] = position]
Tell(h, answer) == told' = [told EXCEPT ![h] = answer]

\* Codes that are gone because a link made with them was committed.
Redeemed == {code[h] : h \in {r \in written : task[r] = "redeem"}}

\* A demo connect and a token in use are for OAuth providers.
Begin(h) ==
    /\ pc[h] = "new"
    /\ \E t \in Tasks :
          /\ t \in {"demo", "use"} => kind = "oauth"
          /\ task' = [task EXCEPT ![h] = t]
          /\ Goto(h, IF t = "redeem" THEN "reading" ELSE "selecting")
    /\ late' = [late EXCEPT ![h] = Redeemed]
    /\ UNCHANGED << kind, alive, stale, row, transactions, code, first, seen, new,
                    told, provider, written, wasted >>

\* The lifetime passes, or the callback is another provider's.
Spoil(c) ==
    /\ c \notin stale
    /\ stale' = stale \cup {c}
    /\ UNCHANGED << kind, alive, row, transactions, pc, locals, provider, history >>

-----------------------------------------------------------------------------
(* consume() *)

ReadCode(h) ==
    /\ pc[h] = "reading"
    /\ IF code[h] \in alive
       THEN Goto(h, "deleting") /\ UNCHANGED told
       ELSE Goto(h, "committing") /\ Tell(h, "invalid")
    /\ UNCHANGED << kind, alive, stale, row, transactions, task, code, first, seen,
                    new, provider, history >>

\* Waits for another request that has deleted the code; deletes nothing if it
\* is gone by then, and goes on: the row count is not looked at.
DeleteCode(h) ==
    /\ pc[h] = "deleting"
    /\ \A r \in Requests \ {h} : code[h] \notin deleting[r]
    /\ deleting' = [deleting EXCEPT ![h] = {code[h]} \cap alive]
    /\ Goto(h, "judging")
    /\ UNCHANGED << kind, alive, stale, row, locker, draft, locals, provider, history >>

JudgeCode(h) ==
    /\ pc[h] = "judging"
    /\ IF code[h] \in stale
       THEN Goto(h, "committing") /\ Tell(h, "invalid")
       ELSE /\ UNCHANGED told
            /\ Goto(h, IF kind = "oauth" THEN "exchanging" ELSE "selecting")
    /\ UNCHANGED << kind, alive, stale, row, transactions, task, code, first, seen,
                    new, provider, history >>

-----------------------------------------------------------------------------
(* The provider *)

Issue(h) ==
    /\ issued < MaxTokens
    /\ issued' = issued + 1
    /\ new' = [new EXCEPT ![h] = issued + 1]

\* The code of the provider against a token.
ExchangeCode(h) ==
    /\ pc[h] = "exchanging"
    /\ Issue(h) /\ valid' = valid \cup {issued + 1}
    /\ Goto(h, "selecting")
    /\ UNCHANGED << kind, alive, stale, row, transactions, task, code, first, seen,
                    told, history >>

\* Refused: caught, and the request commits.  No client registered: not caught.
ExchangeFails(h) ==
    /\ pc[h] = "exchanging"
    /\ Tell(h, "failed")
    /\ Goto(h, "committing") \/ Goto(h, "aborting")
    /\ UNCHANGED << kind, alive, stale, row, transactions, task, code, first, seen,
                    new, provider, history >>

\* get_access_token: the refresh token is replaced by another.
Refresh(h) ==
    /\ pc[h] = "refreshing" /\ seen[h].token \in valid
    /\ Issue(h) /\ valid' = (valid \ {seen[h].token}) \cup {issued + 1}
    /\ Goto(h, "rereading")
    /\ UNCHANGED << kind, alive, stale, row, transactions, task, code, first, seen,
                    told, history >>

RefreshFails(h) ==
    /\ pc[h] = "refreshing"
    /\ Tell(h, "failed")
    /\ Goto(h, "aborting")
    /\ UNCHANGED << kind, alive, stale, row, transactions, task, code, first, seen,
                    new, provider, history >>

-----------------------------------------------------------------------------
(* The row: save(), remember_chat(), disconnect() *)

Select(h) ==
    /\ pc[h] = "selecting"
    /\ seen' = [seen EXCEPT ![h] = row]
    /\ CASE task[h] \in {"redeem", "demo"} -> Goto(h, "writing") /\ UNCHANGED told
         [] task[h] = "disconnect" ->
              /\ Goto(h, IF row = NoRow THEN "committing" ELSE "writing")
              /\ UNCHANGED told
         [] task[h] = "use" ->
              IF row = NoRow THEN Goto(h, "aborting") /\ Tell(h, "failed")
              ELSE /\ UNCHANGED told
                   /\ \/ Goto(h, "committing")
                      \/ row.token # 0 /\ Goto(h, "refreshing")
    /\ UNCHANGED << kind, alive, stale, row, transactions, task, code, first, new,
                    provider, history >>

\* save() reads the row again after the provider has answered.  The session
\* gives back the row it knows if that is still there, as it first read it;
\* otherwise it takes what has come in its place, or nothing.
Reread(h) ==
    /\ pc[h] = "rereading"
    /\ first' = [first EXCEPT ![h] = seen[h]]
    /\ seen' = [seen EXCEPT ![h] =
                   IF row # NoRow /\ row.id = seen[h].id THEN seen[h] ELSE row]
    /\ Goto(h, "writing")
    /\ UNCHANGED << kind, alive, stale, row, transactions, task, code, new, told,
                    provider, history >>

\* What a refresh saves: a new row with the metadata it began with where there
\* is none, else the row with that metadata laid over its own; metadata that
\* this does not change is left out of the UPDATE.
Refreshed(h) ==
    LET mode == IF first[h].mode = "sandbox" THEN "sandbox" ELSE seen[h].mode
    IN  CASE seen[h] = NoRow -> [first[h] EXCEPT !.id = h, !.token = new[h]]
          [] seen[h] # NoRow /\ mode = seen[h].mode /\ first[h].by = seen[h].by ->
               [row EXCEPT !.token = new[h]]
          [] OTHER -> [row EXCEPT !.token = new[h], !.mode = mode,
                                  !.by = first[h].by]

\* Mutant: the refresh token of the answer is left aside.
MadeKeepingToken(h) ==
    CASE task[h] = "disconnect" -> NoRow
      [] task[h] = "use" -> row
      [] OTHER -> [id |-> IF seen[h] = NoRow THEN h ELSE seen[h].id,
                   token |-> new[h],
                   mode |-> IF task[h] = "demo" THEN "sandbox" ELSE "real", by |-> h]

\* What the request makes of the row it has seen.  The metadata is merged into
\* what was there, and with it the mode.
Made(h) ==
    CASE task[h] = "disconnect" -> NoRow
      [] task[h] = "use" -> Refreshed(h)
      [] OTHER -> [id |-> IF seen[h] = NoRow THEN h ELSE seen[h].id,
                   token |-> new[h],
                   mode |-> IF task[h] = "demo" THEN "sandbox"
                            ELSE IF seen[h] = NoRow THEN "real" ELSE seen[h].mode,
                   by |-> IF task[h] = "redeem" \/ seen[h] = NoRow
                          THEN h ELSE row.by]

\* Nobody has inserted where the request inserts, and the row it changes is
\* the one it has read.
SameRow(h) == IF seen[h] = NoRow THEN row = NoRow
                                 ELSE row # NoRow /\ row.id = seen[h].id

Write(h) ==
    /\ pc[h] = "writing" /\ locker = Nobody
    /\ SameRow(h)
    /\ locker' = h /\ draft' = Made(h)
    /\ Goto(h, "working")
    /\ UNCHANGED << kind, alive, stale, row, deleting, locals, provider, history >>

\* The IntegrityError of an insert, or the StaleDataError of an update: the
\* transaction is lost.  The callback of a chat says "Linked" all the same.
Clash(h) ==
    /\ pc[h] = "writing" /\ locker = Nobody
    /\ ~SameRow(h) /\ task[h] # "disconnect"
    /\ Tell(h, IF kind = "chat" THEN "linked" ELSE "failed")
    /\ Goto(h, "aborting")
    /\ UNCHANGED << kind, alive, stale, row, transactions, task, code, first, seen,
                    new, provider, history >>

\* A delete of a row that is gone is only a warning.
DeleteNothing(h) ==
    /\ pc[h] = "writing" /\ locker = Nobody
    /\ ~SameRow(h) /\ task[h] = "disconnect"
    /\ Goto(h, "working")
    /\ UNCHANGED << kind, alive, stale, row, transactions, locals, provider, history >>

\* The rest of the request.  The user of a chat hears after the commit.
Finish(h) ==
    /\ pc[h] = "working"
    /\ Goto(h, "committing")
    /\ Tell(h, IF task[h] = "redeem" THEN "linked" ELSE "nothing")
    /\ UNCHANGED << kind, alive, stale, row, transactions, task, code, first, seen,
                    new, provider, history >>

\* A request that uses a token does more with it, and that may raise.
Raise(h) ==
    /\ pc[h] = "working" /\ task[h] = "use"
    /\ Goto(h, "aborting") /\ Tell(h, "failed")
    /\ UNCHANGED << kind, alive, stale, row, transactions, task, code, first, seen,
                    new, provider, history >>

Unlock(h) ==
    /\ deleting' = [deleting EXCEPT ![h] = {}]
    /\ locker' = IF locker = h THEN Nobody ELSE locker
    /\ draft' = IF locker = h THEN NoRow ELSE draft

\* Mutant: the code's deletion is not part of the transaction of the link.
CommitLink(h) ==
    /\ pc[h] = "committing"
    /\ row' = IF locker = h THEN draft ELSE row
    /\ written' = IF locker = h THEN written \cup {h} ELSE written
    /\ Unlock(h)
    /\ Goto(h, "done")
    /\ UNCHANGED << kind, alive, stale, locals, provider, late, wasted >>

Commit(h) ==
    /\ pc[h] = "committing"
    /\ alive' = alive \ deleting[h]
    /\ row' = IF locker = h THEN draft ELSE row
    /\ written' = IF locker = h THEN written \cup {h} ELSE written
    /\ Unlock(h)
    /\ Goto(h, "done")
    /\ UNCHANGED << kind, stale, locals, provider, late, wasted >>

\* Mutant: the connection goes back to the pool with its locks.
RollbackLocked(h) ==
    /\ pc[h] = "aborting"
    /\ wasted' = IF task[h] = "use" /\ new[h] # 0 THEN wasted \cup {h} ELSE wasted
    /\ Goto(h, "done")
    /\ UNCHANGED << kind, alive, stale, row, transactions, locals, provider, late,
                    written >>

\* The code is alive again.
Rollback(h) ==
    /\ pc[h] = "aborting"
    /\ wasted' = IF task[h] = "use" /\ new[h] # 0 THEN wasted \cup {h} ELSE wasted
    /\ Unlock(h)
    /\ Goto(h, "done")
    /\ UNCHANGED << kind, alive, stale, row, locals, provider, late, written >>

\* The process dies, and its transaction with it; nobody is told.
Crash(h) ==
    /\ pc[h] \notin {"new", "done", "aborting"}
    /\ Goto(h, "aborting")
    /\ Tell(h, "nothing")
    /\ UNCHANGED << kind, alive, stale, row, transactions, task, code, first, seen,
                    new, provider, history >>

-----------------------------------------------------------------------------

Step(h) ==
    \/ ReadCode(h) \/ DeleteCode(h) \/ JudgeCode(h)
    \/ ExchangeCode(h) \/ ExchangeFails(h) \/ Refresh(h) \/ RefreshFails(h)
    \/ Select(h) \/ Reread(h) \/ Write(h) \/ Clash(h) \/ DeleteNothing(h)
    \/ Finish(h) \/ Raise(h) \/ Commit(h) \/ Rollback(h)

Next ==
    \/ \E h \in Requests : Begin(h) \/ Step(h) \/ Crash(h)
    \/ \E c \in Codes : Spoil(c)

Spec == Init /\ [][Next]_vars

\* The event loop runs every request that can go on.
FairSpec == Spec /\ \A h \in Requests : WF_vars(Step(h))

-----------------------------------------------------------------------------

\* Every variable has its type.
TypeOK ==
    /\ kind \in {"oauth", "chat"}
    /\ alive \in SUBSET Codes /\ stale \in SUBSET Codes
    /\ row \in Rows \cup {NoRow} /\ draft \in Rows \cup {NoRow}
    /\ deleting \in [Requests -> SUBSET Codes]
    /\ locker \in Requests \cup {Nobody}
    /\ pc \in [Requests -> Positions] /\ task \in [Requests -> Tasks]
    /\ code \in [Requests -> Codes]
    /\ first \in [Requests -> Rows \cup {NoRow}]
    /\ seen \in [Requests -> Rows \cup {NoRow}]
    /\ new \in [Requests -> 0 .. MaxTokens]
    /\ told \in [Requests -> Told]
    /\ issued \in 0 .. MaxTokens /\ valid \in SUBSET (1 .. MaxTokens)
    /\ late \in [Requests -> SUBSET Codes]
    /\ written \in SUBSET Requests /\ wasted \in SUBSET Requests

\* A link and the death of its code are one commit: no code that has linked is
\* still there to be used, whoever rolled back in between.
LinkConsumesCode == Redeemed \cap alive = {}

\* A request that began after a code had been redeemed makes no link with it
\* (two that overlap both may: the row count of the DELETE is not looked at).
SpentCodeIsRefused ==
    \A h \in written : task[h] = "redeem" => code[h] \notin late[h]

\* Who was told that the code is no good finds it gone: it was never there, or
\* its deletion was committed though the redemption was refused.
RefusedCodeIsDead ==
    \A h \in Requests :
        pc[h] = "done" /\ told[h] = "invalid" => code[h] \notin alive

\* Who was told that an OAuth connection was made has one in the committed row
\* or had, before somebody else changed it.
ToldIsTrue ==
    \A h \in Requests :
        kind = "oauth" /\ pc[h] = "done" /\ told[h] = "linked" => h \in written

\* The invariant of the codes, of OAuth (oauth_state.consume) as of Telegram
\* (telegram_link.consume): types, and what a code's end has to do with the
\* link it makes and with what its bearer is told.
Inv ==
    /\ TypeOK
    /\ LinkConsumesCode
    /\ SpentCodeIsRefused
    /\ RefusedCodeIsDead
    /\ ToldIsTrue

\* The refresh token in the row is one the provider still takes, or a request
\* holds its successor and will write it; unless a request was rolled back
\* after it had refreshed, or died.  Neither requests that refresh at
\* the same time nor a disconnect or a reconnect during a refresh, whose row
\* save() then inserts again or overwrites, bring row and provider apart.
RefreshTokenKept ==
    wasted = {} /\ row # NoRow /\ row.token # 0 =>
        \/ row.token \in valid
        \/ \E h \in Requests : /\ task[h] = "use" /\ new[h] # 0
                               /\ pc[h] \in {"rereading", "writing", "working",
                                             "committing", "aborting"}

\* Every request that has begun ends: the row locks, of the code first and of
\* the integration second, never form a circle.
RequestsEnd ==
    \A h \in Requests : pc[h] = "reading" \/ pc[h] = "selecting" ~> pc[h] = "done"

=============================================================================
