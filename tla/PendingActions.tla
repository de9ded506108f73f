--------------------------- MODULE PendingActions ---------------------------
(***************************************************************************)
(* The propose -> confirm gate of Tiger V2: a write tool asked for by the  *)
(* model becomes a row of pending_actions, and only a click on Confirm     *)
(* (web route or Telegram keyboard) runs it.                               *)
(*                                                                         *)
(* Every HTTP request is one database transaction (api/deps.get_session):  *)
(* what it writes is private (write, entries) until Commit, and is dropped *)
(* by any exception or crash.  Postgres runs it at READ COMMITTED, so a    *)
(* plain SELECT reads the committed row (status) and takes no lock.        *)
(* The only thing a rollback cannot undo is the call to the provider       *)
(* (effects).                                                              *)
(***************************************************************************)
EXTENDS Naturals, Sequences

CONSTANTS
    Actions,     \* pending_actions rows: one id, token and key per propose
    Requests,    \* HTTP requests, one transaction each
    Tenants,
    Channels,    \* where the Confirm buttons are: "web", "telegram"
    NoRequest,   \* the holder of a free lock
    OwnerOf,     \* tenant_id of the row
    KeyOf,       \* idempotency_key of the row
    Lifetime,    \* PENDING_LIFETIME, in ticks
    MaxTime,     \* bound on the clock
    MaxFaults    \* bound on crashes, lost connections and failed commits

ASSUME LockAssumption == NoRequest \notin Requests
ASSUME ChannelAssumption == Channels \subseteq {"web", "telegram"}
ASSUME RowAssumption == OwnerOf \in [Actions -> Tenants]
ASSUME BoundAssumption == /\ Lifetime \in Nat
                          /\ MaxTime \in Nat
                          /\ MaxFaults \in Nat

VARIABLES
    proposal,    \* what the chat turn did with the row it staged
    status,      \* committed status of the row
    expires,     \* expires_at of the row
    chain,       \* committed audit_logs of a tenant, oldest first
    rowLock,     \* who holds the row lock
    chainLock,   \* who holds pg_advisory_xact_lock(tenant)
    job,         \* the input of a request
    pc,          \* where its handler is
    write,       \* the status it has written and not committed
    entries,     \* the audit rows it has inserted and not committed
    performed,   \* it has run the side effect and not ended
    reply,       \* what its client was told
    effects,     \* how often the side effect of an action happened
    lost,        \* how many of those were forgotten by a rollback
    now,
    faults

rows == << proposal, status, expires >>
locks == << rowLock, chainLock >>
world == << effects, lost, now, faults >>
vars == << proposal, status, expires, chain, rowLock, chainLock, job, pc,
           write, entries, performed, reply, effects, lost, now, faults >>

-----------------------------------------------------------------------------
(* Vocabulary *)

Settled == {"executed", "failed", "cancelled", "expired"}
Statuses == {"absent", "pending", "confirmed"} \cup Settled

Events == {"action_confirmed", "action_expired", "action_cancelled",
           "capability_invoked", "capability_failed",
           "capability_duplicate_replay"}

Jobs == [op : {"confirm", "cancel"}, channel : Channels,
         action : Actions, tenant : Tenants]

\* An audit row.  prev stands for prev_hash: the position of the row whose
\* signed_hash it repeats, 0 for genesis.
Entries == [event : Events, action : Actions, by : Requests, prev : Nat]

\* Handler positions at which the request holds the row under FOR UPDATE.
Owning == {"audit expired", "audit confirmed", "decrypt", "find duplicate",
           "dispatch", "mark executed", "audit failed", "audit raised",
           "audit duplicate", "audit invoked", "rollback"}
Dispatching == Owning \ {"audit expired", "audit confirmed"}
Running == Owning \cup {"lookup", "read", "write cancelled",
                        "audit cancelled", "commit"}
Positions == Running \cup {"idle", "done"}

ActionOf(r) == job[r].action
TenantOf(r) == job[r].tenant

\* What the client is told: the outcome its last audit row names.  The web
\* answers a late cancel with the row as it is; Telegram says "Cancelled".
Answers == Events \cup {"none", "invalid", "error", "settled"}
Answer(r) ==
    IF write[r] = "none" /\ job[r].channel = "web"
    THEN "settled"
    ELSE entries[r][Len(entries[r])].event

Goto(r, position) == pc' = [pc EXCEPT ![r] = position]

Buffer(r, value) == write' = [write EXCEPT ![r] = value]

\* Mutant: pg_advisory_lock instead of pg_advisory_xact_lock.
ReleaseKeepingAdvisory(r) ==
    /\ rowLock' = [a \in Actions |->
                      IF rowLock[a] = r THEN NoRequest ELSE rowLock[a]]
    /\ UNCHANGED chainLock
    /\ write' = [write EXCEPT ![r] = "none"]
    /\ entries' = [entries EXCEPT ![r] = << >>]
    /\ performed' = [performed EXCEPT ![r] = FALSE]
    /\ Goto(r, "done")

\* The transaction ends: every lock it holds is free again, nothing stays
\* buffered.
Release(r) ==
    /\ rowLock' = [a \in Actions |->
                      IF rowLock[a] = r THEN NoRequest ELSE rowLock[a]]
    /\ chainLock' = [t \in Tenants |->
                        IF chainLock[t] = r THEN NoRequest ELSE chainLock[t]]
    /\ write' = [write EXCEPT ![r] = "none"]
    /\ entries' = [entries EXCEPT ![r] = << >>]
    /\ performed' = [performed EXCEPT ![r] = FALSE]
    /\ Goto(r, "done")

-----------------------------------------------------------------------------
Init ==
    /\ proposal = [a \in Actions |-> "none"]
    /\ status = [a \in Actions |-> "absent"]
    /\ expires = [a \in Actions |-> 0]
    /\ chain = [t \in Tenants |-> << >>]
    /\ rowLock = [a \in Actions |-> NoRequest]
    /\ chainLock = [t \in Tenants |-> NoRequest]
    /\ job \in [Requests -> Jobs]
    /\ pc = [r \in Requests |-> "idle"]
    /\ write = [r \in Requests |-> "none"]
    /\ entries = [r \in Requests |-> << >>]
    /\ performed = [r \in Requests |-> FALSE]
    /\ reply = [r \in Requests |-> "none"]
    /\ effects = [a \in Actions |-> 0]
    /\ lost = [a \in Actions |-> 0]
    /\ now = 0
    /\ faults = 0

-----------------------------------------------------------------------------
(* The chat turn: propose_write_action inserts the row and yields the card *)
(* with the token; the turn's own transaction ends later.                  *)

Propose(a) ==
    /\ proposal[a] = "none"
    /\ proposal' = [proposal EXCEPT ![a] = "staged"]
    /\ expires' = [expires EXCEPT ![a] = now + Lifetime]
    /\ UNCHANGED << status, chain, locks, job, pc, write, entries, performed,
                    reply, world >>

CommitProposal(a) ==
    /\ proposal[a] = "staged"
    /\ proposal' = [proposal EXCEPT ![a] = "stored"]
    /\ status' = [status EXCEPT ![a] = "pending"]
    /\ UNCHANGED << expires, chain, locks, job, pc, write, entries, performed,
                    reply, world >>

\* The turn fails after the card was shown: the row never exists.
DropProposal(a) ==
    /\ proposal[a] = "staged"
    /\ proposal' = [proposal EXCEPT ![a] = "dropped"]
    /\ UNCHANGED << status, expires, chain, locks, job, pc, write, entries,
                    performed, reply, world >>

\* sweep_expired: one UPDATE over the stale rows; it waits for locked ones.
SweepExpired ==
    LET stale == {a \in Actions : status[a] = "pending" /\ expires[a] < now}
    IN  /\ stale # {}
        /\ \A a \in stale : rowLock[a] = NoRequest
        /\ status' = [a \in Actions |->
                         IF a \in stale THEN "expired" ELSE status[a]]
        /\ UNCHANGED << proposal, expires, chain, locks, job, pc, write,
                        entries, performed, reply, world >>

Tick ==
    /\ now < MaxTime
    /\ now' = now + 1
    /\ UNCHANGED << rows, chain, locks, job, pc, write, entries, performed,
                    reply, effects, lost, faults >>

-----------------------------------------------------------------------------
(* Both routes. *)

\* A click on a card that has been shown.
Receive(r) ==
    /\ pc[r] = "idle"
    /\ proposal[ActionOf(r)] # "none"
    /\ Goto(r, IF job[r].op = "confirm" THEN "lookup" ELSE "read")
    /\ UNCHANGED << rows, chain, locks, job, write, entries, performed, reply,
                    world >>

Owned(r) == status[ActionOf(r)] # "absent" /\ OwnerOf[ActionOf(r)] = TenantOf(r)

Reject(r) ==
    /\ Goto(r, "done")
    /\ reply' = [reply EXCEPT ![r] = "invalid"]
    /\ UNCHANGED << rows, chain, locks, job, write, entries, performed, world >>

\* Mutant: the audit row is written without the advisory lock.
AuditWriteUnlocked(r, event, position) ==
    LET t == TenantOf(r) IN
    /\ entries' = [entries EXCEPT ![r] =
                     Append(@, [event |-> event, action |-> ActionOf(r),
                                by |-> r,
                                prev |-> Len(chain[t]) + Len(entries[r])])]
    /\ Goto(r, position)
    /\ UNCHANGED << rows, chain, locks, job, write, performed, reply, world >>

\* AuditChainWriter.write: advisory lock to the end of the transaction, read
\* the last row this transaction can see, insert the next.
AuditWrite(r, event, position) ==
    LET t == TenantOf(r) IN
    /\ chainLock[t] \in {NoRequest, r}
    /\ chainLock' = [chainLock EXCEPT ![t] = r]
    /\ entries' = [entries EXCEPT ![r] =
                     Append(@, [event |-> event, action |-> ActionOf(r),
                                by |-> r,
                                prev |-> Len(chain[t]) + Len(entries[r])])]
    /\ Goto(r, position)
    /\ UNCHANGED << rows, chain, rowLock, job, write, performed, reply, world >>

\* Mutant: the Telegram callback raises like the web route.
AfterRaiseAlways(r) == "rollback"

\* Where a web handler that raises HTTPException ends up; Telegram commits.
AfterRaise(r) == IF job[r].channel = "web" THEN "rollback" ELSE "commit"

-----------------------------------------------------------------------------
(* Confirm, phase A: svc.confirm *)

\* Mutant: the row is read without FOR UPDATE.
LockedWithoutForUpdate(r) == pc[r] = "lookup"

\* SELECT ... FOR UPDATE waits for the lock, then re-reads the row.
Locked(r) == pc[r] = "lookup" /\ rowLock[ActionOf(r)] = NoRequest

ConfirmReject(r) ==
    /\ Locked(r)
    /\ ~Owned(r) \/ status[ActionOf(r)] # "pending"
    /\ Reject(r)

TakeRow(r, value, position) ==
    /\ Locked(r)
    /\ Owned(r)
    /\ status[ActionOf(r)] = "pending"
    /\ rowLock' = [rowLock EXCEPT ![ActionOf(r)] = r]
    /\ Buffer(r, value)
    /\ Goto(r, position)
    /\ UNCHANGED << rows, chain, chainLock, job, entries, performed, reply,
                    world >>

ConfirmLate(r) ==
    /\ expires[ActionOf(r)] <= now
    /\ TakeRow(r, "expired", "audit expired")

Confirm(r) ==
    /\ expires[ActionOf(r)] > now
    /\ TakeRow(r, "confirmed", "audit confirmed")

AuditExpired(r) ==
    /\ pc[r] = "audit expired"
    /\ AuditWrite(r, "action_expired", AfterRaise(r))

AuditConfirmed(r) ==
    /\ pc[r] = "audit confirmed"
    /\ AuditWrite(r, "action_confirmed", "decrypt")

-----------------------------------------------------------------------------
(* Confirm, phase B: decrypt, look for a duplicate, dispatch, record. *)

\* Mutant: phase A ends the transaction that holds the row lock.
DecryptUnlocking(r) ==
    /\ pc[r] = "decrypt"
    /\ rowLock' = [rowLock EXCEPT ![ActionOf(r)] = NoRequest]
    /\ Goto(r, IF job[r].channel = "web" THEN "find duplicate" ELSE "dispatch")
    /\ UNCHANGED << rows, chain, chainLock, job, write, entries, performed,
                    reply, world >>

\* Telegram has no find_executed_with_key.
Decrypt(r) ==
    /\ pc[r] = "decrypt"
    /\ Goto(r, IF job[r].channel = "web" THEN "find duplicate" ELSE "dispatch")
    /\ UNCHANGED << rows, chain, locks, job, write, entries, performed, reply,
                    world >>

\* mark_failed
MarkFailed(r, position) ==
    /\ Buffer(r, "failed")
    /\ Goto(r, position)
    /\ UNCHANGED << rows, chain, locks, job, entries, reply >>

DecryptFails(r) ==
    /\ pc[r] = "decrypt"
    /\ MarkFailed(r, "audit raised")
    /\ UNCHANGED << performed, world >>

SameKey(a, b) == a # b /\ OwnerOf[a] = OwnerOf[b] /\ KeyOf[a] = KeyOf[b]

ExecutedTwin(r) ==
    \E a \in Actions : SameKey(a, ActionOf(r)) /\ status[a] = "executed"

\* Mutant: the duplicate is looked for and not acted upon.
FindDuplicateIgnored(r) ==
    /\ pc[r] = "find duplicate"
    /\ Goto(r, "dispatch")
    /\ UNCHANGED << rows, chain, locks, job, write, entries, reply,
                    performed, world >>

FindDuplicate(r) ==
    /\ pc[r] = "find duplicate"
    /\ \/ /\ ~ExecutedTwin(r)
          /\ Goto(r, "dispatch")
          /\ UNCHANGED << rows, chain, locks, job, write, entries, reply >>
       \/ /\ ExecutedTwin(r)
          /\ MarkFailed(r, "audit duplicate")
    /\ UNCHANGED << performed, world >>

DispatchUnknown(r) ==
    /\ pc[r] = "dispatch"
    /\ MarkFailed(r, "audit raised")
    /\ UNCHANGED << performed, world >>

\* The provider call; did is FALSE when the provider refused it.
Perform(r, did) ==
    /\ performed' = [performed EXCEPT ![r] = did]
    /\ effects' = IF did
                  THEN [effects EXCEPT ![ActionOf(r)] = @ + 1]
                  ELSE effects
    /\ UNCHANGED << lost, now, faults >>

\* The tool raises: before the provider acted, or after (an answer timeout).
DispatchRaises(r) ==
    /\ pc[r] = "dispatch"
    /\ \E did \in BOOLEAN : Perform(r, did)
    /\ MarkFailed(r, "audit failed")

\* The tool returns a dict: a result, or {"error": ...} with nothing done.
DispatchReturns(r) ==
    /\ pc[r] = "dispatch"
    /\ \E did \in BOOLEAN : Perform(r, did)
    /\ Goto(r, "mark executed")
    /\ UNCHANGED << rows, chain, locks, job, write, entries, reply >>

\* The partial unique index makes the UPDATE wait for a concurrent twin ...
MarkExecuted(r) ==
    /\ pc[r] = "mark executed"
    /\ ~ExecutedTwin(r)
    /\ \A q \in Requests : write[q] = "executed" =>
           ~SameKey(ActionOf(q), ActionOf(r))
    /\ Buffer(r, "executed")
    /\ Goto(r, "audit invoked")
    /\ UNCHANGED << rows, chain, locks, job, entries, performed, reply, world >>

AuditRaised(r) ==
    /\ pc[r] = "audit raised"
    /\ AuditWrite(r, "capability_failed", AfterRaise(r))

AuditFailed(r) ==
    /\ pc[r] = "audit failed"
    /\ AuditWrite(r, "capability_failed", "commit")

AuditDuplicate(r) ==
    /\ pc[r] = "audit duplicate"
    /\ AuditWrite(r, "capability_duplicate_replay", "commit")

AuditInvoked(r) ==
    /\ pc[r] = "audit invoked"
    /\ AuditWrite(r, "capability_invoked", "commit")

-----------------------------------------------------------------------------
(* Cancel: svc.cancel reads without a lock and writes in a later statement. *)

CancelReject(r) == pc[r] = "read" /\ ~Owned(r) /\ Reject(r)

CancelRead(r) ==
    /\ pc[r] = "read"
    /\ Owned(r)
    /\ Goto(r, IF status[ActionOf(r)] \in {"pending", "confirmed"}
               THEN "write cancelled" ELSE "audit cancelled")
    /\ UNCHANGED << rows, chain, locks, job, write, entries, performed, reply,
                    world >>

\* UPDATE ... WHERE id: waits for the row lock, does not look at status.
CancelWrite(r) ==
    /\ pc[r] = "write cancelled"
    /\ rowLock[ActionOf(r)] = NoRequest
    /\ rowLock' = [rowLock EXCEPT ![ActionOf(r)] = r]
    /\ Buffer(r, "cancelled")
    /\ Goto(r, "audit cancelled")
    /\ UNCHANGED << rows, chain, chainLock, job, entries, performed, reply,
                    world >>

AuditCancelled(r) ==
    /\ pc[r] = "audit cancelled"
    /\ AuditWrite(r, "action_cancelled", "commit")

-----------------------------------------------------------------------------
(* The end of the transaction. *)

\* Mutant: the audit rows go to a session that is never committed.
CommitWithoutTrail(r) ==
    /\ pc[r] = "commit"
    /\ status' = IF write[r] = "none" THEN status
                 ELSE [status EXCEPT ![ActionOf(r)] = write[r]]
    /\ reply' = [reply EXCEPT ![r] = Answer(r)]
    /\ Release(r)
    /\ UNCHANGED << proposal, expires, chain, job, world >>

Commit(r) ==
    /\ pc[r] = "commit"
    /\ status' = IF write[r] = "none" THEN status
                 ELSE [status EXCEPT ![ActionOf(r)] = write[r]]
    /\ chain' = [chain EXCEPT ![TenantOf(r)] = @ \o entries[r]]
    /\ reply' = [reply EXCEPT ![r] = Answer(r)]
    /\ Release(r)
    /\ UNCHANGED << proposal, expires, job, world >>

\* From fastapi 0.118 on, which pyproject.toml allows, a web response leaves
\* before get_session resumes and commits.
AnswerFirst(r) ==
    /\ pc[r] = "commit"
    /\ job[r].channel = "web"
    /\ reply[r] = "none"
    /\ reply' = [reply EXCEPT ![r] = Answer(r)]
    /\ UNCHANGED << rows, chain, locks, job, pc, write, entries, performed,
                    world >>

\* Mutant: the audit rows are written by a session of their own.
UndoKeepingTrail(r, answer) ==
    /\ chain' = [chain EXCEPT ![TenantOf(r)] = @ \o entries[r]]
    /\ reply' = [reply EXCEPT ![r] = IF @ = "none" THEN answer ELSE @]
    /\ lost' = IF performed[r]
               THEN [lost EXCEPT ![ActionOf(r)] = @ + 1] ELSE lost
    /\ Release(r)
    /\ UNCHANGED << rows, job, effects, now >>

Undo(r, answer) ==
    /\ reply' = [reply EXCEPT ![r] = IF @ = "none" THEN answer ELSE @]
    /\ lost' = IF performed[r]
               THEN [lost EXCEPT ![ActionOf(r)] = @ + 1] ELSE lost
    /\ Release(r)
    /\ UNCHANGED << rows, chain, job, effects, now >>

\* The handler raised HTTPException: get_session rolls back what it wrote.
Rollback(r) ==
    /\ pc[r] = "rollback"
    /\ Undo(r, Answer(r))
    /\ UNCHANGED faults

\* ... and raises IntegrityError when the twin is there.
MarkConflict(r) ==
    /\ pc[r] = "mark executed"
    /\ ExecutedTwin(r)
    /\ Undo(r, "error")
    /\ UNCHANGED faults

\* Any statement raises, the connection drops, the process dies or the commit
\* fails: Postgres discards the transaction.
Fault(r) ==
    /\ pc[r] \in Running
    /\ faults < MaxFaults
    /\ faults' = faults + 1
    /\ Undo(r, "error")

-----------------------------------------------------------------------------
ConfirmStep(r) ==
    \/ ConfirmReject(r) \/ ConfirmLate(r) \/ Confirm(r)
    \/ AuditExpired(r) \/ AuditConfirmed(r)
    \/ Decrypt(r) \/ DecryptFails(r) \/ FindDuplicate(r)
    \/ DispatchUnknown(r) \/ DispatchRaises(r) \/ DispatchReturns(r)
    \/ MarkExecuted(r) \/ MarkConflict(r)
    \/ AuditRaised(r) \/ AuditFailed(r) \/ AuditDuplicate(r) \/ AuditInvoked(r)

CancelStep(r) ==
    \/ CancelReject(r) \/ CancelRead(r) \/ CancelWrite(r) \/ AuditCancelled(r)

EndStep(r) == Commit(r) \/ AnswerFirst(r) \/ Rollback(r)

\* What the handler does by itself once the request is in.
Handle(r) == ConfirmStep(r) \/ CancelStep(r) \/ EndStep(r)

Environment ==
    \/ \E a \in Actions : Propose(a) \/ CommitProposal(a) \/ DropProposal(a)
    \/ SweepExpired
    \/ Tick

Terminating ==
    /\ \A r \in Requests : pc[r] = "done"
    /\ UNCHANGED vars

Next ==
    \/ Environment
    \/ \E r \in Requests : Receive(r) \/ Handle(r) \/ Fault(r)
    \/ Terminating

Spec == Init /\ [][Next]_vars

\* A handler runs until it returns; nothing in the code gives up on its own.
FairSpec == Spec /\ \A r \in Requests : WF_vars(Handle(r))

-----------------------------------------------------------------------------
(* Properties *)

\* Every variable has its type.
TypeOK ==
    /\ proposal \in [Actions -> {"none", "staged", "stored", "dropped"}]
    /\ status \in [Actions -> Statuses]
    /\ expires \in [Actions -> Nat]
    /\ chain \in [Tenants -> Seq(Entries)]
    /\ rowLock \in [Actions -> Requests \cup {NoRequest}]
    /\ chainLock \in [Tenants -> Requests \cup {NoRequest}]
    /\ job \in [Requests -> Jobs]
    /\ pc \in [Requests -> Positions]
    /\ write \in [Requests -> {"none", "confirmed"} \cup Settled]
    /\ entries \in [Requests -> Seq(Entries)]
    /\ performed \in [Requests -> BOOLEAN]
    /\ reply \in [Requests -> Answers]
    /\ effects \in [Actions -> Nat]
    /\ lost \in [Actions -> Nat]
    /\ now \in Nat
    /\ faults \in Nat

\* Two clicks on the same card never run it side by side, whichever channels
\* they come from: the FOR UPDATE lock of PendingActionService.confirm is held
\* until the transaction ends.
SingleFlight ==
    \A q, r \in Requests :
        /\ q # r
        /\ ActionOf(q) = ActionOf(r)
        => ~(pc[q] \in Owning /\ pc[r] \in Owning)

\* The provider is only called for an action that is still open: never for one
\* whose cancellation, expiry, failure or execution is committed, however long
\* the call takes to come.
SettledNeverRuns ==
    [][\A a \in Actions :
          effects'[a] # effects[a] => status[a] = "pending"]_vars

\* An action runs at most once more than the runs that a crash or a failed
\* commit made the database forget: retries add nothing else.
EffectsAccounted == \A a \in Actions : effects[a] <= 1 + lost[a]

\* A settled action stays settled; all that can still happen to it is to be
\* relabelled as cancelled.  No rollback makes it confirmable again.
SettledStays ==
    [][\A a \in Actions :
          status[a] \in Settled => status'[a] \in {status[a], "cancelled"}]_vars

\* The status "confirmed" is never visible outside its own transaction, so
\* neither a crash nor an error strands an action between click and outcome.
ConfirmedNeverStored == \A a \in Actions : status[a] # "confirmed"

Trail(a) == {chain[OwnerOf[a]][i].event : i \in
               {j \in DOMAIN chain[OwnerOf[a]] :
                   chain[OwnerOf[a]][j].action = a}}

\* The row and the audit chain tell the same story about every action at every
\* moment: the chain has the outcome the row has, and no outcome, and no
\* confirmation, of an action that is still open.
TrailMatchesStatus ==
    \A a \in Actions :
        /\ status[a] \in {"absent", "pending"} => Trail(a) = {}
        /\ status[a] = "executed" => "capability_invoked" \in Trail(a)
        /\ status[a] = "failed" =>
              Trail(a) \cap {"capability_failed",
                             "capability_duplicate_replay"} # {}
        /\ status[a] = "cancelled" => "action_cancelled" \in Trail(a)
        /\ "capability_invoked" \in Trail(a) =>
              status[a] \in {"executed", "cancelled"}

\* Every audit row names its predecessor as prev_hash, whatever the
\* interleaving of the tenant's requests: no fork, no gap.
ChainLinked ==
    \A t \in Tenants : \A i \in DOMAIN chain[t] : chain[t][i].prev = i - 1

Recorded(r) ==
    \E i \in DOMAIN chain[TenantOf(r)] :
        /\ chain[TenantOf(r)][i].by = r
        /\ chain[TenantOf(r)][i].event = reply[r]

\* Whatever outcome a Telegram user is told is in the audit chain, expiry and
\* failure included: the callback commits before it answers.
TelegramAnswerRecorded ==
    \A r \in Requests :
        job[r].channel = "telegram" /\ reply[r] \in Events => Recorded(r)

\* On the web, an action never runs when one with the same idempotency key is
\* executed: the duplicate check is not a race, because the advisory lock taken
\* by the audit row before it is held until the first execution is committed.
WebReplays ==
    [][\A r \in Requests :
          /\ job[r].channel = "web"
          /\ ~performed[r] /\ performed'[r]
          => ~ExecutedTwin(r)]_vars

\* A tenant runs one action at a time: from the confirmation's audit row to the
\* commit, across the provider call, the advisory lock shuts the others out.
TenantSerialised ==
    \A q, r \in Requests :
        /\ q # r
        /\ TenantOf(q) = TenantOf(r)
        => ~(pc[q] \in Dispatching /\ pc[r] \in Dispatching)

\* Every request that came in ends: the row lock and the advisory lock are
\* always taken in the same order, so no two handlers wait for each other.
RequestsFinish ==
    \A r \in Requests : pc[r] \in Running ~> pc[r] = "done"

Gate == INSTANCE ActionGate
            WITH Actions <- Actions, Requests <- Requests, Tenants <- Tenants,
                 OwnerOf <- OwnerOf, status <- status, chain <- chain,
                 effects <- effects

\* Requests, locks and rollbacks are invisible: what the database and the
\* provider go through is a behaviour of the gate.
GateSpec == Gate!Spec

=============================================================================
