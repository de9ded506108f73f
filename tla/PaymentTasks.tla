---------------------------- MODULE PaymentTasks ----------------------------
(***************************************************************************)
(* A payment action of Tigeri V1 that needs an approval, from the message  *)
(* to the gateway.  One message of a client may be delivered several       *)
(* times; each delivery that route() lets through is a Celery task.  The   *)
(* task asks the approver and ends; the decision waits in Redis under the  *)
(* task's id until the task runs again.                                    *)
(***************************************************************************)
EXTENDS Naturals, FiniteSets

CONSTANTS
    Tasks,          \* the deliveries of the message, one task each
    MaxRetries,     \* max_retries of run_agent_task
    MaxFaults,      \* bound on killed workers and on exceptions
    MaxLapses,      \* bound on the 90 seconds of the message's lock passing
    MaxClicks       \* bound on the approver's decisions

ASSUME BoundsAssumption ==
    /\ MaxRetries \in Nat /\ MaxFaults \in Nat
    /\ MaxLapses \in Nat /\ MaxClicks \in Nat

VARIABLES
    \* the orchestrator
    router,     \* where route() is with each delivery
    dedup,      \* the key dedup:<client>:<agent>:<hash>, "set" or "none"
    \* the workers
    pc,         \* where the task is
    left,       \* retries it has left
    verdict,    \* the decision it has read
    reply,      \* what it has answered
    lock,       \* lock:agent:<client>:<intent>:<hash>, "held" or "free"
    \* the approval
    pending,    \* tasks with an approval:pending key
    result,     \* approval:result of each task
    asked,      \* tasks whose approver was notified
    mail,       \* where the handler of the approver's link is
    \* history
    granted,    \* approvals given
    spent,      \* times the gateway acted
    killed,     \* tasks that lost a worker, or failed to give the lock back
    lapses, faults, clicks

routeVars == << router, dedup >>
workerVars == << pc, left, verdict, reply, lock >>
redisVars == << pending, result >>
approverVars == << asked, mail >>
bounds == << killed, lapses, faults, clicks >>
vars == << router, dedup, pc, left, verdict, reply, lock, pending, result,
           asked, mail, granted, spent, killed, lapses, faults, clicks >>

Ledger == INSTANCE ApprovalLedger WITH Tasks <- Tasks,
                                       granted <- granted, spent <- spent

Verdicts == {"approved", "rejected"}
Working == {"planning", "reading", "taking", "acting", "requesting",
            "notifying", "unlocking"}
Positions == {"none", "queued", "returning", "ended"} \cup Working
Replies == {"none", "duplicate", "answered"}
Inside == {t \in Tasks : pc[t] \in Working}

Init ==
    /\ router = [t \in Tasks |-> "new"] /\ dedup = "none"
    /\ pc = [t \in Tasks |-> "none"]
    /\ left = [t \in Tasks |-> MaxRetries]
    /\ verdict = [t \in Tasks |-> "none"]
    /\ reply = [t \in Tasks |-> "none"]
    /\ lock = "free"
    /\ pending = {} /\ result = [t \in Tasks |-> "none"]
    /\ asked = {}
    /\ mail = [t \in Tasks |-> "idle"]
    /\ granted = [t \in Tasks |-> 0] /\ spent = [t \in Tasks |-> 0]
    /\ killed = {} /\ lapses = 0 /\ faults = 0 /\ clicks = 0

-----------------------------------------------------------------------------
(* route() *)

\* The message was dispatched in the last five minutes: no second task.
Deduplicate(t) ==
    /\ router[t] = "new"
    /\ router' = [router EXCEPT ![t] = IF dedup = "none" THEN "dispatching"
                                                         ELSE "deduplicated"]
    /\ UNCHANGED << dedup, workerVars, redisVars, approverVars, granted, spent,
                    bounds >>

\* apply_async, then the task's id is kept for five minutes.
Dispatch(t) ==
    /\ router[t] = "dispatching"
    /\ router' = [router EXCEPT ![t] = "dispatched"]
    /\ pc' = [pc EXCEPT ![t] = "queued"]
    /\ dedup' = "set"
    /\ UNCHANGED << left, verdict, reply, lock, redisVars, approverVars, granted,
                    spent, bounds >>

ForgetDispatch ==
    /\ dedup = "set"
    /\ dedup' = "none"
    /\ UNCHANGED << router, workerVars, redisVars, approverVars, granted, spent,
                    bounds >>

-----------------------------------------------------------------------------
(* run_agent_task *)

Goto(t, position) == pc' = [pc EXCEPT ![t] = position]

\* Of the answers, only that of a duplicate is told from the others.
Answer(t, answer) ==
    reply' = [reply EXCEPT ![t] = IF answer = "duplicate" THEN answer
                                                          ELSE "answered"]

\* Mutant: SET without NX.
AcquireAnyway(t) ==
    /\ pc[t] = "queued"
    /\ lock' = "held"
    /\ Goto(t, "planning")
    /\ UNCHANGED << routeVars, left, verdict, reply, redisVars, approverVars,
                    granted, spent, bounds >>

\* SET lock NX EX 90
Acquire(t) ==
    /\ pc[t] = "queued" /\ lock = "free"
    /\ lock' = "held"
    /\ Goto(t, "planning")
    /\ UNCHANGED << routeVars, left, verdict, reply, redisVars, approverVars,
                    granted, spent, bounds >>

\* Mutant: the task is put back until the lock is free.
DuplicateWaiting(t) ==
    /\ pc[t] = "queued" /\ lock = "held"
    /\ UNCHANGED vars

\* "Already processing this request.", also to a task redelivered after its
\* worker was killed, while the dead worker's lock lives.
Duplicate(t) ==
    /\ pc[t] = "queued" /\ lock = "held"
    /\ Goto(t, "ended")
    /\ Answer(t, "duplicate")
    /\ UNCHANGED << routeVars, left, verdict, lock, redisVars, approverVars,
                    granted, spent, bounds >>

\* The message is parsed; an action that needs an approval looks for one
\* (_redis_has_pending), anything else is answered.
Look(t) ==
    /\ pc[t] = "planning"
    /\ \/ /\ Goto(t, IF t \in pending \/ result[t] # "none" THEN "reading"
                                                            ELSE "requesting")
          /\ UNCHANGED reply
       \/ Goto(t, "unlocking") /\ Answer(t, "error")
    /\ UNCHANGED << routeVars, left, verdict, lock, redisVars, approverVars,
                    granted, spent, bounds >>

\* check_approval_status, up to the GET.  Neither key is there any more, or
\* Redis fails: the approver is asked again.
Read(t) ==
    /\ pc[t] = "reading"
    /\ \/ /\ result[t] # "none"
          /\ verdict' = [verdict EXCEPT ![t] = result[t]]
          /\ Goto(t, "taking")
          /\ UNCHANGED reply
       \/ /\ result[t] = "none" /\ t \in pending
          /\ Goto(t, "unlocking")
          /\ Answer(t, "waiting")
          /\ UNCHANGED verdict
       \/ Goto(t, "requesting") /\ UNCHANGED << verdict, reply >>
    /\ UNCHANGED << routeVars, left, lock, redisVars, approverVars, granted,
                    spent, bounds >>

\* Mutant: the decision stays until the action is done.
TakeLater(t) ==
    /\ pc[t] = "taking"
    /\ verdict' = [verdict EXCEPT ![t] = "none"]
    /\ \/ verdict[t] = "approved" /\ Goto(t, "acting") /\ UNCHANGED reply
       \/ /\ verdict[t] = "rejected"
          /\ Goto(t, "unlocking")
          /\ Answer(t, "rejected")
    /\ UNCHANGED << routeVars, left, lock, redisVars, approverVars,
                    granted, spent, bounds >>

\* The DELETE, before anything is done.
Take(t) ==
    /\ pc[t] = "taking"
    /\ verdict' = [verdict EXCEPT ![t] = "none"]
    /\ result' = [result EXCEPT ![t] = "none"]
    /\ \/ verdict[t] = "approved" /\ Goto(t, "acting") /\ UNCHANGED reply
       \/ /\ verdict[t] = "rejected"
          /\ Goto(t, "unlocking")
          /\ Answer(t, "rejected")
    /\ UNCHANGED << routeVars, left, lock, pending, approverVars,
                    granted, spent, bounds >>

\* The DELETE raises, done or not, or what it deleted is no decision: "error",
\* after which the request is sent again.
TakeFails(t) ==
    /\ pc[t] = "taking"
    /\ verdict' = [verdict EXCEPT ![t] = "none"]
    /\ \/ result' = [result EXCEPT ![t] = "none"]
       \/ UNCHANGED result
    /\ Goto(t, "requesting")
    /\ UNCHANGED << routeVars, left, reply, lock, pending, approverVars,
                    granted, spent, bounds >>

\* The gateway acts; its answer may be lost.
Act(t) ==
    /\ pc[t] = "acting"
    /\ spent' = [spent EXCEPT ![t] = @ + 1]
    /\ Goto(t, "unlocking")
    /\ \/ Answer(t, "executed")
       \/ Answer(t, "error")
    /\ UNCHANGED << routeVars, left, verdict, lock, redisVars, approverVars,
                    granted, bounds >>

\* The gateway refuses, or the breaker is open: the decision is gone.
ActRefused(t) ==
    /\ pc[t] = "acting"
    /\ Goto(t, "unlocking")
    /\ Answer(t, "error")
    /\ UNCHANGED << routeVars, left, verdict, lock, redisVars, approverVars,
                    granted, spent, bounds >>

\* send_approval_request: SETEX first, then the approver is notified.
Request(t) ==
    /\ pc[t] = "requesting"
    /\ \/ /\ pending' = pending \cup {t}
          /\ Goto(t, "notifying")
          /\ UNCHANGED reply
       \/ Goto(t, "unlocking") /\ Answer(t, "error") /\ UNCHANGED pending
    /\ UNCHANGED << routeVars, left, verdict, lock, result, approverVars,
                    granted, spent, bounds >>

Notify(t) ==
    /\ pc[t] = "notifying"
    /\ Goto(t, "unlocking")
    /\ \/ asked' = asked \cup {t} /\ Answer(t, "requested")
       \/ UNCHANGED asked /\ Answer(t, "error")
    /\ UNCHANGED << routeVars, left, verdict, lock, redisVars, mail,
                    granted, spent, bounds >>

\* The finally clause deletes the lock, whoever holds it.
Unlock(t) ==
    /\ pc[t] = "unlocking"
    /\ lock' = "free"
    /\ Goto(t, "returning")
    /\ UNCHANGED << routeVars, left, verdict, reply, redisVars, approverVars,
                    granted, spent, bounds >>

\* Only now the message is acknowledged to the broker.
Return(t) ==
    /\ pc[t] = "returning"
    /\ Goto(t, "ended")
    /\ UNCHANGED << routeVars, left, verdict, reply, lock, redisVars,
                    approverVars, granted, spent, bounds >>

\* self.retry, or the dead letter queue.
Retry(t) ==
    \/ /\ left[t] > 0
       /\ left' = [left EXCEPT ![t] = @ - 1]
       /\ Goto(t, "queued")
       /\ UNCHANGED reply
    \/ /\ left[t] = 0
       /\ Goto(t, "ended")
       /\ Answer(t, "dead_letter")
       /\ UNCHANGED left

\* Mutant: the lock outlives a task that failed.
FailKeepingLock(t) ==
    /\ pc[t] = "planning"
    /\ faults < MaxFaults /\ faults' = faults + 1
    /\ Retry(t)
    /\ UNCHANGED << routeVars, verdict, lock, redisVars, approverVars, granted,
                    spent, killed, lapses, clicks >>

\* The agent cannot be built, or its authorization raises.
Fail(t) ==
    /\ pc[t] = "planning"
    /\ faults < MaxFaults /\ faults' = faults + 1
    /\ Retry(t)
    /\ lock' = "free"
    /\ UNCHANGED << routeVars, verdict, redisVars, approverVars, granted, spent,
                    killed, lapses, clicks >>

\* The DELETE of the lock raises: what was done is retried.
FailUnlocking(t) ==
    /\ pc[t] = "unlocking"
    /\ faults < MaxFaults /\ faults' = faults + 1
    /\ Retry(t)
    /\ killed' = killed \cup {t}
    /\ UNCHANGED << routeVars, verdict, lock, redisVars, approverVars, granted,
                    spent, lapses, clicks >>

\* The worker is killed: Celery delivers the task again (acks_late,
\* reject_on_worker_lost).
Die(t) ==
    /\ pc[t] \in Working \cup {"returning"}
    /\ faults < MaxFaults /\ faults' = faults + 1
    /\ Goto(t, "queued")
    /\ verdict' = [verdict EXCEPT ![t] = "none"]
    /\ killed' = killed \cup {t}
    /\ UNCHANGED << routeVars, left, reply, lock, redisVars,
                    approverVars, granted, spent, lapses, clicks >>

LapseLock ==
    /\ lock = "held" /\ lapses < MaxLapses
    /\ lapses' = lapses + 1
    /\ lock' = "free"
    /\ UNCHANGED << routeVars, pc, left, verdict, reply, redisVars, approverVars,
                    granted, spent, killed, faults, clicks >>

-----------------------------------------------------------------------------
(* The approver *)

Decide(t, v) ==
    /\ result' = [result EXCEPT ![t] = v]
    /\ granted' = [granted EXCEPT ![t] = IF v = "approved" THEN @ + 1 ELSE @]
    /\ clicks < MaxClicks /\ clicks' = clicks + 1

\* handle_email_approval: neither decided nor expired.
OpenLink(t) ==
    /\ mail[t] = "idle" /\ t \in asked /\ clicks < MaxClicks
    /\ result[t] = "none" /\ t \in pending
    /\ mail' = [mail EXCEPT ![t] = "open"]
    /\ UNCHANGED << routeVars, workerVars, redisVars, asked, granted,
                    spent, bounds >>

DecideByMail(t) ==
    /\ mail[t] = "open"
    /\ mail' = [mail EXCEPT ![t] = "closing"]
    /\ \E v \in Verdicts : Decide(t, v)
    /\ UNCHANGED << routeVars, workerVars, pending, asked, spent, killed,
                    lapses, faults >>

CloseLink(t) ==
    /\ mail[t] = "closing"
    /\ mail' = [mail EXCEPT ![t] = "idle"]
    /\ pending' = pending \ {t}
    /\ UNCHANGED << routeVars, workerVars, result, asked, granted, spent,
                    bounds >>

\* telegram_callback_handler: no check at all, and both keys at a stroke.
DecideInChat(t) ==
    /\ t \in asked
    /\ pending' = pending \ {t}
    /\ \E v \in Verdicts : Decide(t, v)
    /\ UNCHANGED << routeVars, workerVars, asked, mail, spent, killed, lapses,
                    faults >>

\* Five minutes pass.
LapsePending(t) ==
    /\ t \in pending
    /\ pending' = pending \ {t}
    /\ UNCHANGED << routeVars, workerVars, result, approverVars, granted, spent,
                    bounds >>

LapseResult(t) ==
    /\ result[t] # "none"
    /\ result' = [result EXCEPT ![t] = "none"]
    /\ UNCHANGED << routeVars, workerVars, pending, approverVars, granted, spent,
                    bounds >>

-----------------------------------------------------------------------------
Route(t) == Deduplicate(t) \/ Dispatch(t)

Run(t) ==
    \/ Acquire(t) \/ Duplicate(t) \/ Look(t) \/ Read(t)
    \/ Take(t) \/ TakeFails(t) \/ Act(t) \/ ActRefused(t) \/ Request(t)
    \/ Notify(t) \/ Unlock(t) \/ Return(t)

Handle(t) == DecideByMail(t) \/ CloseLink(t)

Next ==
    \/ \E t \in Tasks :
          \/ Route(t) \/ Run(t) \/ Handle(t)
          \/ Fail(t) \/ FailUnlocking(t) \/ Die(t)
          \/ OpenLink(t) \/ DecideInChat(t)
          \/ LapsePending(t) \/ LapseResult(t)
    \/ ForgetDispatch \/ LapseLock

Spec == Init /\ [][Next]_vars

\* A worker goes on with a task it has, and takes the next one of the queue;
\* a request handler runs to its end.
FairSpec ==
    /\ Spec
    /\ \A t \in Tasks : WF_vars(Route(t)) /\ WF_vars(Run(t)) /\ WF_vars(Handle(t))

-----------------------------------------------------------------------------
(* Properties *)

\* Every variable has its type.
TypeOK ==
    /\ router \in [Tasks -> {"new", "deduplicated", "dispatching", "dispatched"}]
    /\ dedup \in {"set", "none"}
    /\ pc \in [Tasks -> Positions]
    /\ left \in [Tasks -> 0..MaxRetries]
    /\ verdict \in [Tasks -> Verdicts \cup {"none"}]
    /\ reply \in [Tasks -> Replies]
    /\ lock \in {"free", "held"}
    /\ pending \in SUBSET Tasks
    /\ result \in [Tasks -> Verdicts \cup {"none"}]
    /\ asked \in SUBSET Tasks
    /\ mail \in [Tasks -> {"idle", "open", "closing"}]
    /\ granted \in [Tasks -> Nat]
    /\ spent \in [Tasks -> Nat]
    /\ killed \in SUBSET Tasks
    /\ lapses \in 0..MaxLapses
    /\ faults \in 0..MaxFaults
    /\ clicks \in 0..MaxClicks

\* The gateway acts at most once for each approval, whatever is retried, killed
\* and delivered again in between.
SpentOncePerApproval == Ledger!Spec

\* Tasks of one message run side by side only as often as the lock lapsed under
\* a task that was still running, although the lock is deleted by whoever ends.
RunsExclude == Cardinality(Inside) <= 1 + lapses

\* A message is not dropped: unless a worker was lost or a lock not given back,
\* "already processing" is only said when a task of the message has been or is
\* being processed.
DuplicateIsProcessed ==
    \A t \in Tasks :
        reply[t] = "duplicate" /\ killed = {} =>
            \E u \in Tasks \ {t} :
                \/ u \in Inside
                \/ left[u] < MaxRetries
                \/ reply[u] = "answered"

\* Every task that was dispatched ends with an answer.
TasksEnd == \A t \in Tasks : pc[t] = "queued" ~> pc[t] = "ended"

-----------------------------------------------------------------------------
(* What the approver is told, and the code does not do. *)

\* webhooks/approval.py: "The action will complete shortly."
ApprovedIsExecuted ==
    \A t \in Tasks : mail[t] = "closing" /\ result[t] = "approved" ~> spent[t] > 0

=============================================================================
