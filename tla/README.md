# Tigeri: TLA+ specifications, model checking and proofs

This directory specifies parts of the two generations of Tigeri found in this
repository: `Tiger V2` (FastAPI, one Postgres transaction per request) and
`Tigeri V1` (Celery workers over Redis and Postgres).  Each module is a
translation of the Python code it names; `PROJECT.json` maps every definition to
its lines.

    tlc -workers 2 -config gate_one_card.cfg MCPendingActions
    tlapm PendingActions_proofs.tla

## 1. The system

### Tiger V2 (`src/Tiger V2/src/tigeri`)

| Component | State | Operations | What makes it correct |
|---|---|---|---|
| Propose/confirm gate: `actions/`, `api/routes/actions.py` | `pending_actions` rows: status, token, key, expiry | propose, confirm, cancel, mark executed/failed, sweep | a confirmed action runs, once, while open; row and audit trail agree |
| Telegram callback: `api/routes/integrations.py` | the same rows; chat-to-tenant link | confirm and cancel buttons, quick starts, `/connect` | the same guarantees as the web route; what the user is told is recorded |
| Audit chain: `audit_chain/` | `audit_logs` rows: hash, predecessor's hash, created_at | write, verify_chain | verification accepts what the writers wrote |
| Orchestrator and chat: `agents/orchestrator`, `api/routes/chat.py` | the turn's uncommitted rows | tool loop, propose branch | no write tool runs inline |
| Chat store and budget: `chat/` | threads, messages, turns, token usage | get-or-create thread, next turn, save, check/record budget | turns are numbered once; the budget binds |
| One-shot codes: `integrations/oauth_state.py`, `telegram_link.py` | nonces and link codes | issue, consume, clean up | one use each; the right tenant is bound |
| Token manager and connectors: `integrations/token_manager.py` | encrypted access and refresh tokens | save, get_access_token, disconnect | the stored refresh token is the provider's current one |
| Activation: `activation/` | in-memory context of a session | start, submit, deploy | states in order, one context per session |
| A2A envelopes: `a2a/signing.py` | bounded replay cache | sign, verify | no nonce accepted twice while the cache remembers it |
| Rate limiter: `core/rate_limit.py` | hits per key | hit, reset, prune | as many hits as the limit in any window, no fewer; Retry-After keeps its word |
| Auth: `auth/` | sessions, users | login, logout, change password, revoke | a revoked or stale session opens nothing |
| Lock users: `agents/booking`, `agents/expense` | confirmed bookings, matched transactions | check-then-insert under an advisory lock | no double booking, no transaction matched twice |

### Tigeri V1 (`src/Tigeri V1/tigerscale-agents`)

| Component | State | Operations | What makes it correct |
|---|---|---|---|
| Circuit breaker: `integrations/resilience.py` | Redis: failure counter, open flag, probe lock, each with a TTL | call, probe | opens after the threshold, one probe before it closes |
| Token manager: `integrations/token_manager.py` | tokens in Redis and Postgres, refresh lock | get, refresh, store, sweep | one refresher at a time, newest token wins |
| Celery tasks: `core/tasks.py` | conversation lock, retry queue, plan steps | run_agent_task, sweeps, accounting retry | one task per conversation; a retry repeats nothing |
| Orchestrator: `core/orchestrator.py` | dedup keys, conversation state | route | one dispatch per message |
| Approvals: `webhooks/approval.py`, `webhooks/telegram.py`, `agents/a04_payment` | pending and result keys | ask, approve, reject, spend | the gateway acts once per approval |
| Invoice, expense and payment agents: `agents/a01_invoice`, `a02_expense`, `a04_payment` | rows of invoices, bills, purchase orders, expenses | create, send, approve, pay, reconcile, capture, reject, delete | row and books part only where somebody is told or a retry is left |
| Connectors: `integrations/quickbooks.py`, `xero.py` | the entries in the client's books | post, authorise, pay | a repeated call repeats as little as possible |

Agents of both versions, connectors, front ends and infrastructure are listed in
`PROJECT.json` with the reason they are not modelled.

### How the parts interact

Everything a V2 request does to the database is one transaction
(`api/deps.get_session`): committed when the handler returns, rolled back when it
raises.  Postgres runs it at READ COMMITTED.  The parts meet in that transaction:
the chat turn stages a pending action, a click confirms it under `SELECT ... FOR
UPDATE`, the audit chain takes a per-tenant advisory lock that lasts to the end
of the transaction, the dispatcher calls the tool (and through it a provider)
while both are held, and the outcome and its audit row are committed together.
The only thing a rollback cannot take back is what the provider did.

V1 has no such transaction: every SQL statement and every Redis command commits at
once, in Celery workers that acknowledge late (`acks_late`), so that a killed
worker's task is delivered again.  Its parts meet in Redis keys with a TTL, each of
which is a lock, a counter or a message to a later task.

### What is hard

Two clicks (web and Telegram) on one card; a cancel racing a confirm; a crash
between the provider's action and the commit; exceptions that roll back the
record of themselves; advisory and row locks taken by the same request; tokens
that the provider has rotated and the transaction then forgets; turns and clears
of one chat; in V1, locks and counters that lapse under their holder, retries of
what was already done, answers that get lost, and workers killed between two
statements.  `PROJECT.json` lists every such hazard at its line with the
properties that cover it.

## 2. Modules

| Module | What it is |
|---|---|
| `PendingActions` | the V2 gate: chat turn, both confirm routes, both cancel routes, sweep, audit writes, transaction end, faults |
| `ActionGate` | what the gate promises, without requests, transactions or locks |
| `AuditChain` | the hash chain: writers, advisory lock, created_at order, verify_chain |
| `TenantIntegrations` | one row of `tenant_integrations` and the one-time codes that lead to it, as transactions |
| `ChatTurns` | one thread: streamed turns, clears, turn numbers, the daily budget |
| `WindowLimit` | what a rate limiter promises: a log that forgets nothing |
| `RateLimiter` | the limiter with eviction, pruning, reset and restart |
| `ReplayCache` | the bounded cache of accepted nonces |
| `RequestGuards` | limiter and cache in one process, on one clock, with its restarts |
| `CircuitBreaker` | V1: three Redis keys with TTLs and the workers that read and write them |
| `TokenRefresh` | V1: one OAuth token, in Postgres and Redis, with its lock and its count of refusals |
| `ApprovalLedger` | what an approval promises: spent once |
| `PaymentTasks` | V1: a payment message from the webhook to the gateway, and the approver |
| `AccountingPlatform` | what QuickBooks and Xero hold, as the connectors change it |
| `Bookkeeping` | V1: documents and their rows, the tasks that post them, the queued retries; extends `AccountingPlatform` |
| `MC*` | instances of each for TLC |
| `*_proofs` | theorems: section 4 |

Compositions: `PendingActions` writes its audit rows under `AuditChain`'s lock (one
step there, opened up in `AuditChain`) and implements `ActionGate`; `RequestGuards`
composes `RateLimiter`, which implements `WindowLimit`, with `ReplayCache`;
`PaymentTasks` implements `ApprovalLedger`; `Bookkeeping` runs on
`AccountingPlatform`.

### PendingActions and the code

A *request* is one transaction of one handler; `pc` is where it is.  `status` and
`chain` are committed state; `write` and `entries` are what a request has flushed
and not committed.  `Commit` makes both visible together, `Undo` (a raised
exception, a lost connection, a crash) drops both.  `rowLock` is the FOR UPDATE
lock, `chainLock` the advisory lock; `Release` frees both at the end of the
transaction, as Postgres does.

| Code | Definition |
|---|---|
| `svc.propose`, the chat turn's commit or rollback | `Propose`, `CommitProposal`, `DropProposal` |
| `svc.confirm` (lock, tenant, status, expiry) | `Locked`, `Owned`, `ConfirmReject`, `ConfirmLate`, `Confirm` |
| `AuditChainWriter.write` | `AuditWrite` (one step: Postgres serialises it under the lock; `AuditChain` opens it up) |
| `raise HTTPException` after the audit row (web), commit (Telegram) | `AfterRaise`, `Rollback` |
| `decrypt_parameters` | `Decrypt`, `DecryptFails` |
| `find_executed_with_key`, web only | `FindDuplicate` |
| `dispatch_capability` | `DispatchUnknown`, `DispatchRaises`, `DispatchReturns`; `Perform` says whether the provider acted |
| `mark_executed` and the partial unique index | `MarkExecuted`, `MarkConflict` |
| `svc.cancel` | `CancelRead` and `CancelWrite`: an unlocked SELECT and an UPDATE by id |
| `sweep_expired` | `SweepExpired` |
| `get_session` | `Commit`, `Undo`, `Fault`; `AnswerFirst` where the framework answers before the commit |

Abstracted: the parameters and the result of a tool, who the actor is beyond the
tenant, wording of answers.  A card's token is the card.  `KeyOf` is a constant:
keys carry a fresh nonce today (`FreshKeys`), rows of the content-hash days that
the docstring of `_idempotency_key` describes may share one (`ContentKeys`).  The
guard "SELECT FOR UPDATE, then reject" is one step: a rejected request changes
nothing and holds the lock for no other statement.

### AuditChain and the code

`Acquire`, `ReadLatest`, `Insert` are the three statements of
`AuditChainWriter.write`; `WriteAgain` lets one transaction write several rows, as
confirm does. A row is its id, its `created_at` and the id of its predecessor:
HMAC-SHA256 becomes an injective function of the row. `CommitRows`, `Abort` and
`ReleaseLock` end the transaction. `Verifies` is `verify_chain`. The names differ
from the gate's so that one module of proofs can extend both. `ahead` is how far a
server's clock is ahead; the service is deployed with two tasks
(`infra/aws/cdk/stacks/app_stack.py`). Clock readings of one server are taken to be
distinct (microseconds, under a lock).

### CircuitBreaker and the code

One worker is one call of `CircuitBreaker.call`; each Redis command is a step, so
between `EXISTS`, `TTL`, `SET NX`, the provider's answer and `INCR`, `SETEX` or
`DELETE` every other worker may act.  `fails`, `failTtl`, `openTtl` and `probeTtl`
are the three keys: a TTL of 0 is an absent key, `Tick` counts them all down.
`RoundsToZero` is the last half second of a TTL, which Redis reports as 0: the only
span, besides the gap between `EXISTS` and `TTL`, in which `_state` answers
half-open.  `Die` is a killed worker, which runs no `finally`.  `health` and
`openAge` are read by properties only.

| Code | Definition |
|---|---|
| `_state` | `ReadOpen`, `ReadTtl` |
| `call`, closed | `CallSucceeds`, `CallRefused`, `CallFails`, `Opens` |
| `_probe_call` | `LockProbe`, `ProbeSucceeds`, `ProbeRefused`, `ProbeFails`, `UnlockProbe` |
| `_on_success`, `_on_failure` | `DeleteAll`; `CountFailure`, `SetOpen` |
| `reset`; the token manager's `_handle_dead_token`, which deletes two of the keys | `Reset`, `ForgetDead` |

Abstracted: what func does, how long it retries (`MaxCall` bounds its duration),
the alert.

### TenantIntegrations and the code

A request is one transaction at READ COMMITTED: a redeemed code (OAuth callback or
Telegram `/connect`), a demo connect, a use of the token, a disconnect.  `alive`,
`row` are committed; `deleting`, `draft` belong to transactions, and a changed row is
locked until its transaction ends (`locker`).

| Code | Definition |
|---|---|
| `oauth_state.consume`, `telegram_link.consume`: select, delete, judge | `ReadCode`, `DeleteCode`, `JudgeCode` |
| `exchange_code` of the providers | `Issue`, `ExchangeCode`, `ExchangeFails` |
| `token_manager.get` and `save`, `remember_chat` | `Select`, `Made`, `SameRow`, `Write` |
| two inserts of one row (unique index), an update of a deleted one | `Clash` |
| `get_access_token` and the providers' refresh | `Refresh`, `RefreshFails` |
| `save` after a refresh: it selects the row again, which the session's identity map answers with the object it has while the id is the same | `Reread`, `Refreshed` |
| `disconnect` | `Select`, `Write`, `DeleteNothing` |
| `get_session`, lost connections | `Commit`, `Rollback`, `Crash`, `Unlock` |

A code is spoilt (`Spoil`) when its lifetime ends or it was issued for another
provider.  Abstracted: what the REST calls return beyond a token.

### ChatTurns and the code

Turns and clears of one user session.  `exit` says when `get_session` commits, before or
after the stream: FastAPI's versions differ, and `pyproject.toml` admits both.

| Code | Definition |
|---|---|
| `get_or_create_thread` | `FindThread`, `InsertThread` |
| `next_turn_index`, `save_user_message`, `save_assistant_message` | `NextTurnIndex`, `SaveUserMessage`, `SaveAssistantMessage` |
| `check_budget`, the tool loop, `record_usage` | `CheckBudget`, `Call`, `Unaccounted` |
| the stream's end, or its exception | `Respond`, `Commit`, `Raise`, `Rollback` |
| a client that goes away: `CancelledError`, and the commit of `get_session` | `Leave` |
| `clear_history` | `SelectThread`, `Wipe`, `DeleteThread`, `CommitClear` |

A round of the model costs one token of the budget.  Abstracted: what is said, which
tools run, feedback rows.

### RateLimiter, ReplayCache and the code

`hit` and `reset` have no `await` and are one step each; between them lies the
password check (`signing`).  Time counts in half seconds, because Retry-After is cut
to whole ones.  An attempt is a record of number and time; `bucket` is what the
process keeps, `log` what `WindowLimit` would.  `Aged` and `Prune` are `_gc`, `Live` the
eviction in `hit`, `RetryAfter` the arithmetic of the answer.  `Verify` and `Remember`
are `verify` and `ReplayCache.add`; an envelope may come late, early or twice, and
`Stamp` holds one whose sender's clock is ahead.  `verify` is called by tests only.

### TokenRefresh and the code

A token is the number of the exchange that issued it.  A worker goes through
`_get_valid_token` one store access at a time: `ReadCache`, `LoadRow`, `Warm`,
`JudgeAnswer` or `LookAgain`, `TakeLock` or `WaitForLock`, `Exchange` (`ExchangeLost`,
`ExchangeFails`, `Refuse`), `StoreRow`, `StoreCache`, `Release`; a refusal is counted
(`Count`, twice, as the code does), and at the threshold the token is declared dead
(`Alert`, `Bury`, `Clear`).  The sweep is `Begin` and `SweepJudge`, without the lock;
`Reconnect` is the user's, and so is the disconnect: `Disconnect` over Redis, `EraseRow`
(`_clear_provider_meta` sets `meta='{}'`, where the tokens are), `MarkDisconnected`, which
the sweep has too and which only writes the flag.  `stored` remembers the newest token
the row has had.  The TTLs are `LapseLock`, `LapseCache`, `LapseCount`, `LapseAlert`; `Age`
and `EndGrant` are the provider's.  `rotates` says
whether an exchange replaces the refresh token: Xero and QuickBooks do, Google and
Microsoft may not.

### PaymentTasks and the code

One message, delivered more than once.  `Deduplicate` and `Dispatch` are `route`;
`Acquire` and `Duplicate` the message's lock in `run_agent_task`; `Look`, `Read`, `Take`,
`Act`, `Request`, `Notify` the payment agent and `check_approval_status`, and `TakeFails`
its outcome "error", after which the approver is asked again; `Unlock`,
`Return`, `Retry`, `Fail` the end of the task.  `Die` is a killed worker, after which
Celery delivers the task again.  `OpenLink`, `DecideByMail`, `CloseLink`, `DecideInChat`
are the approver's two ways.  `granted` and `spent` are what `ApprovalLedger` sees.

### AccountingPlatform, Bookkeeping and the code

A job is a worker: a command of a user (`Ask`) or the retry of a post that failed.
Entries in the books are never deleted; `Posts` says what one call of a connector may
leave there, a failed attempt behind a repeated one included.

| Code | Definition |
|---|---|
| `_action_create`, `_create_bill`, `_create_po`, `_action_capture` | `CreateInvoice`, `CreateBill`, `CreatePurchaseOrder`, `CaptureApproved`, `CapturePending`; `CreateInvoiceLost` is a swallowed INSERT |
| `_post_to_accounting` and its like | `PostOk`, `PostLost`, `Enqueue`, `QueueCreate`, `QueueCapture`, `QueueApprove`, `PostGivenUp` |
| writing status and `external_id` back | `NameInvoice`, `RestateInvoice`, `NameBill`, `SavePurchaseOrder`, `NameExpense`, `RecordCapture`, `RecordApproval`, `LinkApproval`, `NameRetried`, `NameRetriedFails` |
| `_action_send`, `_action_approve`, `_approve_batch`, `_approve_po`, `_mark_po_received` | `SendInvoice`, `Sent`, `ApproveInvoice`, `ApproveInBatch`, `AuthoriseOk`, `AuthoriseFails`, `RecordAuthorised`, `ApprovePurchaseOrder`, `ReceivePurchaseOrder` |
| `_action_mark_paid`, `_action_reconcile`, `_action_track_payment` | `MarkPaid`, `Reconcile`, `TrackPayment`, `PayOk`, `PayRefused`, `PayFails` |
| `_action_approve`, `_action_reject`, `_action_delete`, `_action_edit` of expenses | `ApproveExpense`, `RejectExpense`, `DeleteExpense`, `EditExpense` |
| `retry_accounting_post`, `retry_expense_accounting_post` | `RetryStarts`, `RetryBlocked`, `RetryFails`, `RetryDropped`, `RetryDone`, `NotifyFails`, `Postpone` |

Every statement may fail (`Fault`; `Lose` when the failure is only logged, which leaves
the document in `hurt`).  What becomes of that differs: a failed INSERT is answered as a
duplicate, a failed UPDATE of an approval as an error, and a failed UPDATE of a retry
runs the whole retry again, post included.  The approval of an expense is two UPDATEs in
two transactions, and other jobs run between them.

Of payments the replies are kept that reach the user.  "paid" is `mark_paid` after the
platform took it, "warned" its answer with an `accounting_warning`, "failed" an error of
`reconcile`; "settled" is what `reconcile`, `track_payment` and a `mark_paid` that finds the
row paid answer, whether the platform has taken the payment or not.  `PaymentsAnswered`
therefore claims the books for "paid" only; of a row that is paid here and not there it
claims that a command is at the platform or has been answered, so that a payment the
platform refused does not leave its row paid in silence.

Abstracted: amounts, lines, contacts, currencies, wording.

## 3. Runs

Passing:

| Run | Question | Bounds |
|---|---|---|
| `gate_one_card` | can three clicks, expiry, the sweep and a crash make one card run twice side by side, leave row and chain at odds, or do what `ActionGate` does not? | 1 card, 3 requests of any kind and channel, lifetime 1 of 2 ticks, 1 fault |
| `gate_two_cards` | does a tenant run one card at a time, does the duplicate lookup of the web route hold with equal keys, and does every click end? | 2 cards with one key, 2 requests, a second tenant that owns nothing, 1 fault, no symmetry |
| `chain_one_clock` | does verify_chain accept every interleaving of writers, commits and rollbacks? | 2 writers, 2 tenants, 4 rows, 5 ticks, no skew |
| `tenant_integrations` | can two redemptions, a rollback or a crash leave a link without its code's death, or the row without a live refresh token? | 3 requests of any kind, a tenant connected before or not, 1 code, 3 tokens |
| `chat_turns` | how are concurrent turns numbered, what does a clear leave behind, by how much is the budget passed? | 2 turns, 2 clears, cap 1, 2 rounds a turn |
| `request_guards` | do eviction, pruning, restarts and a flooded cache change an answer? | 2 keys, 2 hits in 3 ticks, 1 bucket kept, 5 hits; 3 envelopes (one stamped ahead), 1 nonce remembered, 5 requests, 6 ticks |
| `breaker_keys` | can the three keys contradict each other, a lock be left behind, or the breaker stay open once nothing fails? | 3 workers, threshold 2, TTLs 2, 3 and 1, calls of 2 ticks, 1 death, no symmetry |
| `token_refresh` | can requests, the sweep and the user lose a token between them, go back to an older one, or bury a healthy one? | 2 requests, the sweep, the user; threshold 3, 2 looks, 3 calls, 3 tokens, 2 refusals, 1 lapse of the lock, 1 other expiry, 1 fault |
| `payment_tasks` | is an approval spent once, a message handled by one task at a time, none dropped? | 2 deliveries, 1 retry, 2 faults, 1 lapse, 1 click |
| `books_in_step` | where may a row and the client's books part, and does anybody know? | 1 document, 2 workers, 3 commands, 1 retry, 1 fault |

Why these are enough:

* Three requests on one card give confirm against confirm against cancel, with one
  left to come after the outcome; a second fault only repeats what the first did,
  because a fault returns the card to a state reachable without it except for
  `effects` and `lost`, which the properties relate.  Interactions between cards go
  through a pair: the tenant's lock, or the shared key.
* The breaker's TTLs keep the order of the code's 120, 300 and 30 seconds, calls
  outlast the probe lock as calls with retries do, and three workers give a slow
  success, a failure and a probe at once.
* In `tenant_integrations` every conflict is between two requests (over the code, the
  row, or the provider's grant); the third uses the token or disconnects in between.
  `Init` has a tenant who connected before, so that three requests reach a refresh
  during which one disconnects and one connects again.
* `chat_turns` has two of each kind because a turn conflicts with a turn (number,
  first thread), a clear with a turn (messages that appear meanwhile) and a clear
  with a clear (rows already gone); a cap of 1 is passed at once.
* In `request_guards` one bucket and one nonce are evicted as soon as there is a second
  of either.
* `token_refresh` has the threshold of the code, 3: 2 refusals counted twice reach it.
  Two requests contend for the lock, the sweep goes round it, and with 3 generations a
  late worker can be two behind.
* `payment_tasks`: two deliveries are what Celery's redelivery and a repeated webhook
  give; with 2 faults both may be killed.
* `books_in_step`: commands on one document are what conflicts, and the second worker
  runs the queued retry; three commands reach create, approve or send, and pay.

`CHECK_DEADLOCK FALSE` stands where the number of commands or requests is bounded:
when the last is over, nothing is left to do.  In the gate, the chain and the
breaker somebody can always act, and deadlock is checked.

Two runs state what a text of the repository says and show what the code does
instead:

| Run | The text | What happens |
|---|---|---|
| `receipt_posted_twice` | the key of an expense exists so that a receipt sent twice is deduplicated (`a02_expense/agent.py:240`) | the second is posted to the books before its INSERT finds the first (`:635`) |
| `approved_never_runs` | "The action will complete shortly." (`webhooks/approval.py:126`) | nothing queues the task again: the action never runs |

### Read in the code, without a run

Each of these is behaviour the modules contain, and the reason why a property is no
stronger than it is.

Tiger V2:

* A cancel that read the row before a confirm committed relabels `executed` as
  `cancelled` (`service.py:154`; `models.py:12` says executed ends the success path).
  `ActionGate` has this step as `CancelLate`.
* The web route's HTTPException rolls back the audit row of an expiry, a decrypt
  failure or an unknown capability (`routes/actions.py:88`; `:10` says that success and
  failure both surface).  Hence `TelegramAnswerRecorded` speaks of Telegram.
* A crash between the provider's action and the commit lets the next click execute
  again (`routes/actions.py:193`; `models.py:16`).  `EffectsAccounted` counts it.
* A payload `{"error": ...}` of a tool is recorded as executed
  (`routes/actions.py:193`; `orchestrator/agent.py:481` calls it a failure).
* The Telegram path looks no duplicate up (`service.py:179`).  Keys carry a nonce today,
  so only rows of the content-hash days are concerned.
* With the clocks of two servers (`app_stack.py:31` deploys two) the order of
  `created_at` is not the order of writing, and `verify_chain` refuses a sound chain
  (`writer.py:148`).  `AuditChain` has `MaxSkew` for this; only 0 is run and proved.
* Of two callbacks with one nonce both may link, though `oauth_state.py:84` speaks of
  deleting atomically; the same for `/connect` (`telegram_link.py:8`).  `/connect` answers
  "Linked" after a rollback too (`routes/integrations.py:1218`).
* A rollback after the provider has rotated leaves a refresh token it no longer takes
  (`token_manager.py:115`); `RefreshTokenKept` says when that cannot be.
* `save` looks again for the row after the refresh (`token_manager.py:55`): a disconnect
  in between is undone by the insert of a new row, and of a row connected anew
  meanwhile the tokens are overwritten and the metadata (organisation, mode) taken
  back to what it was before.
* A demo connect followed by a real one leaves the mode `sandbox` in the row's meta
  (`token_manager.py:72` merges), so the real ledger is not called (`gl.py:74`).
* The tokens of a chat turn that failed are not recorded and so not in the budget.
  When the framework commits after the stream, a second request with the first
  message of a thread waits for the whole stream and then fails on the unique index;
  a clear during a stream leaves orphan messages.
* A client that goes away while its turn streams raises CancelledError, which
  `except Exception` lets pass (`routes/chat.py:259`); `get_session` then commits what
  is flushed (`deps.py:14`), a question without its answer and the tokens used so far.
  `TurnIsWhole` allows it to nobody else.
* `verify` and `ReplayCache` have no caller outside `signing.py` and the tests.

Tigeri V1:

* Every failure renews the breaker's window, so the count is not of one window
  (`resilience.py:332`, `:348`); a slow success of an earlier call deletes the open key
  (`:327`); once the open key has expired the breaker is closed, not half-open, and
  lets everybody in (`:319`, against `:247`); a probe that meets a validation error
  opens it again (`:372`, against `:52`).
* A fatal refusal is counted twice, so two kill a token where the comment says three
  (`token_manager.py:24`).  The sweep refreshes without the lock and gives a token up
  at the first refusal.
* The lock lives 20 s, less than three attempts of 15 s, and is deleted whoever holds
  it.  A stale `_cache_warm` overwrites a newer token in Redis.  A failed `_pg_load` looks
  like "no token" and buries a good one.  A refresh in flight when the user
  disconnects writes its new token into the erased row and sets it connected again,
  and a `_cache_warm` in flight puts the erased token back in Redis.  A 5xx is not
  retried although `_post_with_retry` says so (`:616`, `:658`).
* A task redelivered after its worker was killed meets its own lock of 90 s and is
  answered "duplicate"; a `delete` of the lock that fails in the `finally` runs the task
  again; the user is told that the approver was notified when nobody was asked.
* `payment_reminder_sweep` calls `PaymentAgent.execute_tool` (`core/tasks.py:644`), which
  `PaymentAgent` does not define: the inherited one answers "Tool not implemented"
  (`base_agent.py:43`), so no reminder of the docstring (`:616`) is sent.
* The invoice sweep counts a reminder as sent unless the tool reports an error
  (`core/tasks.py:530`); a `send` that returns False is none (`a01_invoice/agent.py:1014`).
* Three answers say of an invoice that it is settled when the books do not:
  `reconcile` of a row without an entry (`a04_payment/agent.py:366`), `track_payment`
  after a failure that `_mark_invoice_paid_in_accounting` swallowed (`:308`, `:675`), and
  `mark_paid` of a row that says paid already (`a01_invoice/agent.py:1064`).  The warning
  of `reconcile` (`:363`) is not among the facts of its message
  (`a04_payment/tools.py:279`).  `frontend/app/internal/page.tsx:62` says of the agent
  "Posts reconciled payments to accounting platforms".
* "will retry automatically", "will retry" and "will sync to QB on next retry"
  (`a04_payment/agent.py:363`, `a01_invoice/agent.py:1121`, `:1081`) announce a retry that
  nobody queues.
* An expense that is in the books and whose INSERT fails is answered "Expense already
  recorded" (`a02_expense/agent.py:651`), and no row of it is written.
* Stripe's dedup key is set before the handler runs, and a handler that raised is
  answered 200 (`webhooks/stripe.py:109`, `:129`): the event is not delivered again.
* The "Safe update" of an expense from Xero takes the client's newest unlinked expense
  when none has the receipt's id (`webhooks/xero.py:179`), whichever receipt that was.

### Fairness

Every fair specification asks for weak fairness of what a process that has begun
does next, and of nothing else:

* gate, chat, integrations: an asyncio handler that can run is run, Postgres grants a
  lock that is free, and every call of a provider or a model returns or raises (the
  clients have timeouts).  Clicks, requests, ticks, commits of the chat and faults
  are not fair.
* `CircuitBreaker`: time passes, and a worker in a call goes on with it; new calls and
  deaths are not fair.
* `TokenRefresh`: a worker goes on; nobody has to ask, connect, disconnect or fail.
* `PaymentTasks`: a handler runs to its end, and a Celery worker takes what is queued
  and finishes it; the approver need not answer.

## 4. Proofs

TLAPS checks these for every value of the constants that satisfies the ASSUMEs of
the modules, so without the bounds of the runs.

* `PendingActions_proofs`.  `Invariance` proves the inductive invariant `IInv`:
  `TypeOK`; for every request, what its position says of it (which locks it holds,
  what it has buffered, which audit rows are pending and where they will link,
  whether it has performed); for every action, that the lock holder is a running
  request and that `effects <= 1 + lost`, with equality only for a request still
  under the lock or a settled row; and `ChainLinked`.  What the runs check is not
  inductive alone: `SingleFlight` needs that every position in `Owning` holds the row
  lock; `EffectsAccounted` needs that an unsettled row nobody is running has been
  performed only as often as it was forgotten; `ChainLinked` needs that a buffered row
  was linked to the chain's length and that the advisory lock has kept the chain
  still since.  From it follow `TypeCorrect`, `ClicksExclude`, `TenantsSerialise`,
  `RunsAccounted`, `NothingStranded`, `ChainStaysLinked`, the action properties
  `SettledActionsNeverRun` and `SettledActionsStay`, and `GateImplemented`: `Init` maps to
  `ActionGate`'s, each step to one of its steps or a stutter.
  `TrailTellsStatus` is inductive beside `IInv`: what a commit adds to the chain is what
  its request has buffered, and `IInv` knows that this is the confirmation and the
  outcome that go with the status it writes.  `TelegramAnswersRecorded` adds that only
  the web route rolls a transaction back to raise, so that a Telegram request has
  committed its row when it answers, and rows never leave the chain.
  `WebNeverReplays` adds `Unduplicated`: a web request about to dispatch has no executed
  twin, because whoever would commit one holds the tenant's advisory lock, which
  the request itself holds since its confirmation.
* The same module, about `AuditChain` with `MaxSkew = 0`: `ChainInvariance`,
  `ChainAlwaysVerifies`, `ChainOnlyGrows`, for any number of writers, tenants and rows.
  The invariant says that the rows of a tenant together with the lock holder's are
  linked in created_at order and that no row is stamped later than the clock.
* `CircuitBreaker_proofs`.  `OutageActedUpon` is not inductive, because the two keys
  lapse apart; the invariant adds that a positive count has a live TTL and that at
  the threshold the open key lasts at least as long as the count, which needs
  `WindowTtl <= OpenTtl` (`WindowAssumption`: 120 and 300 seconds).  `OutagesActedUpon`
  and `NoLockOrphaned` are about histories without a killed worker; a death between
  `INCR` and `SETEX` really does leave a count at the threshold with the breaker closed
  until the next failure.  `OpenKeepsOut` is the action property, deaths included.
* `RequestGuards_proofs`.  Of the limiter: `TypeCorrect`; `ImplementsWindow`, a refinement
  whose invariant says that a bucket is what of the full log is still in the window;
  `KeepsPromises`.  `GuardsLimit`: what the run checks, limiter and cache on one clock,
  implements the limiter, so the three hold of the composition too.
  `GuardsRefuseReplays`, about the composition, needs that the cache is the end of the
  sequence of what was accepted, and all of it while it is not full.
* `PaymentTasks_proofs`.  `LedgerImplemented` is the refinement of `ApprovalLedger`: its
  invariant says that what was granted is spent, in a task's hands, or in a result
  key, and never in two of these.  `LockInvariance` counts the tasks inside by the
  lapses of the lock (every task inside but one entered through a lapse), which gives
  `RunsAlone`; that a held lock is manned while no worker was killed gives
  `NoneDropped`.
* `TenantIntegrations_proofs`.  `CodesEndWithLinks`: a redeemed code is dead because
  every link is made by a request that has deleted its code in the same transaction or
  found it gone (`CodeInHand`), and a request that began after the redemption cannot
  come past the lookup (`LateCodes`).  `RefreshTokenSafe` needs `TokenInv`: tokens are
  numbered as they are issued, and one that is not committed is known to its request
  alone (`Private`), so nobody can have spent it, whatever row it is written into.
* `ChatTurns_proofs`.  `HistoryHolds` needs `Ordered`, which speaks of what is flushed as
  of what is stored; that the next number is above everything the turn sees
  (`NextNumber`, from `Greatest`, about the maximum of a bounded set); and `Whole`,
  that a draft grows to question and answer, that what is stored of a turn is all of
  it unless the client went away, and that a clear deletes all of that or nothing.
  `ClearsErase` needs `Wiping`: a clear past its DELETE has all that it should in hand,
  and no other clear has any of it.
  `BudgetBounded` needs `Margin`: every turn that may still spend has the rounds of one
  turn reserved above what is recorded.
* `TokenRefresh_proofs`.  `LockExcludes` counts the requests inside as above.
  `NothingLost` and `RowOnlyForward` need `RotationInv`: under rotation only the newest
  token is live, so that of all workers only one is between its exchange and the
  row, and everybody else, the sweep without the lock included, holds an older one,
  as has every token the row has had: one the user erased cannot come back.
  `GivenUpForCause` needs `CountInv`: what has been counted, and what workers still have
  to count, is at most twice the refusals since the last reset.

* `Bookkeeping_proofs`.  What the run checks is about rows, entries and users; the jobs
  are in between, and the inductive invariant is about them.  `JobFits`: which command
  a job at each position can have, and on which kind of document.  `JobHoldsEntry`:
  the entry it got back from the platform is one of its document and, except for what
  the retry of a bill or of a purchase order posts, of its kind; with
  `InvoicesAreInvoices` that is why no statement writes a foreign entry into a row
  (`RowsNameTheirOwn`).  `JobIsExplained` and `JobIsRecorded`: what is on record, or has been
  told, by the time a job is at a position, without which `UnsyncedAlwaysExplained`,
  `BookedAlwaysRecorded` and `ApprovedAlwaysBooked` would fail when the job ends.
  `PaymentsAlwaysAnswered` needs that no step takes an entry away or makes a paid one
  unpaid (`Grows`, a lemma about every call of a connector), and of each step that what
  it leaves paid here only has a job at the platform, an answer or a loss (`AnswersFor`;
  `MoverAnswers` for the job that moves, `AnsweredHolds`).  `DuplicatesAlwaysBounded`
  needs `PostsPaid`, which counts posts that have not happened: a job holds a reserve of
  the attempts it has left, taken from the command that began it, and entries and
  reserves together stay within what commands and faults have paid in.  The
  invariant was first checked by TLC, with the bounds of `books_in_step` and with two
  documents.

`TypeOK` of gate, chain, breaker, limiter and payment tasks is proved and not run;
`ConfirmedNeverStored`, `SettledNeverRuns` and `SettledStays` too.

Every safety property of a passing run is stated by a theorem.  Only model-checked
is liveness: `RequestsFinish`, `RequestsEnd`, `RequestsAnswered`, `TasksEnd`,
`BreakerRecovers`.
Liveness under fairness and ENABLED are out of the prover's reach, as are induction over
data and RECURSIVE operators, of which these modules have none.

## 5. Not modelled

| Part | Why |
|---|---|
| V2 activation | one wizard of one user over a context in one process; its steps are LLM calls and a crawl |
| V2 sessions and users | each operation is one statement on one row |
| V2 booking and expense matching | check and insert under an advisory lock, in requests that the tenant's audit lock already runs one at a time |
| V2 feedback, `cleanup_expired` | deleted with its messages; has no caller |
| V2 other agents, tools, trust, cards, graph | LLM pipelines over one transaction each, configuration, wrappers |
| V1 plans of several steps | their steps are the tasks that are modelled, in an order an LLM chooses |
| V1 reminders, imports, reports | a SELECT, a mail for each row and one UPDATE; one sequential loop each |
| V1 edits of an invoice | `_action_edit` updates the row and then calls `edit_invoice`; a failure is reported to the user as `accounting_warning` and queues nothing |
| V1 admin desk, booking agent | mail, Drive and calendar calls, and rows of documents and bookings written one statement at a time beside them |
| V1 provider webhooks (Stripe, PayPal, QuickBooks, Xero) | each event is one UPDATE of an invoice, expense or dispute row; the faults found are in section 3 |
| V1 auth, memory, settings | CRUD on one store |
| Connectors' REST wrappers, channels, document extraction | I/O |
| HMAC, Fernet, hashing | injective functions or a choice of valid input |
| Front ends, migrations, infrastructure | no logic of the back end |

What would come next: modules for the reminders and provider webhooks of V1 and
for plans of several steps.
