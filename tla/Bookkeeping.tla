------------------------------ MODULE Bookkeeping ------------------------------
(***************************************************************************)
(* How Tigeri V1 keeps its rows of invoices, bills, purchase orders and    *)
(* expenses in step with the client's accounting platform.  A job is a     *)
(* Celery task in a worker: a command of the user, or the retry of a post  *)
(* that failed.  Every SQL statement commits at once, and the platform is  *)
(* called between two of them.                                             *)
(***************************************************************************)
EXTENDS AccountingPlatform, FiniteSets

CONSTANTS
    Jobs,
    Nobody,         \* no document
    MaxRetries,     \* max_retries of the retry tasks
    MaxCommands,    \* bound on the user's commands
    MaxFaults       \* bound on lost answers, killed workers, failed statements

ASSUME BoundsAssumption == /\ MaxRetries \in Nat
                           /\ MaxCommands \in Nat
                           /\ MaxFaults \in Nat
ASSUME NobodyAssumption == Nobody \notin Docs

VARIABLES
    kind,       \* what each document is
    row,        \* status of its row in Postgres
    rowId,      \* which row that is: deleted and captured again is another one
    ext,        \* external_id: the entry the row names, 0 for none
    pc, job,
    told,       \* what users have been told of a document
    givenUp,    \* documents whose retry was dropped or exhausted
    hurt,       \* documents that lost a worker or a statement
    commands, faults

table == << row, rowId, ext >>
ledger == << platform, books >>
bounds == << commands, faults >>
vars == << platform, books, kind, row, rowId, ext, pc, job, told, givenUp,
           hurt, commands, faults >>

Kinds == {"invoice", "bill", "purchase_order", "expense"}
Statuses == {"none", "pending", "authorized", "paid", "open", "submitted",
             "billed", "approved", "rejected"}
Commands == {"create", "send", "authorise", "pay", "reconcile", "track",
             "capture", "approve", "edit", "retry"}
Positions == {"free", "posting", "posted", "restating", "recording", "linking",
              "authorising", "authorised", "paying", "waiting", "notifying"}

\* Replies that a property is about: that a command failed; that a payment was
\* taken, was not synced, or failed half-way; and that an invoice is settled,
\* without a word of the platform.
Remembered == {"error", "paid", "warned", "failed", "settled"}
NoJob == [cmd |-> "none", doc |-> Nobody, id |-> 0, entry |-> 0, left |-> 0]

DocOf(j) == job[j].doc
Command(j) == job[j].cmd
Busy(d) == {j \in Jobs : pc[j] # "free" /\ DocOf(j) = d}

Init ==
    /\ platform \in Platforms
    /\ books = << >>
    /\ kind \in [Docs -> Kinds]
    /\ row = [d \in Docs |-> "none"]
    /\ rowId = [d \in Docs |-> 0]
    /\ ext = [d \in Docs |-> 0]
    /\ pc = [j \in Jobs |-> "free"]
    /\ job = [j \in Jobs |-> NoJob]
    /\ told = [d \in Docs |-> {}]
    /\ givenUp = {} /\ hurt = {}
    /\ commands = 0 /\ faults = 0

-----------------------------------------------------------------------------
(* Jobs and rows *)

Goto(j, position) == pc' = [pc EXCEPT ![j] = position]

\* Of what users are told, the replies that a property is about are kept.
Reply(d, reply) ==
    told' = [told EXCEPT ![d] = @ \cup ({reply} \cap Remembered)]
Keep == UNCHANGED << kind, platform >>

\* The user's command reaches a worker.
Begin(j, cmd, d, position, i) ==
    /\ pc[j] = "free"
    /\ commands < MaxCommands
    /\ commands' = commands + 1
    /\ Goto(j, position)
    /\ job' = [job EXCEPT ![j] = [cmd |-> cmd, doc |-> d, id |-> rowId'[d],
                                  entry |-> i, left |-> 0]]
    /\ Keep /\ UNCHANGED << givenUp, hurt, faults >>

\* A command that is over in one statement.
AtOnce(j, d, reply) ==
    /\ pc[j] = "free"
    /\ commands < MaxCommands
    /\ commands' = commands + 1
    /\ Reply(d, reply)
    /\ Keep /\ UNCHANGED << books, pc, job, givenUp, hurt, faults >>

\* The task returns.
Answer(j, reply) ==
    /\ Reply(DocOf(j), reply)
    /\ Goto(j, "free")
    /\ job' = [job EXCEPT ![j] = NoJob]

\* _save_to_db: INSERT ... ON CONFLICT (idempotency_key) DO NOTHING
Insert(d, status, i) ==
    /\ row' = [row EXCEPT ![d] = status]
    /\ rowId' = [rowId EXCEPT ![d] = @ + 1]
    /\ ext' = [ext EXCEPT ![d] = i]

\* UPDATE ... SET external_id WHERE idempotency_key
Name(d, i) ==
    /\ ext' = [ext EXCEPT ![d] = IF row[d] = "none" THEN @ ELSE i]
    /\ UNCHANGED << row, rowId >>

SetStatus(d, status) ==
    /\ row' = [row EXCEPT ![d] = IF @ = "none" THEN @ ELSE status]
    /\ UNCHANGED << rowId, ext >>

-----------------------------------------------------------------------------
(* Commands that post a document *)

\* _action_create: the row first, then the platform.
CreateInvoice(j, d) ==
    /\ kind[d] = "invoice" /\ row[d] = "none"
    /\ Insert(d, "pending", 0)
    /\ Begin(j, "create", d, "posting", 0)
    /\ UNCHANGED << books, told >>

\* ... a row that could not be saved is answered like one that exists.
CreateInvoiceLost(j, d) ==
    /\ kind[d] = "invoice" /\ row[d] = "none"
    /\ AtOnce(j, d, "duplicate")
    /\ UNCHANGED table

\* _create_bill: the key is made of the bill, so a second one is a duplicate.
CreateBill(j, d) ==
    /\ kind[d] = "bill"
    /\ \/ /\ row[d] = "none"
          /\ Insert(d, "pending", 0)
          /\ Begin(j, "create", d, "posting", 0)
          /\ UNCHANGED << books, told >>
       \/ /\ row[d] # "none"
          /\ AtOnce(j, d, "duplicate")
          /\ UNCHANGED table

\* _create_po: the platform first, whether there is a row or not.
CreatePurchaseOrder(j, d) ==
    /\ kind[d] = "purchase_order"
    /\ UNCHANGED << table, books, told >>
    /\ Begin(j, "create", d, "posting", 0)

\* _action_capture, expenses approved automatically: the platform first.
CaptureApproved(j, d) ==
    /\ kind[d] = "expense"
    /\ UNCHANGED << table, books, told >>
    /\ Begin(j, "capture", d, "posting", 0)

\* _action_capture, expenses to be approved: an INSERT that fails is answered
\* like one that finds a row.
CapturePending(j, d) ==
    /\ kind[d] = "expense"
    /\ \/ row[d] = "none" /\ Insert(d, "pending", 0) /\ AtOnce(j, d, "created")
       \/ UNCHANGED table /\ AtOnce(j, d, "duplicate")

\* _action_approve of a pending expense.
ApproveExpense(j, d) ==
    /\ kind[d] = "expense" /\ row[d] = "pending"
    /\ UNCHANGED << table, books, told >>
    /\ Begin(j, "approve", d, "posting", 0)

\* _action_edit posts an approved expense once more.
EditExpense(j, d) ==
    /\ kind[d] = "expense" /\ row[d] # "none"
    /\ UNCHANGED << table, books >>
    /\ \/ /\ row[d] = "approved" /\ ext[d] # 0
          /\ Begin(j, "edit", d, "posting", 0)
          /\ UNCHANGED told
       \/ /\ row[d] # "approved" \/ ext[d] = 0
          /\ AtOnce(j, d, "edited")

\* _action_send: the entry the row names, or one found by number, or a new one.
SendInvoice(j, d) ==
    /\ kind[d] = "invoice" /\ row[d] # "none"
    /\ UNCHANGED << table, books, told >>
    /\ \/ ext[d] # 0 /\ Begin(j, "send", d, "posted", ext[d])
       \/ /\ ext[d] = 0
          /\ \/ \E i \in EntriesOf(d) : Begin(j, "send", d, "posted", i)
             \/ Begin(j, "send", d, "posting", 0)

-----------------------------------------------------------------------------
(* The post, its retries and their ends *)

Fault == faults < MaxFaults /\ faults' = faults + 1

\* A statement fails, which is only logged.
Lose(d) == Fault /\ hurt' = hurt \cup {d}

\* retry_accounting_post creates an invoice, whatever document failed.
FormPosted(j) ==
    IF Command(j) = "retry" /\ kind[DocOf(j)] # "expense"
    THEN "invoice" ELSE kind[DocOf(j)]

PostOk(j) ==
    /\ pc[j] = "posting"
    /\ Post(DocOf(j), FormPosted(j))
    /\ Goto(j, "posted")
    /\ job' = [job EXCEPT ![j].entry = Len(books')]
    /\ Keep /\ UNCHANGED << table, told, givenUp, hurt, bounds >>

\* The platform accepts, the answer is lost; with_retry, _create_with_retry
\* and the loop over the delays try again.
PostLost(j) ==
    /\ pc[j] = "posting"
    /\ Fault
    /\ Post(DocOf(j), FormPosted(j))
    /\ Keep /\ UNCHANGED << table, pc, job, told, givenUp, hurt, commands >>

\* The job becomes a retry task in the queue.
Enqueue(j) ==
    /\ Goto(j, "waiting")
    /\ job' = [job EXCEPT ![j].cmd = "retry", ![j].left = MaxRetries]

\* Mutant: the user is told of a retry that nobody queued.
QueueCreateForgotten(j) ==
    /\ pc[j] = "posting" /\ Command(j) = "create"
    /\ Answer(j, "queued")
    /\ Keep /\ UNCHANGED << table, books, givenUp, hurt, bounds >>

\* Every attempt failed, or the platform refused: bills and purchase orders
\* are reported as errors, and all are queued.
QueueCreate(j) ==
    /\ pc[j] = "posting" /\ Command(j) = "create"
    /\ Enqueue(j)
    /\ Reply(DocOf(j), IF kind[DocOf(j)] = "invoice" THEN "queued" ELSE "error")
    /\ Keep /\ UNCHANGED << table, books, givenUp, hurt, bounds >>

QueueCapture(j) ==
    /\ pc[j] = "posting" /\ Command(j) = "capture"
    /\ Enqueue(j)
    /\ LET d == DocOf(j)
       IN  \/ /\ row[d] = "none" /\ Insert(d, "pending", 0)
              /\ Reply(d, "queued") /\ UNCHANGED << hurt, faults >>
           \/ /\ row[d] # "none" /\ UNCHANGED << table, hurt, faults >>
              /\ Reply(d, "duplicate")
           \/ Lose(d) /\ UNCHANGED table /\ Reply(d, "duplicate")
    /\ Keep /\ UNCHANGED << books, givenUp, commands >>

\* Mutant: approved although the post failed, and no retry is queued.
QueueApproveForgotten(j) ==
    /\ pc[j] = "posting" /\ Command(j) = "approve"
    /\ Answer(j, "approved")
    /\ IF rowId[DocOf(j)] = job[j].id
       THEN SetStatus(DocOf(j), "approved") ELSE UNCHANGED table
    /\ Keep /\ UNCHANGED << books, givenUp, hurt, bounds >>

\* A queued post counts as success: the expense is approved, unless the UPDATE
\* fails, which is an error to the user; the retry is queued all the same.
QueueApprove(j) ==
    /\ pc[j] = "posting" /\ Command(j) = "approve"
    /\ Enqueue(j)
    /\ \/ /\ IF rowId[DocOf(j)] = job[j].id
             THEN SetStatus(DocOf(j), "approved") ELSE UNCHANGED table
          /\ Reply(DocOf(j), "approved")
          /\ UNCHANGED faults
       \/ Fault /\ UNCHANGED table /\ Reply(DocOf(j), "error")
    /\ Keep /\ UNCHANGED << books, givenUp, hurt, commands >>

\* The breaker is open, or the platform refuses an expense: nothing is queued.
\* The edit of an expense says nothing of it.
PostGivenUp(j) ==
    /\ pc[j] = "posting" /\ Command(j) # "retry"
    /\ Answer(j, CASE Command(j) = "edit" -> "edited"
                [] Command(j) = "send" -> "not_sent"
                [] OTHER -> "error")
    /\ Keep /\ UNCHANGED << table, books, givenUp, hurt, bounds >>

\* self.retry, or MaxRetriesExceededError, of which nobody hears.
Postpone(j) ==
    /\ Keep /\ UNCHANGED << table, books, told, hurt, commands >>
    /\ \/ /\ job[j].left > 0
          /\ Goto(j, "waiting")
          /\ job' = [job EXCEPT ![j].left = @ - 1]
          /\ UNCHANGED givenUp
       \/ /\ job[j].left = 0
          /\ Goto(j, "free")
          /\ job' = [job EXCEPT ![j] = NoJob]
          /\ givenUp' = givenUp \cup {DocOf(j)}

\* The breaker is open when the retry is due.
RetryBlocked(j) ==
    /\ pc[j] = "waiting"
    /\ Postpone(j) /\ UNCHANGED faults

RetryStarts(j) ==
    /\ pc[j] = "waiting"
    /\ Goto(j, "posting")
    /\ Keep /\ UNCHANGED << table, books, job, told, givenUp, hurt, bounds >>

RetryFails(j) ==
    /\ pc[j] = "posting" /\ Command(j) = "retry"
    /\ Postpone(j) /\ UNCHANGED faults

\* Only an invoice's validation error ends the retries.
RetryDropped(j) ==
    /\ pc[j] = "posting" /\ Command(j) = "retry" /\ kind[DocOf(j)] # "expense"
    /\ givenUp' = givenUp \cup {DocOf(j)}
    /\ Goto(j, "free")
    /\ job' = [job EXCEPT ![j] = NoJob]
    /\ Keep /\ UNCHANGED << table, books, told, hurt, bounds >>

-----------------------------------------------------------------------------
(* What is written after a post *)

\* external_id is written by key; a statement that fails is only logged.
NameInvoice(j) ==
    /\ pc[j] = "posted" /\ Command(j) = "create" /\ kind[DocOf(j)] = "invoice"
    /\ Goto(j, "restating")
    /\ \/ Name(DocOf(j), job[j].entry) /\ UNCHANGED << hurt, faults >>
       \/ Lose(DocOf(j)) /\ UNCHANGED table
    /\ Keep /\ UNCHANGED << books, job, told, givenUp, commands >>

\* ... and so is status='pending', whatever it has become since.
RestateInvoice(j) ==
    /\ pc[j] = "restating"
    /\ \/ SetStatus(DocOf(j), "pending") /\ UNCHANGED faults
       \/ Fault /\ UNCHANGED table
    /\ Answer(j, "created")
    /\ Keep /\ UNCHANGED << books, givenUp, hurt, commands >>

NameBill(j) ==
    /\ pc[j] = "posted" /\ Command(j) = "create" /\ kind[DocOf(j)] = "bill"
    /\ \/ Name(DocOf(j), job[j].entry) /\ UNCHANGED << hurt, faults >>
       \/ Lose(DocOf(j)) /\ UNCHANGED table
    /\ Answer(j, "created")
    /\ Keep /\ UNCHANGED << books, givenUp, commands >>

\* Mutant: the row is only written when there is one.
SavePurchaseOrderUpdating(j) ==
    /\ pc[j] = "posted" /\ Command(j) = "create"
    /\ kind[DocOf(j)] = "purchase_order"
    /\ Name(DocOf(j), job[j].entry)
    /\ Answer(j, "created")
    /\ Keep /\ UNCHANGED << books, givenUp, hurt, bounds >>

\* _save_po_to_db
SavePurchaseOrder(j) ==
    /\ pc[j] = "posted" /\ Command(j) = "create"
    /\ kind[DocOf(j)] = "purchase_order"
    /\ \/ /\ IF row[DocOf(j)] = "none"
             THEN Insert(DocOf(j), "open", job[j].entry) ELSE UNCHANGED table
          /\ UNCHANGED << hurt, faults >>
       \/ Lose(DocOf(j)) /\ UNCHANGED table
    /\ Answer(j, "created")
    /\ Keep /\ UNCHANGED << books, givenUp, commands >>

\* _post_to_accounting names the entry before a captured expense has its row.
NameExpense(j) ==
    /\ pc[j] = "posted" /\ Command(j) \in {"capture", "approve"}
    /\ Goto(j, "recording")
    /\ \/ Name(DocOf(j), job[j].entry) /\ UNCHANGED << hurt, faults >>
       \/ Lose(DocOf(j)) /\ UNCHANGED table
    /\ Keep /\ UNCHANGED << books, job, told, givenUp, commands >>

\* _save_to_db: an INSERT that fails is answered like one that finds a row.
RecordCapture(j) ==
    /\ pc[j] = "recording" /\ Command(j) = "capture"
    /\ \/ /\ row[DocOf(j)] = "none" /\ Insert(DocOf(j), "approved", 0)
          /\ Answer(j, "approved") /\ UNCHANGED << hurt, faults >>
       \/ /\ row[DocOf(j)] # "none" /\ UNCHANGED << table, hurt, faults >>
          /\ Answer(j, "duplicate")
       \/ Lose(DocOf(j)) /\ UNCHANGED table /\ Answer(j, "duplicate")
    /\ Keep /\ UNCHANGED << books, givenUp, commands >>

\* UPDATE by id, whatever the status has become.  One that fails is an error to
\* the user, although the expense is in the books.
RecordApproval(j) ==
    /\ pc[j] = "recording" /\ Command(j) = "approve"
    /\ \/ /\ IF rowId[DocOf(j)] = job[j].id
             THEN SetStatus(DocOf(j), "approved") ELSE UNCHANGED table
          /\ Goto(j, "linking")
          /\ UNCHANGED << job, told, faults >>
       \/ Fault /\ UNCHANGED table /\ Answer(j, "error")
    /\ Keep /\ UNCHANGED << books, givenUp, hurt, commands >>

\* ... and its entry in a transaction of its own.
LinkApproval(j) ==
    /\ pc[j] = "linking"
    /\ \/ /\ IF rowId[DocOf(j)] = job[j].id
             THEN Name(DocOf(j), job[j].entry) ELSE UNCHANGED table
          /\ Answer(j, "approved")
          /\ UNCHANGED faults
       \/ Fault /\ UNCHANGED table /\ Answer(j, "error")
    /\ Keep /\ UNCHANGED << books, givenUp, hurt, commands >>

\* The key of a send is fresh: what it would write matches no row.
Sent(j) ==
    /\ pc[j] = "posted" /\ Command(j) \in {"send", "edit"}
    /\ Answer(j, IF Command(j) = "send" THEN "sent" ELSE "edited")
    /\ Keep /\ UNCHANGED << table, books, givenUp, hurt, bounds >>

\* Mutant: the retry writes the id into whatever table has the key.
NameRetriedAnywhere(j) ==
    /\ pc[j] = "posted" /\ Command(j) = "retry"
    /\ Name(DocOf(j), job[j].entry)
    /\ Goto(j, "notifying")
    /\ Keep /\ UNCHANGED << books, job, told, givenUp, hurt, bounds >>

\* UPDATE invoices, UPDATE expenses: a bill's or a purchase order's key is in
\* neither.
NameRetried(j) ==
    /\ pc[j] = "posted" /\ Command(j) = "retry"
    /\ IF kind[DocOf(j)] \in {"invoice", "expense"}
       THEN Name(DocOf(j), job[j].entry) ELSE UNCHANGED table
    /\ Goto(j, "notifying")
    /\ Keep /\ UNCHANGED << books, job, told, givenUp, hurt, bounds >>

\* The statement fails: the whole task is retried, post included.
NameRetriedFails(j) ==
    /\ pc[j] = "posted" /\ Command(j) = "retry"
    /\ Postpone(j) /\ Fault

RetryDone(j) ==
    /\ pc[j] = "notifying"
    /\ Answer(j, "synced")
    /\ Keep /\ UNCHANGED << table, books, givenUp, hurt, bounds >>

\* Mutant: the retry after a message that failed is not counted.
NotifyFailsUncounted(j) ==
    /\ pc[j] = "notifying" /\ kind[DocOf(j)] # "expense"
    /\ Goto(j, "waiting")
    /\ Keep /\ UNCHANGED << table, books, job, told, givenUp, hurt, bounds >>

\* The message to the user fails: the whole task is retried likewise.
NotifyFails(j) ==
    /\ pc[j] = "notifying" /\ kind[DocOf(j)] # "expense"
    /\ Postpone(j) /\ UNCHANGED faults

-----------------------------------------------------------------------------
(* Commands on a document that is there *)

\* _action_approve: an entry found by number is written to the row.
ApproveInvoice(j, d) ==
    /\ kind[d] = "invoice" /\ row[d] # "none"
    /\ UNCHANGED books
    /\ \/ /\ ext[d] # 0
          /\ UNCHANGED << table, told >>
          /\ Begin(j, "authorise", d, "authorising", ext[d])
       \/ /\ ext[d] = 0
          /\ \E i \in EntriesOf(d) :
                /\ Name(d, i)
                /\ Begin(j, "authorise", d, "authorising", i)
          /\ UNCHANGED told
       \/ ext[d] = 0 /\ UNCHANGED table /\ AtOnce(j, d, "not_approved")

\* _approve_batch: a row without an entry is authorised here only.
ApproveInBatch(j, d) ==
    /\ kind[d] = "invoice" /\ row[d] # "none" /\ ext[d] = 0
    /\ UNCHANGED << table, books, told >>
    /\ Begin(j, "authorise", d, "authorised", 0)

\* _approve_po
ApprovePurchaseOrder(j, d) ==
    /\ kind[d] = "purchase_order" /\ row[d] # "none"
    /\ UNCHANGED << table, books, told >>
    /\ Begin(j, "authorise", d, "authorising", ext[d])

AuthoriseOk(j) ==
    /\ pc[j] = "authorising"
    /\ Authorise(job[j].entry)
    /\ Goto(j, "authorised")
    /\ Keep /\ UNCHANGED << table, job, told, givenUp, hurt, bounds >>

\* Refused, or the answer is lost.
AuthoriseFails(j) ==
    /\ pc[j] = "authorising"
    /\ \/ UNCHANGED << books, faults >>
       \/ /\ Fault
          /\ Authorise(job[j].entry)
    /\ Answer(j, "not_approved")
    /\ Keep /\ UNCHANGED << table, givenUp, hurt, commands >>

RecordAuthorised(j) ==
    /\ pc[j] = "authorised"
    /\ SetStatus(DocOf(j), IF kind[DocOf(j)] = "invoice" THEN "authorized"
                                                         ELSE "submitted")
    /\ Answer(j, "approved")
    /\ Keep /\ UNCHANGED << books, givenUp, hurt, bounds >>

\* _mark_po_received
ReceivePurchaseOrder(j, d) ==
    /\ kind[d] = "purchase_order" /\ row[d] # "none"
    /\ SetStatus(d, "billed")
    /\ AtOnce(j, d, "approved")

\* _action_mark_paid: the row first.  Only QuickBooks has ids of digits.  Found
\* by its vendor, a row that says paid is answered without asking the platform.
MarkPaid(j, d) ==
    /\ kind[d] = "invoice" /\ row[d] # "none"
    /\ UNCHANGED books
    /\ \/ /\ SetStatus(d, "paid")
          /\ ext[d] # 0 /\ platform = "quickbooks"
          /\ Begin(j, "pay", d, "paying", ext[d])
          /\ UNCHANGED told
       \/ /\ SetStatus(d, "paid")
          /\ ext[d] = 0 \/ platform = "xero"
          /\ AtOnce(j, d, "warned")
       \/ row[d] = "paid" /\ UNCHANGED table /\ AtOnce(j, d, "settled")

\* PaymentAgent._action_reconcile: a draft is authorised before it is paid.  The
\* answer is the same when the row names no entry; when the connector cannot be
\* built it is an error, and the row stays paid.
Reconcile(j, d) ==
    /\ kind[d] = "invoice" /\ row[d] # "none"
    /\ SetStatus(d, "paid")
    /\ \/ /\ ext[d] # 0
          /\ Authorise(ext[d]) \/ UNCHANGED books
          /\ Begin(j, "reconcile", d, "paying", ext[d])
          /\ UNCHANGED told
       \/ ext[d] # 0 /\ AtOnce(j, d, "failed")
       \/ ext[d] = 0 /\ AtOnce(j, d, "settled")

\* PaymentAgent._action_track_payment: a payment that matches an open invoice
\* is inserted, and the invoice marked paid, in one transaction.
TrackPayment(j, d) ==
    /\ kind[d] = "invoice" /\ row[d] \notin {"none", "paid"}
    /\ SetStatus(d, "paid")
    /\ \/ /\ ext[d] # 0
          /\ Authorise(ext[d]) \/ UNCHANGED books
          /\ Begin(j, "track", d, "paying", ext[d])
          /\ UNCHANGED told
       \/ ext[d] = 0 /\ AtOnce(j, d, "settled")

\* The platform has taken the payment: reconcile and track say no more than they
\* do when it has not.  Track writes the status again, or logs that it could not.
PayOk(j) ==
    /\ pc[j] = "paying"
    /\ Pay(job[j].entry)
    /\ Answer(j, IF Command(j) = "pay" THEN "paid" ELSE "settled")
    /\ \/ Command(j) = "track" /\ SetStatus(DocOf(j), "paid")
       \/ UNCHANGED table
    /\ Keep /\ UNCHANGED << givenUp, hurt, bounds >>

\* Mutant: the row stays paid when the payment is refused.
PayRefusedStaysPaid(j) ==
    /\ pc[j] = "paying" /\ Command(j) = "pay"
    /\ Answer(j, "not_paid")
    /\ Keep /\ UNCHANGED << table, books, givenUp, hurt, bounds >>

\* _action_mark_paid takes the row back when the payment is refused.
PayRefused(j) ==
    /\ pc[j] = "paying" /\ Command(j) = "pay"
    /\ \/ SetStatus(DocOf(j), "pending") /\ UNCHANGED << hurt, faults >>
       \/ Lose(DocOf(j)) /\ UNCHANGED table
    /\ Answer(j, "not_paid")
    /\ Keep /\ UNCHANGED << books, givenUp, commands >>

\* Anything else, a payment taken whose answer is lost included.  mark_paid warns
\* of it; reconcile's warning is dropped from the message, and track says nothing.
PayFails(j) ==
    /\ pc[j] = "paying"
    /\ \/ UNCHANGED << books, faults >>
       \/ /\ Fault
          /\ Pay(job[j].entry)
    /\ Answer(j, IF Command(j) = "pay" THEN "warned" ELSE "settled")
    /\ Keep /\ UNCHANGED << table, givenUp, hurt, commands >>

\* _action_reject, by reference: whatever the status is.
RejectExpense(j, d) ==
    /\ kind[d] = "expense" /\ row[d] # "none"
    /\ SetStatus(d, "rejected")
    /\ AtOnce(j, d, "edited")

\* _action_delete
DeleteExpense(j, d) ==
    /\ kind[d] = "expense" /\ row[d] # "none"
    /\ row' = [row EXCEPT ![d] = "none"]
    /\ ext' = [ext EXCEPT ![d] = 0]
    /\ UNCHANGED rowId
    /\ AtOnce(j, d, "edited")

\* A worker is killed: Celery gives a retry task to another worker; a command
\* is redelivered too, which is one more command.
Die(j) ==
    /\ pc[j] # "free"
    /\ Lose(DocOf(j))
    /\ IF Command(j) = "retry"
       THEN Goto(j, "waiting") /\ UNCHANGED job
       ELSE Goto(j, "free") /\ job' = [job EXCEPT ![j] = NoJob]
    /\ Keep /\ UNCHANGED << table, books, told, givenUp, commands >>

-----------------------------------------------------------------------------
Ask(j, d) ==
    \/ CreateInvoice(j, d) \/ CreateInvoiceLost(j, d) \/ CreateBill(j, d)
    \/ CreatePurchaseOrder(j, d) \/ CaptureApproved(j, d) \/ CapturePending(j, d)
    \/ ApproveExpense(j, d) \/ EditExpense(j, d) \/ RejectExpense(j, d)
    \/ DeleteExpense(j, d) \/ SendInvoice(j, d) \/ ApproveInvoice(j, d)
    \/ ApproveInBatch(j, d) \/ ApprovePurchaseOrder(j, d)
    \/ ReceivePurchaseOrder(j, d) \/ MarkPaid(j, d) \/ Reconcile(j, d)
    \/ TrackPayment(j, d)

Proceed(j) ==
    \/ PostOk(j) \/ QueueCreate(j) \/ QueueCapture(j) \/ QueueApprove(j)
    \/ PostGivenUp(j) \/ RetryBlocked(j) \/ RetryStarts(j) \/ RetryFails(j)
    \/ RetryDropped(j) \/ NameInvoice(j) \/ RestateInvoice(j) \/ NameBill(j)
    \/ SavePurchaseOrder(j) \/ NameExpense(j) \/ RecordCapture(j)
    \/ RecordApproval(j) \/ LinkApproval(j) \/ Sent(j) \/ NameRetried(j)
    \/ NameRetriedFails(j) \/ RetryDone(j) \/ NotifyFails(j)
    \/ AuthoriseOk(j) \/ AuthoriseFails(j) \/ RecordAuthorised(j)
    \/ PayOk(j) \/ PayRefused(j) \/ PayFails(j)

Next ==
    \E j \in Jobs :
        \/ \E d \in Docs : Ask(j, d)
        \/ PostLost(j) \/ Proceed(j) \/ Die(j)

Spec == Init /\ [][Next]_vars

-----------------------------------------------------------------------------
(* Properties *)

\* Every variable has its type.
TypeOK ==
    /\ platform \in Platforms
    /\ books \in Seq(Entries)
    /\ kind \in [Docs -> Kinds]
    /\ row \in [Docs -> Statuses]
    /\ rowId \in [Docs -> Nat]
    /\ ext \in [Docs -> 0..Len(books)]
    /\ pc \in [Jobs -> Positions]
    /\ job \in [Jobs -> [cmd : Commands \cup {"none"}, doc : Docs \cup {Nobody},
                         id : Nat, entry : 0..Len(books), left : 0..MaxRetries]]
    /\ told \in [Docs -> SUBSET Remembered]
    /\ givenUp \in SUBSET Docs
    /\ hurt \in SUBSET Docs
    /\ commands \in 0..MaxCommands
    /\ faults \in 0..MaxFaults

\* A row names an entry of its own document and kind, although retries, sends
\* and approvals write it by keys, numbers and ids, and a bill's retry posts an
\* invoice.
RowNamesItsOwnEntry ==
    \A d \in Docs : ext[d] # 0 =>
        /\ row[d] # "none"
        /\ books[ext[d]].doc = d
        /\ books[ext[d]].form \in FormsOf[kind[d]]

\* The invariant of the rows: their types, and that each names its own entry
\* (_update_invoice_field, _update_bill_external_id and the retries).
Inv == TypeOK /\ RowNamesItsOwnEntry

\* No invoice or bill is silently left out of the books: while its row names no
\* entry, a task is at it or will be, its retry has been given up, or the user
\* has been told that posting it failed.  A lost statement or worker excuses.
UnsyncedIsExplained ==
    \A d \in Docs :
        /\ kind[d] \in {"invoice", "bill"}
        /\ row[d] # "none" /\ ext[d] = 0
        /\ d \notin hurt
        => \/ \E j \in Busy(d) : Command(j) \in {"create", "retry"}
           \/ d \in givenUp
           \/ "error" \in told[d]

\* What is in the books is on record here, or is being recorded, or the user
\* knows that the command failed.
BookedIsRecorded ==
    \A d \in Docs :
        EntriesOf(d) # {} /\ d \notin hurt =>
            rowId[d] > 0 \/ Busy(d) # {} \/ "error" \in told[d]

\* An expense is approved only with an entry in the books, or with a retry that
\* is still at it or was given up, whatever was rejected, deleted and captured
\* again in between.
ApprovedIsBooked ==
    \A d \in Docs :
        kind[d] = "expense" /\ row[d] = "approved" =>
            \/ EntriesOf(d) # {}
            \/ \E j \in Busy(d) : Command(j) = "retry"
            \/ d \in givenUp

\* What mark_paid reports as taken by the platform is paid in the books.  And an
\* invoice that is paid here but not there is being paid, or a user has been
\* answered: with a warning, an error, or that it is settled, which reconcile,
\* track and a second mark_paid also say when it is not.  A lost statement or
\* worker excuses; a payment the platform refused must not leave the row paid.
PaymentsAnswered ==
    \A d \in Docs :
        /\ "paid" \in told[d] => PaidEntry(d)
        /\ row[d] = "paid" /\ d \notin hurt
           => \/ PaidEntry(d)
              \/ \E j \in Busy(d) : pc[j] = "paying"
              \/ told[d] \cap {"warned", "failed", "settled"} # {}

\* Retries do not fill the books: every command puts a document there at most
\* once per attempt, the postponed ones counted, and once more per lost answer;
\* an expense twice, for the connectors' bill after the error.
DuplicatesBounded ==
    \A d \in Docs :
        Cardinality(EntriesOf(d)) <=
            (IF kind[d] = "expense" THEN 2 ELSE 1)
                * (commands * (MaxRetries + 1) + faults)

-----------------------------------------------------------------------------
(* What a docstring says, and the code does not do. *)

\* a02_expense/agent.py: the same receipt sent twice is deduplicated, so one
\* that has its row is not posted again.
RecordedReceiptNotPosted ==
    [][\A j \in Jobs :
          Command(j) = "capture" /\ pc[j] = "posting" /\ pc'[j] = "posted" =>
              row[DocOf(j)] = "none"]_vars

=============================================================================
