-------------------------- MODULE Bookkeeping_proofs --------------------------
(***************************************************************************)
(* For every set of documents and workers, any number of retries, commands *)
(* and faults: the rows of Tigeri V1 stay in step with the client's books, *)
(* as far as Bookkeeping says.                                             *)
(***************************************************************************)
EXTENDS Bookkeeping, FiniteSetTheorems, SequenceTheorems, TLAPS

-----------------------------------------------------------------------------
(* The inductive invariant: what a job at each position is about, what it   *)
(* knows of the books, and what is already on record.                       *)

Posting == {"create", "capture", "approve", "edit", "send", "retry"}
Pays == {"pay", "reconcile", "track"}

\* A job is at a document of a kind its command is for, where it can be.
JobFits(j) ==
    pc[j] # "free" =>
        /\ DocOf(j) \in Docs
        /\ Command(j) \in Commands
        /\ pc[j] \in {"posting", "posted"} => Command(j) \in Posting
        /\ pc[j] = "restating" =>
              Command(j) = "create" /\ kind[DocOf(j)] = "invoice"
        /\ pc[j] = "recording" => Command(j) \in {"capture", "approve"}
        /\ pc[j] = "linking" => Command(j) = "approve"
        /\ pc[j] \in {"authorising", "authorised"} => Command(j) = "authorise"
        /\ pc[j] = "paying" => Command(j) \in Pays
        /\ pc[j] \in {"waiting", "notifying"} => Command(j) = "retry"
        /\ Command(j) = "create" => kind[DocOf(j)] # "expense"
        /\ Command(j) \in {"capture", "approve", "edit"} =>
              kind[DocOf(j)] = "expense"
        /\ Command(j) \in Pays \cup {"send"} => kind[DocOf(j)] = "invoice"

\* After the platform's answer a job holds an entry of its document, of the
\* right form except for the invoice that the retry of a bill or of a purchase
\* order has posted.
JobHoldsEntry(j) ==
    pc[j] \in {"posted", "restating", "recording", "linking", "notifying",
               "paying"} =>
        /\ job[j].entry \in 1..Len(books)
        /\ books[job[j].entry].doc = DocOf(j)
        /\ \/ books[job[j].entry].form \in FormsOf[kind[DocOf(j)]]
           \/ Command(j) = "retry" /\ kind[DocOf(j)] \in {"bill", "purchase_order"}

\* Whatever is found in the books under an invoice's number is an invoice.
InvoicesAreInvoices ==
    \A i \in 1..Len(books) :
        kind[books[i].doc] = "invoice" => books[i].form = "invoice"

\* A row that is there has been inserted.
RowsHaveIds == \A d \in Docs : row[d] # "none" => rowId[d] > 0

\* A job at an invoice or a bill has its row; once that is past its post, the
\* row names an entry or a statement was lost.  Whoever asked for a bill has
\* been told of the error by the time it is retried.
JobIsExplained(j) ==
    pc[j] # "free" =>
        /\ kind[DocOf(j)] \in {"invoice", "bill"} => row[DocOf(j)] # "none"
        /\ pc[j] = "restating" =>
              ext[DocOf(j)] # 0 \/ DocOf(j) \in hurt
        /\ pc[j] = "notifying" /\ kind[DocOf(j)] = "invoice" => ext[DocOf(j)] # 0
        /\ Command(j) = "retry" /\ kind[DocOf(j)] = "bill" =>
              "error" \in told[DocOf(j)]

\* Only a first post may be ahead of the row, unless the INSERT failed.
JobIsRecorded(j) ==
    pc[j] # "free" /\ Command(j) \notin {"create", "capture"} =>
        \/ rowId[DocOf(j)] > 0
        \/ "error" \in told[DocOf(j)]
        \/ DocOf(j) \in hurt

RowInv ==
    /\ RowNamesItsOwnEntry
    /\ InvoicesAreInvoices
    /\ RowsHaveIds
JobInv ==
    \A j \in Jobs : /\ JobFits(j)
                    /\ JobHoldsEntry(j)
                    /\ JobIsExplained(j)
                    /\ JobIsRecorded(j)
PropertyInv ==
    /\ UnsyncedIsExplained
    /\ BookedIsRecorded
    /\ ApprovedIsBooked
    /\ PaymentsAnswered

\* The posts that a job may still make without another fault or command, each
\* of which puts a document in the books Weight times at most.
Attempts(j) ==
    IF pc[j] = "free" THEN 0
    ELSE IF Command(j) = "retry"
    THEN IF pc[j] \in {"waiting", "posting"} THEN job[j].left + 1 ELSE job[j].left
    ELSE IF pc[j] = "posting" THEN MaxRetries + 1 ELSE 0
Weight(d) == IF kind[d] = "expense" THEN 2 ELSE 1
Reserve(d) ==
    {p \in Jobs \X (1..MaxRetries + 1) : DocOf(p[1]) = d /\ p[2] <= Attempts(p[1])}
Budget == commands * (MaxRetries + 1) + faults
PostsPaid ==
    \A d \in Docs :
        /\ IsFiniteSet(Reserve(d))
        /\ Cardinality(EntriesOf(d)) + Weight(d) * Cardinality(Reserve(d))
              <= Weight(d) * Budget

IInv == TypeOK /\ RowInv /\ JobInv /\ PropertyInv /\ PostsPaid

-----------------------------------------------------------------------------
(* What the platform's operations do to the books. *)

\* No entry goes, changes its document or form, or is unpaid again.
Grows ==
    /\ books' \in Seq(Entries)
    /\ Len(books) <= Len(books')
    /\ \A i \in 1..Len(books) :
          /\ books'[i].doc = books[i].doc
          /\ books'[i].form = books[i].form
          /\ books[i].state = "paid" => books'[i].state = "paid"

\* One call of a connector posts one entry, or two of an expense.
LEMMA PostsShape ==
    ASSUME NEW d \in Docs, NEW k \in Kinds, NEW s \in Posts(d, k)
    PROVE  /\ s \in Seq(Entries)
           /\ Len(s) \in 1..(IF k = "expense" THEN 2 ELSE 1)
           /\ \A i \in 1..Len(s) : s[i].doc = d
           /\ s[Len(s)].form \in FormsOf[k]
<1>1. ASSUME NEW f \in Forms
      PROVE  Entry(d, f) \in Entries /\ Entry(d, f).doc = d /\ Entry(d, f).form = f
  BY DEF Entry, Entries, EntryStates
<1>2. ASSUME NEW f \in Forms, s = << Entry(d, f) >>
      PROVE  /\ s \in Seq(Entries) /\ Len(s) = 1
             /\ \A i \in 1..Len(s) : s[i].doc = d
             /\ s[Len(s)].form = f
  BY <1>1, <1>2
<1>3. ASSUME NEW f \in Forms, NEW g \in Forms, s = << Entry(d, f), Entry(d, g) >>
      PROVE  /\ s \in Seq(Entries) /\ Len(s) = 2
             /\ \A i \in 1..Len(s) : s[i].doc = d
             /\ s[Len(s)].form = g
  BY <1>1, <1>3
<1>4. CASE k = "expense"
  <2>1. s \in QuickBooksExpensePosts(d) \cup XeroExpensePosts(d)
    BY <1>4 DEF Posts, ExpensePosts
  <2>2. \/ \E g \in {"purchase", "claim", "bill"} : s = << Entry(d, g) >>
        \/ \E f \in {"purchase", "receipt", "claim"} :
              s = << Entry(d, f), Entry(d, "bill") >>
    BY <2>1 DEF QuickBooksExpensePosts, XeroExpensePosts
  <2>3. FormsOf[k] = {"purchase", "claim", "bill"}
    BY <1>4 DEF FormsOf
  <2>4. CASE \E g \in {"purchase", "claim", "bill"} : s = << Entry(d, g) >>
    BY <1>2, <1>4, <2>3, <2>4 DEF Forms
  <2>5. CASE \E f \in {"purchase", "receipt", "claim"} :
                s = << Entry(d, f), Entry(d, "bill") >>
    BY <1>3, <1>4, <2>3, <2>5 DEF Forms
  <2> QED BY <2>2, <2>4, <2>5
<1>5. CASE k # "expense"
  <2>1. s = << Entry(d, k) >> /\ k \in Forms
    BY <1>5 DEF Posts, InvoicePosts, BillPosts, PurchaseOrderPosts, Kinds, Forms
  <2>2. k \in FormsOf[k]
    BY <1>5 DEF FormsOf, Kinds
  <2> QED BY <1>2, <1>5, <2>1, <2>2
<1> QED BY <1>4, <1>5

\* A post appends at most two entries, all of the document posted.
LEMMA PostGrows ==
    ASSUME books \in Seq(Entries), NEW d \in Docs, NEW k \in Kinds, Post(d, k)
    PROVE  /\ Grows
           /\ Len(books') \in Len(books) + 1
                                  ..Len(books) + (IF k = "expense" THEN 2 ELSE 1)
           /\ \A i \in Len(books) + 1..Len(books') : books'[i].doc = d
           /\ books'[Len(books')].form \in FormsOf[k]
<1>1. PICK s \in Posts(d, k) : books' = books \o s
  BY DEF Post
<1>2. /\ s \in Seq(Entries)
      /\ Len(s) \in 1..(IF k = "expense" THEN 2 ELSE 1)
      /\ \A i \in 1..Len(s) : s[i].doc = d
      /\ s[Len(s)].form \in FormsOf[k]
  BY PostsShape
<1>3. Len(books) \in Nat /\ Len(s) \in Nat
  BY <1>2, LenProperties
<1>4. /\ books' \in Seq(Entries)
      /\ Len(books') = Len(books) + Len(s)
      /\ \A i \in 1..Len(books') :
            books'[i] = IF i <= Len(books) THEN books[i] ELSE s[i - Len(books)]
  BY <1>1, <1>2, ConcatProperties
<1>5. Grows
  BY <1>3, <1>4 DEF Grows
<1>6. \A i \in Len(books) + 1..Len(books') : books'[i].doc = d
  <2> SUFFICES ASSUME NEW i \in Len(books) + 1..Len(books')
               PROVE  books'[i].doc = d
    OBVIOUS
  <2>1. books'[i] = s[i - Len(books)] /\ i - Len(books) \in 1..Len(s)
    BY <1>3, <1>4
  <2> QED BY <1>2, <2>1
<1>7. books'[Len(books')] = s[Len(s)]
  BY <1>2, <1>3, <1>4
<1> QED BY <1>2, <1>3, <1>4, <1>5, <1>6, <1>7

\* Authorising and paying change the state of one entry.
LEMMA RestateGrows ==
    ASSUME books \in Seq(Entries), NEW i \in Nat, NEW state \in EntryStates,
           books' = [books EXCEPT ![i].state = state],
           i \in 1..Len(books) => state = "paid" \/ books[i].state # "paid"
    PROVE  Grows /\ Len(books') = Len(books)
<1>1. Len(books) \in Nat /\ DOMAIN books = 1..Len(books)
  BY LenProperties
<1>2. \A n \in 1..Len(books) : books[n] \in Entries
  BY ElementOfSeq
<1>3. /\ DOMAIN books' = 1..Len(books)
      /\ \A n \in 1..Len(books) :
            books'[n] = IF n = i THEN [books[n] EXCEPT !.state = state]
                                 ELSE books[n]
  BY <1>1
<1>4. \A n \in 1..Len(books) :
        /\ books'[n] \in Entries
        /\ books'[n].doc = books[n].doc /\ books'[n].form = books[n].form
        /\ books'[n].state = IF n = i THEN state ELSE books[n].state
  BY <1>2, <1>3 DEF Entries
<1>5. books' \in [1..Len(books) -> Entries]
  BY <1>3, <1>4
<1>6. books' \in Seq(Entries) /\ Len(books') = Len(books)
  BY <1>1, <1>5, SeqDef, LenProperties
<1> QED BY <1>4, <1>6 DEF Grows

\* Authorising an entry adds none.
LEMMA AuthoriseGrows ==
    ASSUME books \in Seq(Entries), NEW i \in 0..Len(books), Authorise(i)
    PROVE  Grows /\ Len(books') = Len(books)
<1> DEFINE state == IF books[i].state = "draft" THEN "authorised"
                    ELSE books[i].state
<1>1. i \in Nat /\ (i \in 1..Len(books) => books[i] \in Entries)
  BY LenProperties, ElementOfSeq
<1>2. CASE i \in 1..Len(books)
  <2>1. books' = [books EXCEPT ![i].state = state]
    BY <1>2 DEF Authorise
  <2>2. state \in EntryStates /\ (state = "paid" \/ books[i].state # "paid")
    BY <1>1, <1>2 DEF Entries, EntryStates
  <2> HIDE DEF state
  <2> QED BY <1>1, <2>1, <2>2, RestateGrows
<1>3. CASE i \notin 1..Len(books)
  <2>1. books' = books
    BY <1>3, LenProperties DEF Authorise
  <2> QED BY <2>1, LenProperties DEF Grows
<1> QED BY <1>2, <1>3

\* Paying an entry adds none, and leaves it paid.
LEMMA PayGrows ==
    ASSUME books \in Seq(Entries), NEW i \in 1..Len(books), Pay(i)
    PROVE  Grows /\ Len(books') = Len(books) /\ books'[i].state = "paid"
<1>1. books' = [books EXCEPT ![i].state = "paid"]
  BY DEF Pay, QuickBooksPays, XeroPays
<1>2. i \in Nat /\ books[i] \in Entries /\ i \in DOMAIN books
  BY LenProperties, ElementOfSeq
<1>3. Grows /\ Len(books') = Len(books)
  BY <1>1, <1>2, RestateGrows DEF EntryStates
<1> QED BY <1>1, <1>2, <1>3 DEF Entries

\* Nothing happens to them.
LEMMA UnchangedGrows ==
    ASSUME books \in Seq(Entries), books' = books
    PROVE  Grows /\ Len(books') = Len(books)
  BY LenProperties DEF Grows

-----------------------------------------------------------------------------
(* A step of one job. *)

Step(j) ==
    \/ \E d \in Docs : Ask(j, d)
    \/ PostLost(j) \/ Proceed(j) \/ Die(j)

\* The books only grow, and only by what a post adds.
BooksMove(j) ==
    /\ Grows
    /\ \/ Len(books') = Len(books)
       \/ pc[j] = "posting" /\ Post(DocOf(j), FormPosted(j))

\* What a step does to the books.
LEMMA BooksGrow ==
    ASSUME IInv, NEW j \in Jobs, Step(j)
    PROVE  BooksMove(j)
<1>1. job[j].entry \in 0..Len(books) /\ books \in Seq(Entries)
  BY DEF IInv, TypeOK
<1>2. \A d \in Docs : ext[d] \in 0..Len(books)
  BY DEF IInv, TypeOK
<1>3. pc[j] = "paying" => job[j].entry \in 1..Len(books)
  BY DEF IInv, JobInv, JobHoldsEntry
<1>4. ASSUME NEW d \in Docs, CreateInvoice(j, d) PROVE BooksMove(j)
  BY <1>4, <1>1, UnchangedGrows DEF CreateInvoice, BooksMove
<1>5. ASSUME NEW d \in Docs, CreateInvoiceLost(j, d) PROVE BooksMove(j)
  BY <1>5, <1>1, UnchangedGrows DEF CreateInvoiceLost, AtOnce, BooksMove
<1>6. ASSUME NEW d \in Docs, CreateBill(j, d) PROVE BooksMove(j)
  BY <1>6, <1>1, UnchangedGrows DEF CreateBill, AtOnce, BooksMove
<1>7. ASSUME NEW d \in Docs, CreatePurchaseOrder(j, d) PROVE BooksMove(j)
  BY <1>7, <1>1, UnchangedGrows DEF CreatePurchaseOrder, BooksMove
<1>8. ASSUME NEW d \in Docs, CaptureApproved(j, d) PROVE BooksMove(j)
  BY <1>8, <1>1, UnchangedGrows DEF CaptureApproved, BooksMove
<1>9. ASSUME NEW d \in Docs, CapturePending(j, d) PROVE BooksMove(j)
  BY <1>9, <1>1, UnchangedGrows DEF CapturePending, AtOnce, BooksMove
<1>10. ASSUME NEW d \in Docs, ApproveExpense(j, d) PROVE BooksMove(j)
  BY <1>10, <1>1, UnchangedGrows DEF ApproveExpense, BooksMove
<1>11. ASSUME NEW d \in Docs, EditExpense(j, d) PROVE BooksMove(j)
  BY <1>11, <1>1, UnchangedGrows DEF EditExpense, AtOnce, BooksMove
<1>12. ASSUME NEW d \in Docs, RejectExpense(j, d) PROVE BooksMove(j)
  BY <1>12, <1>1, UnchangedGrows DEF RejectExpense, AtOnce, BooksMove
<1>13. ASSUME NEW d \in Docs, DeleteExpense(j, d) PROVE BooksMove(j)
  BY <1>13, <1>1, UnchangedGrows DEF DeleteExpense, AtOnce, BooksMove
<1>14. ASSUME NEW d \in Docs, SendInvoice(j, d) PROVE BooksMove(j)
  BY <1>14, <1>1, UnchangedGrows DEF SendInvoice, BooksMove
<1>15. ASSUME NEW d \in Docs, ApproveInvoice(j, d) PROVE BooksMove(j)
  BY <1>15, <1>1, UnchangedGrows DEF ApproveInvoice, AtOnce, BooksMove
<1>16. ASSUME NEW d \in Docs, ApproveInBatch(j, d) PROVE BooksMove(j)
  BY <1>16, <1>1, UnchangedGrows DEF ApproveInBatch, BooksMove
<1>17. ASSUME NEW d \in Docs, ApprovePurchaseOrder(j, d) PROVE BooksMove(j)
  BY <1>17, <1>1, UnchangedGrows DEF ApprovePurchaseOrder, BooksMove
<1>18. ASSUME NEW d \in Docs, ReceivePurchaseOrder(j, d) PROVE BooksMove(j)
  BY <1>18, <1>1, UnchangedGrows DEF ReceivePurchaseOrder, AtOnce, BooksMove
<1>19. ASSUME NEW d \in Docs, MarkPaid(j, d) PROVE BooksMove(j)
  BY <1>19, <1>1, UnchangedGrows DEF MarkPaid, AtOnce, BooksMove
<1>20. ASSUME NEW d \in Docs, Reconcile(j, d) PROVE BooksMove(j)
  <2>1. books' = books \/ Authorise(ext[d])
    BY <1>20 DEF Reconcile, AtOnce
  <2> QED BY <1>1, <1>2, <2>1, AuthoriseGrows, UnchangedGrows DEF BooksMove
<1>21. ASSUME NEW d \in Docs, TrackPayment(j, d) PROVE BooksMove(j)
  <2>1. books' = books \/ Authorise(ext[d])
    BY <1>21 DEF TrackPayment, AtOnce
  <2> QED BY <1>1, <1>2, <2>1, AuthoriseGrows, UnchangedGrows DEF BooksMove
<1>22. ASSUME PostLost(j) PROVE BooksMove(j)
  <2>1. DocOf(j) \in Docs /\ FormPosted(j) \in Kinds
    BY <1>22 DEF PostLost, IInv, JobInv, JobFits, TypeOK, FormPosted, Kinds
  <2> QED BY <1>22, <1>1, <2>1, PostGrows DEF PostLost, BooksMove
<1>23. ASSUME PostOk(j) PROVE BooksMove(j)
  <2>1. DocOf(j) \in Docs /\ FormPosted(j) \in Kinds
    BY <1>23 DEF PostOk, IInv, JobInv, JobFits, TypeOK, FormPosted, Kinds
  <2> QED BY <1>23, <1>1, <2>1, PostGrows DEF PostOk, BooksMove
<1>24. ASSUME QueueCreate(j) PROVE BooksMove(j)
  BY <1>24, <1>1, UnchangedGrows DEF QueueCreate, BooksMove
<1>25. ASSUME QueueCapture(j) PROVE BooksMove(j)
  BY <1>25, <1>1, UnchangedGrows DEF QueueCapture, BooksMove
<1>26. ASSUME QueueApprove(j) PROVE BooksMove(j)
  BY <1>26, <1>1, UnchangedGrows DEF QueueApprove, BooksMove
<1>27. ASSUME PostGivenUp(j) PROVE BooksMove(j)
  BY <1>27, <1>1, UnchangedGrows DEF PostGivenUp, BooksMove
<1>28. ASSUME RetryBlocked(j) PROVE BooksMove(j)
  BY <1>28, <1>1, UnchangedGrows DEF RetryBlocked, Postpone, BooksMove
<1>29. ASSUME RetryStarts(j) PROVE BooksMove(j)
  BY <1>29, <1>1, UnchangedGrows DEF RetryStarts, BooksMove
<1>30. ASSUME RetryFails(j) PROVE BooksMove(j)
  BY <1>30, <1>1, UnchangedGrows DEF RetryFails, Postpone, BooksMove
<1>31. ASSUME RetryDropped(j) PROVE BooksMove(j)
  BY <1>31, <1>1, UnchangedGrows DEF RetryDropped, BooksMove
<1>32. ASSUME NameInvoice(j) PROVE BooksMove(j)
  BY <1>32, <1>1, UnchangedGrows DEF NameInvoice, BooksMove
<1>33. ASSUME RestateInvoice(j) PROVE BooksMove(j)
  BY <1>33, <1>1, UnchangedGrows DEF RestateInvoice, BooksMove
<1>34. ASSUME NameBill(j) PROVE BooksMove(j)
  BY <1>34, <1>1, UnchangedGrows DEF NameBill, BooksMove
<1>35. ASSUME SavePurchaseOrder(j) PROVE BooksMove(j)
  BY <1>35, <1>1, UnchangedGrows DEF SavePurchaseOrder, BooksMove
<1>36. ASSUME NameExpense(j) PROVE BooksMove(j)
  BY <1>36, <1>1, UnchangedGrows DEF NameExpense, BooksMove
<1>37. ASSUME RecordCapture(j) PROVE BooksMove(j)
  BY <1>37, <1>1, UnchangedGrows DEF RecordCapture, BooksMove
<1>38. ASSUME RecordApproval(j) PROVE BooksMove(j)
  BY <1>38, <1>1, UnchangedGrows DEF RecordApproval, BooksMove
<1>39. ASSUME LinkApproval(j) PROVE BooksMove(j)
  BY <1>39, <1>1, UnchangedGrows DEF LinkApproval, BooksMove
<1>40. ASSUME Sent(j) PROVE BooksMove(j)
  BY <1>40, <1>1, UnchangedGrows DEF Sent, BooksMove
<1>41. ASSUME NameRetried(j) PROVE BooksMove(j)
  BY <1>41, <1>1, UnchangedGrows DEF NameRetried, BooksMove
<1>42. ASSUME NameRetriedFails(j) PROVE BooksMove(j)
  BY <1>42, <1>1, UnchangedGrows DEF NameRetriedFails, Postpone, BooksMove
<1>43. ASSUME RetryDone(j) PROVE BooksMove(j)
  BY <1>43, <1>1, UnchangedGrows DEF RetryDone, BooksMove
<1>44. ASSUME NotifyFails(j) PROVE BooksMove(j)
  BY <1>44, <1>1, UnchangedGrows DEF NotifyFails, Postpone, BooksMove
<1>45. ASSUME AuthoriseOk(j) PROVE BooksMove(j)
  BY <1>45, <1>1, AuthoriseGrows DEF AuthoriseOk, BooksMove
<1>46. ASSUME AuthoriseFails(j) PROVE BooksMove(j)
  BY <1>46, <1>1, AuthoriseGrows, UnchangedGrows DEF AuthoriseFails, BooksMove
<1>47. ASSUME RecordAuthorised(j) PROVE BooksMove(j)
  BY <1>47, <1>1, UnchangedGrows DEF RecordAuthorised, BooksMove
<1>48. ASSUME PayOk(j) PROVE BooksMove(j)
  <2>1. books' = books \/ Pay(job[j].entry)
    BY <1>48 DEF PayOk
  <2>2. job[j].entry \in 1..Len(books)
    BY <1>48, <1>3 DEF PayOk
  <2> QED BY <1>1, <2>1, <2>2, PayGrows, UnchangedGrows DEF BooksMove
<1>49. ASSUME PayRefused(j) PROVE BooksMove(j)
  BY <1>49, <1>1, UnchangedGrows DEF PayRefused, BooksMove
<1>50. ASSUME PayFails(j) PROVE BooksMove(j)
  <2>1. books' = books \/ Pay(job[j].entry)
    BY <1>50 DEF PayFails
  <2>2. job[j].entry \in 1..Len(books)
    BY <1>50, <1>3 DEF PayFails
  <2> QED BY <1>1, <2>1, <2>2, PayGrows, UnchangedGrows DEF BooksMove
<1>51. ASSUME Die(j) PROVE BooksMove(j)
  BY <1>51, <1>1, UnchangedGrows DEF Die, BooksMove
<1> QED
  BY <1>4, <1>5, <1>6, <1>7, <1>8, <1>9, <1>10, <1>11, <1>12, <1>13, <1>14, <1>15,
     <1>16, <1>17, <1>18, <1>19, <1>20, <1>21, <1>22, <1>23, <1>24, <1>25, <1>26,
     <1>27, <1>28, <1>29, <1>30, <1>31, <1>32, <1>33, <1>34, <1>35, <1>36, <1>37,
     <1>38, <1>39, <1>40, <1>41, <1>42, <1>43, <1>44, <1>45, <1>46, <1>47, <1>48,
     <1>49, <1>50, <1>51
     DEF Step, Ask, Proceed

\* The other jobs stay where they are; nobody forgets.
OthersStay(j) ==
    /\ UNCHANGED << kind, platform >>
    /\ \A q \in Jobs \ {j} : pc'[q] = pc[q] /\ job'[q] = job[q]
    /\ \A d \in Docs : told[d] \subseteq told'[d]
    /\ givenUp \subseteq givenUp' /\ hurt \subseteq hurt'

\* One job moves in a step.
LEMMA OneMoves ==
    ASSUME IInv, NEW j \in Jobs, Step(j)
    PROVE  OthersStay(j)
<1>1. DOMAIN pc = Jobs /\ DOMAIN job = Jobs /\ DOMAIN told = Docs
  BY DEF IInv, TypeOK
<1>2. ASSUME NEW d \in Docs, CreateInvoice(j, d) PROVE OthersStay(j)
  BY <1>2, <1>1 DEF CreateInvoice, Begin, Goto, Keep, OthersStay
<1>3. ASSUME NEW d \in Docs, CreateInvoiceLost(j, d) PROVE OthersStay(j)
  BY <1>3, <1>1 DEF CreateInvoiceLost, AtOnce, Reply, Keep, OthersStay
<1>4. ASSUME NEW d \in Docs, CreateBill(j, d) PROVE OthersStay(j)
  BY <1>4, <1>1 DEF CreateBill, Begin, AtOnce, Goto, Reply, Keep, OthersStay
<1>5. ASSUME NEW d \in Docs, CreatePurchaseOrder(j, d) PROVE OthersStay(j)
  BY <1>5, <1>1 DEF CreatePurchaseOrder, Begin, Goto, Keep, OthersStay
<1>6. ASSUME NEW d \in Docs, CaptureApproved(j, d) PROVE OthersStay(j)
  BY <1>6, <1>1 DEF CaptureApproved, Begin, Goto, Keep, OthersStay
<1>7. ASSUME NEW d \in Docs, CapturePending(j, d) PROVE OthersStay(j)
  BY <1>7, <1>1 DEF CapturePending, AtOnce, Reply, Keep, OthersStay
<1>8. ASSUME NEW d \in Docs, ApproveExpense(j, d) PROVE OthersStay(j)
  BY <1>8, <1>1 DEF ApproveExpense, Begin, Goto, Keep, OthersStay
<1>9. ASSUME NEW d \in Docs, EditExpense(j, d) PROVE OthersStay(j)
  BY <1>9, <1>1 DEF EditExpense, Begin, AtOnce, Goto, Reply, Keep, OthersStay
<1>10. ASSUME NEW d \in Docs, RejectExpense(j, d) PROVE OthersStay(j)
  BY <1>10, <1>1 DEF RejectExpense, AtOnce, Reply, Keep, OthersStay
<1>11. ASSUME NEW d \in Docs, DeleteExpense(j, d) PROVE OthersStay(j)
  BY <1>11, <1>1 DEF DeleteExpense, AtOnce, Reply, Keep, OthersStay
<1>12. ASSUME NEW d \in Docs, SendInvoice(j, d) PROVE OthersStay(j)
  BY <1>12, <1>1 DEF SendInvoice, Begin, Goto, Keep, OthersStay
<1>13. ASSUME NEW d \in Docs, ApproveInvoice(j, d) PROVE OthersStay(j)
  BY <1>13, <1>1 DEF ApproveInvoice, Begin, AtOnce, Goto, Reply, Keep, OthersStay
<1>14. ASSUME NEW d \in Docs, ApproveInBatch(j, d) PROVE OthersStay(j)
  BY <1>14, <1>1 DEF ApproveInBatch, Begin, Goto, Keep, OthersStay
<1>15. ASSUME NEW d \in Docs, ApprovePurchaseOrder(j, d) PROVE OthersStay(j)
  BY <1>15, <1>1 DEF ApprovePurchaseOrder, Begin, Goto, Keep, OthersStay
<1>16. ASSUME NEW d \in Docs, ReceivePurchaseOrder(j, d) PROVE OthersStay(j)
  BY <1>16, <1>1 DEF ReceivePurchaseOrder, AtOnce, Reply, Keep, OthersStay
<1>17. ASSUME NEW d \in Docs, MarkPaid(j, d) PROVE OthersStay(j)
  BY <1>17, <1>1 DEF MarkPaid, Begin, AtOnce, Goto, Reply, Keep, OthersStay
<1>18. ASSUME NEW d \in Docs, Reconcile(j, d) PROVE OthersStay(j)
  BY <1>18, <1>1 DEF Reconcile, Begin, AtOnce, Goto, Reply, Keep, OthersStay
<1>19. ASSUME NEW d \in Docs, TrackPayment(j, d) PROVE OthersStay(j)
  BY <1>19, <1>1 DEF TrackPayment, Begin, AtOnce, Goto, Reply, Keep, OthersStay
<1>20. ASSUME PostLost(j) PROVE OthersStay(j)
  BY <1>20, <1>1 DEF PostLost, Keep, OthersStay
<1>21. ASSUME PostOk(j) PROVE OthersStay(j)
  BY <1>21, <1>1 DEF PostOk, Goto, Keep, OthersStay
<1>22. ASSUME QueueCreate(j) PROVE OthersStay(j)
  BY <1>22, <1>1 DEF QueueCreate, Enqueue, Goto, Reply, Keep, OthersStay
<1>23. ASSUME QueueCapture(j) PROVE OthersStay(j)
  BY <1>23, <1>1
     DEF QueueCapture, Lose, Fault, Enqueue, Goto, Reply, Keep, OthersStay
<1>24. ASSUME QueueApprove(j) PROVE OthersStay(j)
  BY <1>24, <1>1 DEF QueueApprove, Enqueue, Goto, Reply, Keep, OthersStay
<1>25. ASSUME PostGivenUp(j) PROVE OthersStay(j)
  BY <1>25, <1>1 DEF PostGivenUp, Answer, Goto, Reply, Keep, OthersStay
<1>26. ASSUME RetryBlocked(j) PROVE OthersStay(j)
  BY <1>26, <1>1 DEF RetryBlocked, Postpone, Goto, Keep, OthersStay
<1>27. ASSUME RetryStarts(j) PROVE OthersStay(j)
  BY <1>27, <1>1 DEF RetryStarts, Goto, Keep, OthersStay
<1>28. ASSUME RetryFails(j) PROVE OthersStay(j)
  BY <1>28, <1>1 DEF RetryFails, Postpone, Goto, Keep, OthersStay
<1>29. ASSUME RetryDropped(j) PROVE OthersStay(j)
  BY <1>29, <1>1 DEF RetryDropped, Goto, Keep, OthersStay
<1>30. ASSUME NameInvoice(j) PROVE OthersStay(j)
  BY <1>30, <1>1 DEF NameInvoice, Lose, Fault, Goto, Keep, OthersStay
<1>31. ASSUME RestateInvoice(j) PROVE OthersStay(j)
  BY <1>31, <1>1 DEF RestateInvoice, Answer, Goto, Reply, Keep, OthersStay
<1>32. ASSUME NameBill(j) PROVE OthersStay(j)
  BY <1>32, <1>1 DEF NameBill, Lose, Fault, Answer, Goto, Reply, Keep, OthersStay
<1>33. ASSUME SavePurchaseOrder(j) PROVE OthersStay(j)
  BY <1>33, <1>1
     DEF SavePurchaseOrder, Lose, Fault, Answer, Goto, Reply, Keep, OthersStay
<1>34. ASSUME NameExpense(j) PROVE OthersStay(j)
  BY <1>34, <1>1 DEF NameExpense, Lose, Fault, Goto, Keep, OthersStay
<1>35. ASSUME RecordCapture(j) PROVE OthersStay(j)
  BY <1>35, <1>1
     DEF RecordCapture, Lose, Fault, Answer, Goto, Reply, Keep, OthersStay
<1>36. ASSUME RecordApproval(j) PROVE OthersStay(j)
  BY <1>36, <1>1 DEF RecordApproval, Answer, Goto, Reply, Keep, OthersStay
<1>37. ASSUME LinkApproval(j) PROVE OthersStay(j)
  BY <1>37, <1>1 DEF LinkApproval, Answer, Goto, Reply, Keep, OthersStay
<1>38. ASSUME Sent(j) PROVE OthersStay(j)
  BY <1>38, <1>1 DEF Sent, Answer, Goto, Reply, Keep, OthersStay
<1>39. ASSUME NameRetried(j) PROVE OthersStay(j)
  BY <1>39, <1>1 DEF NameRetried, Goto, Keep, OthersStay
<1>40. ASSUME NameRetriedFails(j) PROVE OthersStay(j)
  BY <1>40, <1>1 DEF NameRetriedFails, Postpone, Goto, Keep, OthersStay
<1>41. ASSUME RetryDone(j) PROVE OthersStay(j)
  BY <1>41, <1>1 DEF RetryDone, Answer, Goto, Reply, Keep, OthersStay
<1>42. ASSUME NotifyFails(j) PROVE OthersStay(j)
  BY <1>42, <1>1 DEF NotifyFails, Postpone, Goto, Keep, OthersStay
<1>43. ASSUME AuthoriseOk(j) PROVE OthersStay(j)
  BY <1>43, <1>1 DEF AuthoriseOk, Goto, Keep, OthersStay
<1>44. ASSUME AuthoriseFails(j) PROVE OthersStay(j)
  BY <1>44, <1>1 DEF AuthoriseFails, Answer, Goto, Reply, Keep, OthersStay
<1>45. ASSUME RecordAuthorised(j) PROVE OthersStay(j)
  BY <1>45, <1>1 DEF RecordAuthorised, Answer, Goto, Reply, Keep, OthersStay
<1>46. ASSUME PayOk(j) PROVE OthersStay(j)
  BY <1>46, <1>1 DEF PayOk, Answer, Goto, Reply, Keep, OthersStay
<1>47. ASSUME PayRefused(j) PROVE OthersStay(j)
  BY <1>47, <1>1 DEF PayRefused, Lose, Fault, Answer, Goto, Reply, Keep, OthersStay
<1>48. ASSUME PayFails(j) PROVE OthersStay(j)
  BY <1>48, <1>1 DEF PayFails, Answer, Goto, Reply, Keep, OthersStay
<1>49. ASSUME Die(j) PROVE OthersStay(j)
  BY <1>49, <1>1 DEF Die, Lose, Fault, Goto, Keep, OthersStay
<1> QED
  BY <1>2, <1>3, <1>4, <1>5, <1>6, <1>7, <1>8, <1>9, <1>10, <1>11, <1>12, <1>13,
     <1>14, <1>15, <1>16, <1>17, <1>18, <1>19, <1>20, <1>21, <1>22, <1>23, <1>24,
     <1>25, <1>26, <1>27, <1>28, <1>29, <1>30, <1>31, <1>32, <1>33, <1>34, <1>35,
     <1>36, <1>37, <1>38, <1>39, <1>40, <1>41, <1>42, <1>43, <1>44, <1>45, <1>46,
     <1>47, <1>48, <1>49
     DEF Step, Ask, Proceed

\* An entry that the row of a document may name.
OwnEntry(d, i) ==
    /\ i \in 1..Len(books)
    /\ books[i].doc = d
    /\ books[i].form \in FormsOf[kind[d]]

\* A step inserts a row, names an entry in one, sets its status, or deletes it.
RowMoves(d) ==
    \/ /\ row[d] = "none"
       /\ \E status \in Statuses \ {"none"}, i \in 0..Len(books) :
             (i # 0 => OwnEntry(d, i)) /\ Insert(d, status, i)
    \/ \E i \in 1..Len(books) : OwnEntry(d, i) /\ Name(d, i)
    \/ \E status \in Statuses \ {"none"} : SetStatus(d, status)
    \/ /\ kind[d] = "expense"
       /\ row' = [row EXCEPT ![d] = "none"]
       /\ ext' = [ext EXCEPT ![d] = 0]
       /\ UNCHANGED rowId
TableMoves == UNCHANGED table \/ \E d \in Docs : RowMoves(d)

\* Every step does one of these to the table.
LEMMA TableStep ==
    ASSUME IInv, NEW j \in Jobs, Step(j)
    PROVE  TableMoves
<1>1. pc[j] # "free" => DocOf(j) \in Docs /\ kind[DocOf(j)] \in Kinds
  BY DEF IInv, JobInv, JobFits, TypeOK
<1>2. /\ pc[j] \in {"posted", "recording", "linking"}
      /\ \/ Command(j) # "retry"
         \/ kind[DocOf(j)] \in {"invoice", "expense"}
      => OwnEntry(DocOf(j), job[j].entry)
  BY DEF IInv, JobInv, JobHoldsEntry, OwnEntry
<1>3. \A d \in Docs : kind[d] = "invoice" =>
                      \A i \in EntriesOf(d) : OwnEntry(d, i)
  BY LenProperties
     DEF IInv, TypeOK, RowInv, InvoicesAreInvoices, OwnEntry, EntriesOf,
     FormsOf
<1>4. Len(books) \in Nat
  BY LenProperties DEF IInv, TypeOK
<1>5. \A d \in Docs, i \in 0..Len(books) : OwnEntry(d, i) => i \in 1..Len(books)
  BY DEF OwnEntry
<1>6. ASSUME NEW d \in Docs, CreateInvoice(j, d) PROVE TableMoves
  BY <1>6, <1>1, <1>2, <1>3, <1>4 DEF CreateInvoice, TableMoves, RowMoves, Statuses
<1>7. ASSUME NEW d \in Docs, CreateInvoiceLost(j, d) PROVE TableMoves
  BY <1>7 DEF CreateInvoiceLost, AtOnce, TableMoves
<1>8. ASSUME NEW d \in Docs, CreateBill(j, d) PROVE TableMoves
  BY <1>8, <1>1, <1>2, <1>3, <1>4
     DEF CreateBill, AtOnce, TableMoves, RowMoves, Statuses
<1>9. ASSUME NEW d \in Docs, CreatePurchaseOrder(j, d) PROVE TableMoves
  BY <1>9 DEF CreatePurchaseOrder, TableMoves
<1>10. ASSUME NEW d \in Docs, CaptureApproved(j, d) PROVE TableMoves
  BY <1>10 DEF CaptureApproved, TableMoves
<1>11. ASSUME NEW d \in Docs, CapturePending(j, d) PROVE TableMoves
  BY <1>11, <1>1, <1>2, <1>3, <1>4
     DEF CapturePending, AtOnce, TableMoves, RowMoves, Statuses
<1>12. ASSUME NEW d \in Docs, ApproveExpense(j, d) PROVE TableMoves
  BY <1>12 DEF ApproveExpense, TableMoves
<1>13. ASSUME NEW d \in Docs, EditExpense(j, d) PROVE TableMoves
  BY <1>13 DEF EditExpense, AtOnce, TableMoves
<1>14. ASSUME NEW d \in Docs, RejectExpense(j, d) PROVE TableMoves
  BY <1>14, <1>1, <1>2, <1>3, <1>4
     DEF RejectExpense, AtOnce, TableMoves, RowMoves, Statuses
<1>15. ASSUME NEW d \in Docs, DeleteExpense(j, d) PROVE TableMoves
  BY <1>15, <1>1, <1>2, <1>3, <1>4
     DEF DeleteExpense, AtOnce, TableMoves, RowMoves, Statuses
<1>16. ASSUME NEW d \in Docs, SendInvoice(j, d) PROVE TableMoves
  BY <1>16 DEF SendInvoice, TableMoves
<1>17. ASSUME NEW d \in Docs, ApproveInvoice(j, d) PROVE TableMoves
  <2>1. \/ \E i \in EntriesOf(d) : Name(d, i)
        \/ UNCHANGED table
    BY <1>17 DEF ApproveInvoice
  <2>2. \A i \in EntriesOf(d) : i \in 1..Len(books) /\ OwnEntry(d, i)
    BY <1>17, <1>3 DEF ApproveInvoice, OwnEntry
  <2> QED BY <2>1, <2>2 DEF TableMoves, RowMoves
<1>18. ASSUME NEW d \in Docs, ApproveInBatch(j, d) PROVE TableMoves
  BY <1>18 DEF ApproveInBatch, TableMoves
<1>19. ASSUME NEW d \in Docs, ApprovePurchaseOrder(j, d) PROVE TableMoves
  BY <1>19 DEF ApprovePurchaseOrder, TableMoves
<1>20. ASSUME NEW d \in Docs, ReceivePurchaseOrder(j, d) PROVE TableMoves
  BY <1>20, <1>1, <1>2, <1>3, <1>4
     DEF ReceivePurchaseOrder, AtOnce, TableMoves, RowMoves, Statuses
<1>21. ASSUME NEW d \in Docs, MarkPaid(j, d) PROVE TableMoves
  BY <1>21, <1>1, <1>2, <1>3, <1>4
     DEF MarkPaid, AtOnce, TableMoves, RowMoves, Statuses
<1>22. ASSUME NEW d \in Docs, Reconcile(j, d) PROVE TableMoves
  BY <1>22, <1>1, <1>2, <1>3, <1>4
     DEF Reconcile, AtOnce, TableMoves, RowMoves, Statuses
<1>23. ASSUME NEW d \in Docs, TrackPayment(j, d) PROVE TableMoves
  BY <1>23, <1>1, <1>2, <1>3, <1>4
     DEF TrackPayment, AtOnce, TableMoves, RowMoves, Statuses
<1>24. ASSUME PostLost(j) PROVE TableMoves
  BY <1>24 DEF PostLost, TableMoves
<1>25. ASSUME PostOk(j) PROVE TableMoves
  BY <1>25 DEF PostOk, TableMoves
<1>26. ASSUME QueueCreate(j) PROVE TableMoves
  BY <1>26 DEF QueueCreate, TableMoves
<1>27. ASSUME QueueCapture(j) PROVE TableMoves
  BY <1>27, <1>1, <1>2, <1>3, <1>4 DEF QueueCapture, TableMoves, RowMoves, Statuses
<1>28. ASSUME QueueApprove(j) PROVE TableMoves
  BY <1>28, <1>1, <1>2, <1>3, <1>4 DEF QueueApprove, TableMoves, RowMoves, Statuses
<1>29. ASSUME PostGivenUp(j) PROVE TableMoves
  BY <1>29 DEF PostGivenUp, TableMoves
<1>30. ASSUME RetryBlocked(j) PROVE TableMoves
  BY <1>30 DEF RetryBlocked, Postpone, TableMoves
<1>31. ASSUME RetryStarts(j) PROVE TableMoves
  BY <1>31 DEF RetryStarts, TableMoves
<1>32. ASSUME RetryFails(j) PROVE TableMoves
  BY <1>32 DEF RetryFails, Postpone, TableMoves
<1>33. ASSUME RetryDropped(j) PROVE TableMoves
  BY <1>33 DEF RetryDropped, TableMoves
<1>34. ASSUME NameInvoice(j) PROVE TableMoves
  <2>1. DocOf(j) \in Docs /\ job[j].entry \in 0..Len(books)
    BY <1>34, <1>1 DEF NameInvoice, IInv, TypeOK
  <2>2. OwnEntry(DocOf(j), job[j].entry)
    BY <1>34, <1>1, <1>2 DEF NameInvoice, Kinds
  <2> QED BY <1>34, <2>1, <2>2, <1>5 DEF NameInvoice, TableMoves, RowMoves, Statuses
<1>35. ASSUME RestateInvoice(j) PROVE TableMoves
  BY <1>35, <1>1, <1>2, <1>3, <1>4
     DEF RestateInvoice, TableMoves, RowMoves, Statuses
<1>36. ASSUME NameBill(j) PROVE TableMoves
  <2>1. DocOf(j) \in Docs /\ job[j].entry \in 0..Len(books)
    BY <1>36, <1>1 DEF NameBill, IInv, TypeOK
  <2>2. OwnEntry(DocOf(j), job[j].entry)
    BY <1>36, <1>1, <1>2 DEF NameBill, Kinds
  <2> QED BY <1>36, <2>1, <2>2, <1>5 DEF NameBill, TableMoves, RowMoves, Statuses
<1>37. ASSUME SavePurchaseOrder(j) PROVE TableMoves
  <2>1. DocOf(j) \in Docs /\ job[j].entry \in 0..Len(books)
    BY <1>37, <1>1 DEF SavePurchaseOrder, IInv, TypeOK
  <2>2. OwnEntry(DocOf(j), job[j].entry)
    BY <1>37, <1>1, <1>2 DEF SavePurchaseOrder, Kinds
  <2> QED BY <1>37, <2>1, <2>2, <1>5
     DEF SavePurchaseOrder, TableMoves, RowMoves, Statuses
<1>38. ASSUME NameExpense(j) PROVE TableMoves
  <2>1. DocOf(j) \in Docs /\ job[j].entry \in 0..Len(books)
    BY <1>38, <1>1 DEF NameExpense, IInv, TypeOK
  <2>2. OwnEntry(DocOf(j), job[j].entry)
    BY <1>38, <1>1, <1>2 DEF NameExpense, Kinds
  <2> QED BY <1>38, <2>1, <2>2, <1>5 DEF NameExpense, TableMoves, RowMoves, Statuses
<1>39. ASSUME RecordCapture(j) PROVE TableMoves
  BY <1>39, <1>1, <1>2, <1>3, <1>4 DEF RecordCapture, TableMoves, RowMoves, Statuses
<1>40. ASSUME RecordApproval(j) PROVE TableMoves
  <2>1. DocOf(j) \in Docs /\ job[j].entry \in 0..Len(books)
    BY <1>40, <1>1 DEF RecordApproval, IInv, TypeOK
  <2>2. OwnEntry(DocOf(j), job[j].entry)
    BY <1>40, <1>1, <1>2 DEF RecordApproval, Kinds
  <2> QED BY <1>40, <2>1, <2>2, <1>5
     DEF RecordApproval, TableMoves, RowMoves, Statuses
<1>41. ASSUME LinkApproval(j) PROVE TableMoves
  <2>1. DocOf(j) \in Docs /\ job[j].entry \in 0..Len(books)
    BY <1>41, <1>1 DEF LinkApproval, IInv, TypeOK
  <2>2. OwnEntry(DocOf(j), job[j].entry)
    BY <1>41, <1>1, <1>2 DEF LinkApproval, IInv, JobInv, JobFits
  <2> QED BY <1>41, <2>1, <2>2, <1>5
     DEF LinkApproval, TableMoves, RowMoves, Statuses
<1>42. ASSUME Sent(j) PROVE TableMoves
  BY <1>42 DEF Sent, TableMoves
<1>43. ASSUME NameRetried(j) PROVE TableMoves
  <2>1. DocOf(j) \in Docs /\ job[j].entry \in 0..Len(books)
    BY <1>43, <1>1 DEF NameRetried, IInv, TypeOK
  <2>2. \/ OwnEntry(DocOf(j), job[j].entry)
        \/ kind[DocOf(j)] \notin {"invoice", "expense"}
    BY <1>43, <1>1, <1>2 DEF NameRetried, Kinds
  <2> QED BY <1>43, <2>1, <2>2, <1>5 DEF NameRetried, TableMoves, RowMoves, Statuses
<1>44. ASSUME NameRetriedFails(j) PROVE TableMoves
  BY <1>44 DEF NameRetriedFails, Postpone, TableMoves
<1>45. ASSUME RetryDone(j) PROVE TableMoves
  BY <1>45 DEF RetryDone, TableMoves
<1>46. ASSUME NotifyFails(j) PROVE TableMoves
  BY <1>46 DEF NotifyFails, Postpone, TableMoves
<1>47. ASSUME AuthoriseOk(j) PROVE TableMoves
  BY <1>47 DEF AuthoriseOk, TableMoves
<1>48. ASSUME AuthoriseFails(j) PROVE TableMoves
  BY <1>48 DEF AuthoriseFails, TableMoves
<1>49. ASSUME RecordAuthorised(j) PROVE TableMoves
  BY <1>49, <1>1, <1>2, <1>3, <1>4
     DEF RecordAuthorised, TableMoves, RowMoves, Statuses
<1>50. ASSUME PayOk(j) PROVE TableMoves
  BY <1>50, <1>1, <1>2, <1>3, <1>4 DEF PayOk, TableMoves, RowMoves, Statuses
<1>51. ASSUME PayRefused(j) PROVE TableMoves
  BY <1>51, <1>1, <1>2, <1>3, <1>4 DEF PayRefused, TableMoves, RowMoves, Statuses
<1>52. ASSUME PayFails(j) PROVE TableMoves
  BY <1>52 DEF PayFails, TableMoves
<1>53. ASSUME Die(j) PROVE TableMoves
  BY <1>53 DEF Die, TableMoves
<1> QED
  BY <1>6, <1>7, <1>8, <1>9, <1>10, <1>11, <1>12, <1>13, <1>14, <1>15, <1>16,
     <1>17, <1>18, <1>19, <1>20, <1>21, <1>22, <1>23, <1>24, <1>25, <1>26, <1>27,
     <1>28, <1>29, <1>30, <1>31, <1>32, <1>33, <1>34, <1>35, <1>36, <1>37, <1>38,
     <1>39, <1>40, <1>41, <1>42, <1>43, <1>44, <1>45, <1>46, <1>47, <1>48, <1>49,
     <1>50, <1>51, <1>52, <1>53
     DEF Step, Ask, Proceed

\* What such a move leaves of the rows.
RowsKept ==
    /\ row' \in [Docs -> Statuses]
    /\ rowId' \in [Docs -> Nat]
    /\ ext' \in [Docs -> 0..Len(books')]
    /\ \A d \in Docs : rowId[d] <= rowId'[d]
    /\ \A d \in Docs : kind[d] # "expense" =>
          /\ row[d] # "none" => row'[d] # "none"
          /\ ext[d] # 0 => ext'[d] # 0

\* Whatever a statement writes into a row is an entry of that row's document.
LEMMA RowsHold ==
    ASSUME IInv, NEW j \in Jobs, Step(j)
    PROVE  RowsKept /\ RowNamesItsOwnEntry' /\ RowsHaveIds'
<1>1. TableMoves /\ Grows /\ UNCHANGED kind
  BY TableStep, BooksGrow, OneMoves DEF BooksMove, OthersStay
<1>2. Len(books) \in Nat /\ Len(books') \in Nat /\ Len(books) <= Len(books')
  BY <1>1, LenProperties DEF IInv, TypeOK, Grows
<1> DEFINE Names(d, i) == /\ i \in 1..Len(books')
                          /\ books'[i].doc = d
                          /\ books'[i].form \in FormsOf[kind[d]]
<1>3. ASSUME NEW d \in Docs, NEW i \in 1..Len(books), OwnEntry(d, i)
      PROVE  Names(d, i)
  BY <1>1, <1>2, <1>3 DEF OwnEntry, Grows
<1>4. ASSUME NEW d \in Docs, ext[d] # 0 PROVE row[d] # "none" /\ Names(d, ext[d])
  <2>1. ext[d] \in 1..Len(books) /\ OwnEntry(d, ext[d]) /\ row[d] # "none"
    BY <1>2, <1>4 DEF IInv, TypeOK, RowInv, RowNamesItsOwnEntry, OwnEntry
  <2> QED BY <1>3, <2>1
<1>5. ASSUME NEW d \in Docs, row[d] # "none" PROVE rowId[d] > 0
  BY <1>5 DEF IInv, RowInv, RowsHaveIds
<1> DEFINE Kept(d) == /\ row'[d] \in Statuses
                      /\ rowId'[d] \in Nat
                      /\ rowId[d] <= rowId'[d]
                      /\ row'[d] # "none" => rowId'[d] > 0
                      /\ ext'[d] \in 0..Len(books')
                      /\ ext'[d] # 0 => row'[d] # "none" /\ Names(d, ext'[d])
                      /\ kind[d] # "expense" =>
                            /\ row[d] # "none" => row'[d] # "none"
                            /\ ext[d] # 0 => ext'[d] # 0
<1>6. ASSUME NEW d \in Docs
      PROVE  row'[d] = row[d] /\ rowId'[d] = rowId[d] /\ ext'[d] = ext[d]
                => Kept(d)
  BY <1>2, <1>4, <1>5 DEF IInv, TypeOK
<1>7. /\ DOMAIN row' = Docs /\ DOMAIN rowId' = Docs /\ DOMAIN ext' = Docs
      /\ \A d \in Docs : Kept(d)
  <2>1. CASE UNCHANGED table
    BY <1>6, <2>1 DEF table, IInv, TypeOK
  <2>2. ASSUME NEW d \in Docs, RowMoves(d)
        PROVE  /\ DOMAIN row' = Docs /\ DOMAIN rowId' = Docs
               /\ DOMAIN ext' = Docs
               /\ \A e \in Docs : Kept(e)
    <3>1. /\ DOMAIN row' = Docs /\ DOMAIN rowId' = Docs /\ DOMAIN ext' = Docs
          /\ \A e \in Docs \ {d} :
                row'[e] = row[e] /\ rowId'[e] = rowId[e] /\ ext'[e] = ext[e]
      BY <2>2 DEF RowMoves, Insert, Name, SetStatus, IInv, TypeOK
    <3>2. /\ row[d] \in Statuses /\ "none" \in Statuses /\ rowId[d] \in Nat
          /\ ext[d] \in 0..Len(books')
      BY <1>2 DEF IInv, TypeOK, Statuses
    <3>3. ext[d] # 0 => row[d] # "none" /\ Names(d, ext[d])
      BY <1>4
    <3>4. row[d] # "none" => rowId[d] > 0
      BY <1>5
    <3> HIDE DEF Names
    <3>5. Kept(d)
      <4>1. ASSUME row[d] = "none",
                   NEW status \in Statuses \ {"none"}, NEW i \in 0..Len(books),
                   i # 0 => OwnEntry(d, i), Insert(d, status, i)
            PROVE  Kept(d)
        <5>1. /\ row'[d] = status /\ rowId'[d] = rowId[d] + 1 /\ ext'[d] = i
              /\ rowId[d] \in Nat /\ ext[d] = 0
          BY <1>4, <4>1 DEF Insert, IInv, TypeOK
        <5>2. i # 0 => Names(d, i)
          BY <1>2, <1>3, <4>1
        <5> QED BY <1>2, <4>1, <5>1, <5>2
      <4>2. ASSUME NEW i \in 1..Len(books), OwnEntry(d, i), Name(d, i)
            PROVE  Kept(d)
        <5>1. /\ row'[d] = row[d] /\ rowId'[d] = rowId[d]
              /\ ext'[d] = IF row[d] = "none" THEN ext[d] ELSE i
          BY <4>2 DEF Name, IInv, TypeOK
        <5>2. Names(d, i)
          BY <1>3, <4>2
        <5> QED BY <1>2, <3>2, <3>3, <3>4, <4>2, <5>1, <5>2
      <4>3. ASSUME NEW status \in Statuses \ {"none"}, SetStatus(d, status)
            PROVE  Kept(d)
        <5>1. /\ row'[d] = IF row[d] = "none" THEN "none" ELSE status
              /\ rowId'[d] = rowId[d] /\ ext'[d] = ext[d]
          BY <4>3 DEF SetStatus, IInv, TypeOK
        <5> QED BY <3>2, <3>3, <3>4, <4>3, <5>1
      <4>4. ASSUME kind[d] = "expense", row' = [row EXCEPT ![d] = "none"],
                   ext' = [ext EXCEPT ![d] = 0], UNCHANGED rowId
            PROVE  Kept(d)
        <5>1. row'[d] = "none" /\ rowId'[d] = rowId[d] /\ ext'[d] = 0
          BY <4>4 DEF IInv, TypeOK
        <5> QED BY <1>2, <3>2, <4>4, <5>1
      <4> QED BY <2>2, <4>1, <4>2, <4>3, <4>4 DEF RowMoves
    <3> QED BY <1>6, <3>1, <3>5
  <2> QED BY <1>1, <2>1, <2>2 DEF TableMoves
<1>8. ASSUME NEW d \in Docs, ext'[d] # 0
      PROVE  books'[ext'[d]].doc = d /\ books'[ext'[d]].form \in FormsOf[kind'[d]]
  BY <1>1, <1>7, <1>8
<1>9. RowNamesItsOwnEntry'
  BY <1>7, <1>8 DEF RowNamesItsOwnEntry
<1>10. RowsHaveIds'
  BY <1>7 DEF RowsHaveIds
<1>11. /\ row' = [d \in Docs |-> row'[d]]
       /\ rowId' = [d \in Docs |-> rowId'[d]]
       /\ ext' = [d \in Docs |-> ext'[d]]
  <2>1. TableMoves
    BY <1>1
  <2> QED BY <2>1
     DEF TableMoves, RowMoves, Insert, Name, SetStatus, table, IInv, TypeOK
<1>12. RowsKept
  BY <1>7, <1>11 DEF RowsKept
<1> QED BY <1>9, <1>10, <1>12

\* The entries of an invoice stay invoices.
LEMMA InvoicesHold ==
    ASSUME IInv, NEW j \in Jobs, Step(j) PROVE InvoicesAreInvoices'
<1>1. BooksMove(j) /\ UNCHANGED kind
  BY BooksGrow, OneMoves DEF OthersStay
<1>2. /\ Len(books) \in Nat /\ Len(books') \in Nat
      /\ \A i \in 1..Len(books) : books'[i].doc = books[i].doc
                                  /\ books'[i].form = books[i].form
  BY <1>1, LenProperties DEF BooksMove, Grows, IInv, TypeOK
<1>3. \A i \in 1..Len(books) :
        kind[books[i].doc] = "invoice" => books[i].form = "invoice"
  BY DEF IInv, RowInv, InvoicesAreInvoices
<1>4. CASE Len(books') = Len(books)
  BY <1>1, <1>2, <1>3, <1>4 DEF InvoicesAreInvoices
<1>5. CASE pc[j] = "posting" /\ Post(DocOf(j), FormPosted(j))
  <2>1. DocOf(j) \in Docs /\ FormPosted(j) \in Kinds
    BY <1>5 DEF IInv, JobInv, JobFits, TypeOK, FormPosted, Kinds
  <2>2. /\ Len(books') \in Len(books) + 1..Len(books) +
                             (IF FormPosted(j) = "expense" THEN 2 ELSE 1)
        /\ \A i \in Len(books) + 1..Len(books') : books'[i].doc = DocOf(j)
        /\ books'[Len(books')].form \in FormsOf[FormPosted(j)]
    BY <1>5, <2>1, PostGrows DEF IInv, TypeOK
  <2>3. CASE kind[DocOf(j)] = "invoice"
    <3>1. FormPosted(j) = "invoice"
      BY <2>3 DEF FormPosted
    <3>2. books'[Len(books')].form = "invoice" /\ Len(books') = Len(books) + 1
      BY <1>2, <2>2, <3>1 DEF FormsOf
    <3>3. \A i \in 1..Len(books') : i \in 1..Len(books) \/ i = Len(books')
      BY <1>2, <3>2
    <3> QED BY <1>1, <1>2, <1>3, <3>2, <3>3 DEF InvoicesAreInvoices
  <2>4. CASE kind[DocOf(j)] # "invoice"
    <3>1. \A i \in 1..Len(books') :
            i \in 1..Len(books) \/ i \in Len(books) + 1..Len(books')
      BY <1>2
    <3> QED BY <1>1, <1>2, <1>3, <2>2, <2>4, <3>1 DEF InvoicesAreInvoices
  <2> QED BY <2>3, <2>4
<1> QED BY <1>1, <1>4, <1>5 DEF BooksMove

\* The types of everything else.
JobSpace(n) == [cmd : Commands \cup {"none"}, doc : Docs \cup {Nobody},
                id : Nat, entry : 0..n, left : 0..MaxRetries]
ToldTyped == told' \in [Docs -> SUBSET Remembered]
BoundsTyped == commands' \in 0..MaxCommands /\ faults' \in 0..MaxFaults
DocsTyped == givenUp' \in SUBSET Docs /\ hurt' \in SUBSET Docs
JobsTyped == /\ pc' \in [Jobs -> Positions]
             /\ job' \in [Jobs -> JobSpace(Len(books'))]
RestTyped == JobsTyped /\ ToldTyped /\ DocsTyped /\ BoundsTyped

\* A job's position and record are replaced by others.
LEMMA MoveTyped ==
    ASSUME IInv, Grows, NEW j \in Jobs,
           NEW position \in Positions, NEW record \in JobSpace(Len(books')),
           pc' = [pc EXCEPT ![j] = position],
           job' = [job EXCEPT ![j] = record]
    PROVE  JobsTyped
<1>1. Len(books) \in Nat /\ Len(books') \in Nat /\ Len(books) <= Len(books')
  BY LenProperties DEF Grows, IInv, TypeOK
<1>2. /\ job \in [Jobs -> JobSpace(Len(books'))]
      /\ pc \in [Jobs -> Positions]
  BY <1>1 DEF IInv, TypeOK, JobSpace
<1> HIDE DEF JobSpace
<1> QED BY <1>2 DEF JobsTyped

\* A job's old record, with the new number of entries, and the record of a
\* worker that has none.
LEMMA Records ==
    ASSUME IInv, Grows, NEW j \in Jobs
    PROVE  /\ job[j] \in JobSpace(Len(books'))
           /\ NoJob \in JobSpace(Len(books'))
           /\ job' = job => job' = [job EXCEPT ![j] = job[j]]
           /\ pc' = pc => pc' = [pc EXCEPT ![j] = pc[j]]
           /\ pc[j] \in Positions
           /\ Len(books) \in Nat /\ Len(books') \in Nat
           /\ Len(books) <= Len(books')
  BY LenProperties, BoundsAssumption DEF Grows, IInv, TypeOK, JobSpace, NoJob

\* The helpers of the actions keep the types of what they write.
LEMMA BeginTyped ==
    ASSUME IInv, Grows, RowsKept, NEW j \in Jobs, NEW d \in Docs,
           NEW cmd \in Commands, NEW position \in Positions,
           NEW i \in 0..Len(books), Begin(j, cmd, d, position, i), UNCHANGED told
    PROVE  RestTyped
<1> DEFINE record == [cmd |-> cmd, doc |-> d, id |-> rowId'[d], entry |-> i,
                      left |-> 0]
<1>1. record \in JobSpace(Len(books'))
  BY Records, BoundsAssumption DEF RowsKept, JobSpace
<1>2. /\ pc' = [pc EXCEPT ![j] = position]
      /\ job' = [job EXCEPT ![j] = record]
  BY DEF Begin, Goto
<1> HIDE DEF record
<1>3. JobsTyped
  BY <1>1, <1>2, MoveTyped
<1> QED BY <1>3, BoundsAssumption
        DEF Begin, RestTyped, ToldTyped, DocsTyped, BoundsTyped, IInv, TypeOK

LEMMA ReplyTyped ==
    ASSUME IInv, NEW d \in Docs, NEW reply, Reply(d, reply) PROVE ToldTyped
<1>1. told \in [Docs -> SUBSET Remembered]
  BY DEF IInv, TypeOK
<1>2. told[d] \cup ({reply} \cap Remembered) \in SUBSET Remembered
  BY <1>1
<1> QED BY <1>1, <1>2 DEF Reply, ToldTyped

LEMMA AtOnceTyped ==
    ASSUME IInv, Grows, NEW j \in Jobs, NEW d \in Docs, NEW reply,
           AtOnce(j, d, reply)
    PROVE  RestTyped
<1>1. ToldTyped
  BY ReplyTyped DEF AtOnce
<1>2. JobsTyped
  BY Records, MoveTyped DEF AtOnce
<1> QED BY <1>1, <1>2, BoundsAssumption
        DEF AtOnce, RestTyped, DocsTyped, BoundsTyped, IInv, TypeOK

LEMMA AnswerTyped ==
    ASSUME IInv, Grows, NEW j \in Jobs, DocOf(j) \in Docs, NEW reply,
           Answer(j, reply)
    PROVE  JobsTyped /\ ToldTyped
<1>1. ToldTyped
  BY ReplyTyped DEF Answer
<1>2. "free" \in Positions
  BY DEF Positions
<1>3. JobsTyped
  BY <1>2, Records, MoveTyped DEF Answer, Goto
<1> QED BY <1>1, <1>3

LEMMA EnqueueTyped ==
    ASSUME IInv, Grows, NEW j \in Jobs, Enqueue(j) PROVE JobsTyped
<1> DEFINE record == [job[j] EXCEPT !.cmd = "retry", !.left = MaxRetries]
<1>1. record \in JobSpace(Len(books'))
  <2>1. job[j] \in JobSpace(Len(books'))
    BY Records
  <2>2. "retry" \in Commands \cup {"none"} /\ MaxRetries \in 0..MaxRetries
    BY BoundsAssumption DEF Commands
  <2> QED BY <2>1, <2>2 DEF JobSpace
<1>2. "waiting" \in Positions
  BY DEF Positions
<1>3. job' = [job EXCEPT ![j] = record] /\ pc' = [pc EXCEPT ![j] = "waiting"]
  BY DEF Enqueue, Goto, IInv, TypeOK
<1> HIDE DEF record
<1> QED BY <1>1, <1>2, <1>3, MoveTyped

LEMMA PostponeTyped ==
    ASSUME IInv, Grows, NEW j \in Jobs, DocOf(j) \in Docs, Postpone(j),
           UNCHANGED faults \/ Fault
    PROVE  RestTyped
<1>1. ASSUME job[j].left > 0, Goto(j, "waiting"),
             job' = [job EXCEPT ![j].left = @ - 1]
      PROVE  JobsTyped
  <2> DEFINE record == [job[j] EXCEPT !.left = @ - 1]
  <2>1. record \in JobSpace(Len(books'))
    <3>1. job[j] \in JobSpace(Len(books'))
      BY Records
    <3>2. job[j].left - 1 \in 0..MaxRetries
      BY <1>1, <3>1, BoundsAssumption DEF JobSpace
    <3> QED BY <3>1, <3>2 DEF JobSpace
  <2>2. job' = [job EXCEPT ![j] = record] /\ pc' = [pc EXCEPT ![j] = "waiting"]
    BY <1>1 DEF Goto, IInv, TypeOK
  <2>3. "waiting" \in Positions
    BY DEF Positions
  <2> HIDE DEF record
  <2> QED BY <2>1, <2>2, <2>3, MoveTyped
<1>2. ASSUME Goto(j, "free"), job' = [job EXCEPT ![j] = NoJob] PROVE JobsTyped
  <2>1. "free" \in Positions
    BY DEF Positions
  <2> QED BY <1>2, <2>1, Records, MoveTyped DEF Goto
<1>3. JobsTyped
  BY <1>1, <1>2 DEF Postpone
<1>4. ToldTyped /\ DocsTyped
  BY DEF Postpone, ToldTyped, DocsTyped, IInv, TypeOK
<1>5. BoundsTyped
  BY BoundsAssumption DEF Postpone, Fault, BoundsTyped, IInv, TypeOK
<1> QED BY <1>3, <1>4, <1>5 DEF RestTyped

\* A step keeps the types.
LEMMA RestHoldsTypes ==
    ASSUME IInv, NEW j \in Jobs, Step(j)
    PROVE  RestTyped
<1>1. /\ Grows /\ RowsKept
      /\ \A i \in 1..Len(books) : i \in 0..Len(books)
  BY BooksGrow, RowsHold, LenProperties DEF BooksMove, IInv, TypeOK
<1>2. pc[j] # "free" => DocOf(j) \in Docs
  BY DEF IInv, JobInv, JobFits
<1>3. /\ 0 \in 0..Len(books)
      /\ \A d \in Docs : ext[d] \in 0..Len(books)
      /\ \A d \in Docs : \A i \in EntriesOf(d) : i \in 0..Len(books)
  BY LenProperties DEF IInv, TypeOK, EntriesOf
<1>4. BoundsTyped \/ UNCHANGED << commands, faults >> => BoundsTyped
  BY DEF BoundsTyped, IInv, TypeOK
<1>5. ToldTyped \/ UNCHANGED told => ToldTyped
  BY DEF ToldTyped, IInv, TypeOK
<1>6. DocsTyped \/ UNCHANGED << givenUp, hurt >> => DocsTyped
  BY DEF DocsTyped, IInv, TypeOK
<1>7. JobsTyped \/ UNCHANGED << pc, job >> => JobsTyped
  BY <1>1, Records, MoveTyped
<1>8. ASSUME NEW d \in Docs, CreateInvoice(j, d) PROVE RestTyped
  BY <1>8, <1>1, <1>3, BeginTyped DEF CreateInvoice, Commands, Positions
<1>9. ASSUME NEW d \in Docs, CreateInvoiceLost(j, d) PROVE RestTyped
  BY <1>9, <1>1, <1>3, AtOnceTyped DEF CreateInvoiceLost
<1>10. ASSUME NEW d \in Docs, CreateBill(j, d) PROVE RestTyped
  BY <1>10, <1>1, <1>3, BeginTyped, AtOnceTyped DEF CreateBill, Commands, Positions
<1>11. ASSUME NEW d \in Docs, CreatePurchaseOrder(j, d) PROVE RestTyped
  BY <1>11, <1>1, <1>3, BeginTyped DEF CreatePurchaseOrder, Commands, Positions
<1>12. ASSUME NEW d \in Docs, CaptureApproved(j, d) PROVE RestTyped
  BY <1>12, <1>1, <1>3, BeginTyped DEF CaptureApproved, Commands, Positions
<1>13. ASSUME NEW d \in Docs, CapturePending(j, d) PROVE RestTyped
  BY <1>13, <1>1, <1>3, AtOnceTyped DEF CapturePending
<1>14. ASSUME NEW d \in Docs, ApproveExpense(j, d) PROVE RestTyped
  BY <1>14, <1>1, <1>3, BeginTyped DEF ApproveExpense, Commands, Positions
<1>15. ASSUME NEW d \in Docs, EditExpense(j, d) PROVE RestTyped
  BY <1>15, <1>1, <1>3, BeginTyped, AtOnceTyped DEF EditExpense, Commands, Positions
<1>16. ASSUME NEW d \in Docs, RejectExpense(j, d) PROVE RestTyped
  BY <1>16, <1>1, <1>3, AtOnceTyped DEF RejectExpense
<1>17. ASSUME NEW d \in Docs, DeleteExpense(j, d) PROVE RestTyped
  BY <1>17, <1>1, <1>3, AtOnceTyped DEF DeleteExpense
<1>18. ASSUME NEW d \in Docs, SendInvoice(j, d) PROVE RestTyped
  BY <1>18, <1>1, <1>3, BeginTyped DEF SendInvoice, Commands, Positions
<1>19. ASSUME NEW d \in Docs, ApproveInvoice(j, d) PROVE RestTyped
  BY <1>19, <1>1, <1>3, BeginTyped, AtOnceTyped
     DEF ApproveInvoice, Commands, Positions
<1>20. ASSUME NEW d \in Docs, ApproveInBatch(j, d) PROVE RestTyped
  BY <1>20, <1>1, <1>3, BeginTyped DEF ApproveInBatch, Commands, Positions
<1>21. ASSUME NEW d \in Docs, ApprovePurchaseOrder(j, d) PROVE RestTyped
  BY <1>21, <1>1, <1>3, BeginTyped DEF ApprovePurchaseOrder, Commands, Positions
<1>22. ASSUME NEW d \in Docs, ReceivePurchaseOrder(j, d) PROVE RestTyped
  BY <1>22, <1>1, <1>3, AtOnceTyped DEF ReceivePurchaseOrder
<1>23. ASSUME NEW d \in Docs, MarkPaid(j, d) PROVE RestTyped
  BY <1>23, <1>1, <1>3, BeginTyped, AtOnceTyped DEF MarkPaid, Commands, Positions
<1>24. ASSUME NEW d \in Docs, Reconcile(j, d) PROVE RestTyped
  BY <1>24, <1>1, <1>3, BeginTyped, AtOnceTyped DEF Reconcile, Commands, Positions
<1>25. ASSUME NEW d \in Docs, TrackPayment(j, d) PROVE RestTyped
  BY <1>25, <1>1, <1>3, BeginTyped, AtOnceTyped
     DEF TrackPayment, Commands, Positions
<1>26. ASSUME PostLost(j) PROVE RestTyped
  <2>1. JobsTyped /\ ToldTyped
    BY <1>26, <1>5, <1>7 DEF PostLost
  <2>2. DocsTyped /\ BoundsTyped
    BY <1>26, <1>6, BoundsAssumption DEF PostLost, Fault, BoundsTyped, IInv, TypeOK
  <2> QED BY <2>1, <2>2 DEF RestTyped
<1>27. ASSUME PostOk(j) PROVE RestTyped
  <2>1. JobsTyped /\ ToldTyped
    <3> DEFINE record == [job[j] EXCEPT !.entry = Len(books')]
    <3>1. record \in JobSpace(Len(books'))
      BY <1>1, Records DEF JobSpace
    <3>2. job' = [job EXCEPT ![j] = record] /\ "posted" \in Positions
      BY <1>27 DEF PostOk, Positions, IInv, TypeOK
    <3> HIDE DEF record
    <3> QED BY <1>27, <3>1, <3>2, <1>1, <1>5, MoveTyped DEF PostOk, Goto
  <2>2. DocsTyped /\ BoundsTyped
    BY <1>27, <1>4, <1>6 DEF PostOk, bounds
  <2> QED BY <2>1, <2>2 DEF RestTyped
<1>28. ASSUME QueueCreate(j) PROVE RestTyped
  <2>1. JobsTyped /\ ToldTyped
    BY <1>28, <1>1, <1>2, EnqueueTyped, ReplyTyped DEF QueueCreate
  <2>2. DocsTyped /\ BoundsTyped
    BY <1>28, <1>4, <1>6 DEF QueueCreate, bounds
  <2> QED BY <2>1, <2>2 DEF RestTyped
<1>29. ASSUME QueueCapture(j) PROVE RestTyped
  <2>1. JobsTyped /\ ToldTyped
    BY <1>29, <1>1, <1>2, EnqueueTyped, ReplyTyped DEF QueueCapture
  <2>2. DocsTyped /\ BoundsTyped
    BY <1>29, <1>2, <1>4, <1>6, BoundsAssumption
       DEF QueueCapture, Lose, Fault, DocsTyped, BoundsTyped, IInv, TypeOK
  <2> QED BY <2>1, <2>2 DEF RestTyped
<1>30. ASSUME QueueApprove(j) PROVE RestTyped
  <2>1. JobsTyped /\ ToldTyped
    BY <1>30, <1>1, <1>2, EnqueueTyped, ReplyTyped DEF QueueApprove
  <2>2. DocsTyped /\ BoundsTyped
    BY <1>30, <1>2, <1>4, <1>6, BoundsAssumption
       DEF QueueApprove, Fault, DocsTyped, BoundsTyped, IInv, TypeOK
  <2> QED BY <2>1, <2>2 DEF RestTyped
<1>31. ASSUME PostGivenUp(j) PROVE RestTyped
  <2>1. JobsTyped /\ ToldTyped
    BY <1>31, <1>1, <1>2, AnswerTyped DEF PostGivenUp
  <2>2. DocsTyped /\ BoundsTyped
    BY <1>31, <1>4, <1>6 DEF PostGivenUp, bounds
  <2> QED BY <2>1, <2>2 DEF RestTyped
<1>32. ASSUME RetryBlocked(j) PROVE RestTyped
  BY <1>32, <1>1, <1>2, PostponeTyped DEF RetryBlocked
<1>33. ASSUME RetryStarts(j) PROVE RestTyped
  <2>1. JobsTyped /\ ToldTyped
    <3>1. \E position \in Positions : Goto(j, position) /\ UNCHANGED << job, told >>
      BY <1>33 DEF RetryStarts, Positions
    <3> QED BY <3>1, <1>1, <1>5, Records, MoveTyped DEF Goto
  <2>2. DocsTyped /\ BoundsTyped
    BY <1>33, <1>4, <1>6 DEF RetryStarts, bounds
  <2> QED BY <2>1, <2>2 DEF RestTyped
<1>34. ASSUME RetryFails(j) PROVE RestTyped
  BY <1>34, <1>1, <1>2, PostponeTyped DEF RetryFails
<1>35. ASSUME RetryDropped(j) PROVE RestTyped
  <2>1. JobsTyped /\ ToldTyped
    <3>1. "free" \in Positions
      BY DEF Positions
    <3> QED BY <1>35, <3>1, <1>1, <1>5, Records, MoveTyped DEF RetryDropped, Goto
  <2>2. DocsTyped /\ BoundsTyped
    BY <1>35, <1>2, <1>4 DEF RetryDropped, bounds, DocsTyped, IInv, TypeOK
  <2> QED BY <2>1, <2>2 DEF RestTyped
<1>36. ASSUME NameInvoice(j) PROVE RestTyped
  <2>1. JobsTyped /\ ToldTyped
    <3>1. \E position \in Positions : Goto(j, position) /\ UNCHANGED << job, told >>
      BY <1>36 DEF NameInvoice, Positions
    <3> QED BY <3>1, <1>1, <1>5, Records, MoveTyped DEF Goto
  <2>2. DocsTyped /\ BoundsTyped
    BY <1>36, <1>2, <1>4, <1>6, BoundsAssumption
       DEF NameInvoice, Lose, Fault, DocsTyped, BoundsTyped, IInv, TypeOK
  <2> QED BY <2>1, <2>2 DEF RestTyped
<1>37. ASSUME RestateInvoice(j) PROVE RestTyped
  <2>1. JobsTyped /\ ToldTyped
    BY <1>37, <1>1, <1>2, AnswerTyped DEF RestateInvoice
  <2>2. DocsTyped /\ BoundsTyped
    BY <1>37, <1>2, <1>4, <1>6, BoundsAssumption
       DEF RestateInvoice, Fault, DocsTyped, BoundsTyped, IInv, TypeOK
  <2> QED BY <2>1, <2>2 DEF RestTyped
<1>38. ASSUME NameBill(j) PROVE RestTyped
  <2>1. JobsTyped /\ ToldTyped
    BY <1>38, <1>1, <1>2, AnswerTyped DEF NameBill
  <2>2. DocsTyped /\ BoundsTyped
    BY <1>38, <1>2, <1>4, <1>6, BoundsAssumption
       DEF NameBill, Lose, Fault, DocsTyped, BoundsTyped, IInv, TypeOK
  <2> QED BY <2>1, <2>2 DEF RestTyped
<1>39. ASSUME SavePurchaseOrder(j) PROVE RestTyped
  <2>1. JobsTyped /\ ToldTyped
    BY <1>39, <1>1, <1>2, AnswerTyped DEF SavePurchaseOrder
  <2>2. DocsTyped /\ BoundsTyped
    BY <1>39, <1>2, <1>4, <1>6, BoundsAssumption
       DEF SavePurchaseOrder, Lose, Fault, DocsTyped, BoundsTyped, IInv, TypeOK
  <2> QED BY <2>1, <2>2 DEF RestTyped
<1>40. ASSUME NameExpense(j) PROVE RestTyped
  <2>1. JobsTyped /\ ToldTyped
    <3>1. \E position \in Positions : Goto(j, position) /\ UNCHANGED << job, told >>
      BY <1>40 DEF NameExpense, Positions
    <3> QED BY <3>1, <1>1, <1>5, Records, MoveTyped DEF Goto
  <2>2. DocsTyped /\ BoundsTyped
    BY <1>40, <1>2, <1>4, <1>6, BoundsAssumption
       DEF NameExpense, Lose, Fault, DocsTyped, BoundsTyped, IInv, TypeOK
  <2> QED BY <2>1, <2>2 DEF RestTyped
<1>41. ASSUME RecordCapture(j) PROVE RestTyped
  <2>1. JobsTyped /\ ToldTyped
    BY <1>41, <1>1, <1>2, AnswerTyped DEF RecordCapture
  <2>2. DocsTyped /\ BoundsTyped
    BY <1>41, <1>2, <1>4, <1>6, BoundsAssumption
       DEF RecordCapture, Lose, Fault, DocsTyped, BoundsTyped, IInv, TypeOK
  <2> QED BY <2>1, <2>2 DEF RestTyped
<1>42. ASSUME RecordApproval(j) PROVE RestTyped
  <2>1. JobsTyped /\ ToldTyped
    <3>1. CASE Answer(j, "error")
      BY <1>42, <3>1, <1>1, <1>2, AnswerTyped DEF RecordApproval
    <3>2. CASE Goto(j, "linking") /\ UNCHANGED << job, told >>
      <4>1. "linking" \in Positions
        BY DEF Positions
      <4> QED BY <3>2, <4>1, <1>1, <1>5, Records, MoveTyped DEF Goto
    <3> QED BY <1>42, <3>1, <3>2 DEF RecordApproval
  <2>2. DocsTyped /\ BoundsTyped
    BY <1>42, <1>2, <1>4, <1>6, BoundsAssumption
       DEF RecordApproval, Fault, DocsTyped, BoundsTyped, IInv, TypeOK
  <2> QED BY <2>1, <2>2 DEF RestTyped
<1>43. ASSUME LinkApproval(j) PROVE RestTyped
  <2>1. JobsTyped /\ ToldTyped
    BY <1>43, <1>1, <1>2, AnswerTyped DEF LinkApproval
  <2>2. DocsTyped /\ BoundsTyped
    BY <1>43, <1>2, <1>4, <1>6, BoundsAssumption
       DEF LinkApproval, Fault, DocsTyped, BoundsTyped, IInv, TypeOK
  <2> QED BY <2>1, <2>2 DEF RestTyped
<1>44. ASSUME Sent(j) PROVE RestTyped
  <2>1. JobsTyped /\ ToldTyped
    BY <1>44, <1>1, <1>2, AnswerTyped DEF Sent
  <2>2. DocsTyped /\ BoundsTyped
    BY <1>44, <1>4, <1>6 DEF Sent, bounds
  <2> QED BY <2>1, <2>2 DEF RestTyped
<1>45. ASSUME NameRetried(j) PROVE RestTyped
  <2>1. JobsTyped /\ ToldTyped
    <3>1. \E position \in Positions : Goto(j, position) /\ UNCHANGED << job, told >>
      BY <1>45 DEF NameRetried, Positions
    <3> QED BY <3>1, <1>1, <1>5, Records, MoveTyped DEF Goto
  <2>2. DocsTyped /\ BoundsTyped
    BY <1>45, <1>4, <1>6 DEF NameRetried, bounds
  <2> QED BY <2>1, <2>2 DEF RestTyped
<1>46. ASSUME NameRetriedFails(j) PROVE RestTyped
  BY <1>46, <1>1, <1>2, PostponeTyped DEF NameRetriedFails
<1>47. ASSUME RetryDone(j) PROVE RestTyped
  <2>1. JobsTyped /\ ToldTyped
    BY <1>47, <1>1, <1>2, AnswerTyped DEF RetryDone
  <2>2. DocsTyped /\ BoundsTyped
    BY <1>47, <1>4, <1>6 DEF RetryDone, bounds
  <2> QED BY <2>1, <2>2 DEF RestTyped
<1>48. ASSUME NotifyFails(j) PROVE RestTyped
  BY <1>48, <1>1, <1>2, PostponeTyped DEF NotifyFails
<1>49. ASSUME AuthoriseOk(j) PROVE RestTyped
  <2>1. JobsTyped /\ ToldTyped
    <3>1. \E position \in Positions : Goto(j, position) /\ UNCHANGED << job, told >>
      BY <1>49 DEF AuthoriseOk, Positions
    <3> QED BY <3>1, <1>1, <1>5, Records, MoveTyped DEF Goto
  <2>2. DocsTyped /\ BoundsTyped
    BY <1>49, <1>4, <1>6 DEF AuthoriseOk, bounds
  <2> QED BY <2>1, <2>2 DEF RestTyped
<1>50. ASSUME AuthoriseFails(j) PROVE RestTyped
  <2>1. JobsTyped /\ ToldTyped
    BY <1>50, <1>1, <1>2, AnswerTyped DEF AuthoriseFails
  <2>2. DocsTyped /\ BoundsTyped
    BY <1>50, <1>2, <1>4, <1>6, BoundsAssumption
       DEF AuthoriseFails, Fault, DocsTyped, BoundsTyped, IInv, TypeOK
  <2> QED BY <2>1, <2>2 DEF RestTyped
<1>51. ASSUME RecordAuthorised(j) PROVE RestTyped
  <2>1. JobsTyped /\ ToldTyped
    BY <1>51, <1>1, <1>2, AnswerTyped DEF RecordAuthorised
  <2>2. DocsTyped /\ BoundsTyped
    BY <1>51, <1>4, <1>6 DEF RecordAuthorised, bounds
  <2> QED BY <2>1, <2>2 DEF RestTyped
<1>52. ASSUME PayOk(j) PROVE RestTyped
  <2>1. JobsTyped /\ ToldTyped
    BY <1>52, <1>1, <1>2, AnswerTyped DEF PayOk
  <2>2. DocsTyped /\ BoundsTyped
    BY <1>52, <1>4, <1>6 DEF PayOk, bounds
  <2> QED BY <2>1, <2>2 DEF RestTyped
<1>53. ASSUME PayRefused(j) PROVE RestTyped
  <2>1. JobsTyped /\ ToldTyped
    BY <1>53, <1>1, <1>2, AnswerTyped DEF PayRefused
  <2>2. DocsTyped /\ BoundsTyped
    BY <1>53, <1>2, <1>4, <1>6, BoundsAssumption
       DEF PayRefused, Lose, Fault, DocsTyped, BoundsTyped, IInv, TypeOK
  <2> QED BY <2>1, <2>2 DEF RestTyped
<1>54. ASSUME PayFails(j) PROVE RestTyped
  <2>1. JobsTyped /\ ToldTyped
    BY <1>54, <1>1, <1>2, AnswerTyped DEF PayFails
  <2>2. DocsTyped /\ BoundsTyped
    BY <1>54, <1>2, <1>4, <1>6, BoundsAssumption
       DEF PayFails, Fault, DocsTyped, BoundsTyped, IInv, TypeOK
  <2> QED BY <2>1, <2>2 DEF RestTyped
<1>55. ASSUME Die(j) PROVE RestTyped
  <2>1. JobsTyped
    <3>1. "free" \in Positions /\ "waiting" \in Positions
      BY DEF Positions
    <3> QED BY <1>55, <3>1, <1>1, Records, MoveTyped DEF Die, Goto
  <2>2. DocsTyped /\ BoundsTyped /\ ToldTyped
    BY <1>55, <1>2, <1>5, BoundsAssumption
       DEF Die, Lose, Fault, DocsTyped, BoundsTyped, IInv, TypeOK
  <2> QED BY <2>1, <2>2 DEF RestTyped
<1> QED
  BY <1>8, <1>9, <1>10, <1>11, <1>12, <1>13, <1>14, <1>15, <1>16, <1>17, <1>18,
     <1>19, <1>20, <1>21, <1>22, <1>23, <1>24, <1>25, <1>26, <1>27, <1>28, <1>29,
     <1>30, <1>31, <1>32, <1>33, <1>34, <1>35, <1>36, <1>37, <1>38, <1>39, <1>40,
     <1>41, <1>42, <1>43, <1>44, <1>45, <1>46, <1>47, <1>48, <1>49, <1>50, <1>51,
     <1>52, <1>53, <1>54, <1>55
     DEF Step, Ask, Proceed

\* Every step keeps the types.
LEMMA TypesHold == ASSUME IInv, NEW j \in Jobs, Step(j) PROVE TypeOK'
<1>1. RestTyped /\ RowsKept /\ BooksMove(j) /\ OthersStay(j)
  BY RestHoldsTypes, RowsHold, BooksGrow, OneMoves
<1> QED BY <1>1 DEF RestTyped, JobsTyped, ToldTyped, DocsTyped, BoundsTyped,
                    JobSpace, RowsKept, BooksMove, Grows, OthersStay, IInv, TypeOK

\* What holds of a job that does not move.
LEMMA OthersHold ==
    ASSUME IInv, NEW j \in Jobs, Step(j), NEW q \in Jobs \ {j}
    PROVE  (JobFits(q) /\ JobHoldsEntry(q) /\ JobIsExplained(q)
               /\ JobIsRecorded(q))'
<1>1. /\ OthersStay(j) /\ RowsKept /\ Grows
      /\ JobFits(q) /\ JobHoldsEntry(q) /\ JobIsExplained(q) /\ JobIsRecorded(q)
  BY OneMoves, RowsHold, BooksGrow DEF BooksMove, IInv, JobInv
<1>2. /\ pc'[q] = pc[q] /\ job'[q] = job[q] /\ kind' = kind
      /\ DocOf(q)' = DocOf(q) /\ Command(q)' = Command(q)
  BY <1>1 DEF OthersStay, DocOf, Command
<1>3. JobFits(q)'
  BY <1>1, <1>2 DEF JobFits
<1>4. JobHoldsEntry(q)'
  <2>1. job[q].entry \in 1..Len(books) => job[q].entry \in 1..Len(books')
    BY <1>1, LenProperties DEF Grows, IInv, TypeOK
  <2> QED BY <1>1, <1>2, <2>1 DEF JobHoldsEntry, Grows
<1>5. JobIsExplained(q)'
  BY <1>1, <1>2 DEF JobIsExplained, JobFits, RowsKept, OthersStay
<1>6. JobIsRecorded(q)'
  <2>1. pc[q] # "free" => rowId[DocOf(q)] \in Nat /\ rowId'[DocOf(q)] \in Nat
    BY <1>1 DEF JobFits, RowsKept, IInv, TypeOK
  <2> QED BY <1>1, <1>2, <2>1 DEF JobIsRecorded, JobFits, RowsKept, OthersStay
<1> QED BY <1>3, <1>4, <1>5, <1>6

\* A retry that is postponed is given up, or waits with one attempt less.
LEMMA Postponed ==
    ASSUME IInv, NEW j \in Jobs, Postpone(j)
    PROVE  \/ pc'[j] = "free" /\ job[j].left = 0 /\ DocOf(j) \in givenUp'
           \/ /\ pc'[j] = "waiting" /\ job[j].left > 0
              /\ job'[j].cmd = job[j].cmd /\ job'[j].doc = job[j].doc
              /\ job'[j].left = job[j].left - 1
<1>1. /\ DOMAIN pc = Jobs /\ DOMAIN job = Jobs
      /\ job[j] \in [cmd : Commands \cup {"none"}, doc : Docs \cup {Nobody},
                    id : Nat, entry : 0..Len(books), left : 0..MaxRetries]
  BY DEF IInv, TypeOK
<1>2. CASE job[j].left > 0 /\ Goto(j, "waiting")
             /\ job' = [job EXCEPT ![j].left = @ - 1]
  <2>1. job'[j] = [job[j] EXCEPT !.left = job[j].left - 1]
    BY <1>1, <1>2
  <2>2. pc'[j] = "waiting"
    BY <1>1, <1>2 DEF Goto
  <2> QED BY <1>1, <1>2, <2>1, <2>2
<1>3. CASE job[j].left = 0 /\ Goto(j, "free") /\ givenUp' = givenUp \cup {DocOf(j)}
  BY <1>1, <1>3 DEF Goto
<1> QED BY <1>2, <1>3 DEF Postpone

\* The job that moves is where its command can be.
LEMMA MoverFits ==
    ASSUME IInv, NEW j \in Jobs, Step(j)
    PROVE  JobFits(j)'
<1>1. JobFits(j) /\ DOMAIN pc = Jobs /\ DOMAIN job = Jobs /\ UNCHANGED kind
  BY OneMoves DEF OthersStay, IInv, JobInv, TypeOK
<1>2. ASSUME NEW d \in Docs, CreateInvoice(j, d) PROVE JobFits(j)'
  BY <1>2, <1>1
     DEF CreateInvoice, Begin, Goto, JobFits, DocOf, Command, Commands, Posting,
         Pays
<1>3. ASSUME NEW d \in Docs, CreateInvoiceLost(j, d) PROVE JobFits(j)'
  BY <1>3, <1>1
     DEF CreateInvoiceLost, AtOnce, JobFits, DocOf, Command, Commands, Posting,
         Pays
<1>4. ASSUME NEW d \in Docs, CreateBill(j, d) PROVE JobFits(j)'
  BY <1>4, <1>1
     DEF CreateBill, Begin, AtOnce, Goto, JobFits, DocOf, Command, Commands,
         Posting, Pays
<1>5. ASSUME NEW d \in Docs, CreatePurchaseOrder(j, d) PROVE JobFits(j)'
  BY <1>5, <1>1
     DEF CreatePurchaseOrder, Begin, Goto, JobFits, DocOf, Command, Commands,
         Posting, Pays
<1>6. ASSUME NEW d \in Docs, CaptureApproved(j, d) PROVE JobFits(j)'
  BY <1>6, <1>1
     DEF CaptureApproved, Begin, Goto, JobFits, DocOf, Command, Commands,
         Posting, Pays
<1>7. ASSUME NEW d \in Docs, CapturePending(j, d) PROVE JobFits(j)'
  BY <1>7, <1>1
     DEF CapturePending, AtOnce, JobFits, DocOf, Command, Commands, Posting,
         Pays
<1>8. ASSUME NEW d \in Docs, ApproveExpense(j, d) PROVE JobFits(j)'
  BY <1>8, <1>1
     DEF ApproveExpense, Begin, Goto, JobFits, DocOf, Command, Commands,
         Posting, Pays
<1>9. ASSUME NEW d \in Docs, EditExpense(j, d) PROVE JobFits(j)'
  BY <1>9, <1>1
     DEF EditExpense, Begin, AtOnce, Goto, JobFits, DocOf, Command, Commands,
         Posting, Pays
<1>10. ASSUME NEW d \in Docs, RejectExpense(j, d) PROVE JobFits(j)'
  BY <1>10, <1>1
     DEF RejectExpense, AtOnce, JobFits, DocOf, Command, Commands, Posting, Pays
<1>11. ASSUME NEW d \in Docs, DeleteExpense(j, d) PROVE JobFits(j)'
  BY <1>11, <1>1
     DEF DeleteExpense, AtOnce, JobFits, DocOf, Command, Commands, Posting, Pays
<1>12. ASSUME NEW d \in Docs, SendInvoice(j, d) PROVE JobFits(j)'
  BY <1>12, <1>1
     DEF SendInvoice, Begin, Goto, JobFits, DocOf, Command, Commands, Posting,
         Pays
<1>13. ASSUME NEW d \in Docs, ApproveInvoice(j, d) PROVE JobFits(j)'
  BY <1>13, <1>1
     DEF ApproveInvoice, Begin, AtOnce, Goto, JobFits, DocOf, Command, Commands,
         Posting, Pays
<1>14. ASSUME NEW d \in Docs, ApproveInBatch(j, d) PROVE JobFits(j)'
  BY <1>14, <1>1
     DEF ApproveInBatch, Begin, Goto, JobFits, DocOf, Command, Commands,
         Posting, Pays
<1>15. ASSUME NEW d \in Docs, ApprovePurchaseOrder(j, d) PROVE JobFits(j)'
  BY <1>15, <1>1
     DEF ApprovePurchaseOrder, Begin, Goto, JobFits, DocOf, Command, Commands,
         Posting, Pays
<1>16. ASSUME NEW d \in Docs, ReceivePurchaseOrder(j, d) PROVE JobFits(j)'
  BY <1>16, <1>1
     DEF ReceivePurchaseOrder, AtOnce, JobFits, DocOf, Command, Commands,
         Posting, Pays
<1>17. ASSUME NEW d \in Docs, MarkPaid(j, d) PROVE JobFits(j)'
  BY <1>17, <1>1
     DEF MarkPaid, Begin, AtOnce, Goto, JobFits, DocOf, Command, Commands,
         Posting, Pays
<1>18. ASSUME NEW d \in Docs, Reconcile(j, d) PROVE JobFits(j)'
  BY <1>18, <1>1
     DEF Reconcile, Begin, AtOnce, Goto, JobFits, DocOf, Command, Commands,
         Posting, Pays
<1>19. ASSUME NEW d \in Docs, TrackPayment(j, d) PROVE JobFits(j)'
  BY <1>19, <1>1
     DEF TrackPayment, Begin, AtOnce, Goto, JobFits, DocOf, Command, Commands,
         Posting, Pays
<1>20. ASSUME PostLost(j) PROVE JobFits(j)'
  BY <1>20, <1>1 DEF PostLost, JobFits, DocOf, Command, Commands, Posting, Pays
<1>21. ASSUME PostOk(j) PROVE JobFits(j)'
  BY <1>21, <1>1 DEF PostOk, Goto, JobFits, DocOf, Command, Commands, Posting, Pays
<1>22. ASSUME QueueCreate(j) PROVE JobFits(j)'
  BY <1>22, <1>1
     DEF QueueCreate, Enqueue, Goto, JobFits, DocOf, Command, Commands, Posting,
         Pays
<1>23. ASSUME QueueCapture(j) PROVE JobFits(j)'
  BY <1>23, <1>1
     DEF QueueCapture, Enqueue, Goto, JobFits, DocOf, Command, Commands,
         Posting, Pays
<1>24. ASSUME QueueApprove(j) PROVE JobFits(j)'
  BY <1>24, <1>1
     DEF QueueApprove, Enqueue, Goto, JobFits, DocOf, Command, Commands,
         Posting, Pays
<1>25. ASSUME PostGivenUp(j) PROVE JobFits(j)'
  BY <1>25, <1>1
     DEF PostGivenUp, Answer, Goto, JobFits, DocOf, Command, Commands, Posting,
         Pays
<1>26. ASSUME RetryBlocked(j) PROVE JobFits(j)'
  BY <1>26, <1>1, Postponed DEF RetryBlocked, JobFits, DocOf, Command, Posting, Pays
<1>27. ASSUME RetryStarts(j) PROVE JobFits(j)'
  BY <1>27, <1>1
     DEF RetryStarts, Goto, JobFits, DocOf, Command, Commands, Posting, Pays
<1>28. ASSUME RetryFails(j) PROVE JobFits(j)'
  BY <1>28, <1>1, Postponed DEF RetryFails, JobFits, DocOf, Command, Posting, Pays
<1>29. ASSUME RetryDropped(j) PROVE JobFits(j)'
  BY <1>29, <1>1
     DEF RetryDropped, Goto, JobFits, DocOf, Command, Commands, Posting, Pays
<1>30. ASSUME NameInvoice(j) PROVE JobFits(j)'
  BY <1>30, <1>1
     DEF NameInvoice, Goto, JobFits, DocOf, Command, Commands, Posting, Pays
<1>31. ASSUME RestateInvoice(j) PROVE JobFits(j)'
  BY <1>31, <1>1
     DEF RestateInvoice, Answer, Goto, JobFits, DocOf, Command, Commands,
         Posting, Pays
<1>32. ASSUME NameBill(j) PROVE JobFits(j)'
  BY <1>32, <1>1
     DEF NameBill, Answer, Goto, JobFits, DocOf, Command, Commands, Posting,
         Pays
<1>33. ASSUME SavePurchaseOrder(j) PROVE JobFits(j)'
  BY <1>33, <1>1
     DEF SavePurchaseOrder, Answer, Goto, JobFits, DocOf, Command, Commands,
         Posting, Pays
<1>34. ASSUME NameExpense(j) PROVE JobFits(j)'
  BY <1>34, <1>1
     DEF NameExpense, Goto, JobFits, DocOf, Command, Commands, Posting, Pays
<1>35. ASSUME RecordCapture(j) PROVE JobFits(j)'
  BY <1>35, <1>1
     DEF RecordCapture, Answer, Goto, JobFits, DocOf, Command, Commands,
         Posting, Pays
<1>36. ASSUME RecordApproval(j) PROVE JobFits(j)'
  BY <1>36, <1>1
     DEF RecordApproval, Answer, Goto, JobFits, DocOf, Command, Commands,
         Posting, Pays
<1>37. ASSUME LinkApproval(j) PROVE JobFits(j)'
  BY <1>37, <1>1
     DEF LinkApproval, Answer, Goto, JobFits, DocOf, Command, Commands,
         Posting, Pays
<1>38. ASSUME Sent(j) PROVE JobFits(j)'
  BY <1>38, <1>1
     DEF Sent, Answer, Goto, JobFits, DocOf, Command, Commands, Posting, Pays
<1>39. ASSUME NameRetried(j) PROVE JobFits(j)'
  BY <1>39, <1>1
     DEF NameRetried, Goto, JobFits, DocOf, Command, Commands, Posting, Pays
<1>40. ASSUME NameRetriedFails(j) PROVE JobFits(j)'
  BY <1>40, <1>1, Postponed
     DEF NameRetriedFails, JobFits, DocOf, Command, Posting, Pays
<1>41. ASSUME RetryDone(j) PROVE JobFits(j)'
  BY <1>41, <1>1
     DEF RetryDone, Answer, Goto, JobFits, DocOf, Command, Commands, Posting,
         Pays
<1>42. ASSUME NotifyFails(j) PROVE JobFits(j)'
  BY <1>42, <1>1, Postponed DEF NotifyFails, JobFits, DocOf, Command, Posting, Pays
<1>43. ASSUME AuthoriseOk(j) PROVE JobFits(j)'
  BY <1>43, <1>1
     DEF AuthoriseOk, Goto, JobFits, DocOf, Command, Commands, Posting, Pays
<1>44. ASSUME AuthoriseFails(j) PROVE JobFits(j)'
  BY <1>44, <1>1
     DEF AuthoriseFails, Answer, Goto, JobFits, DocOf, Command, Commands,
         Posting, Pays
<1>45. ASSUME RecordAuthorised(j) PROVE JobFits(j)'
  BY <1>45, <1>1
     DEF RecordAuthorised, Answer, Goto, JobFits, DocOf, Command, Commands,
         Posting, Pays
<1>46. ASSUME PayOk(j) PROVE JobFits(j)'
  BY <1>46, <1>1
     DEF PayOk, Answer, Goto, JobFits, DocOf, Command, Commands, Posting, Pays
<1>47. ASSUME PayRefused(j) PROVE JobFits(j)'
  BY <1>47, <1>1
     DEF PayRefused, Answer, Goto, JobFits, DocOf, Command, Commands, Posting,
         Pays
<1>48. ASSUME PayFails(j) PROVE JobFits(j)'
  BY <1>48, <1>1
     DEF PayFails, Answer, Goto, JobFits, DocOf, Command, Commands, Posting,
         Pays
<1>49. ASSUME Die(j) PROVE JobFits(j)'
  BY <1>49, <1>1 DEF Die, Goto, JobFits, DocOf, Command, Commands, Posting, Pays
<1> QED
  BY <1>2, <1>3, <1>4, <1>5, <1>6, <1>7, <1>8, <1>9, <1>10, <1>11, <1>12, <1>13,
     <1>14, <1>15, <1>16, <1>17, <1>18, <1>19, <1>20, <1>21, <1>22, <1>23, <1>24,
     <1>25, <1>26, <1>27, <1>28, <1>29, <1>30, <1>31, <1>32, <1>33, <1>34, <1>35,
     <1>36, <1>37, <1>38, <1>39, <1>40, <1>41, <1>42, <1>43, <1>44, <1>45, <1>46,
     <1>47, <1>48, <1>49
     DEF Step, Ask, Proceed

\* The job that moves holds an entry when it should.
LEMMA MoverHolds ==
    ASSUME IInv, NEW j \in Jobs, Step(j)
    PROVE  JobHoldsEntry(j)'
<1>1. JobHoldsEntry(j) /\ DOMAIN pc = Jobs /\ DOMAIN job = Jobs /\ UNCHANGED kind
  BY OneMoves DEF OthersStay, IInv, JobInv, TypeOK
<1>2. \A i \in 1..Len(books) : i \in 1..Len(books')
                                 /\ books'[i].doc = books[i].doc
                                 /\ books'[i].form = books[i].form
  BY BooksGrow, LenProperties DEF BooksMove, Grows, IInv, TypeOK
<1>3. \A d \in Docs : ext[d] # 0 =>
        /\ ext[d] \in 1..Len(books)
        /\ books[ext[d]].doc = d
        /\ books[ext[d]].form \in FormsOf[kind[d]]
  BY LenProperties DEF IInv, TypeOK, RowInv, RowNamesItsOwnEntry
<1>4. \A d \in Docs : kind[d] = "invoice" =>
        \A i \in EntriesOf(d) :
            /\ i \in 1..Len(books)
            /\ books[i].doc = d
            /\ books[i].form \in FormsOf[kind[d]]
  BY LenProperties DEF IInv, TypeOK, RowInv, InvoicesAreInvoices, EntriesOf,
     FormsOf
<1>5. ASSUME NEW d \in Docs, CreateInvoice(j, d) PROVE JobHoldsEntry(j)'
  BY <1>5, <1>1 DEF CreateInvoice, Begin, Goto, JobHoldsEntry
<1>6. ASSUME NEW d \in Docs, CreateInvoiceLost(j, d) PROVE JobHoldsEntry(j)'
  BY <1>6, <1>1 DEF CreateInvoiceLost, AtOnce, JobHoldsEntry
<1>7. ASSUME NEW d \in Docs, CreateBill(j, d) PROVE JobHoldsEntry(j)'
  BY <1>7, <1>1 DEF CreateBill, Begin, AtOnce, Goto, JobHoldsEntry
<1>8. ASSUME NEW d \in Docs, CreatePurchaseOrder(j, d) PROVE JobHoldsEntry(j)'
  BY <1>8, <1>1 DEF CreatePurchaseOrder, Begin, Goto, JobHoldsEntry
<1>9. ASSUME NEW d \in Docs, CaptureApproved(j, d) PROVE JobHoldsEntry(j)'
  BY <1>9, <1>1 DEF CaptureApproved, Begin, Goto, JobHoldsEntry
<1>10. ASSUME NEW d \in Docs, CapturePending(j, d) PROVE JobHoldsEntry(j)'
  BY <1>10, <1>1 DEF CapturePending, AtOnce, JobHoldsEntry
<1>11. ASSUME NEW d \in Docs, ApproveExpense(j, d) PROVE JobHoldsEntry(j)'
  BY <1>11, <1>1 DEF ApproveExpense, Begin, Goto, JobHoldsEntry
<1>12. ASSUME NEW d \in Docs, EditExpense(j, d) PROVE JobHoldsEntry(j)'
  BY <1>12, <1>1 DEF EditExpense, Begin, AtOnce, Goto, JobHoldsEntry
<1>13. ASSUME NEW d \in Docs, RejectExpense(j, d) PROVE JobHoldsEntry(j)'
  BY <1>13, <1>1 DEF RejectExpense, AtOnce, JobHoldsEntry
<1>14. ASSUME NEW d \in Docs, DeleteExpense(j, d) PROVE JobHoldsEntry(j)'
  BY <1>14, <1>1 DEF DeleteExpense, AtOnce, JobHoldsEntry
<1>15. ASSUME NEW d \in Docs, SendInvoice(j, d) PROVE JobHoldsEntry(j)'
  <2>1. CASE pc'[j] = "free"
    BY <2>1 DEF JobHoldsEntry
  <2>2. CASE pc'[j] = "posting"
    BY <2>2 DEF JobHoldsEntry
  <2>3. CASE pc'[j] \notin {"free", "posting"}
    <3>1. \E i \in 1..Len(books) :
            /\ job'[j].entry = i /\ job'[j].doc = d
            /\ books[i].doc = d /\ books[i].form \in FormsOf[kind[d]]
      BY <1>15, <2>3, <1>1, <1>3, <1>4 DEF SendInvoice, Begin, Goto
    <3> QED BY <1>1, <1>2, <3>1 DEF JobHoldsEntry, DocOf
  <2> QED BY <2>1, <2>2, <2>3
<1>16. ASSUME NEW d \in Docs, ApproveInvoice(j, d) PROVE JobHoldsEntry(j)'
  BY <1>16, <1>1 DEF ApproveInvoice, Begin, AtOnce, Goto, JobHoldsEntry
<1>17. ASSUME NEW d \in Docs, ApproveInBatch(j, d) PROVE JobHoldsEntry(j)'
  BY <1>17, <1>1 DEF ApproveInBatch, Begin, Goto, JobHoldsEntry
<1>18. ASSUME NEW d \in Docs, ApprovePurchaseOrder(j, d) PROVE JobHoldsEntry(j)'
  BY <1>18, <1>1 DEF ApprovePurchaseOrder, Begin, Goto, JobHoldsEntry
<1>19. ASSUME NEW d \in Docs, ReceivePurchaseOrder(j, d) PROVE JobHoldsEntry(j)'
  BY <1>19, <1>1 DEF ReceivePurchaseOrder, AtOnce, JobHoldsEntry
<1>20. ASSUME NEW d \in Docs, MarkPaid(j, d) PROVE JobHoldsEntry(j)'
  <2>1. CASE pc'[j] = "free"
    BY <2>1 DEF JobHoldsEntry
  <2>2. CASE pc'[j] = "posting"
    BY <2>2 DEF JobHoldsEntry
  <2>3. CASE pc'[j] \notin {"free", "posting"}
    <3>1. \E i \in 1..Len(books) :
            /\ job'[j].entry = i /\ job'[j].doc = d
            /\ books[i].doc = d /\ books[i].form \in FormsOf[kind[d]]
      BY <1>20, <2>3, <1>1, <1>3, <1>4 DEF MarkPaid, Begin, AtOnce, Goto
    <3> QED BY <1>1, <1>2, <3>1 DEF JobHoldsEntry, DocOf
  <2> QED BY <2>1, <2>2, <2>3
<1>21. ASSUME NEW d \in Docs, Reconcile(j, d) PROVE JobHoldsEntry(j)'
  <2>1. CASE pc'[j] = "free"
    BY <2>1 DEF JobHoldsEntry
  <2>2. CASE pc'[j] = "posting"
    BY <2>2 DEF JobHoldsEntry
  <2>3. CASE pc'[j] \notin {"free", "posting"}
    <3>1. \E i \in 1..Len(books) :
            /\ job'[j].entry = i /\ job'[j].doc = d
            /\ books[i].doc = d /\ books[i].form \in FormsOf[kind[d]]
      BY <1>21, <2>3, <1>1, <1>3, <1>4 DEF Reconcile, Begin, AtOnce, Goto
    <3> QED BY <1>1, <1>2, <3>1 DEF JobHoldsEntry, DocOf
  <2> QED BY <2>1, <2>2, <2>3
<1>22. ASSUME NEW d \in Docs, TrackPayment(j, d) PROVE JobHoldsEntry(j)'
  <2>1. CASE pc'[j] = "free"
    BY <2>1 DEF JobHoldsEntry
  <2>2. CASE pc'[j] = "posting"
    BY <2>2 DEF JobHoldsEntry
  <2>3. CASE pc'[j] \notin {"free", "posting"}
    <3>1. \E i \in 1..Len(books) :
            /\ job'[j].entry = i /\ job'[j].doc = d
            /\ books[i].doc = d /\ books[i].form \in FormsOf[kind[d]]
      BY <1>22, <2>3, <1>1, <1>3, <1>4 DEF TrackPayment, Begin, AtOnce, Goto
    <3> QED BY <1>1, <1>2, <3>1 DEF JobHoldsEntry, DocOf
  <2> QED BY <2>1, <2>2, <2>3
<1>23. ASSUME PostLost(j) PROVE JobHoldsEntry(j)'
  BY <1>23, <1>1 DEF PostLost, JobHoldsEntry
<1>24. ASSUME PostOk(j) PROVE JobHoldsEntry(j)'
  <2>1. DocOf(j) \in Docs /\ FormPosted(j) \in Kinds
    BY <1>24 DEF PostOk, IInv, JobInv, JobFits, TypeOK, FormPosted, Kinds
  <2>2. /\ Len(books') \in Len(books) + 1..Len(books) +
                             (IF FormPosted(j) = "expense" THEN 2 ELSE 1)
        /\ \A i \in Len(books) + 1..Len(books') : books'[i].doc = DocOf(j)
        /\ books'[Len(books')].form \in FormsOf[FormPosted(j)]
    BY <1>24, <2>1, PostGrows DEF PostOk, IInv, TypeOK
  <2>3. Len(books') \in 1..Len(books') /\ books'[Len(books')].doc = DocOf(j)
    BY <2>2, LenProperties DEF IInv, TypeOK
  <2>4. /\ job'[j].entry = Len(books')
        /\ DocOf(j)' = DocOf(j) /\ Command(j)' = Command(j)
    BY <1>24, <1>1 DEF PostOk, DocOf, Command, IInv, TypeOK
  <2>5. FormPosted(j) # kind[DocOf(j)] =>
          Command(j) = "retry" /\ kind[DocOf(j)] \in {"bill", "purchase_order"}
    BY <2>1 DEF FormPosted, Kinds, IInv, TypeOK
  <2> QED BY <1>1, <2>2, <2>3, <2>4, <2>5 DEF JobHoldsEntry
<1>25. ASSUME QueueCreate(j) PROVE JobHoldsEntry(j)'
  BY <1>25, <1>1 DEF QueueCreate, Enqueue, Goto, JobHoldsEntry
<1>26. ASSUME QueueCapture(j) PROVE JobHoldsEntry(j)'
  BY <1>26, <1>1 DEF QueueCapture, Enqueue, Goto, JobHoldsEntry
<1>27. ASSUME QueueApprove(j) PROVE JobHoldsEntry(j)'
  BY <1>27, <1>1 DEF QueueApprove, Enqueue, Goto, JobHoldsEntry
<1>28. ASSUME PostGivenUp(j) PROVE JobHoldsEntry(j)'
  BY <1>28, <1>1 DEF PostGivenUp, Answer, Goto, JobHoldsEntry
<1>29. ASSUME RetryBlocked(j) PROVE JobHoldsEntry(j)'
  BY <1>29, Postponed DEF RetryBlocked, JobHoldsEntry
<1>30. ASSUME RetryStarts(j) PROVE JobHoldsEntry(j)'
  BY <1>30, <1>1 DEF RetryStarts, Goto, JobHoldsEntry
<1>31. ASSUME RetryFails(j) PROVE JobHoldsEntry(j)'
  BY <1>31, Postponed DEF RetryFails, JobHoldsEntry
<1>32. ASSUME RetryDropped(j) PROVE JobHoldsEntry(j)'
  BY <1>32, <1>1 DEF RetryDropped, Goto, JobHoldsEntry
<1>33. ASSUME NameInvoice(j) PROVE JobHoldsEntry(j)'
  BY <1>33, <1>1, <1>2 DEF NameInvoice, Goto, JobHoldsEntry, DocOf, Command
<1>34. ASSUME RestateInvoice(j) PROVE JobHoldsEntry(j)'
  BY <1>34, <1>1 DEF RestateInvoice, Answer, Goto, JobHoldsEntry
<1>35. ASSUME NameBill(j) PROVE JobHoldsEntry(j)'
  BY <1>35, <1>1 DEF NameBill, Answer, Goto, JobHoldsEntry
<1>36. ASSUME SavePurchaseOrder(j) PROVE JobHoldsEntry(j)'
  BY <1>36, <1>1 DEF SavePurchaseOrder, Answer, Goto, JobHoldsEntry
<1>37. ASSUME NameExpense(j) PROVE JobHoldsEntry(j)'
  BY <1>37, <1>1, <1>2 DEF NameExpense, Goto, JobHoldsEntry, DocOf, Command
<1>38. ASSUME RecordCapture(j) PROVE JobHoldsEntry(j)'
  BY <1>38, <1>1 DEF RecordCapture, Answer, Goto, JobHoldsEntry
<1>39. ASSUME RecordApproval(j) PROVE JobHoldsEntry(j)'
  BY <1>39, <1>1 DEF RecordApproval, Answer, Goto, JobHoldsEntry, DocOf
<1>40. ASSUME LinkApproval(j) PROVE JobHoldsEntry(j)'
  BY <1>40, <1>1 DEF LinkApproval, Answer, Goto, JobHoldsEntry
<1>41. ASSUME Sent(j) PROVE JobHoldsEntry(j)'
  BY <1>41, <1>1 DEF Sent, Answer, Goto, JobHoldsEntry
<1>42. ASSUME NameRetried(j) PROVE JobHoldsEntry(j)'
  BY <1>42, <1>1, <1>2 DEF NameRetried, Goto, JobHoldsEntry, DocOf, Command
<1>43. ASSUME NameRetriedFails(j) PROVE JobHoldsEntry(j)'
  BY <1>43, Postponed DEF NameRetriedFails, JobHoldsEntry
<1>44. ASSUME RetryDone(j) PROVE JobHoldsEntry(j)'
  BY <1>44, <1>1 DEF RetryDone, Answer, Goto, JobHoldsEntry
<1>45. ASSUME NotifyFails(j) PROVE JobHoldsEntry(j)'
  BY <1>45, Postponed DEF NotifyFails, JobHoldsEntry
<1>46. ASSUME AuthoriseOk(j) PROVE JobHoldsEntry(j)'
  BY <1>46, <1>1 DEF AuthoriseOk, Goto, JobHoldsEntry
<1>47. ASSUME AuthoriseFails(j) PROVE JobHoldsEntry(j)'
  BY <1>47, <1>1 DEF AuthoriseFails, Answer, Goto, JobHoldsEntry
<1>48. ASSUME RecordAuthorised(j) PROVE JobHoldsEntry(j)'
  BY <1>48, <1>1 DEF RecordAuthorised, Answer, Goto, JobHoldsEntry
<1>49. ASSUME PayOk(j) PROVE JobHoldsEntry(j)'
  BY <1>49, <1>1 DEF PayOk, Answer, Goto, JobHoldsEntry
<1>50. ASSUME PayRefused(j) PROVE JobHoldsEntry(j)'
  BY <1>50, <1>1 DEF PayRefused, Answer, Goto, JobHoldsEntry
<1>51. ASSUME PayFails(j) PROVE JobHoldsEntry(j)'
  BY <1>51, <1>1 DEF PayFails, Answer, Goto, JobHoldsEntry
<1>52. ASSUME Die(j) PROVE JobHoldsEntry(j)'
  BY <1>52, <1>1 DEF Die, Goto, JobHoldsEntry
<1> QED
  BY <1>5, <1>6, <1>7, <1>8, <1>9, <1>10, <1>11, <1>12, <1>13, <1>14, <1>15,
     <1>16, <1>17, <1>18, <1>19, <1>20, <1>21, <1>22, <1>23, <1>24, <1>25, <1>26,
     <1>27, <1>28, <1>29, <1>30, <1>31, <1>32, <1>33, <1>34, <1>35, <1>36, <1>37,
     <1>38, <1>39, <1>40, <1>41, <1>42, <1>43, <1>44, <1>45, <1>46, <1>47, <1>48,
     <1>49, <1>50, <1>51, <1>52
     DEF Step, Ask, Proceed

\* What the job that moves has explained.
LEMMA MoverExplained ==
    ASSUME IInv, NEW j \in Jobs, Step(j)
    PROVE  JobIsExplained(j)'
<1>1. JobIsExplained(j) /\ DOMAIN pc = Jobs /\ DOMAIN job = Jobs /\ UNCHANGED kind
  BY OneMoves DEF OthersStay, IInv, JobInv, TypeOK
<1>2. /\ \A d \in Docs : kind[d] \in {"invoice", "bill"} =>
            /\ row[d] # "none" => row'[d] # "none"
            /\ ext[d] # 0 => ext'[d] # 0
      /\ \A d \in Docs : "error" \in told[d] => "error" \in told'[d]
      /\ hurt \subseteq hurt'
  BY RowsHold, OneMoves DEF RowsKept, OthersStay
<1>3. /\ JobFits(j)
      /\ pc[j] = "posted" => job[j].entry \in 1..Len(books)
      /\ DOMAIN row = Docs /\ DOMAIN ext = Docs /\ DOMAIN told = Docs
  BY DEF IInv, TypeOK, JobInv, JobHoldsEntry
<1>4. ASSUME NEW d \in Docs, CreateInvoice(j, d) PROVE JobIsExplained(j)'
  BY <1>4, <1>1, <1>2, <1>3
     DEF CreateInvoice, Begin, Goto, Insert, JobIsExplained, JobFits, DocOf,
         Command
<1>5. ASSUME NEW d \in Docs, CreateInvoiceLost(j, d) PROVE JobIsExplained(j)'
  BY <1>5, <1>1, <1>2, <1>3
     DEF CreateInvoiceLost, AtOnce, JobIsExplained, JobFits, DocOf, Command
<1>6. ASSUME NEW d \in Docs, CreateBill(j, d) PROVE JobIsExplained(j)'
  BY <1>6, <1>1, <1>2, <1>3
     DEF CreateBill, Begin, AtOnce, Goto, Insert, JobIsExplained, JobFits,
         DocOf, Command
<1>7. ASSUME NEW d \in Docs, CreatePurchaseOrder(j, d) PROVE JobIsExplained(j)'
  BY <1>7, <1>1, <1>2, <1>3
     DEF CreatePurchaseOrder, Begin, Goto, JobIsExplained, JobFits, DocOf,
         Command
<1>8. ASSUME NEW d \in Docs, CaptureApproved(j, d) PROVE JobIsExplained(j)'
  BY <1>8, <1>1, <1>2, <1>3
     DEF CaptureApproved, Begin, Goto, JobIsExplained, JobFits, DocOf, Command
<1>9. ASSUME NEW d \in Docs, CapturePending(j, d) PROVE JobIsExplained(j)'
  BY <1>9, <1>1, <1>2, <1>3
     DEF CapturePending, AtOnce, JobIsExplained, JobFits, DocOf, Command
<1>10. ASSUME NEW d \in Docs, ApproveExpense(j, d) PROVE JobIsExplained(j)'
  BY <1>10, <1>1, <1>2, <1>3
     DEF ApproveExpense, Begin, Goto, JobIsExplained, JobFits, DocOf, Command
<1>11. ASSUME NEW d \in Docs, EditExpense(j, d) PROVE JobIsExplained(j)'
  BY <1>11, <1>1, <1>2, <1>3
     DEF EditExpense, Begin, AtOnce, Goto, JobIsExplained, JobFits, DocOf,
         Command
<1>12. ASSUME NEW d \in Docs, RejectExpense(j, d) PROVE JobIsExplained(j)'
  BY <1>12, <1>1, <1>2, <1>3
     DEF RejectExpense, AtOnce, JobIsExplained, JobFits, DocOf, Command
<1>13. ASSUME NEW d \in Docs, DeleteExpense(j, d) PROVE JobIsExplained(j)'
  BY <1>13, <1>1, <1>2, <1>3
     DEF DeleteExpense, AtOnce, JobIsExplained, JobFits, DocOf, Command
<1>14. ASSUME NEW d \in Docs, SendInvoice(j, d) PROVE JobIsExplained(j)'
  BY <1>14, <1>1, <1>2, <1>3
     DEF SendInvoice, Begin, Goto, JobIsExplained, JobFits, DocOf, Command
<1>15. ASSUME NEW d \in Docs, ApproveInvoice(j, d) PROVE JobIsExplained(j)'
  BY <1>15, <1>1, <1>2, <1>3
     DEF ApproveInvoice, Begin, AtOnce, Goto, JobIsExplained, JobFits, DocOf,
         Command
<1>16. ASSUME NEW d \in Docs, ApproveInBatch(j, d) PROVE JobIsExplained(j)'
  BY <1>16, <1>1, <1>2, <1>3
     DEF ApproveInBatch, Begin, Goto, JobIsExplained, JobFits, DocOf, Command
<1>17. ASSUME NEW d \in Docs, ApprovePurchaseOrder(j, d)
      PROVE  JobIsExplained(j)'
  BY <1>17, <1>1, <1>2, <1>3
     DEF ApprovePurchaseOrder, Begin, Goto, JobIsExplained, JobFits, DocOf,
         Command
<1>18. ASSUME NEW d \in Docs, ReceivePurchaseOrder(j, d)
      PROVE  JobIsExplained(j)'
  BY <1>18, <1>1, <1>2, <1>3
     DEF ReceivePurchaseOrder, AtOnce, JobIsExplained, JobFits, DocOf, Command
<1>19. ASSUME NEW d \in Docs, MarkPaid(j, d) PROVE JobIsExplained(j)'
  BY <1>19, <1>1, <1>2, <1>3
     DEF MarkPaid, Begin, AtOnce, Goto, JobIsExplained, JobFits, DocOf, Command
<1>20. ASSUME NEW d \in Docs, Reconcile(j, d) PROVE JobIsExplained(j)'
  BY <1>20, <1>1, <1>2, <1>3
     DEF Reconcile, Begin, AtOnce, Goto, JobIsExplained, JobFits, DocOf, Command
<1>21. ASSUME NEW d \in Docs, TrackPayment(j, d) PROVE JobIsExplained(j)'
  BY <1>21, <1>1, <1>2, <1>3
     DEF TrackPayment, Begin, AtOnce, Goto, JobIsExplained, JobFits, DocOf,
         Command
<1>22. ASSUME PostLost(j) PROVE JobIsExplained(j)'
  BY <1>22, <1>1, <1>2, <1>3 DEF PostLost, JobIsExplained, JobFits, DocOf, Command
<1>23. ASSUME PostOk(j) PROVE JobIsExplained(j)'
  BY <1>23, <1>1, <1>2, <1>3
     DEF PostOk, Goto, JobIsExplained, JobFits, DocOf, Command
<1>24. ASSUME QueueCreate(j) PROVE JobIsExplained(j)'
  <2>1. /\ DocOf(j) \in Docs /\ DocOf(j)' = DocOf(j)
        /\ pc[j] = "posting" /\ pc'[j] = "waiting"
    BY <1>24, <1>1, <1>3 DEF QueueCreate, Enqueue, Goto, JobFits, DocOf
  <2>2. kind[DocOf(j)] # "invoice" => "error" \in told'[DocOf(j)]
    BY <1>24, <1>3, <2>1 DEF QueueCreate, Reply, Remembered
  <2> QED BY <1>1, <1>2, <2>1, <2>2 DEF JobIsExplained
<1>25. ASSUME QueueCapture(j) PROVE JobIsExplained(j)'
  BY <1>25, <1>1, <1>2, <1>3
     DEF QueueCapture, Enqueue, Goto, JobIsExplained, JobFits, DocOf, Command
<1>26. ASSUME QueueApprove(j) PROVE JobIsExplained(j)'
  BY <1>26, <1>1, <1>2, <1>3
     DEF QueueApprove, Enqueue, Goto, JobIsExplained, JobFits, DocOf, Command
<1>27. ASSUME PostGivenUp(j) PROVE JobIsExplained(j)'
  BY <1>27, <1>1, <1>2, <1>3
     DEF PostGivenUp, Answer, Goto, JobIsExplained, JobFits, DocOf, Command
<1>28. ASSUME RetryBlocked(j) PROVE JobIsExplained(j)'
  BY <1>28, <1>1, <1>2, <1>3, Postponed
     DEF RetryBlocked, JobIsExplained, JobFits, DocOf, Command
<1>29. ASSUME RetryStarts(j) PROVE JobIsExplained(j)'
  BY <1>29, <1>1, <1>2, <1>3
     DEF RetryStarts, Goto, JobIsExplained, JobFits, DocOf, Command
<1>30. ASSUME RetryFails(j) PROVE JobIsExplained(j)'
  BY <1>30, <1>1, <1>2, <1>3, Postponed
     DEF RetryFails, JobIsExplained, JobFits, DocOf, Command
<1>31. ASSUME RetryDropped(j) PROVE JobIsExplained(j)'
  BY <1>31, <1>1, <1>2, <1>3
     DEF RetryDropped, Goto, JobIsExplained, JobFits, DocOf, Command
<1>32. ASSUME NameInvoice(j) PROVE JobIsExplained(j)'
  BY <1>32, <1>1, <1>2, <1>3
     DEF NameInvoice, Lose, Fault, Goto, Name, JobIsExplained, JobFits, DocOf,
         Command
<1>33. ASSUME RestateInvoice(j) PROVE JobIsExplained(j)'
  BY <1>33, <1>1, <1>2, <1>3
     DEF RestateInvoice, Answer, Goto, JobIsExplained, JobFits, DocOf, Command
<1>34. ASSUME NameBill(j) PROVE JobIsExplained(j)'
  BY <1>34, <1>1, <1>2, <1>3
     DEF NameBill, Answer, Goto, JobIsExplained, JobFits, DocOf, Command
<1>35. ASSUME SavePurchaseOrder(j) PROVE JobIsExplained(j)'
  BY <1>35, <1>1, <1>2, <1>3
     DEF SavePurchaseOrder, Answer, Goto, JobIsExplained, JobFits, DocOf,
         Command
<1>36. ASSUME NameExpense(j) PROVE JobIsExplained(j)'
  BY <1>36, <1>1, <1>2, <1>3
     DEF NameExpense, Goto, JobIsExplained, JobFits, DocOf, Command
<1>37. ASSUME RecordCapture(j) PROVE JobIsExplained(j)'
  BY <1>37, <1>1, <1>2, <1>3
     DEF RecordCapture, Answer, Goto, JobIsExplained, JobFits, DocOf, Command
<1>38. ASSUME RecordApproval(j) PROVE JobIsExplained(j)'
  BY <1>38, <1>1, <1>2, <1>3
     DEF RecordApproval, Answer, Goto, JobIsExplained, JobFits, DocOf, Command
<1>39. ASSUME LinkApproval(j) PROVE JobIsExplained(j)'
  BY <1>39, <1>1, <1>2, <1>3
     DEF LinkApproval, Answer, Goto, JobIsExplained, JobFits, DocOf, Command
<1>40. ASSUME Sent(j) PROVE JobIsExplained(j)'
  BY <1>40, <1>1, <1>2, <1>3
     DEF Sent, Answer, Goto, JobIsExplained, JobFits, DocOf, Command
<1>41. ASSUME NameRetried(j) PROVE JobIsExplained(j)'
  BY <1>41, <1>1, <1>2, <1>3
     DEF NameRetried, Goto, Name, JobIsExplained, JobFits, DocOf, Command
<1>42. ASSUME NameRetriedFails(j) PROVE JobIsExplained(j)'
  BY <1>42, <1>1, <1>2, <1>3, Postponed
     DEF NameRetriedFails, JobIsExplained, JobFits, DocOf, Command
<1>43. ASSUME RetryDone(j) PROVE JobIsExplained(j)'
  BY <1>43, <1>1, <1>2, <1>3
     DEF RetryDone, Answer, Goto, JobIsExplained, JobFits, DocOf, Command
<1>44. ASSUME NotifyFails(j) PROVE JobIsExplained(j)'
  BY <1>44, <1>1, <1>2, <1>3, Postponed
     DEF NotifyFails, JobIsExplained, JobFits, DocOf, Command
<1>45. ASSUME AuthoriseOk(j) PROVE JobIsExplained(j)'
  BY <1>45, <1>1, <1>2, <1>3
     DEF AuthoriseOk, Goto, JobIsExplained, JobFits, DocOf, Command
<1>46. ASSUME AuthoriseFails(j) PROVE JobIsExplained(j)'
  BY <1>46, <1>1, <1>2, <1>3
     DEF AuthoriseFails, Answer, Goto, JobIsExplained, JobFits, DocOf, Command
<1>47. ASSUME RecordAuthorised(j) PROVE JobIsExplained(j)'
  BY <1>47, <1>1, <1>2, <1>3
     DEF RecordAuthorised, Answer, Goto, JobIsExplained, JobFits, DocOf, Command
<1>48. ASSUME PayOk(j) PROVE JobIsExplained(j)'
  BY <1>48, <1>1, <1>2, <1>3
     DEF PayOk, Answer, Goto, JobIsExplained, JobFits, DocOf, Command
<1>49. ASSUME PayRefused(j) PROVE JobIsExplained(j)'
  BY <1>49, <1>1, <1>2, <1>3
     DEF PayRefused, Answer, Goto, JobIsExplained, JobFits, DocOf, Command
<1>50. ASSUME PayFails(j) PROVE JobIsExplained(j)'
  BY <1>50, <1>1, <1>2, <1>3
     DEF PayFails, Answer, Goto, JobIsExplained, JobFits, DocOf, Command
<1>51. ASSUME Die(j) PROVE JobIsExplained(j)'
  BY <1>51, <1>1, <1>2, <1>3 DEF Die, Goto, JobIsExplained, JobFits, DocOf, Command
<1> QED
  BY <1>4, <1>5, <1>6, <1>7, <1>8, <1>9, <1>10, <1>11, <1>12, <1>13, <1>14, <1>15,
     <1>16, <1>17, <1>18, <1>19, <1>20, <1>21, <1>22, <1>23, <1>24, <1>25, <1>26,
     <1>27, <1>28, <1>29, <1>30, <1>31, <1>32, <1>33, <1>34, <1>35, <1>36, <1>37,
     <1>38, <1>39, <1>40, <1>41, <1>42, <1>43, <1>44, <1>45, <1>46, <1>47, <1>48,
     <1>49, <1>50, <1>51
     DEF Step, Ask, Proceed

\* What the job that moves has on record.
LEMMA MoverRecorded ==
    ASSUME IInv, NEW j \in Jobs, Step(j)
    PROVE  JobIsRecorded(j)'
<1>1. JobIsRecorded(j) /\ DOMAIN pc = Jobs /\ DOMAIN job = Jobs /\ JobFits(j)
  BY OneMoves DEF OthersStay, IInv, JobInv, TypeOK
<1>2. /\ \A d \in Docs : rowId[d] > 0 => rowId'[d] > 0
      /\ \A d \in Docs : "error" \in told[d] => "error" \in told'[d]
      /\ hurt \subseteq hurt'
  BY RowsHold, OneMoves DEF RowsKept, OthersStay, IInv, TypeOK
<1>3. \A d \in Docs : row[d] # "none" => rowId[d] > 0
  BY DEF IInv, RowInv, RowsHaveIds
<1>4. DOMAIN rowId = Docs /\ \A d \in Docs : rowId[d] \in Nat
  BY DEF IInv, TypeOK
<1>5. /\ pc[j] # "free" /\ Command(j) = "create"
      /\ kind[DocOf(j)] \in {"invoice", "bill"}
      => rowId[DocOf(j)] > 0
  BY DEF IInv, JobInv, JobFits, JobIsExplained, RowInv, RowsHaveIds
<1>6. pc[j] # "free" => kind[DocOf(j)] \in Kinds
  BY DEF IInv, TypeOK, JobInv, JobFits
<1>7. ASSUME NEW d \in Docs, CreateInvoice(j, d) PROVE JobIsRecorded(j)'
  BY <1>7, <1>1, <1>2, <1>3
     DEF CreateInvoice, Begin, Goto, JobIsRecorded, JobFits, DocOf, Command
<1>8. ASSUME NEW d \in Docs, CreateInvoiceLost(j, d) PROVE JobIsRecorded(j)'
  BY <1>8, <1>1, <1>2, <1>3
     DEF CreateInvoiceLost, AtOnce, JobIsRecorded, JobFits, DocOf, Command
<1>9. ASSUME NEW d \in Docs, CreateBill(j, d) PROVE JobIsRecorded(j)'
  BY <1>9, <1>1, <1>2, <1>3
     DEF CreateBill, Begin, AtOnce, Goto, JobIsRecorded, JobFits, DocOf, Command
<1>10. ASSUME NEW d \in Docs, CreatePurchaseOrder(j, d) PROVE JobIsRecorded(j)'
  BY <1>10, <1>1, <1>2, <1>3
     DEF CreatePurchaseOrder, Begin, Goto, JobIsRecorded, JobFits, DocOf,
         Command
<1>11. ASSUME NEW d \in Docs, CaptureApproved(j, d) PROVE JobIsRecorded(j)'
  BY <1>11, <1>1, <1>2, <1>3
     DEF CaptureApproved, Begin, Goto, JobIsRecorded, JobFits, DocOf, Command
<1>12. ASSUME NEW d \in Docs, CapturePending(j, d) PROVE JobIsRecorded(j)'
  BY <1>12, <1>1, <1>2, <1>3
     DEF CapturePending, AtOnce, JobIsRecorded, JobFits, DocOf, Command
<1>13. ASSUME NEW d \in Docs, ApproveExpense(j, d) PROVE JobIsRecorded(j)'
  BY <1>13, <1>1, <1>2, <1>3
     DEF ApproveExpense, Begin, Goto, JobIsRecorded, JobFits, DocOf, Command
<1>14. ASSUME NEW d \in Docs, EditExpense(j, d) PROVE JobIsRecorded(j)'
  BY <1>14, <1>1, <1>2, <1>3
     DEF EditExpense, Begin, AtOnce, Goto, JobIsRecorded, JobFits, DocOf,
         Command
<1>15. ASSUME NEW d \in Docs, RejectExpense(j, d) PROVE JobIsRecorded(j)'
  BY <1>15, <1>1, <1>2, <1>3
     DEF RejectExpense, AtOnce, JobIsRecorded, JobFits, DocOf, Command
<1>16. ASSUME NEW d \in Docs, DeleteExpense(j, d) PROVE JobIsRecorded(j)'
  BY <1>16, <1>1, <1>2, <1>3
     DEF DeleteExpense, AtOnce, JobIsRecorded, JobFits, DocOf, Command
<1>17. ASSUME NEW d \in Docs, SendInvoice(j, d) PROVE JobIsRecorded(j)'
  BY <1>17, <1>1, <1>2, <1>3
     DEF SendInvoice, Begin, Goto, JobIsRecorded, JobFits, DocOf, Command
<1>18. ASSUME NEW d \in Docs, ApproveInvoice(j, d) PROVE JobIsRecorded(j)'
  BY <1>18, <1>1, <1>2, <1>3
     DEF ApproveInvoice, Begin, AtOnce, Goto, JobIsRecorded, JobFits, DocOf,
         Command
<1>19. ASSUME NEW d \in Docs, ApproveInBatch(j, d) PROVE JobIsRecorded(j)'
  BY <1>19, <1>1, <1>2, <1>3
     DEF ApproveInBatch, Begin, Goto, JobIsRecorded, JobFits, DocOf, Command
<1>20. ASSUME NEW d \in Docs, ApprovePurchaseOrder(j, d) PROVE JobIsRecorded(j)'
  BY <1>20, <1>1, <1>2, <1>3
     DEF ApprovePurchaseOrder, Begin, Goto, JobIsRecorded, JobFits, DocOf,
         Command
<1>21. ASSUME NEW d \in Docs, ReceivePurchaseOrder(j, d) PROVE JobIsRecorded(j)'
  BY <1>21, <1>1, <1>2, <1>3
     DEF ReceivePurchaseOrder, AtOnce, JobIsRecorded, JobFits, DocOf, Command
<1>22. ASSUME NEW d \in Docs, MarkPaid(j, d) PROVE JobIsRecorded(j)'
  BY <1>22, <1>1, <1>2, <1>3
     DEF MarkPaid, Begin, AtOnce, Goto, JobIsRecorded, JobFits, DocOf, Command
<1>23. ASSUME NEW d \in Docs, Reconcile(j, d) PROVE JobIsRecorded(j)'
  BY <1>23, <1>1, <1>2, <1>3
     DEF Reconcile, Begin, AtOnce, Goto, JobIsRecorded, JobFits, DocOf, Command
<1>24. ASSUME NEW d \in Docs, TrackPayment(j, d) PROVE JobIsRecorded(j)'
  BY <1>24, <1>1, <1>2, <1>3
     DEF TrackPayment, Begin, AtOnce, Goto, JobIsRecorded, JobFits, DocOf,
         Command
<1>25. ASSUME PostLost(j) PROVE JobIsRecorded(j)'
  BY <1>25, <1>1, <1>2, <1>3 DEF PostLost, JobIsRecorded, JobFits, DocOf, Command
<1>26. ASSUME PostOk(j) PROVE JobIsRecorded(j)'
  BY <1>26, <1>1, <1>2, <1>3
     DEF PostOk, Goto, JobIsRecorded, JobFits, DocOf, Command
<1>27. ASSUME QueueCreate(j) PROVE JobIsRecorded(j)'
  <2>1. rowId[DocOf(j)] > 0 \/ kind[DocOf(j)] # "invoice"
    BY <1>27, <1>5 DEF QueueCreate
  <2>2. kind[DocOf(j)] # "invoice" => "error" \in told'[DocOf(j)]
    BY <1>27, <1>1 DEF QueueCreate, Reply, Remembered, JobFits, IInv, TypeOK
  <2>3. DocOf(j) \in Docs /\ DocOf(j)' = DocOf(j)
    BY <1>27, <1>1 DEF QueueCreate, Enqueue, JobFits, DocOf
  <2> QED BY <1>2, <2>1, <2>2, <2>3 DEF JobIsRecorded
<1>28. ASSUME QueueCapture(j) PROVE JobIsRecorded(j)'
  <2>1. DocOf(j) \in Docs /\ DocOf(j)' = DocOf(j)
    BY <1>28, <1>1 DEF QueueCapture, Enqueue, JobFits, DocOf
  <2>2. rowId'[DocOf(j)] > 0 \/ DocOf(j) \in hurt'
    BY <1>28, <1>2, <1>3, <1>4, <2>1 DEF QueueCapture, Lose, Insert, table
  <2> QED BY <2>1, <2>2 DEF JobIsRecorded
<1>29. ASSUME QueueApprove(j) PROVE JobIsRecorded(j)'
  BY <1>29, <1>1, <1>2, <1>3
     DEF QueueApprove, Enqueue, Goto, JobIsRecorded, JobFits, DocOf, Command
<1>30. ASSUME PostGivenUp(j) PROVE JobIsRecorded(j)'
  BY <1>30, <1>1, <1>2, <1>3
     DEF PostGivenUp, Answer, Goto, JobIsRecorded, JobFits, DocOf, Command
<1>31. ASSUME RetryBlocked(j) PROVE JobIsRecorded(j)'
  BY <1>31, <1>1, <1>2, <1>3, Postponed
     DEF RetryBlocked, JobIsRecorded, JobFits, DocOf, Command
<1>32. ASSUME RetryStarts(j) PROVE JobIsRecorded(j)'
  BY <1>32, <1>1, <1>2, <1>3
     DEF RetryStarts, Goto, JobIsRecorded, JobFits, DocOf, Command
<1>33. ASSUME RetryFails(j) PROVE JobIsRecorded(j)'
  BY <1>33, <1>1, <1>2, <1>3, Postponed
     DEF RetryFails, JobIsRecorded, JobFits, DocOf, Command
<1>34. ASSUME RetryDropped(j) PROVE JobIsRecorded(j)'
  BY <1>34, <1>1, <1>2, <1>3
     DEF RetryDropped, Goto, JobIsRecorded, JobFits, DocOf, Command
<1>35. ASSUME NameInvoice(j) PROVE JobIsRecorded(j)'
  BY <1>35, <1>1, <1>2, <1>3
     DEF NameInvoice, Goto, JobIsRecorded, JobFits, DocOf, Command
<1>36. ASSUME RestateInvoice(j) PROVE JobIsRecorded(j)'
  BY <1>36, <1>1, <1>2, <1>3
     DEF RestateInvoice, Answer, Goto, JobIsRecorded, JobFits, DocOf, Command
<1>37. ASSUME NameBill(j) PROVE JobIsRecorded(j)'
  BY <1>37, <1>1, <1>2, <1>3
     DEF NameBill, Answer, Goto, JobIsRecorded, JobFits, DocOf, Command
<1>38. ASSUME SavePurchaseOrder(j) PROVE JobIsRecorded(j)'
  BY <1>38, <1>1, <1>2, <1>3
     DEF SavePurchaseOrder, Answer, Goto, JobIsRecorded, JobFits, DocOf, Command
<1>39. ASSUME NameExpense(j) PROVE JobIsRecorded(j)'
  BY <1>39, <1>1, <1>2, <1>3
     DEF NameExpense, Goto, JobIsRecorded, JobFits, DocOf, Command
<1>40. ASSUME RecordCapture(j) PROVE JobIsRecorded(j)'
  BY <1>40, <1>1, <1>2, <1>3
     DEF RecordCapture, Answer, Goto, JobIsRecorded, JobFits, DocOf, Command
<1>41. ASSUME RecordApproval(j) PROVE JobIsRecorded(j)'
  BY <1>41, <1>1, <1>2, <1>3
     DEF RecordApproval, Answer, Goto, JobIsRecorded, JobFits, DocOf, Command
<1>42. ASSUME LinkApproval(j) PROVE JobIsRecorded(j)'
  BY <1>42, <1>1, <1>2, <1>3
     DEF LinkApproval, Answer, Goto, JobIsRecorded, JobFits, DocOf, Command
<1>43. ASSUME Sent(j) PROVE JobIsRecorded(j)'
  BY <1>43, <1>1, <1>2, <1>3
     DEF Sent, Answer, Goto, JobIsRecorded, JobFits, DocOf, Command
<1>44. ASSUME NameRetried(j) PROVE JobIsRecorded(j)'
  BY <1>44, <1>1, <1>2, <1>3
     DEF NameRetried, Goto, JobIsRecorded, JobFits, DocOf, Command
<1>45. ASSUME NameRetriedFails(j) PROVE JobIsRecorded(j)'
  BY <1>45, <1>1, <1>2, <1>3, Postponed
     DEF NameRetriedFails, JobIsRecorded, JobFits, DocOf, Command
<1>46. ASSUME RetryDone(j) PROVE JobIsRecorded(j)'
  BY <1>46, <1>1, <1>2, <1>3
     DEF RetryDone, Answer, Goto, JobIsRecorded, JobFits, DocOf, Command
<1>47. ASSUME NotifyFails(j) PROVE JobIsRecorded(j)'
  BY <1>47, <1>1, <1>2, <1>3, Postponed
     DEF NotifyFails, JobIsRecorded, JobFits, DocOf, Command
<1>48. ASSUME AuthoriseOk(j) PROVE JobIsRecorded(j)'
  BY <1>48, <1>1, <1>2, <1>3
     DEF AuthoriseOk, Goto, JobIsRecorded, JobFits, DocOf, Command
<1>49. ASSUME AuthoriseFails(j) PROVE JobIsRecorded(j)'
  BY <1>49, <1>1, <1>2, <1>3
     DEF AuthoriseFails, Answer, Goto, JobIsRecorded, JobFits, DocOf, Command
<1>50. ASSUME RecordAuthorised(j) PROVE JobIsRecorded(j)'
  BY <1>50, <1>1, <1>2, <1>3
     DEF RecordAuthorised, Answer, Goto, JobIsRecorded, JobFits, DocOf, Command
<1>51. ASSUME PayOk(j) PROVE JobIsRecorded(j)'
  BY <1>51, <1>1, <1>2, <1>3
     DEF PayOk, Answer, Goto, JobIsRecorded, JobFits, DocOf, Command
<1>52. ASSUME PayRefused(j) PROVE JobIsRecorded(j)'
  BY <1>52, <1>1, <1>2, <1>3
     DEF PayRefused, Answer, Goto, JobIsRecorded, JobFits, DocOf, Command
<1>53. ASSUME PayFails(j) PROVE JobIsRecorded(j)'
  BY <1>53, <1>1, <1>2, <1>3
     DEF PayFails, Answer, Goto, JobIsRecorded, JobFits, DocOf, Command
<1>54. ASSUME Die(j) PROVE JobIsRecorded(j)'
  BY <1>54, <1>1, <1>2, <1>3 DEF Die, Goto, JobIsRecorded, JobFits, DocOf, Command
<1> QED
  BY <1>7, <1>8, <1>9, <1>10, <1>11, <1>12, <1>13, <1>14, <1>15, <1>16, <1>17,
     <1>18, <1>19, <1>20, <1>21, <1>22, <1>23, <1>24, <1>25, <1>26, <1>27, <1>28,
     <1>29, <1>30, <1>31, <1>32, <1>33, <1>34, <1>35, <1>36, <1>37, <1>38, <1>39,
     <1>40, <1>41, <1>42, <1>43, <1>44, <1>45, <1>46, <1>47, <1>48, <1>49, <1>50,
     <1>51, <1>52, <1>53, <1>54
     DEF Step, Ask, Proceed

\* What is known of every job holds after every step.
LEMMA JobsHold == ASSUME IInv, NEW j \in Jobs, Step(j) PROVE JobInv'
  BY OthersHold, MoverFits, MoverHolds, MoverExplained, MoverRecorded DEF JobInv

-----------------------------------------------------------------------------
(* The properties.  For each: what the job that moves sees to. *)

\* An invoice or a bill whose row a step makes, or to whose creation or retry
\* a step belongs, is explained after the step.
AtIt(j, e) == pc[j] # "free" /\ DocOf(j) = e /\ Command(j) \in {"create", "retry"}
SeesToIt(j) ==
    \A e \in Docs :
        /\ kind[e] \in {"invoice", "bill"}
        /\ row'[e] # "none" /\ ext'[e] = 0
        /\ e \notin hurt'
        /\ row[e] = "none" \/ AtIt(j, e)
        => AtIt(j, e)' \/ e \in givenUp' \/ "error" \in told'[e]

\* Whoever moves sees to it.
LEMMA MoverSeesToIt ==
    ASSUME IInv, NEW j \in Jobs, Step(j)
    PROVE  SeesToIt(j)
<1>1. /\ DOMAIN pc = Jobs /\ DOMAIN job = Jobs
      /\ DOMAIN row = Docs /\ DOMAIN ext = Docs
      /\ DOMAIN told = Docs /\ DOMAIN rowId = Docs
  BY DEF IInv, TypeOK
<1>2. JobFits(j) /\ JobHoldsEntry(j) /\ JobIsExplained(j)
  BY DEF IInv, JobInv
<1>3. /\ \A d \in Docs : kind[d] \in {"invoice", "bill"} =>
            /\ row[d] # "none" => row'[d] # "none"
            /\ ext[d] # 0 => ext'[d] # 0
      /\ \A d \in Docs : "error" \in told[d] => "error" \in told'[d]
      /\ hurt \subseteq hurt'
  BY RowsHold, OneMoves DEF RowsKept, OthersStay
<1>4. ASSUME NEW d \in Docs, CreateInvoice(j, d) PROVE SeesToIt(j)
  BY <1>4, <1>1, <1>2, <1>3
     DEF CreateInvoice, Begin, Goto, Insert, JobFits, JobHoldsEntry,
         JobIsExplained, SeesToIt, AtIt, DocOf, Command
<1>5. ASSUME NEW d \in Docs, CreateInvoiceLost(j, d) PROVE SeesToIt(j)
  BY <1>5, <1>1, <1>2, <1>3
     DEF CreateInvoiceLost, AtOnce, table, JobFits, JobHoldsEntry,
         JobIsExplained, SeesToIt, AtIt, DocOf, Command
<1>6. ASSUME NEW d \in Docs, CreateBill(j, d) PROVE SeesToIt(j)
  BY <1>6, <1>1, <1>2, <1>3
     DEF CreateBill, Begin, AtOnce, Goto, Insert, table, JobFits, JobHoldsEntry,
         JobIsExplained, SeesToIt, AtIt, DocOf, Command
<1>7. ASSUME NEW d \in Docs, CreatePurchaseOrder(j, d) PROVE SeesToIt(j)
  BY <1>7, <1>1, <1>2, <1>3
     DEF CreatePurchaseOrder, Begin, Goto, table, JobFits, JobHoldsEntry,
         JobIsExplained, SeesToIt, AtIt, DocOf, Command
<1>8. ASSUME NEW d \in Docs, CaptureApproved(j, d) PROVE SeesToIt(j)
  BY <1>8, <1>1, <1>2, <1>3
     DEF CaptureApproved, Begin, Goto, table, JobFits, JobHoldsEntry,
         JobIsExplained, SeesToIt, AtIt, DocOf, Command
<1>9. ASSUME NEW d \in Docs, CapturePending(j, d) PROVE SeesToIt(j)
  BY <1>9, <1>1, <1>2, <1>3
     DEF CapturePending, AtOnce, Insert, table, JobFits, JobHoldsEntry,
         JobIsExplained, SeesToIt, AtIt, DocOf, Command
<1>10. ASSUME NEW d \in Docs, ApproveExpense(j, d) PROVE SeesToIt(j)
  BY <1>10, <1>1, <1>2, <1>3
     DEF ApproveExpense, Begin, Goto, table, JobFits, JobHoldsEntry,
         JobIsExplained, SeesToIt, AtIt, DocOf, Command
<1>11. ASSUME NEW d \in Docs, EditExpense(j, d) PROVE SeesToIt(j)
  BY <1>11, <1>1, <1>2, <1>3
     DEF EditExpense, Begin, AtOnce, Goto, table, JobFits, JobHoldsEntry,
         JobIsExplained, SeesToIt, AtIt, DocOf, Command
<1>12. ASSUME NEW d \in Docs, RejectExpense(j, d) PROVE SeesToIt(j)
  BY <1>12, <1>1, <1>2, <1>3
     DEF RejectExpense, AtOnce, SetStatus, JobFits, JobHoldsEntry,
         JobIsExplained, SeesToIt, AtIt, DocOf, Command
<1>13. ASSUME NEW d \in Docs, DeleteExpense(j, d) PROVE SeesToIt(j)
  BY <1>13, <1>1, <1>2, <1>3
     DEF DeleteExpense, AtOnce, JobFits, JobHoldsEntry, JobIsExplained,
         SeesToIt, AtIt, DocOf, Command
<1>14. ASSUME NEW d \in Docs, SendInvoice(j, d) PROVE SeesToIt(j)
  BY <1>14, <1>1, <1>2, <1>3
     DEF SendInvoice, Begin, Goto, table, JobFits, JobHoldsEntry,
         JobIsExplained, SeesToIt, AtIt, DocOf, Command
<1>15. ASSUME NEW d \in Docs, ApproveInvoice(j, d) PROVE SeesToIt(j)
  BY <1>15, <1>1, <1>2, <1>3
     DEF ApproveInvoice, Begin, AtOnce, Goto, Name, table, JobFits,
         JobHoldsEntry, JobIsExplained, SeesToIt, AtIt, DocOf, Command
<1>16. ASSUME NEW d \in Docs, ApproveInBatch(j, d) PROVE SeesToIt(j)
  BY <1>16, <1>1, <1>2, <1>3
     DEF ApproveInBatch, Begin, Goto, table, JobFits, JobHoldsEntry,
         JobIsExplained, SeesToIt, AtIt, DocOf, Command
<1>17. ASSUME NEW d \in Docs, ApprovePurchaseOrder(j, d) PROVE SeesToIt(j)
  BY <1>17, <1>1, <1>2, <1>3
     DEF ApprovePurchaseOrder, Begin, Goto, table, JobFits, JobHoldsEntry,
         JobIsExplained, SeesToIt, AtIt, DocOf, Command
<1>18. ASSUME NEW d \in Docs, ReceivePurchaseOrder(j, d) PROVE SeesToIt(j)
  BY <1>18, <1>1, <1>2, <1>3
     DEF ReceivePurchaseOrder, AtOnce, SetStatus, JobFits, JobHoldsEntry,
         JobIsExplained, SeesToIt, AtIt, DocOf, Command
<1>19. ASSUME NEW d \in Docs, MarkPaid(j, d) PROVE SeesToIt(j)
  BY <1>19, <1>1, <1>2, <1>3
     DEF MarkPaid, table, Begin, AtOnce, Goto, SetStatus, JobFits, JobHoldsEntry,
         JobIsExplained, SeesToIt, AtIt, DocOf, Command
<1>20. ASSUME NEW d \in Docs, Reconcile(j, d) PROVE SeesToIt(j)
  BY <1>20, <1>1, <1>2, <1>3
     DEF Reconcile, Begin, AtOnce, Goto, SetStatus, JobFits, JobHoldsEntry,
         JobIsExplained, SeesToIt, AtIt, DocOf, Command
<1>21. ASSUME NEW d \in Docs, TrackPayment(j, d) PROVE SeesToIt(j)
  BY <1>21, <1>1, <1>2, <1>3
     DEF TrackPayment, Begin, AtOnce, Goto, SetStatus, JobFits, JobHoldsEntry,
         JobIsExplained, SeesToIt, AtIt, DocOf, Command
<1>22. ASSUME PostLost(j) PROVE SeesToIt(j)
  BY <1>22, <1>1, <1>2, <1>3
     DEF PostLost, table, JobFits, JobHoldsEntry, JobIsExplained, SeesToIt,
         AtIt, DocOf, Command
<1>23. ASSUME PostOk(j) PROVE SeesToIt(j)
  BY <1>23, <1>1, <1>2, <1>3
     DEF PostOk, Goto, table, JobFits, JobHoldsEntry, JobIsExplained, SeesToIt,
         AtIt, DocOf, Command
<1>24. ASSUME QueueCreate(j) PROVE SeesToIt(j)
  BY <1>24, <1>1, <1>2, <1>3
     DEF QueueCreate, Enqueue, Goto, table, SeesToIt, AtIt, DocOf, Command
<1>25. ASSUME QueueCapture(j) PROVE SeesToIt(j)
  BY <1>25, <1>1, <1>2, <1>3
     DEF QueueCapture, Enqueue, Goto, Insert, table, JobFits, JobHoldsEntry,
         JobIsExplained, SeesToIt, AtIt, DocOf, Command
<1>26. ASSUME QueueApprove(j) PROVE SeesToIt(j)
  BY <1>26, <1>1, <1>2, <1>3
     DEF QueueApprove, Enqueue, Goto, SetStatus, table, JobFits, JobHoldsEntry,
         JobIsExplained, SeesToIt, AtIt, DocOf, Command
<1>27. ASSUME PostGivenUp(j) PROVE SeesToIt(j)
  BY <1>27, <1>1, <1>2, <1>3
     DEF PostGivenUp, Answer, Reply, Remembered, table, JobFits, SeesToIt, AtIt,
         DocOf, Command
<1>28. ASSUME RetryBlocked(j) PROVE SeesToIt(j)
  BY <1>28, <1>1, <1>2, <1>3, Postponed
     DEF RetryBlocked, Postpone, table, SeesToIt, AtIt, DocOf, Command
<1>29. ASSUME RetryStarts(j) PROVE SeesToIt(j)
  BY <1>29, <1>1, <1>2, <1>3
     DEF RetryStarts, Goto, table, JobFits, JobHoldsEntry, JobIsExplained,
         SeesToIt, AtIt, DocOf, Command
<1>30. ASSUME RetryFails(j) PROVE SeesToIt(j)
  BY <1>30, <1>1, <1>2, <1>3, Postponed
     DEF RetryFails, Postpone, table, SeesToIt, AtIt, DocOf, Command
<1>31. ASSUME RetryDropped(j) PROVE SeesToIt(j)
  BY <1>31, <1>1, <1>2, <1>3
     DEF RetryDropped, Goto, table, JobFits, JobHoldsEntry, JobIsExplained,
         SeesToIt, AtIt, DocOf, Command
<1>32. ASSUME NameInvoice(j) PROVE SeesToIt(j)
  BY <1>32, <1>1, <1>2, <1>3
     DEF NameInvoice, Goto, Name, table, JobFits, JobHoldsEntry, JobIsExplained,
         SeesToIt, AtIt, DocOf, Command
<1>33. ASSUME RestateInvoice(j) PROVE SeesToIt(j)
  BY <1>33, <1>1, <1>2, <1>3
     DEF RestateInvoice, table, Fault, Answer, Goto, SetStatus, JobFits,
         JobHoldsEntry, JobIsExplained, SeesToIt, AtIt, DocOf, Command
<1>34. ASSUME NameBill(j) PROVE SeesToIt(j)
  BY <1>34, <1>1, <1>2, <1>3
     DEF NameBill, Lose, Fault, Answer, Goto, Name, table, JobFits, JobHoldsEntry,
         JobIsExplained, SeesToIt, AtIt, DocOf, Command
<1>35. ASSUME SavePurchaseOrder(j) PROVE SeesToIt(j)
  BY <1>35, <1>1, <1>2, <1>3
     DEF SavePurchaseOrder, Answer, Goto, Insert, table, JobFits, JobHoldsEntry,
         JobIsExplained, SeesToIt, AtIt, DocOf, Command
<1>36. ASSUME NameExpense(j) PROVE SeesToIt(j)
  BY <1>36, <1>1, <1>2, <1>3
     DEF NameExpense, table, Lose, Fault, Goto, Name, JobFits, JobHoldsEntry,
         JobIsExplained, SeesToIt, AtIt, DocOf, Command
<1>37. ASSUME RecordCapture(j) PROVE SeesToIt(j)
  BY <1>37, <1>1, <1>2, <1>3
     DEF RecordCapture, Answer, Goto, Insert, table, JobFits, JobHoldsEntry,
         JobIsExplained, SeesToIt, AtIt, DocOf, Command
<1>38. ASSUME RecordApproval(j) PROVE SeesToIt(j)
  BY <1>38, <1>1, <1>2, <1>3
     DEF RecordApproval, SetStatus, Fault, Answer, Goto, table, JobFits,
         JobHoldsEntry, JobIsExplained, SeesToIt, AtIt, DocOf, Command
<1>39. ASSUME LinkApproval(j) PROVE SeesToIt(j)
  BY <1>39, <1>1, <1>2, <1>3
     DEF LinkApproval, Name, Fault, Answer, Goto, table, JobFits, JobHoldsEntry,
         JobIsExplained, SeesToIt, AtIt, DocOf, Command
<1>40. ASSUME Sent(j) PROVE SeesToIt(j)
  BY <1>40, <1>1, <1>2, <1>3
     DEF Sent, Answer, Goto, table, JobFits, JobHoldsEntry, JobIsExplained,
         SeesToIt, AtIt, DocOf, Command
<1>41. ASSUME NameRetried(j) PROVE SeesToIt(j)
  BY <1>41, <1>1, <1>2, <1>3
     DEF NameRetried, Goto, Name, table, JobFits, JobHoldsEntry, JobIsExplained,
         SeesToIt, AtIt, DocOf, Command
<1>42. ASSUME NameRetriedFails(j) PROVE SeesToIt(j)
  BY <1>42, <1>1, <1>2, <1>3, Postponed
     DEF NameRetriedFails, Postpone, table, SeesToIt, AtIt, DocOf, Command
<1>43. ASSUME RetryDone(j) PROVE SeesToIt(j)
  BY <1>43, <1>1, <1>2, <1>3
     DEF RetryDone, Answer, Goto, table, JobFits, JobHoldsEntry, JobIsExplained,
         SeesToIt, AtIt, DocOf, Command
<1>44. ASSUME NotifyFails(j) PROVE SeesToIt(j)
  BY <1>44, <1>1, <1>2, <1>3, Postponed
     DEF NotifyFails, Postpone, table, SeesToIt, AtIt, DocOf, Command
<1>45. ASSUME AuthoriseOk(j) PROVE SeesToIt(j)
  BY <1>45, <1>1, <1>2, <1>3
     DEF AuthoriseOk, Goto, table, JobFits, JobHoldsEntry, JobIsExplained,
         SeesToIt, AtIt, DocOf, Command
<1>46. ASSUME AuthoriseFails(j) PROVE SeesToIt(j)
  BY <1>46, <1>1, <1>2, <1>3
     DEF AuthoriseFails, Answer, Goto, table, JobFits, JobHoldsEntry,
         JobIsExplained, SeesToIt, AtIt, DocOf, Command
<1>47. ASSUME RecordAuthorised(j) PROVE SeesToIt(j)
  BY <1>47, <1>1, <1>2, <1>3
     DEF RecordAuthorised, Answer, Goto, SetStatus, JobFits, JobHoldsEntry,
         JobIsExplained, SeesToIt, AtIt, DocOf, Command
<1>48. ASSUME PayOk(j) PROVE SeesToIt(j)
  BY <1>48, <1>1, <1>2
     DEF PayOk, SetStatus, table, JobFits, Pays, SeesToIt, AtIt, DocOf, Command
<1>49. ASSUME PayRefused(j) PROVE SeesToIt(j)
  BY <1>49, <1>1, <1>2, <1>3
     DEF PayRefused, table, Lose, Fault, Answer, Goto, SetStatus, JobFits,
         JobHoldsEntry, JobIsExplained, SeesToIt, AtIt, DocOf, Command
<1>50. ASSUME PayFails(j) PROVE SeesToIt(j)
  BY <1>50, <1>1, <1>2
     DEF PayFails, SetStatus, table, JobFits, Pays, SeesToIt, AtIt, DocOf,
         Command
<1>51. ASSUME Die(j) PROVE SeesToIt(j)
  BY <1>51, <1>1, <1>2, <1>3
     DEF Die, Lose, Fault, Goto, table, JobFits, JobHoldsEntry, JobIsExplained,
         SeesToIt, AtIt, DocOf, Command
<1> QED
  BY <1>4, <1>5, <1>6, <1>7, <1>8, <1>9, <1>10, <1>11, <1>12, <1>13, <1>14, <1>15,
     <1>16, <1>17, <1>18, <1>19, <1>20, <1>21, <1>22, <1>23, <1>24, <1>25, <1>26,
     <1>27, <1>28, <1>29, <1>30, <1>31, <1>32, <1>33, <1>34, <1>35, <1>36, <1>37,
     <1>38, <1>39, <1>40, <1>41, <1>42, <1>43, <1>44, <1>45, <1>46, <1>47, <1>48,
     <1>49, <1>50, <1>51
     DEF Step, Ask, Proceed

\* A row without an entry stays explained: whoever leaves it takes up a retry, gives
\* up, or tells its user.
LEMMA UnsyncedHolds ==
    ASSUME IInv, NEW j \in Jobs, Step(j) PROVE UnsyncedIsExplained'
<1>1. /\ SeesToIt(j) /\ OthersStay(j)
      /\ \A d \in Docs : kind[d] # "expense" => (ext[d] # 0 => ext'[d] # 0)
  BY MoverSeesToIt, OneMoves, RowsHold DEF RowsKept
<1> SUFFICES ASSUME NEW e \in Docs, kind'[e] \in {"invoice", "bill"},
                    row'[e] # "none", ext'[e] = 0, e \notin hurt'
             PROVE  \/ \E q \in Jobs : AtIt(q, e)'
                    \/ e \in givenUp'
                    \/ "error" \in told'[e]
  BY DEF UnsyncedIsExplained, AtIt, Busy
<1>2. kind'[e] = kind[e] /\ e \notin hurt /\ ext[e] = 0
  BY <1>1 DEF OthersStay
<1>3. CASE row[e] = "none"
  BY <1>1, <1>2, <1>3 DEF SeesToIt
<1>4. CASE row[e] # "none"
  <2>1. \/ \E q \in Jobs : AtIt(q, e)
        \/ e \in givenUp
        \/ "error" \in told[e]
    BY <1>2, <1>4 DEF IInv, PropertyInv, UnsyncedIsExplained, AtIt, Busy
  <2>2. ASSUME NEW q \in Jobs \ {j}, AtIt(q, e) PROVE AtIt(q, e)'
    BY <1>1, <2>2 DEF OthersStay, AtIt, DocOf, Command
  <2>3. ASSUME AtIt(j, e)
        PROVE  AtIt(j, e)' \/ e \in givenUp' \/ "error" \in told'[e]
    BY <1>1, <1>2, <2>3 DEF SeesToIt
  <2> QED BY <1>1, <2>1, <2>2, <2>3 DEF OthersStay
<1> QED BY <1>3, <1>4

\* A document that a job leaves is on record, or its user knows of an error.
AtDoc(j, e) == pc[j] # "free" /\ DocOf(j) = e
RecordsIt(j) ==
    \A e \in Docs :
        AtDoc(j, e) /\ e \notin hurt'
        => rowId'[e] > 0 \/ AtDoc(j, e)' \/ "error" \in told'[e]

\* Whoever moves keeps it on record.
LEMMA MoverRecordsIt ==
    ASSUME IInv, NEW j \in Jobs, Step(j)
    PROVE  RecordsIt(j)
<1>1. /\ DOMAIN pc = Jobs /\ DOMAIN job = Jobs
      /\ DOMAIN row = Docs /\ DOMAIN ext = Docs
      /\ DOMAIN told = Docs /\ DOMAIN rowId = Docs
  BY DEF IInv, TypeOK
<1>2. JobFits(j) /\ JobIsRecorded(j)
  BY DEF IInv, JobInv
<1>3. /\ \A d \in Docs : rowId[d] \in Nat /\ rowId'[d] \in Nat
      /\ \A d \in Docs : rowId[d] <= rowId'[d]
      /\ \A d \in Docs : row[d] # "none" => rowId[d] > 0
      /\ \A d \in Docs : "error" \in told[d] => "error" \in told'[d]
      /\ hurt \subseteq hurt'
  BY RowsHold, OneMoves DEF RowsKept, OthersStay, IInv, TypeOK, RowInv, RowsHaveIds
<1>4. pc[j] # "free" /\ kind[DocOf(j)] \in {"invoice", "bill"} =>
        rowId[DocOf(j)] > 0
  BY DEF IInv, JobInv, JobFits, JobIsExplained, RowInv, RowsHaveIds
<1>5. ASSUME NEW d \in Docs, CreateInvoice(j, d) PROVE RecordsIt(j)
  BY <1>5, <1>1, <1>2, <1>3, <1>4
     DEF CreateInvoice, Begin, Goto, JobFits, JobIsRecorded, RecordsIt, AtDoc,
         DocOf, Command
<1>6. ASSUME NEW d \in Docs, CreateInvoiceLost(j, d) PROVE RecordsIt(j)
  BY <1>6, <1>1, <1>2, <1>3, <1>4
     DEF CreateInvoiceLost, AtOnce, JobFits, JobIsRecorded, RecordsIt, AtDoc,
         DocOf, Command
<1>7. ASSUME NEW d \in Docs, CreateBill(j, d) PROVE RecordsIt(j)
  BY <1>7, <1>1, <1>2, <1>3, <1>4
     DEF CreateBill, Begin, AtOnce, Goto, JobFits, JobIsRecorded, RecordsIt,
         AtDoc, DocOf, Command
<1>8. ASSUME NEW d \in Docs, CreatePurchaseOrder(j, d) PROVE RecordsIt(j)
  BY <1>8, <1>1, <1>2, <1>3, <1>4
     DEF CreatePurchaseOrder, Begin, Goto, JobFits, JobIsRecorded, RecordsIt,
         AtDoc, DocOf, Command
<1>9. ASSUME NEW d \in Docs, CaptureApproved(j, d) PROVE RecordsIt(j)
  BY <1>9, <1>1, <1>2, <1>3, <1>4
     DEF CaptureApproved, Begin, Goto, JobFits, JobIsRecorded, RecordsIt, AtDoc,
         DocOf, Command
<1>10. ASSUME NEW d \in Docs, CapturePending(j, d) PROVE RecordsIt(j)
  BY <1>10, <1>1, <1>2, <1>3, <1>4
     DEF CapturePending, AtOnce, JobFits, JobIsRecorded, RecordsIt, AtDoc,
         DocOf, Command
<1>11. ASSUME NEW d \in Docs, ApproveExpense(j, d) PROVE RecordsIt(j)
  BY <1>11, <1>1, <1>2, <1>3, <1>4
     DEF ApproveExpense, Begin, Goto, JobFits, JobIsRecorded, RecordsIt, AtDoc,
         DocOf, Command
<1>12. ASSUME NEW d \in Docs, EditExpense(j, d) PROVE RecordsIt(j)
  BY <1>12, <1>1, <1>2, <1>3, <1>4
     DEF EditExpense, Begin, AtOnce, Goto, JobFits, JobIsRecorded, RecordsIt,
         AtDoc, DocOf, Command
<1>13. ASSUME NEW d \in Docs, RejectExpense(j, d) PROVE RecordsIt(j)
  BY <1>13, <1>1, <1>2, <1>3, <1>4
     DEF RejectExpense, AtOnce, JobFits, JobIsRecorded, RecordsIt, AtDoc, DocOf,
         Command
<1>14. ASSUME NEW d \in Docs, DeleteExpense(j, d) PROVE RecordsIt(j)
  BY <1>14, <1>1, <1>2, <1>3, <1>4
     DEF DeleteExpense, AtOnce, JobFits, JobIsRecorded, RecordsIt, AtDoc, DocOf,
         Command
<1>15. ASSUME NEW d \in Docs, SendInvoice(j, d) PROVE RecordsIt(j)
  BY <1>15, <1>1, <1>2, <1>3, <1>4
     DEF SendInvoice, Begin, Goto, JobFits, JobIsRecorded, RecordsIt, AtDoc,
         DocOf, Command
<1>16. ASSUME NEW d \in Docs, ApproveInvoice(j, d) PROVE RecordsIt(j)
  BY <1>16, <1>1, <1>2, <1>3, <1>4
     DEF ApproveInvoice, Begin, AtOnce, Goto, JobFits, JobIsRecorded, RecordsIt,
         AtDoc, DocOf, Command
<1>17. ASSUME NEW d \in Docs, ApproveInBatch(j, d) PROVE RecordsIt(j)
  BY <1>17, <1>1, <1>2, <1>3, <1>4
     DEF ApproveInBatch, Begin, Goto, JobFits, JobIsRecorded, RecordsIt, AtDoc,
         DocOf, Command
<1>18. ASSUME NEW d \in Docs, ApprovePurchaseOrder(j, d) PROVE RecordsIt(j)
  BY <1>18, <1>1, <1>2, <1>3, <1>4
     DEF ApprovePurchaseOrder, Begin, Goto, JobFits, JobIsRecorded, RecordsIt,
         AtDoc, DocOf, Command
<1>19. ASSUME NEW d \in Docs, ReceivePurchaseOrder(j, d) PROVE RecordsIt(j)
  BY <1>19, <1>1, <1>2, <1>3, <1>4
     DEF ReceivePurchaseOrder, AtOnce, JobFits, JobIsRecorded, RecordsIt, AtDoc,
         DocOf, Command
<1>20. ASSUME NEW d \in Docs, MarkPaid(j, d) PROVE RecordsIt(j)
  BY <1>20, <1>1, <1>2, <1>3, <1>4
     DEF MarkPaid, Begin, AtOnce, Goto, JobFits, JobIsRecorded, RecordsIt,
         AtDoc, DocOf, Command
<1>21. ASSUME NEW d \in Docs, Reconcile(j, d) PROVE RecordsIt(j)
  BY <1>21, <1>1, <1>2, <1>3, <1>4
     DEF Reconcile, Begin, AtOnce, Goto, JobFits, JobIsRecorded, RecordsIt,
         AtDoc, DocOf, Command
<1>22. ASSUME NEW d \in Docs, TrackPayment(j, d) PROVE RecordsIt(j)
  BY <1>22, <1>1, <1>2, <1>3, <1>4
     DEF TrackPayment, Begin, AtOnce, Goto, JobFits, JobIsRecorded, RecordsIt,
         AtDoc, DocOf, Command
<1>23. ASSUME PostLost(j) PROVE RecordsIt(j)
  BY <1>23, <1>1, <1>2, <1>3, <1>4
     DEF PostLost, JobFits, JobIsRecorded, RecordsIt, AtDoc, DocOf, Command
<1>24. ASSUME PostOk(j) PROVE RecordsIt(j)
  BY <1>24, <1>1, <1>2, <1>3, <1>4
     DEF PostOk, Goto, JobFits, JobIsRecorded, RecordsIt, AtDoc, DocOf, Command
<1>25. ASSUME QueueCreate(j) PROVE RecordsIt(j)
  BY <1>25, <1>1, <1>2, <1>3, <1>4
     DEF QueueCreate, Enqueue, Goto, JobFits, JobIsRecorded, RecordsIt, AtDoc,
         DocOf, Command
<1>26. ASSUME QueueCapture(j) PROVE RecordsIt(j)
  BY <1>26, <1>1, <1>2, <1>3, <1>4
     DEF QueueCapture, Enqueue, Goto, JobFits, JobIsRecorded, RecordsIt, AtDoc,
         DocOf, Command
<1>27. ASSUME QueueApprove(j) PROVE RecordsIt(j)
  BY <1>27, <1>1, <1>2, <1>3, <1>4
     DEF QueueApprove, Enqueue, Goto, JobFits, JobIsRecorded, RecordsIt, AtDoc,
         DocOf, Command
<1>28. ASSUME PostGivenUp(j) PROVE RecordsIt(j)
  <2>1. DocOf(j) \in Docs
    BY <1>28, <1>2 DEF PostGivenUp, JobFits
  <2>2. Command(j) \notin {"edit", "send"} => "error" \in told'[DocOf(j)]
    BY <1>28, <1>1, <2>1 DEF PostGivenUp, Answer, Reply, Remembered
  <2>3. Command(j) \in {"edit", "send"} =>
          \/ rowId[DocOf(j)] > 0 \/ "error" \in told[DocOf(j)]
          \/ DocOf(j) \in hurt
    BY <1>28, <1>2 DEF PostGivenUp, JobIsRecorded
  <2> QED BY <1>3, <2>1, <2>2, <2>3 DEF RecordsIt, AtDoc
<1>29. ASSUME RetryBlocked(j) PROVE RecordsIt(j)
  BY <1>29, <1>1, <1>2, <1>3, Postponed
     DEF RetryBlocked, JobFits, JobIsRecorded, RecordsIt, AtDoc, DocOf, Command
<1>30. ASSUME RetryStarts(j) PROVE RecordsIt(j)
  BY <1>30, <1>1, <1>2, <1>3, <1>4
     DEF RetryStarts, Goto, JobFits, JobIsRecorded, RecordsIt, AtDoc, DocOf,
         Command
<1>31. ASSUME RetryFails(j) PROVE RecordsIt(j)
  BY <1>31, <1>1, <1>2, <1>3, Postponed
     DEF RetryFails, JobFits, JobIsRecorded, RecordsIt, AtDoc, DocOf, Command
<1>32. ASSUME RetryDropped(j) PROVE RecordsIt(j)
  BY <1>32, <1>1, <1>2, <1>3, <1>4
     DEF RetryDropped, Goto, JobFits, JobIsRecorded, RecordsIt, AtDoc, DocOf,
         Command
<1>33. ASSUME NameInvoice(j) PROVE RecordsIt(j)
  BY <1>33, <1>1, <1>2, <1>3, <1>4
     DEF NameInvoice, Goto, JobFits, JobIsRecorded, RecordsIt, AtDoc, DocOf,
         Command
<1>34. ASSUME RestateInvoice(j) PROVE RecordsIt(j)
  BY <1>34, <1>1, <1>2, <1>3, <1>4
     DEF RestateInvoice, Answer, Goto, JobFits, JobIsRecorded, RecordsIt, AtDoc,
         DocOf, Command
<1>35. ASSUME NameBill(j) PROVE RecordsIt(j)
  BY <1>35, <1>1, <1>2, <1>3, <1>4
     DEF NameBill, Answer, Goto, JobFits, JobIsRecorded, RecordsIt, AtDoc,
         DocOf, Command
<1>36. ASSUME SavePurchaseOrder(j) PROVE RecordsIt(j)
  BY <1>36, <1>1, <1>2, <1>3, <1>4
     DEF SavePurchaseOrder, Lose, Fault, Insert, table, JobFits, JobIsRecorded,
         RecordsIt, AtDoc, DocOf, Command
<1>37. ASSUME NameExpense(j) PROVE RecordsIt(j)
  BY <1>37, <1>1, <1>2, <1>3, <1>4
     DEF NameExpense, Goto, JobFits, JobIsRecorded, RecordsIt, AtDoc, DocOf,
         Command
<1>38. ASSUME RecordCapture(j) PROVE RecordsIt(j)
  BY <1>38, <1>1, <1>2, <1>3, <1>4
     DEF RecordCapture, Lose, Fault, Insert, table, JobFits, JobIsRecorded,
         RecordsIt, AtDoc, DocOf, Command
<1>39. ASSUME RecordApproval(j) PROVE RecordsIt(j)
  BY <1>39, <1>1, <1>2, <1>3, <1>4
     DEF RecordApproval, Answer, Goto, JobFits, JobIsRecorded, RecordsIt, AtDoc,
         DocOf, Command
<1>40. ASSUME LinkApproval(j) PROVE RecordsIt(j)
  BY <1>40, <1>1, <1>2, <1>3, <1>4
     DEF LinkApproval, Answer, Goto, JobFits, JobIsRecorded, RecordsIt, AtDoc,
         DocOf, Command
<1>41. ASSUME Sent(j) PROVE RecordsIt(j)
  BY <1>41, <1>1, <1>2, <1>3, <1>4
     DEF Sent, Answer, Goto, JobFits, JobIsRecorded, RecordsIt, AtDoc, DocOf,
         Command
<1>42. ASSUME NameRetried(j) PROVE RecordsIt(j)
  BY <1>42, <1>1, <1>2, <1>3, <1>4
     DEF NameRetried, Goto, JobFits, JobIsRecorded, RecordsIt, AtDoc, DocOf,
         Command
<1>43. ASSUME NameRetriedFails(j) PROVE RecordsIt(j)
  BY <1>43, <1>1, <1>2, <1>3, Postponed
     DEF NameRetriedFails, JobFits, JobIsRecorded, RecordsIt, AtDoc, DocOf, Command
<1>44. ASSUME RetryDone(j) PROVE RecordsIt(j)
  BY <1>44, <1>1, <1>2, <1>3, <1>4
     DEF RetryDone, Answer, Goto, JobFits, JobIsRecorded, RecordsIt, AtDoc,
         DocOf, Command
<1>45. ASSUME NotifyFails(j) PROVE RecordsIt(j)
  BY <1>45, <1>1, <1>2, <1>3, Postponed
     DEF NotifyFails, JobFits, JobIsRecorded, RecordsIt, AtDoc, DocOf, Command
<1>46. ASSUME AuthoriseOk(j) PROVE RecordsIt(j)
  BY <1>46, <1>1, <1>2, <1>3, <1>4
     DEF AuthoriseOk, Goto, JobFits, JobIsRecorded, RecordsIt, AtDoc, DocOf,
         Command
<1>47. ASSUME AuthoriseFails(j) PROVE RecordsIt(j)
  BY <1>47, <1>1, <1>2, <1>3, <1>4
     DEF AuthoriseFails, Answer, Goto, JobFits, JobIsRecorded, RecordsIt, AtDoc,
         DocOf, Command
<1>48. ASSUME RecordAuthorised(j) PROVE RecordsIt(j)
  BY <1>48, <1>1, <1>2, <1>3, <1>4
     DEF RecordAuthorised, Answer, Goto, JobFits, JobIsRecorded, RecordsIt,
         AtDoc, DocOf, Command
<1>49. ASSUME PayOk(j) PROVE RecordsIt(j)
  BY <1>49, <1>1, <1>2, <1>3, <1>4
     DEF PayOk, Answer, Goto, JobFits, JobIsRecorded, RecordsIt, AtDoc, DocOf,
         Command
<1>50. ASSUME PayRefused(j) PROVE RecordsIt(j)
  BY <1>50, <1>1, <1>2, <1>3, <1>4
     DEF PayRefused, Answer, Goto, JobFits, JobIsRecorded, RecordsIt, AtDoc,
         DocOf, Command
<1>51. ASSUME PayFails(j) PROVE RecordsIt(j)
  BY <1>51, <1>1, <1>2, <1>3, <1>4
     DEF PayFails, Answer, Goto, JobFits, JobIsRecorded, RecordsIt, AtDoc,
         DocOf, Command
<1>52. ASSUME Die(j) PROVE RecordsIt(j)
  BY <1>52, <1>1, <1>2, <1>3, <1>4
     DEF Die, Lose, Fault, Goto, JobFits, JobIsRecorded, RecordsIt, AtDoc, DocOf,
         Command
<1> QED
  BY <1>5, <1>6, <1>7, <1>8, <1>9, <1>10, <1>11, <1>12, <1>13, <1>14, <1>15,
     <1>16, <1>17, <1>18, <1>19, <1>20, <1>21, <1>22, <1>23, <1>24, <1>25, <1>26,
     <1>27, <1>28, <1>29, <1>30, <1>31, <1>32, <1>33, <1>34, <1>35, <1>36, <1>37,
     <1>38, <1>39, <1>40, <1>41, <1>42, <1>43, <1>44, <1>45, <1>46, <1>47, <1>48,
     <1>49, <1>50, <1>51, <1>52
     DEF Step, Ask, Proceed

\* An entry comes into the books from a job that posts its document.
LEMMA NewEntries ==
    ASSUME IInv, NEW j \in Jobs, Step(j), NEW e \in Docs
    PROVE  /\ EntriesOf(e) \subseteq EntriesOf(e)'
           /\ \A i \in EntriesOf(e) :
                 books[i].state = "paid" => books'[i].state = "paid"
           /\ EntriesOf(e)' # EntriesOf(e) =>
                 pc[j] = "posting" /\ DocOf(j) = e
                 /\ EntriesOf(e)' \subseteq
                       EntriesOf(e) \cup (Len(books) + 1..Len(books'))
<1>1. BooksMove(j)
  BY BooksGrow
<1>2. /\ Len(books) \in Nat /\ Len(books') \in Nat /\ Len(books) <= Len(books')
      /\ DOMAIN books = 1..Len(books) /\ DOMAIN books' = 1..Len(books')
      /\ \A i \in 1..Len(books) :
            /\ books'[i].doc = books[i].doc
            /\ books[i].state = "paid" => books'[i].state = "paid"
  BY <1>1, LenProperties DEF BooksMove, Grows, IInv, TypeOK
<1>3. EntriesOf(e)' = {i \in 1..Len(books') : books'[i].doc = e}
  BY <1>2 DEF EntriesOf
<1>4. EntriesOf(e) = {i \in 1..Len(books) : books'[i].doc = e}
  BY <1>2 DEF EntriesOf
<1>5. CASE Len(books') = Len(books)
  BY <1>2, <1>3, <1>4, <1>5
<1>6. CASE pc[j] = "posting" /\ Post(DocOf(j), FormPosted(j))
  <2>1. DocOf(j) \in Docs /\ FormPosted(j) \in Kinds
    BY <1>6 DEF IInv, JobInv, JobFits, TypeOK, FormPosted, Kinds
  <2>2. \A i \in Len(books) + 1..Len(books') : books'[i].doc = DocOf(j)
    BY <1>6, <2>1, PostGrows DEF IInv, TypeOK
  <2>3. \A i \in 1..Len(books') :
          i \in 1..Len(books) \/ i \in Len(books) + 1..Len(books')
    BY <1>2
  <2>4. \A i \in 1..Len(books) : i \in 1..Len(books')
    BY <1>2
  <2> QED BY <1>2, <1>3, <1>4, <1>6, <2>2, <2>3, <2>4
<1> QED BY <1>1, <1>5, <1>6 DEF BooksMove

\* An entry stays on record, or with the job that has yet to record it.
LEMMA BookedHolds ==
    ASSUME IInv, NEW j \in Jobs, Step(j) PROVE BookedIsRecorded'
<1>1. /\ RecordsIt(j) /\ OthersStay(j)
      /\ \A d \in Docs : rowId[d] > 0 => rowId'[d] > 0
  <2>1. /\ \A d \in Docs : rowId[d] \in Nat
        /\ RowsKept /\ RecordsIt(j) /\ OthersStay(j)
    BY MoverRecordsIt, OneMoves, RowsHold DEF IInv, TypeOK
  <2> QED BY <2>1 DEF RowsKept
<1> SUFFICES ASSUME NEW e \in Docs, EntriesOf(e)' # {}, e \notin hurt'
             PROVE  \/ rowId'[e] > 0
                    \/ \E q \in Jobs : AtDoc(q, e)'
                    \/ "error" \in told'[e]
  BY DEF BookedIsRecorded, AtDoc, Busy
<1>2. e \notin hurt
  BY <1>1 DEF OthersStay
<1>3. CASE AtDoc(j, e)
  BY <1>1, <1>3 DEF RecordsIt
<1>4. CASE ~AtDoc(j, e)
  <2>1. EntriesOf(e) # {}
    BY <1>4, NewEntries DEF AtDoc
  <2>2. \/ rowId[e] > 0
        \/ \E q \in Jobs : AtDoc(q, e)
        \/ "error" \in told[e]
    BY <1>2, <2>1 DEF IInv, PropertyInv, BookedIsRecorded, AtDoc, Busy
  <2>3. ASSUME NEW q \in Jobs \ {j}, AtDoc(q, e) PROVE AtDoc(q, e)'
    BY <1>1, <2>3 DEF OthersStay, AtDoc, DocOf
  <2> QED BY <1>1, <1>4, <2>2, <2>3 DEF OthersStay
<1> QED BY <1>3, <1>4

\* An expense that a step approves, or whose retry it belongs to, is in the
\* books, or is still retried, or given up.
Retries(j, e) == pc[j] # "free" /\ DocOf(j) = e /\ Command(j) = "retry"
BooksIt(j) ==
    \A e \in Docs :
        /\ kind[e] = "expense" /\ row'[e] = "approved"
        /\ row[e] # "approved" \/ Retries(j, e)
        => EntriesOf(e) # {} \/ Retries(j, e)' \/ e \in givenUp'

\* Whoever moves sees to that.
LEMMA MoverBooksIt ==
    ASSUME IInv, NEW j \in Jobs, Step(j)
    PROVE  BooksIt(j)
<1>1. DOMAIN pc = Jobs /\ DOMAIN job = Jobs /\ DOMAIN row = Docs
  BY DEF IInv, TypeOK
<1>2. JobFits(j)
  BY DEF IInv, JobInv
<1>3. pc[j] \in {"recording", "notifying"} => EntriesOf(DocOf(j)) # {}
  BY LenProperties DEF IInv, JobInv, JobHoldsEntry, EntriesOf, TypeOK
<1>4. ASSUME NEW d \in Docs, CreateInvoice(j, d) PROVE BooksIt(j)
  BY <1>4, <1>1, <1>2, <1>3
     DEF CreateInvoice, Begin, Goto, Insert, JobFits, BooksIt, Retries, DocOf,
         Command
<1>5. ASSUME NEW d \in Docs, CreateInvoiceLost(j, d) PROVE BooksIt(j)
  BY <1>5, <1>1, <1>2, <1>3
     DEF CreateInvoiceLost, AtOnce, table, JobFits, BooksIt, Retries, DocOf,
         Command
<1>6. ASSUME NEW d \in Docs, CreateBill(j, d) PROVE BooksIt(j)
  BY <1>6, <1>1, <1>2, <1>3
     DEF CreateBill, Begin, AtOnce, Goto, Insert, table, JobFits, BooksIt,
         Retries, DocOf, Command
<1>7. ASSUME NEW d \in Docs, CreatePurchaseOrder(j, d) PROVE BooksIt(j)
  BY <1>7, <1>1, <1>2, <1>3
     DEF CreatePurchaseOrder, Begin, Goto, table, JobFits, BooksIt, Retries,
         DocOf, Command
<1>8. ASSUME NEW d \in Docs, CaptureApproved(j, d) PROVE BooksIt(j)
  BY <1>8, <1>1, <1>2, <1>3
     DEF CaptureApproved, Begin, Goto, table, JobFits, BooksIt, Retries, DocOf,
         Command
<1>9. ASSUME NEW d \in Docs, CapturePending(j, d) PROVE BooksIt(j)
  BY <1>9, <1>1, <1>2, <1>3
     DEF CapturePending, AtOnce, Insert, table, JobFits, BooksIt, Retries,
         DocOf, Command
<1>10. ASSUME NEW d \in Docs, ApproveExpense(j, d) PROVE BooksIt(j)
  BY <1>10, <1>1, <1>2, <1>3
     DEF ApproveExpense, Begin, Goto, table, JobFits, BooksIt, Retries, DocOf,
         Command
<1>11. ASSUME NEW d \in Docs, EditExpense(j, d) PROVE BooksIt(j)
  BY <1>11, <1>1, <1>2, <1>3
     DEF EditExpense, Begin, AtOnce, Goto, table, JobFits, BooksIt, Retries,
         DocOf, Command
<1>12. ASSUME NEW d \in Docs, RejectExpense(j, d) PROVE BooksIt(j)
  BY <1>12, <1>1, <1>2, <1>3
     DEF RejectExpense, AtOnce, SetStatus, JobFits, BooksIt, Retries, DocOf,
         Command
<1>13. ASSUME NEW d \in Docs, DeleteExpense(j, d) PROVE BooksIt(j)
  BY <1>13, <1>1, <1>2, <1>3
     DEF DeleteExpense, AtOnce, JobFits, BooksIt, Retries, DocOf, Command
<1>14. ASSUME NEW d \in Docs, SendInvoice(j, d) PROVE BooksIt(j)
  BY <1>14, <1>1, <1>2, <1>3
     DEF SendInvoice, Begin, Goto, table, JobFits, BooksIt, Retries, DocOf,
         Command
<1>15. ASSUME NEW d \in Docs, ApproveInvoice(j, d) PROVE BooksIt(j)
  BY <1>15, <1>1, <1>2, <1>3
     DEF ApproveInvoice, Begin, AtOnce, Goto, Name, table, JobFits, BooksIt,
         Retries, DocOf, Command
<1>16. ASSUME NEW d \in Docs, ApproveInBatch(j, d) PROVE BooksIt(j)
  BY <1>16, <1>1, <1>2, <1>3
     DEF ApproveInBatch, Begin, Goto, table, JobFits, BooksIt, Retries, DocOf,
         Command
<1>17. ASSUME NEW d \in Docs, ApprovePurchaseOrder(j, d) PROVE BooksIt(j)
  BY <1>17, <1>1, <1>2, <1>3
     DEF ApprovePurchaseOrder, Begin, Goto, table, JobFits, BooksIt, Retries,
         DocOf, Command
<1>18. ASSUME NEW d \in Docs, ReceivePurchaseOrder(j, d) PROVE BooksIt(j)
  BY <1>18, <1>1, <1>2, <1>3
     DEF ReceivePurchaseOrder, AtOnce, SetStatus, JobFits, BooksIt, Retries,
         DocOf, Command
<1>19. ASSUME NEW d \in Docs, MarkPaid(j, d) PROVE BooksIt(j)
  BY <1>19, <1>1, <1>2, <1>3
     DEF MarkPaid, table, Begin, AtOnce, Goto, SetStatus, JobFits, BooksIt,
         Retries, DocOf, Command
<1>20. ASSUME NEW d \in Docs, Reconcile(j, d) PROVE BooksIt(j)
  BY <1>20, <1>1, <1>2, <1>3
     DEF Reconcile, Begin, AtOnce, Goto, SetStatus, JobFits, BooksIt, Retries,
         DocOf, Command
<1>21. ASSUME NEW d \in Docs, TrackPayment(j, d) PROVE BooksIt(j)
  BY <1>21, <1>1, <1>2, <1>3
     DEF TrackPayment, Begin, AtOnce, Goto, SetStatus, JobFits, BooksIt,
         Retries, DocOf, Command
<1>22. ASSUME PostLost(j) PROVE BooksIt(j)
  BY <1>22, <1>1, <1>2, <1>3
     DEF PostLost, table, JobFits, BooksIt, Retries, DocOf, Command
<1>23. ASSUME PostOk(j) PROVE BooksIt(j)
  BY <1>23, <1>1, <1>2, <1>3
     DEF PostOk, Goto, table, JobFits, BooksIt, Retries, DocOf, Command
<1>24. ASSUME QueueCreate(j) PROVE BooksIt(j)
  BY <1>24, <1>1, <1>2, <1>3
     DEF QueueCreate, Enqueue, Goto, table, JobFits, BooksIt, Retries, DocOf,
         Command
<1>25. ASSUME QueueCapture(j) PROVE BooksIt(j)
  BY <1>25, <1>1, <1>2, <1>3
     DEF QueueCapture, Enqueue, Goto, Insert, table, JobFits, BooksIt, Retries,
         DocOf, Command
<1>26. ASSUME QueueApprove(j) PROVE BooksIt(j)
  BY <1>26, <1>1, <1>2, <1>3
     DEF QueueApprove, Enqueue, Goto, SetStatus, table, JobFits, BooksIt,
         Retries, DocOf, Command
<1>27. ASSUME PostGivenUp(j) PROVE BooksIt(j)
  BY <1>27, <1>1, <1>2, <1>3
     DEF PostGivenUp, Answer, Goto, table, JobFits, BooksIt, Retries, DocOf,
         Command
<1>28. ASSUME RetryBlocked(j) PROVE BooksIt(j)
  BY <1>28, <1>1, <1>2, <1>3, Postponed
     DEF RetryBlocked, Postpone, table, BooksIt, Retries, DocOf, Command
<1>29. ASSUME RetryStarts(j) PROVE BooksIt(j)
  BY <1>29, <1>1, <1>2, <1>3
     DEF RetryStarts, Goto, table, JobFits, BooksIt, Retries, DocOf, Command
<1>30. ASSUME RetryFails(j) PROVE BooksIt(j)
  BY <1>30, <1>1, <1>2, <1>3, Postponed
     DEF RetryFails, Postpone, table, BooksIt, Retries, DocOf, Command
<1>31. ASSUME RetryDropped(j) PROVE BooksIt(j)
  BY <1>31, <1>1, <1>2, <1>3
     DEF RetryDropped, Goto, table, JobFits, BooksIt, Retries, DocOf, Command
<1>32. ASSUME NameInvoice(j) PROVE BooksIt(j)
  BY <1>32, <1>1, <1>2, <1>3
     DEF NameInvoice, Goto, Name, table, JobFits, BooksIt, Retries, DocOf,
         Command
<1>33. ASSUME RestateInvoice(j) PROVE BooksIt(j)
  BY <1>33, <1>1, <1>2, <1>3
     DEF RestateInvoice, table, Fault, Answer, Goto, SetStatus, JobFits, BooksIt,
         Retries, DocOf, Command
<1>34. ASSUME NameBill(j) PROVE BooksIt(j)
  BY <1>34, <1>1, <1>2, <1>3
     DEF NameBill, Answer, Goto, Name, table, JobFits, BooksIt, Retries, DocOf,
         Command
<1>35. ASSUME SavePurchaseOrder(j) PROVE BooksIt(j)
  BY <1>35, <1>1, <1>2, <1>3
     DEF SavePurchaseOrder, Answer, Goto, Insert, table, JobFits, BooksIt,
         Retries, DocOf, Command
<1>36. ASSUME NameExpense(j) PROVE BooksIt(j)
  BY <1>36, <1>1, <1>2, <1>3
     DEF NameExpense, table, Lose, Fault, Goto, Name, JobFits, BooksIt, Retries,
         DocOf, Command
<1>37. ASSUME RecordCapture(j) PROVE BooksIt(j)
  BY <1>37, <1>1, <1>2, <1>3
     DEF RecordCapture, Answer, Goto, Insert, table, JobFits, BooksIt, Retries,
         DocOf, Command
<1>38. ASSUME RecordApproval(j) PROVE BooksIt(j)
  BY <1>38, <1>1, <1>2, <1>3
     DEF RecordApproval, SetStatus, Fault, Answer, Goto, table, JobFits, BooksIt,
         Retries, DocOf, Command
<1>39. ASSUME LinkApproval(j) PROVE BooksIt(j)
  BY <1>39, <1>1, <1>2, <1>3
     DEF LinkApproval, Name, Fault, Answer, Goto, table, JobFits, BooksIt,
         Retries, DocOf, Command
<1>40. ASSUME Sent(j) PROVE BooksIt(j)
  BY <1>40, <1>1, <1>2, <1>3
     DEF Sent, Answer, Goto, table, JobFits, BooksIt, Retries, DocOf, Command
<1>41. ASSUME NameRetried(j) PROVE BooksIt(j)
  BY <1>41, <1>1, <1>2, <1>3
     DEF NameRetried, Goto, Name, table, JobFits, BooksIt, Retries, DocOf,
         Command
<1>42. ASSUME NameRetriedFails(j) PROVE BooksIt(j)
  BY <1>42, <1>1, <1>2, <1>3, Postponed
     DEF NameRetriedFails, Postpone, table, BooksIt, Retries, DocOf, Command
<1>43. ASSUME RetryDone(j) PROVE BooksIt(j)
  BY <1>43, <1>1, <1>2, <1>3
     DEF RetryDone, Answer, Goto, table, JobFits, BooksIt, Retries, DocOf,
         Command
<1>44. ASSUME NotifyFails(j) PROVE BooksIt(j)
  BY <1>44, <1>1, <1>2, <1>3, Postponed
     DEF NotifyFails, Postpone, table, BooksIt, Retries, DocOf, Command
<1>45. ASSUME AuthoriseOk(j) PROVE BooksIt(j)
  BY <1>45, <1>1, <1>2, <1>3
     DEF AuthoriseOk, Goto, table, JobFits, BooksIt, Retries, DocOf, Command
<1>46. ASSUME AuthoriseFails(j) PROVE BooksIt(j)
  BY <1>46, <1>1, <1>2, <1>3
     DEF AuthoriseFails, Answer, Goto, table, JobFits, BooksIt, Retries, DocOf,
         Command
<1>47. ASSUME RecordAuthorised(j) PROVE BooksIt(j)
  BY <1>47, <1>1, <1>2, <1>3
     DEF RecordAuthorised, Answer, Goto, SetStatus, JobFits, BooksIt, Retries,
         DocOf, Command
<1>48. ASSUME PayOk(j) PROVE BooksIt(j)
  BY <1>48, <1>1, <1>2
     DEF PayOk, SetStatus, table, JobFits, Pays, BooksIt, Retries, DocOf,
         Command
<1>49. ASSUME PayRefused(j) PROVE BooksIt(j)
  BY <1>49, <1>1, <1>2
     DEF PayRefused, SetStatus, table, JobFits, Pays, BooksIt, Retries, DocOf,
         Command
<1>50. ASSUME PayFails(j) PROVE BooksIt(j)
  BY <1>50, <1>1, <1>2
     DEF PayFails, SetStatus, table, JobFits, Pays, BooksIt, Retries, DocOf,
         Command
<1>51. ASSUME Die(j) PROVE BooksIt(j)
  BY <1>51, <1>1, <1>2, <1>3
     DEF Die, Goto, table, JobFits, BooksIt, Retries, DocOf, Command
<1> QED
  BY <1>4, <1>5, <1>6, <1>7, <1>8, <1>9, <1>10, <1>11, <1>12, <1>13, <1>14, <1>15,
     <1>16, <1>17, <1>18, <1>19, <1>20, <1>21, <1>22, <1>23, <1>24, <1>25, <1>26,
     <1>27, <1>28, <1>29, <1>30, <1>31, <1>32, <1>33, <1>34, <1>35, <1>36, <1>37,
     <1>38, <1>39, <1>40, <1>41, <1>42, <1>43, <1>44, <1>45, <1>46, <1>47, <1>48,
     <1>49, <1>50, <1>51
     DEF Step, Ask, Proceed

\* An approval stays booked, queued or given up.
LEMMA ApprovedHolds ==
    ASSUME IInv, NEW j \in Jobs, Step(j) PROVE ApprovedIsBooked'
<1>1. BooksIt(j) /\ OthersStay(j)
  BY MoverBooksIt, OneMoves
<1> SUFFICES ASSUME NEW e \in Docs, kind'[e] = "expense", row'[e] = "approved"
             PROVE  \/ EntriesOf(e)' # {}
                    \/ \E q \in Jobs : Retries(q, e)'
                    \/ e \in givenUp'
  BY DEF ApprovedIsBooked, Retries, Busy
<1>2. kind[e] = "expense"
  BY <1>1 DEF OthersStay
<1>3. EntriesOf(e) # {} => EntriesOf(e)' # {}
  BY NewEntries
<1>4. CASE row[e] # "approved" \/ Retries(j, e)
  BY <1>1, <1>2, <1>3, <1>4 DEF BooksIt
<1>5. CASE row[e] = "approved" /\ ~Retries(j, e)
  <2>1. \/ EntriesOf(e) # {}
        \/ \E q \in Jobs : Retries(q, e)
        \/ e \in givenUp
    BY <1>2, <1>5 DEF IInv, PropertyInv, ApprovedIsBooked, Retries, Busy
  <2>2. ASSUME NEW q \in Jobs \ {j}, Retries(q, e) PROVE Retries(q, e)'
    BY <1>1, <2>2 DEF OthersStay, Retries, DocOf, Command
  <2> QED BY <1>1, <1>3, <1>5, <2>1, <2>2 DEF OthersStay
<1> QED BY <1>4, <1>5

\* What a job does for those who ask about payments: of what is newly told as
\* taken there is a paid entry; and a row is newly paid, or no longer being paid,
\* with a paid entry, the payment under way, an answer, or a loss.
Taken(e) == \E i \in EntriesOf(e)' : books'[i].state = "paid"
Told(e) == told'[e] \cap {"warned", "failed", "settled"} # {}
PaysFor(j, e) == pc[j] = "paying" /\ DocOf(j) = e
AnswersFor(j) ==
    \A e \in Docs :
        /\ "paid" \in told'[e] /\ "paid" \notin told[e] => Taken(e)
        /\ row'[e] = "paid" =>
              \/ row[e] = "paid" /\ ~ PaysFor(j, e)
              \/ Taken(e)
              \/ PaysFor(j, e)'
              \/ Told(e)
              \/ e \in hurt'

\* A step tells nothing of payments that is not so, and leaves no row paid
\* without an answer.
LEMMA MoverAnswers ==
    ASSUME IInv, NEW j \in Jobs, Step(j)
    PROVE  AnswersFor(j)
<1>1. /\ DOMAIN told = Docs /\ DOMAIN row = Docs /\ DOMAIN pc = Jobs
      /\ DOMAIN job = Jobs
  BY DEF IInv, TypeOK
<1>2. pc[j] = "paying" =>
        /\ DocOf(j) \in Docs
        /\ job[j].entry \in 1..Len(books)
        /\ job[j].entry \in EntriesOf(DocOf(j))
  BY LenProperties DEF IInv, JobInv, JobFits, JobHoldsEntry, EntriesOf, TypeOK
<1>3. ASSUME NEW d \in Docs, CreateInvoice(j, d) PROVE AnswersFor(j)
  BY <1>3, <1>1 DEF CreateInvoice, Begin, Insert, Goto, AnswersFor, PaysFor, DocOf
<1>4. ASSUME NEW d \in Docs, CreateInvoiceLost(j, d) PROVE AnswersFor(j)
  BY <1>4, <1>1 DEF CreateInvoiceLost, AtOnce, Reply, table, AnswersFor, PaysFor,
         DocOf
<1>5. ASSUME NEW d \in Docs, CreateBill(j, d) PROVE AnswersFor(j)
  BY <1>5, <1>1 DEF CreateBill, Begin, AtOnce, Reply, Insert, Goto, table,
         AnswersFor, PaysFor, DocOf
<1>6. ASSUME NEW d \in Docs, CreatePurchaseOrder(j, d) PROVE AnswersFor(j)
  BY <1>6, <1>1 DEF CreatePurchaseOrder, Begin, Goto, table, AnswersFor, PaysFor,
         DocOf
<1>7. ASSUME NEW d \in Docs, CaptureApproved(j, d) PROVE AnswersFor(j)
  BY <1>7, <1>1 DEF CaptureApproved, Begin, Goto, table, AnswersFor, PaysFor,
         DocOf
<1>8. ASSUME NEW d \in Docs, CapturePending(j, d) PROVE AnswersFor(j)
  BY <1>8, <1>1 DEF CapturePending, AtOnce, Reply, Insert, table, AnswersFor,
         PaysFor, DocOf
<1>9. ASSUME NEW d \in Docs, ApproveExpense(j, d) PROVE AnswersFor(j)
  BY <1>9, <1>1 DEF ApproveExpense, Begin, Goto, table, AnswersFor, PaysFor, DocOf
<1>10. ASSUME NEW d \in Docs, EditExpense(j, d) PROVE AnswersFor(j)
  BY <1>10, <1>1 DEF EditExpense, Begin, AtOnce, Reply, Goto, table, AnswersFor,
         PaysFor, DocOf
<1>11. ASSUME NEW d \in Docs, RejectExpense(j, d) PROVE AnswersFor(j)
  BY <1>11, <1>1 DEF RejectExpense, AtOnce, Reply, SetStatus, AnswersFor, PaysFor,
         DocOf
<1>12. ASSUME NEW d \in Docs, DeleteExpense(j, d) PROVE AnswersFor(j)
  BY <1>12, <1>1 DEF DeleteExpense, AtOnce, Reply, AnswersFor, PaysFor, DocOf
<1>13. ASSUME NEW d \in Docs, SendInvoice(j, d) PROVE AnswersFor(j)
  BY <1>13, <1>1 DEF SendInvoice, Begin, Goto, table, AnswersFor, PaysFor, DocOf
<1>14. ASSUME NEW d \in Docs, ApproveInvoice(j, d) PROVE AnswersFor(j)
  BY <1>14, <1>1 DEF ApproveInvoice, Begin, AtOnce, Reply, Name, Goto, table,
         AnswersFor, PaysFor, DocOf
<1>15. ASSUME NEW d \in Docs, ApproveInBatch(j, d) PROVE AnswersFor(j)
  BY <1>15, <1>1 DEF ApproveInBatch, Begin, Goto, table, AnswersFor, PaysFor,
         DocOf
<1>16. ASSUME NEW d \in Docs, ApprovePurchaseOrder(j, d) PROVE AnswersFor(j)
  BY <1>16, <1>1 DEF ApprovePurchaseOrder, Begin, Goto, table, AnswersFor,
         PaysFor, DocOf
<1>17. ASSUME NEW d \in Docs, ReceivePurchaseOrder(j, d) PROVE AnswersFor(j)
  BY <1>17, <1>1 DEF ReceivePurchaseOrder, AtOnce, Reply, SetStatus, AnswersFor,
         PaysFor, DocOf
<1>18. ASSUME NEW d \in Docs, MarkPaid(j, d) PROVE AnswersFor(j)
  BY <1>18, <1>1 DEF MarkPaid, Begin, AtOnce, Reply, SetStatus, Goto, table,
         Remembered, AnswersFor, PaysFor, DocOf, Told
<1>19. ASSUME NEW d \in Docs, Reconcile(j, d) PROVE AnswersFor(j)
  BY <1>19, <1>1 DEF Reconcile, Begin, AtOnce, Reply, SetStatus, Goto, Remembered,
         AnswersFor, PaysFor, DocOf, Told
<1>20. ASSUME NEW d \in Docs, TrackPayment(j, d) PROVE AnswersFor(j)
  BY <1>20, <1>1 DEF TrackPayment, Begin, AtOnce, Reply, SetStatus, Goto,
         Remembered, AnswersFor, PaysFor, DocOf, Told
<1>21. ASSUME PostLost(j) PROVE AnswersFor(j)
  BY <1>21, <1>1 DEF PostLost, table, AnswersFor, PaysFor, DocOf
<1>22. ASSUME PostOk(j) PROVE AnswersFor(j)
  BY <1>22, <1>1 DEF PostOk, Goto, table, AnswersFor, PaysFor, DocOf
<1>23. ASSUME QueueCreate(j) PROVE AnswersFor(j)
  BY <1>23, <1>1 DEF QueueCreate, Reply, Enqueue, Goto, table, AnswersFor,
         PaysFor, DocOf
<1>24. ASSUME QueueCapture(j) PROVE AnswersFor(j)
  BY <1>24, <1>1 DEF QueueCapture, Reply, Insert, Enqueue, Lose, Goto, table,
         AnswersFor, PaysFor, DocOf
<1>25. ASSUME QueueApprove(j) PROVE AnswersFor(j)
  BY <1>25, <1>1 DEF QueueApprove, Reply, SetStatus, Enqueue, Goto, table,
         AnswersFor, PaysFor, DocOf
<1>26. ASSUME PostGivenUp(j) PROVE AnswersFor(j)
  BY <1>26, <1>1 DEF PostGivenUp, Answer, Reply, Goto, table, AnswersFor, PaysFor,
         DocOf
<1>27. ASSUME RetryBlocked(j) PROVE AnswersFor(j)
  BY <1>27, <1>1 DEF RetryBlocked, Postpone, Goto, table, AnswersFor, PaysFor,
         DocOf
<1>28. ASSUME RetryStarts(j) PROVE AnswersFor(j)
  BY <1>28, <1>1 DEF RetryStarts, Goto, table, AnswersFor, PaysFor, DocOf
<1>29. ASSUME RetryFails(j) PROVE AnswersFor(j)
  BY <1>29, <1>1 DEF RetryFails, Postpone, Goto, table, AnswersFor, PaysFor, DocOf
<1>30. ASSUME RetryDropped(j) PROVE AnswersFor(j)
  BY <1>30, <1>1 DEF RetryDropped, Goto, table, AnswersFor, PaysFor, DocOf
<1>31. ASSUME NameInvoice(j) PROVE AnswersFor(j)
  BY <1>31, <1>1 DEF NameInvoice, Name, Lose, Goto, table, AnswersFor, PaysFor,
         DocOf
<1>32. ASSUME RestateInvoice(j) PROVE AnswersFor(j)
  BY <1>32, <1>1 DEF RestateInvoice, Answer, Reply, SetStatus, Goto, table,
         AnswersFor, PaysFor, DocOf
<1>33. ASSUME NameBill(j) PROVE AnswersFor(j)
  BY <1>33, <1>1 DEF NameBill, Answer, Reply, Name, Lose, Goto, table, AnswersFor,
         PaysFor, DocOf
<1>34. ASSUME SavePurchaseOrder(j) PROVE AnswersFor(j)
  BY <1>34, <1>1 DEF SavePurchaseOrder, Answer, Reply, Insert, Lose, Goto, table,
         AnswersFor, PaysFor, DocOf
<1>35. ASSUME NameExpense(j) PROVE AnswersFor(j)
  BY <1>35, <1>1 DEF NameExpense, Name, Lose, Goto, table, AnswersFor, PaysFor,
         DocOf
<1>36. ASSUME RecordCapture(j) PROVE AnswersFor(j)
  BY <1>36, <1>1 DEF RecordCapture, Answer, Reply, Insert, Lose, Goto, table,
         AnswersFor, PaysFor, DocOf
<1>37. ASSUME RecordApproval(j) PROVE AnswersFor(j)
  BY <1>37, <1>1 DEF RecordApproval, Answer, Reply, SetStatus, Goto, table,
         AnswersFor, PaysFor, DocOf
<1>38. ASSUME LinkApproval(j) PROVE AnswersFor(j)
  BY <1>38, <1>1 DEF LinkApproval, Answer, Reply, Name, Goto, table, AnswersFor,
         PaysFor, DocOf
<1>39. ASSUME Sent(j) PROVE AnswersFor(j)
  BY <1>39, <1>1 DEF Sent, Answer, Reply, Goto, table, AnswersFor, PaysFor, DocOf
<1>40. ASSUME NameRetried(j) PROVE AnswersFor(j)
  BY <1>40, <1>1 DEF NameRetried, Name, Goto, table, AnswersFor, PaysFor, DocOf
<1>41. ASSUME NameRetriedFails(j) PROVE AnswersFor(j)
  BY <1>41, <1>1 DEF NameRetriedFails, Postpone, Goto, table, AnswersFor, PaysFor,
         DocOf
<1>42. ASSUME RetryDone(j) PROVE AnswersFor(j)
  BY <1>42, <1>1 DEF RetryDone, Answer, Reply, Goto, table, AnswersFor, PaysFor,
         DocOf
<1>43. ASSUME NotifyFails(j) PROVE AnswersFor(j)
  BY <1>43, <1>1 DEF NotifyFails, Postpone, Goto, table, AnswersFor, PaysFor,
         DocOf
<1>44. ASSUME AuthoriseOk(j) PROVE AnswersFor(j)
  BY <1>44, <1>1 DEF AuthoriseOk, Goto, table, AnswersFor, PaysFor, DocOf
<1>45. ASSUME AuthoriseFails(j) PROVE AnswersFor(j)
  BY <1>45, <1>1 DEF AuthoriseFails, Answer, Reply, Goto, table, AnswersFor,
         PaysFor, DocOf
<1>46. ASSUME RecordAuthorised(j) PROVE AnswersFor(j)
  BY <1>46, <1>1 DEF RecordAuthorised, Answer, Reply, SetStatus, Goto, AnswersFor,
         PaysFor, DocOf
<1>47. ASSUME PayOk(j) PROVE AnswersFor(j)
  <2>1. books'[job[j].entry].state = "paid"
    BY <1>47, <1>2, PayGrows DEF PayOk, IInv, TypeOK
  <2>2. ASSUME NEW e \in Docs, e = DocOf(j) PROVE Taken(e)
    BY <1>47, <1>2, <2>1, <2>2, NewEntries DEF PayOk, Taken
  <2>3. \A e \in Docs \ {DocOf(j)} :
          told'[e] = told[e] /\ (row'[e] = "paid" => row[e] = "paid")
    BY <1>47, <1>1 DEF PayOk, Answer, Reply, SetStatus, table
  <2> QED BY <2>2, <2>3 DEF AnswersFor, PaysFor
<1>48. ASSUME PayRefused(j) PROVE AnswersFor(j)
  BY <1>48, <1>1 DEF PayRefused, Answer, Reply, SetStatus, Lose, Goto, table,
         AnswersFor, PaysFor, DocOf, Told
<1>49. ASSUME PayFails(j) PROVE AnswersFor(j)
  BY <1>49, <1>1, <1>2
     DEF PayFails, Answer, Reply, table, Remembered, AnswersFor, PaysFor, Told
<1>50. ASSUME Die(j) PROVE AnswersFor(j)
  BY <1>50, <1>1 DEF Die, Lose, Goto, table, AnswersFor, PaysFor, DocOf
<1> QED
  BY <1>3, <1>4, <1>5, <1>6, <1>7, <1>8, <1>9, <1>10, <1>11, <1>12, <1>13, <1>14,
     <1>15, <1>16, <1>17, <1>18, <1>19, <1>20, <1>21, <1>22, <1>23, <1>24, <1>25,
     <1>26, <1>27, <1>28, <1>29, <1>30, <1>31, <1>32, <1>33, <1>34, <1>35, <1>36,
     <1>37, <1>38, <1>39, <1>40, <1>41, <1>42, <1>43, <1>44, <1>45, <1>46, <1>47,
     <1>48, <1>49, <1>50
     DEF Step, Ask, Proceed

\* No step leaves a payment unanswered, or makes an answer wrong.
LEMMA AnsweredHolds ==
    ASSUME IInv, NEW j \in Jobs, Step(j) PROVE PaymentsAnswered'
<1>1. AnswersFor(j) /\ OthersStay(j)
  BY MoverAnswers, OneMoves
<1>2. ASSUME NEW e \in Docs, PaidEntry(e) PROVE Taken(e)
  BY <1>2, NewEntries DEF PaidEntry, Taken
<1>3. ASSUME NEW e \in Docs, "paid" \in told'[e] PROVE Taken(e)
  <2>1. CASE "paid" \in told[e]
    BY <1>2, <2>1 DEF IInv, PropertyInv, PaymentsAnswered
  <2>2. CASE "paid" \notin told[e]
    BY <1>1, <1>3, <2>2 DEF AnswersFor
  <2> QED BY <2>1, <2>2
<1>4. ASSUME NEW e \in Docs, row'[e] = "paid", e \notin hurt'
      PROVE  Taken(e) \/ (\E q \in Jobs : PaysFor(q, e)') \/ Told(e)
  <2>1. \/ row[e] = "paid" /\ ~ PaysFor(j, e)
        \/ Taken(e) \/ PaysFor(j, e)' \/ Told(e)
    BY <1>1, <1>4 DEF AnswersFor
  <2>2. CASE row[e] = "paid" /\ ~ PaysFor(j, e)
    <3>1. e \notin hurt
      BY <1>1, <1>4 DEF OthersStay
    <3>2. \/ PaidEntry(e)
          \/ \E q \in Jobs : PaysFor(q, e)
          \/ told[e] \cap {"warned", "failed", "settled"} # {}
      BY <2>2, <3>1 DEF IInv, PropertyInv, PaymentsAnswered, Busy, PaysFor
    <3>3. ASSUME NEW q \in Jobs, PaysFor(q, e) PROVE PaysFor(q, e)'
      BY <1>1, <2>2, <3>3 DEF OthersStay, PaysFor, DocOf
    <3>4. told[e] \subseteq told'[e]
      BY <1>1 DEF OthersStay
    <3> QED BY <1>2, <3>2, <3>3, <3>4 DEF Told
  <2> QED BY <2>1, <2>2
<1>5. ASSUME NEW e \in Docs, NEW q \in Jobs, PaysFor(q, e)'
      PROVE  q \in Busy(e)' /\ pc'[q] = "paying"
  BY <1>5 DEF PaysFor, Busy, DocOf
<1> QED
  BY <1>3, <1>4, <1>5 DEF PaymentsAnswered, PaidEntry, Taken, Told

-----------------------------------------------------------------------------
(* The number of posts: every step is paid by attempts, by a command or by a *)
(* fault.                                                                    *)

Share(j, d) == IF DocOf(j) = d THEN Attempts(j) ELSE 0
PostsFor(j, d) == IF pc[j] = "posting" /\ DocOf(j) = d /\ Len(books') # Len(books)
                  THEN 1 ELSE 0
Accounts(j) ==
    \A d \in Docs :
        Share(j, d)' + PostsFor(j, d) + Budget <= Share(j, d) + Budget'

\* Arithmetic that the backends find alone only.
LEMMA Successor ==
    ASSUME NEW m \in Nat, NEW n \in Nat PROVE (m + 1) * n = m * n + n
  OBVIOUS

\* A command pays for its post and all its retries; a fault pays for one post.
LEMMA BudgetGrows ==
    ASSUME IInv
    PROVE  /\ Budget \in Nat
           /\ UNCHANGED << commands, faults >> => Budget' = Budget
           /\ commands' = commands /\ faults' = faults + 1 =>
                 Budget' = Budget + 1
           /\ commands' = commands + 1 /\ faults' = faults =>
                 Budget' = Budget + MaxRetries + 1
<1> DEFINE each == MaxRetries + 1
<1>1. commands \in Nat /\ faults \in Nat /\ each \in Nat
  BY BoundsAssumption DEF IInv, TypeOK
<1>2. commands * each \in Nat
  BY <1>1
<1>3. (commands + 1) * each = commands * each + each
  BY <1>1, Successor
<1> HIDE DEF each
<1>4. Budget = commands * each + faults /\ Budget' = commands' * each + faults'
  BY DEF Budget, each
<1>5. each = MaxRetries + 1
  BY DEF each
<1>6. commands' = commands + 1 /\ faults' = faults => Budget' = Budget + each
  BY <1>1, <1>2, <1>3, <1>4
<1> QED BY <1>1, <1>2, <1>4, <1>5, <1>6, BoundsAssumption
\* Each step is paid for.
LEMMA MoverAccounts ==
    ASSUME IInv, NEW j \in Jobs, Step(j)
    PROVE  Accounts(j)
<1>1. DOMAIN pc = Jobs /\ DOMAIN job = Jobs /\ job[j].left \in 0..MaxRetries
  BY DEF IInv, TypeOK
<1>2. MaxRetries \in Nat /\ JobFits(j)
  BY BoundsAssumption DEF IInv, JobInv
<1>3. /\ Budget \in Nat
      /\ UNCHANGED << commands, faults >> => Budget' = Budget
      /\ commands' = commands /\ faults' = faults + 1 =>
            Budget' = Budget + 1
      /\ commands' = commands + 1 /\ faults' = faults =>
            Budget' = Budget + MaxRetries + 1
  BY BudgetGrows
<1>4. ASSUME NEW d \in Docs, CreateInvoice(j, d) PROVE Accounts(j)
  BY <1>4, <1>1, <1>2, <1>3
     DEF CreateInvoice, Begin, Goto, JobFits, Accounts, Share, PostsFor,
         Attempts, DocOf, Command
<1>5. ASSUME NEW d \in Docs, CreateInvoiceLost(j, d) PROVE Accounts(j)
  BY <1>5, <1>1, <1>2, <1>3
     DEF CreateInvoiceLost, AtOnce, JobFits, Accounts, Share, PostsFor,
         Attempts, DocOf, Command
<1>6. ASSUME NEW d \in Docs, CreateBill(j, d) PROVE Accounts(j)
  BY <1>6, <1>1, <1>2, <1>3
     DEF CreateBill, Begin, AtOnce, Goto, JobFits, Accounts, Share, PostsFor,
         Attempts, DocOf, Command
<1>7. ASSUME NEW d \in Docs, CreatePurchaseOrder(j, d) PROVE Accounts(j)
  BY <1>7, <1>1, <1>2, <1>3
     DEF CreatePurchaseOrder, Begin, Goto, JobFits, Accounts, Share, PostsFor,
         Attempts, DocOf, Command
<1>8. ASSUME NEW d \in Docs, CaptureApproved(j, d) PROVE Accounts(j)
  BY <1>8, <1>1, <1>2, <1>3
     DEF CaptureApproved, Begin, Goto, JobFits, Accounts, Share, PostsFor,
         Attempts, DocOf, Command
<1>9. ASSUME NEW d \in Docs, CapturePending(j, d) PROVE Accounts(j)
  BY <1>9, <1>1, <1>2, <1>3
     DEF CapturePending, AtOnce, JobFits, Accounts, Share, PostsFor, Attempts,
         DocOf, Command
<1>10. ASSUME NEW d \in Docs, ApproveExpense(j, d) PROVE Accounts(j)
  BY <1>10, <1>1, <1>2, <1>3
     DEF ApproveExpense, Begin, Goto, JobFits, Accounts, Share, PostsFor,
         Attempts, DocOf, Command
<1>11. ASSUME NEW d \in Docs, EditExpense(j, d) PROVE Accounts(j)
  BY <1>11, <1>1, <1>2, <1>3
     DEF EditExpense, Begin, AtOnce, Goto, JobFits, Accounts, Share, PostsFor,
         Attempts, DocOf, Command
<1>12. ASSUME NEW d \in Docs, RejectExpense(j, d) PROVE Accounts(j)
  BY <1>12, <1>1, <1>2, <1>3
     DEF RejectExpense, AtOnce, JobFits, Accounts, Share, PostsFor, Attempts,
         DocOf, Command
<1>13. ASSUME NEW d \in Docs, DeleteExpense(j, d) PROVE Accounts(j)
  BY <1>13, <1>1, <1>2, <1>3
     DEF DeleteExpense, AtOnce, JobFits, Accounts, Share, PostsFor, Attempts,
         DocOf, Command
<1>14. ASSUME NEW d \in Docs, SendInvoice(j, d) PROVE Accounts(j)
  BY <1>14, <1>1, <1>2, <1>3
     DEF SendInvoice, Begin, Goto, JobFits, Accounts, Share, PostsFor, Attempts,
         DocOf, Command
<1>15. ASSUME NEW d \in Docs, ApproveInvoice(j, d) PROVE Accounts(j)
  BY <1>15, <1>1, <1>2, <1>3
     DEF ApproveInvoice, Begin, AtOnce, Goto, JobFits, Accounts, Share,
         PostsFor, Attempts, DocOf, Command
<1>16. ASSUME NEW d \in Docs, ApproveInBatch(j, d) PROVE Accounts(j)
  BY <1>16, <1>1, <1>2, <1>3
     DEF ApproveInBatch, Begin, Goto, JobFits, Accounts, Share, PostsFor,
         Attempts, DocOf, Command
<1>17. ASSUME NEW d \in Docs, ApprovePurchaseOrder(j, d) PROVE Accounts(j)
  BY <1>17, <1>1, <1>2, <1>3
     DEF ApprovePurchaseOrder, Begin, Goto, JobFits, Accounts, Share, PostsFor,
         Attempts, DocOf, Command
<1>18. ASSUME NEW d \in Docs, ReceivePurchaseOrder(j, d) PROVE Accounts(j)
  BY <1>18, <1>1, <1>2, <1>3
     DEF ReceivePurchaseOrder, AtOnce, JobFits, Accounts, Share, PostsFor,
         Attempts, DocOf, Command
<1>19. ASSUME NEW d \in Docs, MarkPaid(j, d) PROVE Accounts(j)
  BY <1>19, <1>1, <1>2, <1>3
     DEF MarkPaid, Begin, AtOnce, Goto, JobFits, Accounts, Share, PostsFor,
         Attempts, DocOf, Command
<1>20. ASSUME NEW d \in Docs, Reconcile(j, d) PROVE Accounts(j)
  BY <1>20, <1>1, <1>2, <1>3
     DEF Reconcile, Begin, AtOnce, Goto, JobFits, Accounts, Share, PostsFor,
         Attempts, DocOf, Command
<1>21. ASSUME NEW d \in Docs, TrackPayment(j, d) PROVE Accounts(j)
  BY <1>21, <1>1, <1>2, <1>3
     DEF TrackPayment, Begin, AtOnce, Goto, JobFits, Accounts, Share, PostsFor,
         Attempts, DocOf, Command
<1>22. ASSUME PostLost(j) PROVE Accounts(j)
  BY <1>22, <1>1, <1>2, <1>3
     DEF PostLost, Fault, JobFits, Accounts, Share, PostsFor, Attempts, DocOf,
         Command
<1>23. ASSUME PostOk(j) PROVE Accounts(j)
  BY <1>23, <1>1, <1>2, <1>3
     DEF PostOk, Goto, bounds, JobFits, Accounts, Share, PostsFor, Attempts,
         DocOf, Command
<1>24. ASSUME QueueCreate(j) PROVE Accounts(j)
  BY <1>24, <1>1, <1>2, <1>3
     DEF QueueCreate, Enqueue, Goto, bounds, JobFits, Accounts, Share, PostsFor,
         Attempts, DocOf, Command
<1>25. ASSUME QueueCapture(j) PROVE Accounts(j)
  BY <1>25, <1>1, <1>2, <1>3
     DEF QueueCapture, Lose, Fault, Enqueue, Goto, bounds, JobFits, Accounts,
         Share, PostsFor, Attempts, DocOf, Command
<1>26. ASSUME QueueApprove(j) PROVE Accounts(j)
  BY <1>26, <1>1, <1>2, <1>3
     DEF QueueApprove, Fault, Enqueue, Goto, bounds, JobFits, Accounts, Share,
         PostsFor, Attempts, DocOf, Command
<1>27. ASSUME PostGivenUp(j) PROVE Accounts(j)
  BY <1>27, <1>1, <1>2, <1>3
     DEF PostGivenUp, Answer, Goto, bounds, JobFits, Accounts, Share, PostsFor,
         Attempts, DocOf, Command
<1>28. ASSUME RetryBlocked(j) PROVE Accounts(j)
  BY <1>28, <1>1, <1>2, <1>3, Postponed
     DEF RetryBlocked, Postpone, bounds, JobFits, Accounts, Share, PostsFor,
         Attempts, DocOf, Command
<1>29. ASSUME RetryStarts(j) PROVE Accounts(j)
  BY <1>29, <1>1, <1>2, <1>3
     DEF RetryStarts, Goto, bounds, JobFits, Accounts, Share, PostsFor,
         Attempts, DocOf, Command
<1>30. ASSUME RetryFails(j) PROVE Accounts(j)
  BY <1>30, <1>1, <1>2, <1>3, Postponed
     DEF RetryFails, Postpone, bounds, JobFits, Accounts, Share, PostsFor,
         Attempts, DocOf, Command
<1>31. ASSUME RetryDropped(j) PROVE Accounts(j)
  BY <1>31, <1>1, <1>2, <1>3
     DEF RetryDropped, Goto, bounds, JobFits, Accounts, Share, PostsFor,
         Attempts, DocOf, Command
<1>32. ASSUME NameInvoice(j) PROVE Accounts(j)
  BY <1>32, <1>1, <1>2, <1>3
     DEF NameInvoice, Lose, Fault, Goto, JobFits, Accounts, Share, PostsFor,
         Attempts, DocOf, Command
<1>33. ASSUME RestateInvoice(j) PROVE Accounts(j)
  BY <1>33, <1>1, <1>2, <1>3
     DEF RestateInvoice, Fault, Answer, Goto, bounds, JobFits, Accounts, Share,
         PostsFor, Attempts, DocOf, Command
<1>34. ASSUME NameBill(j) PROVE Accounts(j)
  BY <1>34, <1>1, <1>2, <1>3
     DEF NameBill, Lose, Fault, Answer, Goto, JobFits, Accounts, Share, PostsFor,
         Attempts, DocOf, Command
<1>35. ASSUME SavePurchaseOrder(j) PROVE Accounts(j)
  BY <1>35, <1>1, <1>2, <1>3
     DEF SavePurchaseOrder, Lose, Fault, Answer, Goto, JobFits, Accounts, Share,
         PostsFor, Attempts, DocOf, Command
<1>36. ASSUME NameExpense(j) PROVE Accounts(j)
  BY <1>36, <1>1, <1>2, <1>3
     DEF NameExpense, Lose, Fault, Goto, bounds, JobFits, Accounts, Share,
         PostsFor, Attempts, DocOf, Command
<1>37. ASSUME RecordCapture(j) PROVE Accounts(j)
  BY <1>37, <1>1, <1>2, <1>3
     DEF RecordCapture, Lose, Fault, Answer, Goto, bounds, JobFits, Accounts,
         Share, PostsFor, Attempts, DocOf, Command
<1>38. ASSUME RecordApproval(j) PROVE Accounts(j)
  BY <1>38, <1>1, <1>2, <1>3
     DEF RecordApproval, Fault, Answer, Goto, bounds, JobFits, Accounts, Share,
         PostsFor, Attempts, DocOf, Command
<1>39. ASSUME LinkApproval(j) PROVE Accounts(j)
  BY <1>39, <1>1, <1>2, <1>3
     DEF LinkApproval, Fault, Answer, Goto, bounds, JobFits, Accounts, Share,
         PostsFor, Attempts, DocOf, Command
<1>40. ASSUME Sent(j) PROVE Accounts(j)
  BY <1>40, <1>1, <1>2, <1>3
     DEF Sent, Answer, Goto, bounds, JobFits, Accounts, Share, PostsFor,
         Attempts, DocOf, Command
<1>41. ASSUME NameRetried(j) PROVE Accounts(j)
  BY <1>41, <1>1, <1>2, <1>3
     DEF NameRetried, Goto, bounds, JobFits, Accounts, Share, PostsFor,
         Attempts, DocOf, Command
<1>42. ASSUME NameRetriedFails(j) PROVE Accounts(j)
  BY <1>42, <1>1, <1>2, <1>3, Postponed
     DEF NameRetriedFails, Fault, Postpone, bounds, JobFits, Accounts, Share,
         PostsFor, Attempts, DocOf, Command
<1>43. ASSUME RetryDone(j) PROVE Accounts(j)
  BY <1>43, <1>1, <1>2, <1>3
     DEF RetryDone, Answer, Goto, bounds, JobFits, Accounts, Share, PostsFor,
         Attempts, DocOf, Command
<1>44. ASSUME NotifyFails(j) PROVE Accounts(j)
  BY <1>44, <1>1, <1>2, <1>3, Postponed
     DEF NotifyFails, Postpone, bounds, JobFits, Accounts, Share, PostsFor,
         Attempts, DocOf, Command
<1>45. ASSUME AuthoriseOk(j) PROVE Accounts(j)
  BY <1>45, <1>1, <1>2, <1>3
     DEF AuthoriseOk, Goto, bounds, JobFits, Accounts, Share, PostsFor,
         Attempts, DocOf, Command
<1>46. ASSUME AuthoriseFails(j) PROVE Accounts(j)
  BY <1>46, <1>1, <1>2, <1>3
     DEF AuthoriseFails, Fault, Answer, Goto, JobFits, Accounts, Share, PostsFor,
         Attempts, DocOf, Command
<1>47. ASSUME RecordAuthorised(j) PROVE Accounts(j)
  BY <1>47, <1>1, <1>2, <1>3
     DEF RecordAuthorised, Answer, Goto, bounds, JobFits, Accounts, Share,
         PostsFor, Attempts, DocOf, Command
<1>48. ASSUME PayOk(j) PROVE Accounts(j)
  BY <1>48, <1>1, <1>2, <1>3
     DEF PayOk, Answer, Goto, bounds, JobFits, Accounts, Share, PostsFor,
         Attempts, DocOf, Command
<1>49. ASSUME PayRefused(j) PROVE Accounts(j)
  BY <1>49, <1>1, <1>2, <1>3
     DEF PayRefused, Lose, Fault, Answer, Goto, bounds, JobFits, Accounts, Share,
         PostsFor, Attempts, DocOf, Command
<1>50. ASSUME PayFails(j) PROVE Accounts(j)
  BY <1>50, <1>1, <1>2, <1>3
     DEF PayFails, Fault, Answer, Goto, JobFits, Accounts, Share, PostsFor,
         Attempts, DocOf, Command
<1>51. ASSUME Die(j) PROVE Accounts(j)
  BY <1>51, <1>1, <1>2, <1>3
     DEF Die, Lose, Fault, Goto, JobFits, Accounts, Share, PostsFor, Attempts,
         DocOf, Command
<1> QED
  BY <1>4, <1>5, <1>6, <1>7, <1>8, <1>9, <1>10, <1>11, <1>12, <1>13, <1>14, <1>15,
     <1>16, <1>17, <1>18, <1>19, <1>20, <1>21, <1>22, <1>23, <1>24, <1>25, <1>26,
     <1>27, <1>28, <1>29, <1>30, <1>31, <1>32, <1>33, <1>34, <1>35, <1>36, <1>37,
     <1>38, <1>39, <1>40, <1>41, <1>42, <1>43, <1>44, <1>45, <1>46, <1>47, <1>48,
     <1>49, <1>50, <1>51
     DEF Step, Ask, Proceed

\* A job's part of a reserve, and the part of the others.
Part(j, n) == {j} \X (1..n)
Others(j, d) == {p \in Reserve(d) : p[1] # j}

\* A reserve is as large as its parts.
LEMMA PartCounts ==
    ASSUME NEW O, IsFiniteSet(O), NEW j, NEW n \in Nat, \A p \in O : p[1] # j
    PROVE  /\ IsFiniteSet(O \cup Part(j, n))
           /\ Cardinality(O \cup Part(j, n)) = Cardinality(O) + n
           /\ Cardinality(O) \in Nat
<1>1. IsFiniteSet(1..n) /\ Cardinality(1..n) = n
  BY FS_Interval
<1>2. IsFiniteSet({j}) /\ Cardinality({j}) = 1
  BY FS_Singleton
<1>3. IsFiniteSet(Part(j, n)) /\ Cardinality(Part(j, n)) = 1 * n
  BY <1>1, <1>2, FS_Product DEF Part
<1>4. O \cap Part(j, n) = {}
  BY DEF Part
<1>5. Cardinality(O \cap Part(j, n)) = 0
  BY <1>4, FS_EmptySet
<1>6. Cardinality(O) \in Nat
  BY FS_CardinalityType
<1>7. 1 * n = n
  OBVIOUS
<1>8. /\ IsFiniteSet(O \cup Part(j, n))
      /\ Cardinality(O \cup Part(j, n)) =
            Cardinality(O) + Cardinality(Part(j, n))
               - Cardinality(O \cap Part(j, n))
  BY <1>3, FS_Union
<1> QED BY <1>3, <1>5, <1>6, <1>7, <1>8

LEMMA ProductOfNats == ASSUME NEW m \in Nat, NEW n \in Nat PROVE m * n \in Nat
  OBVIOUS

\* A set of positions of the books is finite.
LEMMA PartsAreFinite ==
    ASSUME NEW n \in Nat, NEW S, S \subseteq 1..n
    PROVE  IsFiniteSet(S) /\ Cardinality(S) \in Nat
<1>1. IsFiniteSet(1..n)
  BY FS_Interval
<1>2. IsFiniteSet(S)
  BY <1>1, FS_Subset
<1> QED BY <1>2, FS_CardinalityType

\* No job attempts more than one command allows.
SharesBounded ==
    \A j \in Jobs : \A d \in Docs : Share(j, d) \in 0..MaxRetries + 1

LEMMA AttemptsBounded == TypeOK => SharesBounded
<1> SUFFICES ASSUME TypeOK, NEW j \in Jobs, NEW d \in Docs
             PROVE  Share(j, d) \in 0..MaxRetries + 1
  BY DEF SharesBounded
<1>1. MaxRetries \in Nat /\ job[j].left \in 0..MaxRetries
  BY BoundsAssumption DEF TypeOK
<1> QED BY <1>1 DEF Share, Attempts

\* A document's reserve is one job's part of it and the part of the others.
SharesAddUp ==
    \A j \in Jobs : \A d \in Docs :
        Reserve(d) = Others(j, d) \cup Part(j, Share(j, d))

LEMMA ReserveSplits == TypeOK => SharesAddUp
<1> SUFFICES ASSUME TypeOK, NEW j \in Jobs, NEW d \in Docs
             PROVE  Reserve(d) = Others(j, d) \cup Part(j, Share(j, d))
  BY DEF SharesAddUp
<1>1. Share(j, d) \in 0..MaxRetries + 1 /\ MaxRetries \in Nat
  BY AttemptsBounded, BoundsAssumption DEF SharesBounded
<1>2. ASSUME NEW p \in Reserve(d), p[1] = j PROVE p \in Part(j, Share(j, d))
  BY <1>1, <1>2 DEF Reserve, Part, Share
<1>3. ASSUME NEW p \in Part(j, Share(j, d)) PROVE p \in Reserve(d)
  <2>1. p \in {j} \X (1..Share(j, d))
    BY <1>3 DEF Part
  <2>2. /\ p[1] = j /\ p[2] \in 1..Share(j, d)
        /\ p \in Jobs \X (1..MaxRetries + 1)
    BY <1>1, <2>1
  <2>3. DocOf(j) = d /\ p[2] <= Attempts(j)
    BY <1>1, <2>2 DEF Share
  <2> QED BY <2>2, <2>3 DEF Reserve
<1> QED BY <1>2, <1>3 DEF Others

\* The entries of a document grow by the weight of a post at most.
LEMMA EntriesCounted ==
    ASSUME IInv, NEW j \in Jobs, Step(j), NEW d \in Docs
    PROVE  /\ Cardinality(EntriesOf(d)) \in Nat
           /\ Cardinality(EntriesOf(d)') \in Nat
           /\ Cardinality(EntriesOf(d)') <=
                 Cardinality(EntriesOf(d)) + Weight(d) * PostsFor(j, d)
<1>1. BooksMove(j) /\ books \in Seq(Entries) /\ books' \in Seq(Entries)
  BY BooksGrow DEF BooksMove, Grows, IInv, TypeOK
<1>2. /\ Len(books) \in Nat /\ Len(books') \in Nat /\ Len(books) <= Len(books')
      /\ EntriesOf(d) \subseteq 1..Len(books)
      /\ EntriesOf(d)' \subseteq 1..Len(books')
  BY <1>1, LenProperties DEF EntriesOf, BooksMove, Grows
<1>3. /\ IsFiniteSet(EntriesOf(d)) /\ IsFiniteSet(EntriesOf(d)')
      /\ Cardinality(EntriesOf(d)) \in Nat /\ Cardinality(EntriesOf(d)') \in Nat
  BY <1>2, PartsAreFinite
<1>4. PostsFor(j, d) \in 0..1 /\ Weight(d) \in 1..2
  BY DEF PostsFor, Weight
<1>5. Weight(d) * PostsFor(j, d) \in Nat
  BY <1>4
<1>6. CASE EntriesOf(d)' = EntriesOf(d)
  BY <1>3, <1>5, <1>6
<1>7. CASE EntriesOf(d)' # EntriesOf(d)
  <2> DEFINE new == Len(books) + 1..Len(books')
  <2>1. /\ pc[j] = "posting" /\ DocOf(j) = d
        /\ EntriesOf(d)' \subseteq EntriesOf(d) \cup new
    BY <1>7, NewEntries
  <2>2. new # {}
    BY <1>7, <2>1, NewEntries
  <2>3. Len(books') # Len(books)
    BY <1>2, <2>2
  <2>4. FormPosted(j) \in Kinds /\ (FormPosted(j) = "expense" => Weight(d) = 2)
    BY <2>1 DEF FormPosted, Kinds, Weight, IInv, TypeOK
  <2>5. Len(books') <= Len(books) + Weight(d)
    BY <1>1, <1>2, <1>4, <2>1, <2>3, <2>4, PostGrows DEF BooksMove
  <2>6. PostsFor(j, d) = 1
    BY <2>1, <2>3 DEF PostsFor
  <2>7. IsFiniteSet(new) /\ Cardinality(new) = Len(books') - Len(books)
    BY <1>2, <2>3, FS_Interval
  <2> HIDE DEF new
  <2>8. /\ IsFiniteSet(EntriesOf(d) \cup new)
        /\ Cardinality(EntriesOf(d) \cup new) =
              Cardinality(EntriesOf(d)) + Cardinality(new)
                 - Cardinality(EntriesOf(d) \cap new)
    BY <1>3, <2>7, FS_Union
  <2>9. Cardinality(EntriesOf(d) \cap new) \in Nat
    BY <1>3, FS_Subset, FS_CardinalityType
  <2>10. Cardinality(EntriesOf(d)') <= Cardinality(EntriesOf(d) \cup new)
    BY <2>1, <2>8, FS_Subset
  <2>11. Weight(d) * PostsFor(j, d) = Weight(d)
    BY <1>4, <2>6
  <2>12. Cardinality(EntriesOf(d) \cup new) \in Nat
    BY <2>8, FS_CardinalityType
  <2> QED BY <1>2, <1>3, <1>4, <2>5, <2>7, <2>8, <2>9, <2>10, <2>11, <2>12
<1> QED BY <1>6, <1>7

\* Every post is paid for: by the reserve it is taken from, or by a fault.
LEMMA PostsHold ==
    ASSUME IInv, NEW j \in Jobs, Step(j) PROVE PostsPaid'
<1>1. TypeOK' /\ JobInv' /\ OthersStay(j)
  BY TypesHold, JobsHold, OneMoves
<1> SUFFICES ASSUME NEW d \in Docs
             PROVE  /\ IsFiniteSet(Reserve(d)')
                    /\ Cardinality(EntriesOf(d)')
                          + Weight(d)' * Cardinality(Reserve(d)')
                       <= Weight(d)' * Budget'
  BY DEF PostsPaid
<1> DEFINE O == Others(j, d)
           m == Share(j, d)
           n == Share(j, d)'
<1>2. Weight(d)' = Weight(d) /\ Weight(d) \in 1..2
  BY <1>1 DEF Weight, OthersStay
<1>3. m \in Nat /\ n \in Nat
  <2>1. m \in 0..MaxRetries + 1
    BY AttemptsBounded DEF IInv, SharesBounded
  <2>2. n \in 0..MaxRetries + 1
    <3>1. SharesBounded'
      BY <1>1, AttemptsBounded, PTL
    <3> QED BY <3>1 DEF SharesBounded
  <2> QED BY <2>1, <2>2
<1>4. Others(j, d)' = O
  <2>1. ASSUME NEW q \in Jobs, q # j
        PROVE  DocOf(q)' = DocOf(q) /\ Attempts(q)' = Attempts(q)
    BY <1>1, <2>1 DEF OthersStay, DocOf, Attempts, Command
  <2>2. Others(j, d) = {p \in Jobs \X (1..MaxRetries + 1) :
                          DocOf(p[1]) = d /\ p[2] <= Attempts(p[1]) /\ p[1] # j}
    BY DEF Others, Reserve
  <2>3. Others(j, d)' = {p \in Jobs \X (1..MaxRetries + 1) :
                           DocOf(p[1])' = d /\ p[2] <= Attempts(p[1])'
                           /\ p[1] # j}
    BY DEF Others, Reserve
  <2> QED BY <2>1, <2>2, <2>3
<1>5. Reserve(d) = O \cup Part(j, m) /\ Reserve(d)' = O \cup Part(j, n)
  <2>1. Reserve(d) = O \cup Part(j, m)
    BY ReserveSplits DEF IInv, SharesAddUp
  <2>2. Reserve(d)' = Others(j, d)' \cup Part(j, n)
    <3>1. SharesAddUp'
      BY <1>1, ReserveSplits, PTL
    <3>2. Reserve(d)' = Others(j, d)' \cup Part(j, Share(j, d))'
      BY <3>1 DEF SharesAddUp
    <3> QED BY <3>2 DEF Part
  <2> QED BY <1>4, <2>1, <2>2
<1>6. IsFiniteSet(O) /\ \A p \in O : p[1] # j
  BY FS_Subset DEF IInv, PostsPaid, Others
<1> HIDE DEF O, m, n
<1>7. /\ Cardinality(O) \in Nat
      /\ Cardinality(Reserve(d)) = Cardinality(O) + m
      /\ IsFiniteSet(Reserve(d)')
      /\ Cardinality(Reserve(d)') = Cardinality(O) + n
  BY <1>3, <1>5, <1>6, PartCounts
<1>8. /\ Budget \in Nat /\ Budget' \in Nat
      /\ PostsFor(j, d) \in 0..1
      /\ n + PostsFor(j, d) + Budget <= m + Budget'
  <2>1. Budget' \in Nat
    <3>1. commands' \in Nat /\ faults' \in Nat /\ MaxRetries + 1 \in Nat
      BY <1>1, BoundsAssumption DEF TypeOK
    <3> DEFINE k == MaxRetries + 1
    <3> HIDE DEF k
    <3>2. k \in Nat
      BY <3>1 DEF k
    <3>3. commands' * k \in Nat
      BY <3>1, <3>2, ProductOfNats
    <3>4. commands' * k + faults' \in Nat
      BY <3>1, <3>3
    <3> QED BY <3>4 DEF Budget, k
  <2> QED BY <2>1, MoverAccounts, BudgetGrows DEF Accounts, PostsFor, m, n
<1>9. Cardinality(EntriesOf(d)) + Weight(d) * Cardinality(Reserve(d))
         <= Weight(d) * Budget
  BY DEF IInv, PostsPaid
<1>10. /\ Cardinality(EntriesOf(d)) \in Nat /\ Cardinality(EntriesOf(d)') \in Nat
       /\ Cardinality(EntriesOf(d)') <=
             Cardinality(EntriesOf(d)) + Weight(d) * PostsFor(j, d)
  BY EntriesCounted
<1>11. CASE Weight(d) = 1
  BY <1>2, <1>3, <1>7, <1>8, <1>9, <1>10, <1>11
<1>12. CASE Weight(d) = 2
  BY <1>2, <1>3, <1>7, <1>8, <1>9, <1>10, <1>12
<1> QED BY <1>2, <1>11, <1>12

-----------------------------------------------------------------------------
(* The theorems. *)

\* The inductive invariant holds at the start and through every step.
LEMMA InitHolds == Init => IInv
<1> SUFFICES ASSUME Init PROVE IInv
  OBVIOUS
<1>1. TypeOK
  <2>1. books \in Seq(Entries) /\ Len(books) = 0
    BY EmptySeq DEF Init
  <2>2. NoJob \in JobSpace(Len(books))
    BY <2>1, BoundsAssumption DEF NoJob, JobSpace
  <2>3. job \in [Jobs -> JobSpace(Len(books))]
    BY <2>2 DEF Init
  <2> QED BY <2>1, <2>3, BoundsAssumption
          DEF Init, TypeOK, JobSpace, Statuses, Positions, Platforms
<1>2. /\ \A d \in Docs : EntriesOf(d) = {} /\ row[d] = "none" /\ ext[d] = 0
                         /\ told[d] = {}
      /\ Len(books) = 0
      /\ \A j \in Jobs : pc[j] = "free"
  BY EmptySeq DEF Init, EntriesOf
<1>3. RowInv
  BY <1>2 DEF RowInv, RowNamesItsOwnEntry, InvoicesAreInvoices, RowsHaveIds
<1>4. JobInv
  BY <1>2 DEF JobInv, JobFits, JobHoldsEntry, JobIsExplained, JobIsRecorded
<1>5. PropertyInv
  BY <1>2 DEF PropertyInv, UnsyncedIsExplained, BookedIsRecorded, ApprovedIsBooked,
              PaymentsAnswered
<1>6. PostsPaid
  <2>1. \A d \in Docs : Reserve(d) = {}
    <3>1. \A j \in Jobs : Attempts(j) = 0
      BY <1>2 DEF Attempts
    <3>2. ASSUME NEW p \in Jobs \X (1..MaxRetries + 1), p[2] <= Attempts(p[1])
          PROVE  FALSE
      <4>1. p[1] \in Jobs /\ p[2] \in 1..MaxRetries + 1 /\ MaxRetries \in Nat
        BY BoundsAssumption
      <4>2. p[2] <= 0
        BY <3>1, <3>2, <4>1
      <4> QED BY <4>1, <4>2
    <3> QED BY <3>2 DEF Reserve
  <2>4. \A d \in Docs : Weight(d) * 0 = 0
    BY DEF Weight
  <2>2. IsFiniteSet({}) /\ Cardinality({}) = 0
    BY FS_EmptySet
  <2>3. Budget = 0
    <3>1. commands = 0 /\ faults = 0
      BY DEF Init
    <3> QED BY <3>1, BoundsAssumption DEF Budget
  <2>5. ASSUME NEW d \in Docs
        PROVE  /\ IsFiniteSet(Reserve(d))
               /\ Cardinality(EntriesOf(d)) + Weight(d) * Cardinality(Reserve(d))
                     <= Weight(d) * Budget
    <3>1. Reserve(d) = {} /\ EntriesOf(d) = {} /\ Weight(d) * 0 = 0
      BY <1>2, <2>1, <2>4
    <3>2. Cardinality(Reserve(d)) = 0 /\ Cardinality(EntriesOf(d)) = 0
      BY <2>2, <3>1
    <3>3. 0 + Weight(d) * 0 <= Weight(d) * 0
      BY <3>1
    <3> QED BY <2>2, <2>3, <3>1, <3>2, <3>3
  <2> QED BY <2>5 DEF PostsPaid
<1> QED BY <1>1, <1>3, <1>4, <1>5, <1>6 DEF IInv

LEMMA StutterHolds == ASSUME IInv, UNCHANGED vars PROVE IInv'
<1> USE DEF vars
<1>1. TypeOK'
  BY DEF IInv, TypeOK
<1>2. RowInv'
  BY DEF IInv, RowInv, RowNamesItsOwnEntry, InvoicesAreInvoices, RowsHaveIds
<1>3. JobInv'
  BY DEF IInv, JobInv, JobFits, JobHoldsEntry, JobIsExplained, JobIsRecorded, DocOf,
         Command
<1>4. PropertyInv'
  BY DEF IInv, PropertyInv, UnsyncedIsExplained, BookedIsRecorded, ApprovedIsBooked,
         PaymentsAnswered, EntriesOf, PaidEntry, Busy, DocOf, Command
<1>5. PostsPaid'
  BY
     DEF IInv, PostsPaid, Reserve, Attempts, Weight, EntriesOf, Budget, DocOf,
         Command
<1> QED BY <1>1, <1>2, <1>3, <1>4, <1>5 DEF IInv

LEMMA StepHolds == ASSUME IInv, NEW j \in Jobs, Step(j) PROVE IInv'
<1>1. TypeOK' /\ JobInv' /\ PostsPaid'
  BY TypesHold, JobsHold, PostsHold
<1>2. RowInv'
  BY RowsHold, InvoicesHold DEF RowInv
<1>3. PropertyInv'
  BY UnsyncedHolds, BookedHolds, ApprovedHolds, AnsweredHolds DEF PropertyInv
<1> QED BY <1>1, <1>2, <1>3 DEF IInv

\* The inductive invariant holds of every behaviour.
THEOREM Invariance == Spec => []IInv
<1>1. Init => IInv
  BY InitHolds
<1>2. IInv /\ [Next]_vars => IInv'
  BY StutterHolds, StepHolds DEF Next, Step
<1> QED BY <1>1, <1>2, PTL DEF Spec

\* Every variable keeps its type, and every row names an entry of its own
\* document and kind: what _update_invoice_field, _update_bill_external_id and
\* the retries write by key, number and id.
THEOREM RowsNameTheirOwn == Spec => []Inv
<1>1. IInv => Inv
  BY DEF IInv, RowInv, Inv
<1> QED BY <1>1, Invariance, PTL

\* An invoice or a bill that is not in the books is in somebody's hands, or
\* given up, or its user has been told.
THEOREM UnsyncedAlwaysExplained == Spec => []UnsyncedIsExplained
<1>1. IInv => UnsyncedIsExplained
  BY DEF IInv, PropertyInv
<1> QED BY <1>1, Invariance, PTL

\* What a connector has put in the books has a row here, or a job that is still
\* at it, or its user has been told of an error.
THEOREM BookedAlwaysRecorded == Spec => []BookedIsRecorded
<1>1. IInv => BookedIsRecorded
  BY DEF IInv, PropertyInv
<1> QED BY <1>1, Invariance, PTL

\* An approved expense is in the books, or being retried, or given up.
THEOREM ApprovedAlwaysBooked == Spec => []ApprovedIsBooked
<1>1. IInv => ApprovedIsBooked
  BY DEF IInv, PropertyInv
<1> QED BY <1>1, Invariance, PTL

\* Whoever was told that the platform took a payment finds it in the books; and
\* of an invoice that is paid here and not there, somebody has had an answer.
THEOREM PaymentsAlwaysAnswered == Spec => []PaymentsAnswered
<1>1. IInv => PaymentsAnswered
  BY DEF IInv, PropertyInv
<1> QED BY <1>1, Invariance, PTL

\* The entries of a document are at most as many as its attempts and faults
\* allow, however the retries of different jobs interleave.
THEOREM DuplicatesAlwaysBounded == Spec => []DuplicatesBounded
<1>1. IInv => DuplicatesBounded
  <2> SUFFICES ASSUME IInv, NEW d \in Docs
               PROVE  Cardinality(EntriesOf(d)) <= Weight(d) * Budget
    BY DEF DuplicatesBounded, Weight, Budget
  <2>1. /\ Cardinality(EntriesOf(d)) + Weight(d) * Cardinality(Reserve(d))
              <= Weight(d) * Budget
        /\ IsFiniteSet(Reserve(d))
    BY DEF IInv, PostsPaid
  <2>2. Cardinality(Reserve(d)) \in Nat /\ Weight(d) \in 1..2
    BY <2>1, FS_CardinalityType DEF Weight
  <2>3. Cardinality(EntriesOf(d)) \in Nat
    <3>1. EntriesOf(d) \subseteq 1..Len(books) /\ Len(books) \in Nat
      BY LenProperties DEF EntriesOf, IInv, TypeOK
    <3> QED BY <3>1, PartsAreFinite
  <2>4. Budget \in Nat
    BY BudgetGrows
  <2>5. CASE Weight(d) = 1
    BY <2>1, <2>2, <2>3, <2>4, <2>5
  <2>6. CASE Weight(d) = 2
    BY <2>1, <2>2, <2>3, <2>4, <2>6
  <2> QED BY <2>2, <2>5, <2>6
<1> QED BY <1>1, Invariance, PTL

=============================================================================
