-------------------------- MODULE AccountingPlatform --------------------------
(***************************************************************************)
(* What QuickBooks and Xero hold for a client of Tigeri V1, as the two     *)
(* connectors change it.  An entry is never deleted; posting a document    *)
(* again makes another entry.  The connectors differ in how they post an   *)
(* expense and in how they pay.                                            *)
(***************************************************************************)
EXTENDS Naturals, Sequences

CONSTANT Docs

VARIABLES
    platform,   \* what the client has connected
    books       \* the entries, in the order they were made

Platforms == {"quickbooks", "xero"}

\* What an entry of each kind of document is in the books.
FormsOf == [invoice |-> {"invoice"}, bill |-> {"bill"},
            purchase_order |-> {"purchase_order"},
            expense |-> {"purchase", "claim", "bill"}]

Forms == {"invoice", "bill", "purchase_order", "purchase", "receipt", "claim"}
EntryStates == {"draft", "authorised", "paid"}
Entries == [doc : Docs, form : Forms, state : EntryStates]

Entry(d, form) == [doc |-> d, form |-> form, state |-> "draft"]
EntriesOf(d) == {i \in DOMAIN books : books[i].doc = d}
PaidEntry(d) == \E i \in EntriesOf(d) : books[i].state = "paid"

\* What one call of a connector may add to the books before it answers.
InvoicePosts(d) == {<< Entry(d, "invoice") >>}
BillPosts(d) == {<< Entry(d, "bill") >>}
PurchaseOrderPosts(d) == {<< Entry(d, "purchase_order") >>}

\* A purchase; on any HTTP error, an answer lost included, a bill.
QuickBooksExpensePosts(d) ==
    {<< Entry(d, "purchase") >>,
     << Entry(d, "bill") >>,
     << Entry(d, "purchase"), Entry(d, "bill") >>}

\* A receipt that becomes a claim; on any error, wherever it struck, a bill.
XeroExpensePosts(d) ==
    {<< Entry(d, "claim") >>,
     << Entry(d, "bill") >>,
     << Entry(d, "receipt"), Entry(d, "bill") >>,
     << Entry(d, "claim"), Entry(d, "bill") >>}

ExpensePosts(d) == IF platform = "quickbooks" THEN QuickBooksExpensePosts(d)
                                              ELSE XeroExpensePosts(d)

Posts(d, kind) ==
    CASE kind = "invoice" -> InvoicePosts(d)
      [] kind = "bill" -> BillPosts(d)
      [] kind = "purchase_order" -> PurchaseOrderPosts(d)
      [] kind = "expense" -> ExpensePosts(d)

\* Some attempts of a call have been accepted, the last one is answered.
Post(d, kind) == \E entries \in Posts(d, kind) : books' = books \o entries

Authorise(i) ==
    books' = [books EXCEPT ![i].state = IF @ = "draft" THEN "authorised" ELSE @]

\* QuickBooks: the balance is read first, a paid invoice is skipped.
QuickBooksPays(i) == books' = [books EXCEPT ![i].state = "paid"]

\* Xero: the payment is put, and refused for a draft or a paid invoice.
XeroPays(i) ==
    /\ books[i].state = "authorised"
    /\ books' = [books EXCEPT ![i].state = "paid"]

Pay(i) == IF platform = "quickbooks" THEN QuickBooksPays(i) ELSE XeroPays(i)

=============================================================================
