--------------------------- MODULE ApprovalLedger ---------------------------
(***************************************************************************)
(* What the approval of a payment action promises: a refund, a capture or  *)
(* a cancellation is spent against an approval that was granted for it,    *)
(* and an approval is spent once.                                          *)
(***************************************************************************)
EXTENDS Naturals

CONSTANT Tasks

VARIABLES
    granted,    \* approvals given to each task
    spent       \* times the gateway acted for it

Init ==
    /\ granted = [t \in Tasks |-> 0]
    /\ spent = [t \in Tasks |-> 0]

Grant(t) ==
    /\ granted' = [granted EXCEPT ![t] = @ + 1]
    /\ UNCHANGED spent

Spend(t) ==
    /\ spent[t] < granted[t]
    /\ spent' = [spent EXCEPT ![t] = @ + 1]
    /\ UNCHANGED granted

Next == \E t \in Tasks : Grant(t) \/ Spend(t)

Spec == Init /\ [][Next]_<< granted, spent >>

=============================================================================
