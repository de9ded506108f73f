----------------------------- MODULE ActionGate -----------------------------
(***************************************************************************)
(* What the propose -> confirm gate promises, with no request, transaction *)
(* or lock in sight: an action runs only while it is open, it is settled   *)
(* once, and the step that settles it appends its whole trail, linked to   *)
(* the row before it, to the audit chain of its tenant.                    *)
(***************************************************************************)
EXTENDS Naturals, Sequences

CONSTANTS Actions, Requests, Tenants, OwnerOf

VARIABLES status, chain, effects

vars == << status, chain, effects >>

Settled == {"executed", "failed", "cancelled", "expired"}

\* The audit events that settle an action with an outcome.
Trails == [executed |-> {<< "action_confirmed", "capability_invoked" >>},
           failed |-> {<< "action_confirmed", "capability_failed" >>,
                       << "action_confirmed", "capability_duplicate_replay" >>},
           cancelled |-> {<< "action_cancelled" >>},
           expired |-> {<< "action_expired" >>}]

\* The rows request r appends about action a to a chain of n rows.
Block(a, r, trail, n) ==
    [i \in 1..Len(trail) |-> [event |-> trail[i], action |-> a, by |-> r,
                              prev |-> n + i - 1]]

Record(a, r, trail) ==
    LET t == OwnerOf[a]
    IN  chain' = [chain EXCEPT ![t] = @ \o Block(a, r, trail, Len(@))]

Init ==
    /\ status = [a \in Actions |-> "absent"]
    /\ chain = [t \in Tenants |-> << >>]
    /\ effects = [a \in Actions |-> 0]

Offer(a) ==
    /\ status[a] = "absent"
    /\ status' = [status EXCEPT ![a] = "pending"]
    /\ UNCHANGED << chain, effects >>

Perform(a) ==
    /\ status[a] = "pending"
    /\ effects' = [effects EXCEPT ![a] = @ + 1]
    /\ UNCHANGED << status, chain >>

Settle(a, r) ==
    /\ status[a] = "pending"
    /\ \E outcome \in Settled : \E trail \in Trails[outcome] :
          /\ status' = [status EXCEPT ![a] = outcome]
          /\ Record(a, r, trail)
    /\ UNCHANGED effects

\* A cancellation that comes too late is recorded, and may relabel the action.
CancelLate(a, r) ==
    /\ status[a] \in Settled
    /\ \/ status' = status
       \/ status' = [status EXCEPT ![a] = "cancelled"]
    /\ Record(a, r, << "action_cancelled" >>)
    /\ UNCHANGED effects

\* The sweep settles any set of open actions, and records nothing.
Lapse(S) ==
    /\ \A a \in S : status[a] = "pending"
    /\ status' = [a \in Actions |-> IF a \in S THEN "expired" ELSE status[a]]
    /\ UNCHANGED << chain, effects >>

Next ==
    \/ \E a \in Actions : Offer(a) \/ Perform(a)
    \/ \E a \in Actions, r \in Requests : Settle(a, r) \/ CancelLate(a, r)
    \/ \E S \in SUBSET Actions : Lapse(S)

Spec == Init /\ [][Next]_vars

=============================================================================
