------------------------- MODULE PaymentTasks_proofs -------------------------
(***************************************************************************)
(* PaymentTasks for any number of deliveries, retries, crashes and         *)
(* decisions: types, that the gateway spends an approval once, and what    *)
(* the message's lock is worth.                                            *)
(***************************************************************************)
EXTENDS PaymentTasks, FiniteSetTheorems, TLAPS

\* The approvals of a task that can still be spent: one its worker has taken,
\* and one it has read or will find.
Taken(t) == IF pc[t] = "acting" THEN 1 ELSE 0
Open(t) ==
    IF result[t] = "approved" \/ (pc[t] = "taking" /\ verdict[t] = "approved")
    THEN 1 ELSE 0

\* No approval is spent, taken and open at once.
Accounted == \A t \in Tasks : spent[t] + Taken(t) + Open(t) <= granted[t]

IInv == TypeOK /\ Accounted

-----------------------------------------------------------------------------
\* The initial state satisfies the invariant.
LEMMA InitInvariant == Init => IInv
  BY BoundsAssumption
     DEF Init, IInv, TypeOK, Accounted, Taken, Open, Positions, Working, Replies,
         Verdicts

\* Types are preserved.
LEMMA NextType == TypeOK /\ [Next]_vars => TypeOK'
  <1> SUFFICES ASSUME TypeOK, [Next]_vars PROVE TypeOK'
    OBVIOUS
  <1> USE BoundsAssumption DEF Positions, Working, Replies, Verdicts
  <1>1. ASSUME NEW t \in Tasks, Deduplicate(t) PROVE TypeOK'
    BY <1>1 DEF Deduplicate, TypeOK, Goto, Answer,
       routeVars, workerVars, redisVars, approverVars, bounds
  <1>2. ASSUME NEW t \in Tasks, Dispatch(t) PROVE TypeOK'
    BY <1>2 DEF Dispatch, TypeOK, Goto, Answer,
       routeVars, workerVars, redisVars, approverVars, bounds
  <1>3. ASSUME NEW t \in Tasks, Acquire(t) PROVE TypeOK'
    BY <1>3 DEF Acquire, TypeOK, Goto, Answer,
       routeVars, workerVars, redisVars, approverVars, bounds
  <1>4. ASSUME NEW t \in Tasks, Duplicate(t) PROVE TypeOK'
    BY <1>4 DEF Duplicate, TypeOK, Goto, Answer,
       routeVars, workerVars, redisVars, approverVars, bounds
  <1>5. ASSUME NEW t \in Tasks, Look(t) PROVE TypeOK'
    BY <1>5 DEF Look, TypeOK, Goto, Answer,
       routeVars, workerVars, redisVars, approverVars, bounds
  <1>6. ASSUME NEW t \in Tasks, Read(t) PROVE TypeOK'
    BY <1>6 DEF Read, TypeOK, Goto, Answer,
       routeVars, workerVars, redisVars, approverVars, bounds
  <1>7. ASSUME NEW t \in Tasks, Take(t) PROVE TypeOK'
    BY <1>7 DEF Take, TypeOK, Goto, Answer,
       routeVars, workerVars, redisVars, approverVars, bounds
  <1>26. ASSUME NEW t \in Tasks, TakeFails(t) PROVE TypeOK'
    BY <1>26 DEF TakeFails, TypeOK, Goto, Answer,
       routeVars, workerVars, redisVars, approverVars, bounds
  <1>8. ASSUME NEW t \in Tasks, Act(t) PROVE TypeOK'
    BY <1>8 DEF Act, TypeOK, Goto, Answer,
       routeVars, workerVars, redisVars, approverVars, bounds
  <1>9. ASSUME NEW t \in Tasks, ActRefused(t) PROVE TypeOK'
    BY <1>9 DEF ActRefused, TypeOK, Goto, Answer,
       routeVars, workerVars, redisVars, approverVars, bounds
  <1>10. ASSUME NEW t \in Tasks, Request(t) PROVE TypeOK'
    BY <1>10 DEF Request, TypeOK, Goto, Answer,
       routeVars, workerVars, redisVars, approverVars, bounds
  <1>11. ASSUME NEW t \in Tasks, Notify(t) PROVE TypeOK'
    BY <1>11 DEF Notify, TypeOK, Goto, Answer,
       routeVars, workerVars, redisVars, approverVars, bounds
  <1>12. ASSUME NEW t \in Tasks, Unlock(t) PROVE TypeOK'
    BY <1>12 DEF Unlock, TypeOK, Goto, Answer,
       routeVars, workerVars, redisVars, approverVars, bounds
  <1>13. ASSUME NEW t \in Tasks, Return(t) PROVE TypeOK'
    BY <1>13 DEF Return, TypeOK, Goto, Answer,
       routeVars, workerVars, redisVars, approverVars, bounds
  <1>14. ASSUME NEW t \in Tasks, Fail(t) PROVE TypeOK'
    BY <1>14 DEF Fail, Retry, TypeOK, Goto, Answer,
       routeVars, workerVars, redisVars, approverVars, bounds
  <1>15. ASSUME NEW t \in Tasks, FailUnlocking(t) PROVE TypeOK'
    BY <1>15 DEF FailUnlocking, Retry, TypeOK, Goto, Answer,
       routeVars, workerVars, redisVars, approverVars, bounds
  <1>16. ASSUME NEW t \in Tasks, Die(t) PROVE TypeOK'
    BY <1>16 DEF Die, TypeOK, Goto, Answer,
       routeVars, workerVars, redisVars, approverVars, bounds
  <1>17. ASSUME NEW t \in Tasks, OpenLink(t) PROVE TypeOK'
    BY <1>17 DEF OpenLink, TypeOK, Goto, Answer,
       routeVars, workerVars, redisVars, approverVars, bounds
  <1>18. ASSUME NEW t \in Tasks, DecideByMail(t) PROVE TypeOK'
    BY <1>18 DEF DecideByMail, Decide, Verdicts, TypeOK, Goto, Answer,
       routeVars, workerVars, redisVars, approverVars, bounds
  <1>19. ASSUME NEW t \in Tasks, CloseLink(t) PROVE TypeOK'
    BY <1>19 DEF CloseLink, TypeOK, Goto, Answer,
       routeVars, workerVars, redisVars, approverVars, bounds
  <1>20. ASSUME NEW t \in Tasks, DecideInChat(t) PROVE TypeOK'
    BY <1>20 DEF DecideInChat, Decide, Verdicts, TypeOK, Goto, Answer,
       routeVars, workerVars, redisVars, approverVars, bounds
  <1>21. ASSUME NEW t \in Tasks, LapsePending(t) PROVE TypeOK'
    BY <1>21 DEF LapsePending, TypeOK, Goto, Answer,
       routeVars, workerVars, redisVars, approverVars, bounds
  <1>22. ASSUME NEW t \in Tasks, LapseResult(t) PROVE TypeOK'
    BY <1>22 DEF LapseResult, TypeOK, Goto, Answer,
       routeVars, workerVars, redisVars, approverVars, bounds
  <1>23. CASE ForgetDispatch
    BY <1>23 DEF ForgetDispatch, TypeOK, Goto, Answer,
       routeVars, workerVars, redisVars, approverVars, bounds
  <1>24. CASE LapseLock
    BY <1>24 DEF LapseLock, TypeOK, Goto, Answer,
       routeVars, workerVars, redisVars, approverVars, bounds
  <1>25. CASE UNCHANGED vars
    BY <1>25 DEF vars, TypeOK, Goto, Answer,
       routeVars, workerVars, redisVars, approverVars, bounds
  <1> QED
    BY <1>1, <1>2, <1>3, <1>4, <1>5, <1>6, <1>7, <1>8, <1>9, <1>10, <1>11,
       <1>12, <1>13, <1>14, <1>15, <1>16, <1>17, <1>18, <1>19, <1>20,
       <1>21, <1>22, <1>23, <1>24, <1>25, <1>26 DEF Next, Route, Run, Handle

\* No step spends what was not granted, or what was spent.
LEMMA NextAccounted == IInv /\ [Next]_vars => Accounted'
  <1> SUFFICES ASSUME IInv, [Next]_vars PROVE Accounted'
    OBVIOUS
  <1> USE DEF IInv, TypeOK, Accounted, Taken, Open, Positions, Working, Verdicts
  <1>1. ASSUME NEW t \in Tasks, Deduplicate(t) PROVE Accounted'
    BY <1>1 DEF Deduplicate, Goto, Answer,
       routeVars, workerVars, redisVars, approverVars, bounds
  <1>2. ASSUME NEW t \in Tasks, Dispatch(t) PROVE Accounted'
    BY <1>2 DEF Dispatch, Goto, Answer,
       routeVars, workerVars, redisVars, approverVars, bounds
  <1>3. ASSUME NEW t \in Tasks, Acquire(t) PROVE Accounted'
    BY <1>3 DEF Acquire, Goto, Answer,
       routeVars, workerVars, redisVars, approverVars, bounds
  <1>4. ASSUME NEW t \in Tasks, Duplicate(t) PROVE Accounted'
    BY <1>4 DEF Duplicate, Goto, Answer,
       routeVars, workerVars, redisVars, approverVars, bounds
  <1>5. ASSUME NEW t \in Tasks, Look(t) PROVE Accounted'
    BY <1>5 DEF Look, Goto, Answer,
       routeVars, workerVars, redisVars, approverVars, bounds
  <1>6. ASSUME NEW t \in Tasks, Read(t) PROVE Accounted'
    BY <1>6 DEF Read, Goto, Answer,
       routeVars, workerVars, redisVars, approverVars, bounds
  <1>7. ASSUME NEW t \in Tasks, Take(t) PROVE Accounted'
    BY <1>7 DEF Take, Goto, Answer,
       routeVars, workerVars, redisVars, approverVars, bounds
  <1>26. ASSUME NEW t \in Tasks, TakeFails(t) PROVE Accounted'
    BY <1>26 DEF TakeFails, Goto, Answer,
       routeVars, workerVars, redisVars, approverVars, bounds
  <1>8. ASSUME NEW t \in Tasks, Act(t) PROVE Accounted'
    BY <1>8 DEF Act, Goto, Answer,
       routeVars, workerVars, redisVars, approverVars, bounds
  <1>9. ASSUME NEW t \in Tasks, ActRefused(t) PROVE Accounted'
    BY <1>9 DEF ActRefused, Goto, Answer,
       routeVars, workerVars, redisVars, approverVars, bounds
  <1>10. ASSUME NEW t \in Tasks, Request(t) PROVE Accounted'
    BY <1>10 DEF Request, Goto, Answer,
       routeVars, workerVars, redisVars, approverVars, bounds
  <1>11. ASSUME NEW t \in Tasks, Notify(t) PROVE Accounted'
    BY <1>11 DEF Notify, Goto, Answer,
       routeVars, workerVars, redisVars, approverVars, bounds
  <1>12. ASSUME NEW t \in Tasks, Unlock(t) PROVE Accounted'
    BY <1>12 DEF Unlock, Goto, Answer,
       routeVars, workerVars, redisVars, approverVars, bounds
  <1>13. ASSUME NEW t \in Tasks, Return(t) PROVE Accounted'
    BY <1>13 DEF Return, Goto, Answer,
       routeVars, workerVars, redisVars, approverVars, bounds
  <1>14. ASSUME NEW t \in Tasks, Fail(t) PROVE Accounted'
    BY <1>14 DEF Fail, Retry, Goto, Answer,
       routeVars, workerVars, redisVars, approverVars, bounds
  <1>15. ASSUME NEW t \in Tasks, FailUnlocking(t) PROVE Accounted'
    BY <1>15 DEF FailUnlocking, Retry, Goto, Answer,
       routeVars, workerVars, redisVars, approverVars, bounds
  <1>16. ASSUME NEW t \in Tasks, Die(t) PROVE Accounted'
    BY <1>16 DEF Die, Goto, Answer,
       routeVars, workerVars, redisVars, approverVars, bounds
  <1>17. ASSUME NEW t \in Tasks, OpenLink(t) PROVE Accounted'
    BY <1>17 DEF OpenLink, Goto, Answer,
       routeVars, workerVars, redisVars, approverVars, bounds
  <1>18. ASSUME NEW t \in Tasks, DecideByMail(t) PROVE Accounted'
    BY <1>18 DEF DecideByMail, Decide, Verdicts, Goto, Answer,
       routeVars, workerVars, redisVars, approverVars, bounds
  <1>19. ASSUME NEW t \in Tasks, CloseLink(t) PROVE Accounted'
    BY <1>19 DEF CloseLink, Goto, Answer,
       routeVars, workerVars, redisVars, approverVars, bounds
  <1>20. ASSUME NEW t \in Tasks, DecideInChat(t) PROVE Accounted'
    BY <1>20 DEF DecideInChat, Decide, Verdicts, Goto, Answer,
       routeVars, workerVars, redisVars, approverVars, bounds
  <1>21. ASSUME NEW t \in Tasks, LapsePending(t) PROVE Accounted'
    BY <1>21 DEF LapsePending, Goto, Answer,
       routeVars, workerVars, redisVars, approverVars, bounds
  <1>22. ASSUME NEW t \in Tasks, LapseResult(t) PROVE Accounted'
    BY <1>22 DEF LapseResult, Goto, Answer,
       routeVars, workerVars, redisVars, approverVars, bounds
  <1>23. CASE ForgetDispatch
    BY <1>23 DEF ForgetDispatch, Goto, Answer,
       routeVars, workerVars, redisVars, approverVars, bounds
  <1>24. CASE LapseLock
    BY <1>24 DEF LapseLock, Goto, Answer,
       routeVars, workerVars, redisVars, approverVars, bounds
  <1>25. CASE UNCHANGED vars
    BY <1>25 DEF vars, Goto, Answer,
       routeVars, workerVars, redisVars, approverVars, bounds
  <1> QED
    BY <1>1, <1>2, <1>3, <1>4, <1>5, <1>6, <1>7, <1>8, <1>9, <1>10, <1>11,
       <1>12, <1>13, <1>14, <1>15, <1>16, <1>17, <1>18, <1>19, <1>20,
       <1>21, <1>22, <1>23, <1>24, <1>25, <1>26 DEF Next, Route, Run, Handle

THEOREM Invariance == Spec => []IInv
  <1>1. IInv /\ [Next]_vars => IInv'
    BY NextType, NextAccounted DEF IInv
  <1> QED
    BY InitInvariant, <1>1, PTL DEF Spec

\* Type correctness of the payment tasks.
THEOREM TypeCorrect == Spec => []TypeOK
  BY Invariance, PTL DEF IInv

-----------------------------------------------------------------------------
(* The refinement *)

\* A step that grants, spends or leaves the ledger alone.
LEMMA LedgerStep ==
    ASSUME IInv, [Next]_vars
    PROVE  [Ledger!Next]_<< granted, spent >>
  <1> USE DEF IInv, TypeOK
  <1>1. ASSUME NEW t \in Tasks, Act(t) PROVE Ledger!Spend(t)
    <2>1. pc[t] = "acting" /\ spent' = [spent EXCEPT ![t] = @ + 1]
          /\ UNCHANGED granted
      BY <1>1 DEF Act
    <2>2. spent[t] < granted[t]
      BY <2>1 DEF Accounted, Taken, Open
    <2> QED
      BY <2>1, <2>2 DEF Ledger!Spend
  <1>2. ASSUME NEW t \in Tasks, DecideByMail(t) \/ DecideInChat(t)
        PROVE  Ledger!Grant(t) \/ UNCHANGED << granted, spent >>
    <2>1. UNCHANGED spent
      BY <1>2 DEF DecideByMail, DecideInChat
    <2>2. PICK v \in Verdicts :
              granted' = [granted EXCEPT ![t] = IF v = "approved" THEN @ + 1 ELSE @]
      BY <1>2 DEF DecideByMail, DecideInChat, Decide
    <2> QED
      BY <2>1, <2>2 DEF Ledger!Grant
  <1>3. ASSUME NEW t \in Tasks,
               \/ Route(t) \/ Acquire(t) \/ Duplicate(t) \/ Look(t) \/ Read(t)
               \/ Take(t) \/ TakeFails(t) \/ ActRefused(t) \/ Request(t)
               \/ Notify(t) \/ Unlock(t) \/ Return(t) \/ CloseLink(t) \/ Fail(t)
               \/ FailUnlocking(t) \/ Die(t) \/ OpenLink(t)
               \/ LapsePending(t) \/ LapseResult(t)
        PROVE  UNCHANGED << granted, spent >>
    BY <1>3 DEF Route, Deduplicate, Dispatch, Acquire, Duplicate, Look, Read,
       Take, TakeFails, ActRefused, Request, Notify, Unlock, Return, CloseLink,
       Fail, FailUnlocking, Die, OpenLink, LapsePending, LapseResult
  <1>4. CASE ForgetDispatch \/ LapseLock \/ UNCHANGED vars
    BY <1>4 DEF ForgetDispatch, LapseLock, vars
  <1> QED
    BY <1>1, <1>2, <1>3, <1>4 DEF Next, Run, Handle, Ledger!Next

\* The payment tasks implement ApprovalLedger: the gateway acts at most once
\* for each approval.
THEOREM LedgerImplemented == Spec => SpentOncePerApproval
  <1>1. Init => Ledger!Init
    BY DEF Init, Ledger!Init
  <1>2. IInv /\ [Next]_vars => [Ledger!Next]_<< granted, spent >>
    BY LedgerStep
  <1> QED
    BY Invariance, <1>1, <1>2, PTL DEF Spec, SpentOncePerApproval, Ledger!Spec

-----------------------------------------------------------------------------
(* The message's lock *)

\* A task more than the lock's lapses is inside only while the lock is held.
Overlaps == /\ IsFiniteSet(Inside)
            /\ Cardinality(Inside) <= lapses + IF lock = "held" THEN 1 ELSE 0

\* A task has no place with the workers before it is dispatched.
Undispatched == \A t \in Tasks : router[t] # "dispatched" => pc[t] = "none"

\* While no worker is lost a lock that is held has a task under it.
Manned == killed = {} /\ lock = "held" => Inside # {}

\* While no worker is lost a task has answered when, and only when, it is done.
Answered ==
    killed = {} => \A t \in Tasks :
        /\ pc[t] \in {"unlocking", "returning"} => reply[t] = "answered"
        /\ pc[t] \in {"none", "queued", "planning", "reading", "taking", "acting",
                      "requesting", "notifying"} => reply[t] = "none"

\* Steps that neither enter nor leave the section under the lock.
Aside(t) ==
    \/ Route(t) \/ Duplicate(t) \/ Look(t) \/ Read(t) \/ Take(t)
    \/ TakeFails(t) \/ Act(t) \/ ActRefused(t) \/ Request(t) \/ Notify(t)
    \/ Return(t) \/ Handle(t) \/ OpenLink(t) \/ DecideInChat(t)
    \/ LapsePending(t) \/ LapseResult(t)

Leaves(t) == Unlock(t) \/ Fail(t) \/ FailUnlocking(t) \/ Die(t)

\* What a step aside leaves alone.
LEMMA AsideStep ==
    ASSUME TypeOK, Undispatched, NEW t \in Tasks, Aside(t)
    PROVE  /\ Inside' = Inside
           /\ UNCHANGED << lock, lapses, killed, left >>
  <1> USE DEF TypeOK, Inside, Working, Positions, Goto,
         routeVars, workerVars, redisVars, approverVars, bounds
  <1>1. CASE Route(t)
    BY <1>1 DEF Route, Deduplicate, Dispatch, Undispatched
  <1>2. CASE Duplicate(t) \/ Look(t) \/ Read(t)
    BY <1>2 DEF Duplicate, Look, Read
  <1>3. CASE Take(t) \/ TakeFails(t) \/ Act(t) \/ ActRefused(t)
    BY <1>3 DEF Take, TakeFails, Act, ActRefused
  <1>4. CASE Request(t) \/ Notify(t) \/ Return(t)
    BY <1>4 DEF Request, Notify, Return
  <1>5. CASE Handle(t) \/ OpenLink(t) \/ DecideInChat(t)
    BY <1>5 DEF Handle, DecideByMail, CloseLink, OpenLink, DecideInChat, Decide
  <1>6. CASE LapsePending(t) \/ LapseResult(t)
    BY <1>6 DEF LapsePending, LapseResult
  <1> QED
    BY <1>1, <1>2, <1>3, <1>4, <1>5, <1>6 DEF Aside

\* A task enters with the lock.
LEMMA EnterStep ==
    ASSUME TypeOK, NEW t \in Tasks, Acquire(t)
    PROVE  /\ t \notin Inside /\ Inside' = Inside \cup {t}
           /\ lock = "free" /\ lock' = "held"
           /\ UNCHANGED << lapses, killed, left, reply >>
  BY DEF TypeOK, Inside, Working, Positions, Goto, Acquire,
     routeVars, redisVars, approverVars, bounds

\* Whoever leaves gives the lock back, or is among the lost.
LEMMA LeaveStep ==
    ASSUME TypeOK, NEW t \in Tasks, Leaves(t)
    PROVE  /\ Inside' = Inside \ {t}
           /\ lapses' = lapses
           /\ lock' \in {lock, "free"}
           /\ killed \subseteq killed'
           /\ killed' # {} \/ (lock' = "free" /\ killed' = killed)
           /\ lock' = lock \/ t \in Inside
  <1> USE DEF TypeOK, Inside, Working, Positions, Goto,
         routeVars, workerVars, redisVars, approverVars, bounds
  <1>1. CASE Unlock(t)
    BY <1>1 DEF Unlock
  <1>2. CASE Fail(t)
    BY <1>2 DEF Fail, Retry
  <1>3. CASE FailUnlocking(t)
    BY <1>3 DEF FailUnlocking, Retry
  <1>4. CASE Die(t)
    BY <1>4 DEF Die
  <1> QED
    BY <1>1, <1>2, <1>3, <1>4 DEF Leaves

\* The steps of Next, as the section under the lock sees them.
LEMMA Steps ==
    ASSUME [Next]_vars
    PROVE  \/ \E t \in Tasks : Aside(t) \/ Acquire(t) \/ Leaves(t)
           \/ ForgetDispatch \/ LapseLock \/ UNCHANGED vars
  BY DEF Next, Run, Aside, Leaves

\* Dispatch alone makes a place for a task.
LEMMA NextUndispatched == TypeOK /\ Undispatched /\ [Next]_vars => Undispatched'
  <1> SUFFICES ASSUME TypeOK, Undispatched, [Next]_vars PROVE Undispatched'
    OBVIOUS
  <1> USE DEF TypeOK, Undispatched, Goto, routeVars, workerVars, redisVars,
         approverVars, bounds
  <1>1. ASSUME NEW t \in Tasks, Route(t) PROVE Undispatched'
    BY <1>1 DEF Route, Deduplicate, Dispatch
  <1>2. ASSUME NEW t \in Tasks,
               Duplicate(t) \/ Look(t) \/ Read(t) \/ Take(t) \/ TakeFails(t)
        PROVE  Undispatched'
    BY <1>2 DEF Duplicate, Look, Read, Take, TakeFails
  <1>3. ASSUME NEW t \in Tasks,
               Act(t) \/ ActRefused(t) \/ Request(t) \/ Notify(t) \/ Return(t)
        PROVE  Undispatched'
    BY <1>3 DEF Act, ActRefused, Request, Notify, Return
  <1>4. ASSUME NEW t \in Tasks,
               \/ Handle(t) \/ OpenLink(t) \/ DecideInChat(t)
               \/ LapsePending(t) \/ LapseResult(t)
        PROVE  Undispatched'
    BY <1>4 DEF Handle, DecideByMail, CloseLink, OpenLink, DecideInChat, Decide,
       LapsePending, LapseResult
  <1>5. ASSUME NEW t \in Tasks, Acquire(t) PROVE Undispatched'
    BY <1>5 DEF Acquire
  <1>6. ASSUME NEW t \in Tasks, Leaves(t) PROVE Undispatched'
    BY <1>6 DEF Leaves, Unlock, Fail, FailUnlocking, Die, Retry, Working
  <1>7. CASE ForgetDispatch \/ LapseLock \/ UNCHANGED vars
    BY <1>7 DEF ForgetDispatch, LapseLock, vars
  <1> QED
    BY <1>1, <1>2, <1>3, <1>4, <1>5, <1>6, <1>7, Steps DEF Aside

\* The count of the tasks inside follows the lock and its lapses.
LEMMA NextOverlaps ==
    TypeOK /\ Undispatched /\ Overlaps /\ [Next]_vars => Overlaps'
  <1> SUFFICES ASSUME TypeOK, Undispatched, Overlaps, [Next]_vars PROVE Overlaps'
    OBVIOUS
  <1>0. lapses \in Nat /\ lock \in {"free", "held"} /\ Cardinality(Inside) \in Nat
    BY FS_CardinalityType DEF TypeOK, Overlaps
  <1>1. ASSUME NEW t \in Tasks, Aside(t) PROVE Overlaps'
    BY <1>1, AsideStep DEF Overlaps
  <1>2. ASSUME NEW t \in Tasks, Acquire(t) PROVE Overlaps'
    <2>1. t \notin Inside /\ Inside' = Inside \cup {t}
          /\ lock = "free" /\ lock' = "held" /\ lapses' = lapses
      BY <1>2, EnterStep
    <2>2. IsFiniteSet(Inside') /\ Cardinality(Inside') = Cardinality(Inside) + 1
      BY <2>1, FS_AddElement DEF Overlaps
    <2> QED
      BY <1>0, <2>1, <2>2 DEF Overlaps
  <1>3. ASSUME NEW t \in Tasks, Leaves(t) PROVE Overlaps'
    <2>1. IsFiniteSet(Inside') /\ Inside' = Inside \ {t}
      BY <1>3, LeaveStep, FS_RemoveElement DEF Overlaps
    <2>2. CASE t \in Inside
      <3>1. Cardinality(Inside') = Cardinality(Inside) - 1
        BY <2>1, <2>2, FS_RemoveElement DEF Overlaps
      <3> QED
        BY <1>0, <1>3, <2>1, <3>1, LeaveStep DEF Overlaps
    <2>3. CASE t \notin Inside
      <3>1. Inside' = Inside
        BY <2>1, <2>3
      <3>2. lock' = lock /\ lapses' = lapses
        BY <1>3, <2>3, LeaveStep
      <3> QED
        BY <3>1, <3>2 DEF Overlaps
    <2> QED
      BY <2>2, <2>3
  <1>4. CASE LapseLock
    <2>1. Inside' = Inside /\ lapses' = lapses + 1 /\ lock' = "free" /\ lock = "held"
      BY <1>4 DEF LapseLock, Inside
    <2> QED
      BY <1>0, <2>1 DEF Overlaps
  <1>5. CASE ForgetDispatch \/ UNCHANGED vars
    <2>1. Inside' = Inside /\ UNCHANGED << lock, lapses >>
      BY <1>5 DEF ForgetDispatch, workerVars, bounds, vars, Inside
    <2> QED
      BY <2>1 DEF Overlaps
  <1> QED
    BY <1>1, <1>2, <1>3, <1>4, <1>5, Steps

\* Nobody leaves a held lock behind.
LEMMA NextManned == TypeOK /\ Undispatched /\ Manned /\ [Next]_vars => Manned'
  <1> SUFFICES ASSUME TypeOK, Undispatched, Manned, [Next]_vars PROVE Manned'
    OBVIOUS
  <1>1. ASSUME NEW t \in Tasks, Aside(t) PROVE Manned'
    BY <1>1, AsideStep DEF Manned
  <1>2. ASSUME NEW t \in Tasks, Acquire(t) PROVE Manned'
    BY <1>2, EnterStep DEF Manned
  <1>3. ASSUME NEW t \in Tasks, Leaves(t) PROVE Manned'
    BY <1>3, LeaveStep DEF Manned
  <1>4. CASE LapseLock
    BY <1>4 DEF LapseLock, Manned
  <1>5. CASE ForgetDispatch \/ UNCHANGED vars
    BY <1>5 DEF ForgetDispatch, workerVars, bounds, vars, Inside, Manned
  <1> QED
    BY <1>1, <1>2, <1>3, <1>4, <1>5, Steps

\* A task has its answer when it comes to the end, and not before.
LEMMA NextAnswered ==
    TypeOK /\ Undispatched /\ Answered /\ [Next]_vars => Answered'
  <1> SUFFICES ASSUME TypeOK, Undispatched, Answered, [Next]_vars PROVE Answered'
    OBVIOUS
  <1> USE DEF TypeOK, Answered, Goto, Answer, Positions, Working, Replies,
         routeVars, workerVars, redisVars, approverVars, bounds
  <1>1. ASSUME NEW t \in Tasks, Route(t) PROVE Answered'
    BY <1>1 DEF Route, Deduplicate, Dispatch, Undispatched
  <1>2. ASSUME NEW t \in Tasks, Duplicate(t) PROVE Answered'
    BY <1>2 DEF Duplicate
  <1>3. ASSUME NEW t \in Tasks, Look(t) PROVE Answered'
    BY <1>3 DEF Look
  <1>4. ASSUME NEW t \in Tasks, Read(t) PROVE Answered'
    BY <1>4 DEF Read
  <1>5. ASSUME NEW t \in Tasks, Take(t) \/ TakeFails(t) PROVE Answered'
    BY <1>5 DEF Take, TakeFails
  <1>6. ASSUME NEW t \in Tasks, Act(t) \/ ActRefused(t) PROVE Answered'
    BY <1>6 DEF Act, ActRefused
  <1>7. ASSUME NEW t \in Tasks, Request(t) \/ Notify(t) \/ Return(t) PROVE Answered'
    BY <1>7 DEF Request, Notify, Return
  <1>8. ASSUME NEW t \in Tasks,
               \/ Handle(t) \/ OpenLink(t) \/ DecideInChat(t)
               \/ LapsePending(t) \/ LapseResult(t)
        PROVE  Answered'
    BY <1>8 DEF Handle, DecideByMail, CloseLink, OpenLink, DecideInChat, Decide,
       LapsePending, LapseResult
  <1>9. ASSUME NEW t \in Tasks, Acquire(t) \/ Unlock(t) PROVE Answered'
    BY <1>9 DEF Acquire, Unlock
  <1>10. ASSUME NEW t \in Tasks, Fail(t) PROVE Answered'
    BY <1>10 DEF Fail, Retry
  <1>11. ASSUME NEW t \in Tasks, FailUnlocking(t) \/ Die(t) PROVE Answered'
    BY <1>11 DEF FailUnlocking, Die
  <1>12. CASE ForgetDispatch \/ LapseLock \/ UNCHANGED vars
    BY <1>12 DEF ForgetDispatch, LapseLock, vars
  <1> QED
    BY <1>1, <1>2, <1>3, <1>4, <1>5, <1>6, <1>7, <1>8, <1>9, <1>10, <1>11, <1>12,
       Steps DEF Aside, Leaves

\* A step that makes a task a duplicate finds another inside; one that is
\* inside stays, comes again or has answered.
LEMMA NextProcessed ==
    /\ TypeOK /\ Undispatched /\ Manned /\ Answered /\ DuplicateIsProcessed
    /\ [Next]_vars
    => DuplicateIsProcessed'
  <1> SUFFICES ASSUME TypeOK, Undispatched, Manned, Answered, DuplicateIsProcessed,
                      [Next]_vars
               PROVE  DuplicateIsProcessed'
    OBVIOUS
  <1> DEFINE Seen(u) == \/ u \in Inside
                        \/ left[u] < MaxRetries
                        \/ reply[u] = "answered"
  <1> USE DEF TypeOK, Goto, Answer, Positions, Working, Replies, Inside,
         routeVars, workerVars, redisVars, approverVars, bounds
  <1>1. ASSUME NEW u \in Tasks, NEW t \in Tasks, killed' = {}, Seen(u),
               Aside(t) \/ Acquire(t) \/ Leaves(t)
        PROVE  Seen(u)'
    <2>1. killed = {}
      <3>1. CASE Aside(t)
        BY <1>1, <3>1, AsideStep
      <3>2. CASE Acquire(t)
        BY <1>1, <3>2, EnterStep
      <3>3. CASE Leaves(t)
        BY <1>1, <3>3, LeaveStep
      <3> QED
        BY <1>1, <3>1, <3>2, <3>3
    <2>2. CASE Aside(t)
      <3>1. Inside' = Inside /\ left' = left
        BY <2>2, AsideStep
      <3>2. reply[u] = "answered" => reply'[u] = "answered"
        <4>1. CASE Duplicate(t)
          BY <2>1, <4>1 DEF Duplicate, Answered
        <4>2. CASE Look(t) \/ Read(t) \/ Take(t) \/ TakeFails(t)
          BY <2>1, <4>2 DEF Look, Read, Take, TakeFails
        <4>3. CASE Act(t) \/ ActRefused(t) \/ Request(t) \/ Notify(t) \/ Return(t)
          BY <2>1, <4>3 DEF Act, ActRefused, Request, Notify, Return
        <4>4. CASE \/ Route(t) \/ Handle(t) \/ OpenLink(t) \/ DecideInChat(t)
                   \/ LapsePending(t) \/ LapseResult(t)
          BY <4>4 DEF Route, Deduplicate, Dispatch, Handle, DecideByMail, CloseLink,
             OpenLink, DecideInChat, Decide, LapsePending, LapseResult
        <4> QED
          BY <2>2, <4>1, <4>2, <4>3, <4>4 DEF Aside
      <3> QED
        BY <1>1, <3>1, <3>2
    <2>3. CASE Acquire(t)
      BY <1>1, <2>3, EnterStep
    <2>4. CASE Unlock(t)
      BY <1>1, <2>1, <2>4 DEF Unlock, Answered
    <2>5. CASE Fail(t)
      <3>1. left[t] \in 0..MaxRetries /\ MaxRetries \in Nat
        BY BoundsAssumption
      <3>2. CASE u = t
        BY <2>5, <3>1, <3>2 DEF Fail, Retry
      <3>3. CASE u # t
        BY <1>1, <2>5, <3>3 DEF Fail, Retry
      <3> QED
        BY <3>2, <3>3
    <2>6. CASE FailUnlocking(t) \/ Die(t)
      BY <1>1, <2>6 DEF FailUnlocking, Die
    <2> QED
      BY <1>1, <2>2, <2>3, <2>4, <2>5, <2>6 DEF Leaves
  <1>2. ASSUME NEW s \in Tasks, NEW t \in Tasks, killed' = {},
               reply'[s] = "duplicate", reply[s] # "duplicate",
               Aside(t) \/ Acquire(t) \/ Leaves(t)
        PROVE  \E u \in Tasks \ {s} : Seen(u)
    <2>1. Duplicate(t) /\ s = t
      <3>1. CASE Look(t) \/ Read(t) \/ Take(t) \/ TakeFails(t)
        BY <1>2, <3>1 DEF Look, Read, Take, TakeFails
      <3>2. CASE Act(t) \/ ActRefused(t) \/ Request(t) \/ Notify(t) \/ Return(t)
        BY <1>2, <3>2 DEF Act, ActRefused, Request, Notify, Return
      <3>3. CASE \/ Route(t) \/ Handle(t) \/ OpenLink(t) \/ DecideInChat(t)
                 \/ LapsePending(t) \/ LapseResult(t)
        BY <1>2, <3>3 DEF Route, Deduplicate, Dispatch, Handle, DecideByMail,
           CloseLink, OpenLink, DecideInChat, Decide, LapsePending, LapseResult
      <3>4. CASE Acquire(t) \/ Unlock(t) \/ Die(t)
        BY <1>2, <3>4 DEF Acquire, Unlock, Die
      <3>5. CASE Fail(t) \/ FailUnlocking(t)
        BY <1>2, <3>5 DEF Fail, FailUnlocking, Retry
      <3>6. CASE Duplicate(t)
        BY <1>2, <3>6 DEF Duplicate
      <3> QED
        BY <1>2, <3>1, <3>2, <3>3, <3>4, <3>5, <3>6 DEF Aside, Leaves
    <2>2. killed = {} /\ lock = "held" /\ t \notin Inside
      BY <1>2, <2>1 DEF Duplicate
    <2> QED
      BY <2>1, <2>2 DEF Manned
  <1>3. CASE ForgetDispatch \/ LapseLock \/ UNCHANGED vars
    BY <1>3 DEF ForgetDispatch, LapseLock, vars, DuplicateIsProcessed
  <1>4. ASSUME NEW t \in Tasks, Aside(t) \/ Acquire(t) \/ Leaves(t)
        PROVE  DuplicateIsProcessed'
    <2> SUFFICES ASSUME NEW s \in Tasks, reply'[s] = "duplicate", killed' = {}
                 PROVE  \E u \in Tasks \ {s} : Seen(u)'
      BY DEF DuplicateIsProcessed
    <2>1. killed = {}
      BY <1>4, AsideStep, EnterStep, LeaveStep
    <2>2. PICK u \in Tasks \ {s} : Seen(u)
      <3>1. CASE reply[s] = "duplicate"
        BY <2>1, <3>1 DEF DuplicateIsProcessed
      <3>2. CASE reply[s] # "duplicate"
        BY <1>2, <1>4, <3>2
      <3> QED
        BY <3>1, <3>2
    <2>3. Seen(u)'
      BY <1>1, <1>4, <2>2
    <2> QED
      BY <2>2, <2>3
  <1> QED
    BY <1>3, <1>4, Steps

\* The inductive invariant of the message's lock.
LockInv == Undispatched /\ Overlaps /\ Manned /\ Answered /\ DuplicateIsProcessed

\* What the lock is worth, in every reachable state.
THEOREM LockInvariance == Spec => []LockInv
  <1>1. Init => LockInv
    <2> SUFFICES ASSUME Init PROVE LockInv
      OBVIOUS
    <2>1. Inside = {}
      BY DEF Init, Inside, Working
    <2>2. Overlaps
      BY <2>1, FS_EmptySet, BoundsAssumption DEF Init, Overlaps
    <2> QED
      BY <2>1, <2>2 DEF Init, LockInv, Undispatched, Manned, Answered,
         DuplicateIsProcessed
  <1>2. TypeOK /\ LockInv /\ [Next]_vars => LockInv'
    BY NextUndispatched, NextOverlaps, NextManned, NextAnswered, NextProcessed
       DEF LockInv
  <1> QED
    BY <1>1, <1>2, TypeCorrect, PTL DEF Spec

\* Tasks of one message are inside together only as often as the lock lapsed.
THEOREM RunsAlone == Spec => []RunsExclude
  <1>1. TypeOK /\ LockInv => RunsExclude
    <2> SUFFICES ASSUME TypeOK, LockInv PROVE RunsExclude
      OBVIOUS
    <2>1. lapses \in Nat /\ Cardinality(Inside) \in Nat
      BY FS_CardinalityType DEF TypeOK, LockInv, Overlaps
    <2> QED
      BY <2>1 DEF LockInv, Overlaps, RunsExclude
  <1> QED
    BY <1>1, LockInvariance, TypeCorrect, PTL

\* While no worker is lost, a delivery called a duplicate is one of a message
\* that is, or has been, processed.
THEOREM NoneDropped == Spec => []DuplicateIsProcessed
  BY LockInvariance, PTL DEF LockInv

=============================================================================
