-------------------------- MODULE TokenRefresh_proofs --------------------------
(***************************************************************************)
(* TokenRefresh for any number of requests, expiries and faults: types,    *)
(* the refresh lock, what becomes of a rotated token, and when a request   *)
(* may give a token up.                                                    *)
(***************************************************************************)
EXTENDS TokenRefresh, FiniteSetTheorems, TLAPS

-----------------------------------------------------------------------------
(* Types *)

\* Who is about to store a token has one, and every new grant issued one.
Storable ==
    /\ \A w \in Workers : pc[w] \in {"resetting", "storing"} => got[w] # 0
    /\ reconnects < issued

\* The workers with a refusal still to count.
Owing == {w \in Workers : due[w] > 0}

\* The workers are finitely many, and so are those that owe.
LEMMA OwingFinite == IsFiniteSet(Workers) /\ IsFiniteSet(Owing)
                     /\ Cardinality(Owing) \in Nat
  <1>1. IsFiniteSet(Workers)
    <2>1. Workers = (Callers \cup {Sweep}) \cup {User}
      BY DEF Workers
    <2>2. IsFiniteSet(Callers \cup {Sweep})
      BY WorkersAssumption, FS_AddElement
    <2> QED
      BY <2>1, <2>2, FS_AddElement
  <1>2. IsFiniteSet(Owing)
    BY <1>1, FS_Subset DEF Owing
  <1> QED
    BY <1>1, <1>2, FS_CardinalityType

\* Who is among the workers.
LEMMA Members ==
    Sweep \in Workers /\ User \in Workers /\ Callers \subseteq Workers
  BY DEF Workers

\* The initial state is of the types.
LEMMA InitType == Init => TypeOK /\ Storable
  BY BoundsAssumption DEF Init, TypeOK, Storable, Positions, Critical

\* Types are preserved.
LEMMA NextType == TypeOK /\ Storable /\ [Next]_vars => TypeOK'
  <1> SUFFICES ASSUME TypeOK, Storable, [Next]_vars PROVE TypeOK'
    OBVIOUS
  <1> USE BoundsAssumption, OwingFinite, Members
      DEF TypeOK, Storable, Positions, Critical, Goto, Owing,
          provider, database, stores, keys, locals, history
  <1>1. ASSUME NEW w \in Workers, Begin(w) PROVE TypeOK'
    BY <1>1 DEF Begin, Call
  <1>2. ASSUME NEW w \in Workers, ReadCache(w) PROVE TypeOK'
    BY <1>2 DEF ReadCache
  <1>3. ASSUME NEW w \in Workers, LoadRow(w) PROVE TypeOK'
    BY <1>3 DEF LoadRow
  <1>4. ASSUME NEW w \in Workers, Warm(w) PROVE TypeOK'
    BY <1>4 DEF Warm
  <1>5. ASSUME NEW w \in Workers, JudgeAnswer(w) PROVE TypeOK'
    BY <1>5 DEF JudgeAnswer, Return
  <1>6. ASSUME NEW w \in Workers, JudgeStale(w) PROVE TypeOK'
    BY <1>6 DEF JudgeStale
  <1>7. ASSUME NEW w \in Workers, LookAgain(w) PROVE TypeOK'
    BY <1>7 DEF LookAgain
  <1>8. ASSUME NEW w \in Workers, TakeLock(w) PROVE TypeOK'
    BY <1>8 DEF TakeLock
  <1>9. ASSUME NEW w \in Workers, WaitForLock(w) PROVE TypeOK'
    BY <1>9 DEF WaitForLock
  <1>10. ASSUME NEW w \in Workers, Exchange(w) PROVE TypeOK'
    BY <1>10 DEF Exchange
  <1>11. ASSUME NEW w \in Workers, ExchangeLost(w) PROVE TypeOK'
    BY <1>11 DEF ExchangeLost
  <1>12. ASSUME NEW w \in Workers, ExchangeFails(w) PROVE TypeOK'
    BY <1>12 DEF ExchangeFails, Leave, Return
  <1>13. ASSUME NEW w \in Workers, ResetCount(w) PROVE TypeOK'
    BY <1>13 DEF ResetCount, Leave, Return
  <1>14. ASSUME NEW w \in Workers, StoreRow(w) PROVE TypeOK'
    BY <1>14 DEF StoreRow
  <1>15. ASSUME NEW w \in Workers, StoreCache(w) PROVE TypeOK'
    BY <1>15 DEF StoreCache
  <1>16. ASSUME NEW w \in Workers, Release(w) PROVE TypeOK'
    BY <1>16 DEF Release, Return
  <1>17. ASSUME NEW w \in Workers, Refuse(w) PROVE TypeOK'
    BY <1>17 DEF Refuse
  <1>18. ASSUME NEW w \in Workers, RefuseUncounted(w) PROVE TypeOK'
    BY <1>18 DEF RefuseUncounted, Leave, Return
  <1>19. ASSUME NEW w \in Workers, Count(w) PROVE TypeOK'
    BY <1>19 DEF Count
  <1>20. ASSUME NEW w \in Workers, Counted(w) PROVE TypeOK'
    BY <1>20 DEF Counted, Leave, Return
  <1>21. ASSUME NEW w \in Workers, Alert(w) PROVE TypeOK'
    BY <1>21 DEF Alert, Buried, Leave, Return
  <1>22. ASSUME NEW w \in Workers, Bury(w) PROVE TypeOK'
    BY <1>22 DEF Bury
  <1>23. ASSUME NEW w \in Workers, Clear(w) PROVE TypeOK'
    BY <1>23 DEF Clear, Buried, Leave, Return
  <1>24. ASSUME NEW w \in Workers, MarkDisconnected(w) PROVE TypeOK'
    BY <1>24 DEF MarkDisconnected, Return
  <1>25. ASSUME NEW w \in Workers, Swallow(w) PROVE TypeOK'
    BY <1>25 DEF Swallow, Buried, Leave, Return
  <1>26. ASSUME NEW w \in Workers, Die(w) PROVE TypeOK'
    BY <1>26 DEF Die, Return
  <1>27. CASE SweepJudge
    BY <1>27 DEF SweepJudge, Return
  <1>28. CASE Reconnect
    BY <1>28 DEF Reconnect, Call
  <1>38. CASE EraseRow
    BY <1>38 DEF EraseRow
  <1>29. CASE Disconnect
    BY <1>29 DEF Disconnect, Call
  <1>30. CASE LapseLock
    BY <1>30 DEF LapseLock
  <1>31. CASE LapseCache
    BY <1>31 DEF LapseCache, Expire
  <1>32. CASE LapseCount
    BY <1>32 DEF LapseCount, Expire
  <1>33. CASE LapseAlert
    BY <1>33 DEF LapseAlert, Expire
  <1>34. CASE Age
    BY <1>34 DEF Age, Expire
  <1>35. CASE EndGrant
    BY <1>35 DEF EndGrant, Expire
  <1>36. CASE UNCHANGED vars
    BY <1>36 DEF vars
  <1> QED
    BY <1>1, <1>2, <1>3, <1>4, <1>5, <1>6, <1>7, <1>8, <1>9, <1>10,
       <1>11, <1>12, <1>13, <1>14, <1>15, <1>16, <1>17, <1>18, <1>19,
       <1>20, <1>21, <1>22, <1>23, <1>24, <1>25, <1>26, <1>27, <1>28,
       <1>29, <1>30, <1>31, <1>32, <1>33, <1>34, <1>35, <1>36, <1>38
       DEF Next, Step, Lapse

\* A token comes with the exchange.
LEMMA NextStorable == TypeOK /\ Storable /\ [Next]_vars => Storable'
  <1> SUFFICES ASSUME TypeOK, Storable, [Next]_vars PROVE Storable'
    OBVIOUS
  <1> USE Members DEF TypeOK, Storable, Positions, Critical, Goto,
         provider, database, stores, keys, locals, history
  <1>1. ASSUME NEW w \in Workers, Begin(w) PROVE Storable'
    BY <1>1 DEF Begin, Call
  <1>2. ASSUME NEW w \in Workers, ReadCache(w) PROVE Storable'
    BY <1>2 DEF ReadCache
  <1>3. ASSUME NEW w \in Workers, LoadRow(w) PROVE Storable'
    BY <1>3 DEF LoadRow
  <1>4. ASSUME NEW w \in Workers, Warm(w) PROVE Storable'
    BY <1>4 DEF Warm
  <1>5. ASSUME NEW w \in Workers, JudgeAnswer(w) PROVE Storable'
    BY <1>5 DEF JudgeAnswer, Return
  <1>6. ASSUME NEW w \in Workers, JudgeStale(w) PROVE Storable'
    BY <1>6 DEF JudgeStale
  <1>7. ASSUME NEW w \in Workers, LookAgain(w) PROVE Storable'
    BY <1>7 DEF LookAgain
  <1>8. ASSUME NEW w \in Workers, TakeLock(w) PROVE Storable'
    BY <1>8 DEF TakeLock
  <1>9. ASSUME NEW w \in Workers, WaitForLock(w) PROVE Storable'
    BY <1>9 DEF WaitForLock
  <1>10. ASSUME NEW w \in Workers, Exchange(w) PROVE Storable'
    BY <1>10 DEF Exchange
  <1>11. ASSUME NEW w \in Workers, ExchangeLost(w) PROVE Storable'
    BY <1>11 DEF ExchangeLost
  <1>12. ASSUME NEW w \in Workers, ExchangeFails(w) PROVE Storable'
    BY <1>12 DEF ExchangeFails, Leave, Return
  <1>13. ASSUME NEW w \in Workers, ResetCount(w) PROVE Storable'
    BY <1>13 DEF ResetCount, Leave, Return
  <1>14. ASSUME NEW w \in Workers, StoreRow(w) PROVE Storable'
    BY <1>14 DEF StoreRow
  <1>15. ASSUME NEW w \in Workers, StoreCache(w) PROVE Storable'
    BY <1>15 DEF StoreCache
  <1>16. ASSUME NEW w \in Workers, Release(w) PROVE Storable'
    BY <1>16 DEF Release, Return
  <1>17. ASSUME NEW w \in Workers, Refuse(w) PROVE Storable'
    BY <1>17 DEF Refuse
  <1>18. ASSUME NEW w \in Workers, RefuseUncounted(w) PROVE Storable'
    BY <1>18 DEF RefuseUncounted, Leave, Return
  <1>19. ASSUME NEW w \in Workers, Count(w) PROVE Storable'
    BY <1>19 DEF Count
  <1>20. ASSUME NEW w \in Workers, Counted(w) PROVE Storable'
    BY <1>20 DEF Counted, Leave, Return
  <1>21. ASSUME NEW w \in Workers, Alert(w) PROVE Storable'
    BY <1>21 DEF Alert, Buried, Leave, Return
  <1>22. ASSUME NEW w \in Workers, Bury(w) PROVE Storable'
    BY <1>22 DEF Bury
  <1>23. ASSUME NEW w \in Workers, Clear(w) PROVE Storable'
    BY <1>23 DEF Clear, Buried, Leave, Return
  <1>24. ASSUME NEW w \in Workers, MarkDisconnected(w) PROVE Storable'
    BY <1>24 DEF MarkDisconnected, Return
  <1>25. ASSUME NEW w \in Workers, Swallow(w) PROVE Storable'
    BY <1>25 DEF Swallow, Buried, Leave, Return
  <1>26. ASSUME NEW w \in Workers, Die(w) PROVE Storable'
    BY <1>26 DEF Die, Return
  <1>27. CASE SweepJudge
    BY <1>27 DEF SweepJudge, Return
  <1>28. CASE Reconnect
    BY <1>28 DEF Reconnect, Call
  <1>38. CASE EraseRow
    BY <1>38 DEF EraseRow
  <1>29. CASE Disconnect
    BY <1>29 DEF Disconnect, Call
  <1>30. CASE LapseLock
    BY <1>30 DEF LapseLock
  <1>31. CASE LapseCache
    BY <1>31 DEF LapseCache, Expire
  <1>32. CASE LapseCount
    BY <1>32 DEF LapseCount, Expire
  <1>33. CASE LapseAlert
    BY <1>33 DEF LapseAlert, Expire
  <1>34. CASE Age
    BY <1>34 DEF Age, Expire
  <1>35. CASE EndGrant
    BY <1>35 DEF EndGrant, Expire
  <1>36. CASE UNCHANGED vars
    BY <1>36 DEF vars
  <1> QED
    BY <1>1, <1>2, <1>3, <1>4, <1>5, <1>6, <1>7, <1>8, <1>9, <1>10,
       <1>11, <1>12, <1>13, <1>14, <1>15, <1>16, <1>17, <1>18, <1>19,
       <1>20, <1>21, <1>22, <1>23, <1>24, <1>25, <1>26, <1>27, <1>28,
       <1>29, <1>30, <1>31, <1>32, <1>33, <1>34, <1>35, <1>36, <1>38
       DEF Next, Step, Lapse

-----------------------------------------------------------------------------
(* The refresh lock *)

\* Only requests come to take the lock.
Asking == \A w \in Workers : pc[w] = "locking" => w \in Callers

\* A request more than the lock's lapses is refreshing only while the lock is
\* held.
Overlaps == /\ IsFiniteSet(Refreshing)
            /\ Cardinality(Refreshing) <= lapses + IF lock = "held" THEN 1 ELSE 0

LockInv == Asking /\ Overlaps /\ LockIsManned

\* Every step but three kinds leaves the lock and the section under it alone.
LEMMA LockSteps ==
    ASSUME TypeOK, [Next]_vars
    PROVE  \/ UNCHANGED << Refreshing, lock, lapses >> /\ (faults' = 0 => faults = 0)
           \/ LapseLock
           \/ \E w \in Workers : TakeLock(w) \/ Release(w) \/ Die(w)
  <1> DEFINE Same == UNCHANGED << Refreshing, lock, lapses >>
                     /\ (faults' = 0 => faults = 0)
  <1> USE Members, WorkersAssumption
      DEF TypeOK, Positions, Critical, Refreshing, Goto,
          provider, database, stores, keys, locals, history
  <1>1. ASSUME NEW w \in Workers, Begin(w) PROVE Same
    BY <1>1 DEF Begin, Call
  <1>2. ASSUME NEW w \in Workers, ReadCache(w) PROVE Same
    BY <1>2 DEF ReadCache
  <1>3. ASSUME NEW w \in Workers, LoadRow(w) PROVE Same
    BY <1>3 DEF LoadRow
  <1>4. ASSUME NEW w \in Workers, Warm(w) PROVE Same
    BY <1>4 DEF Warm
  <1>5. ASSUME NEW w \in Workers, JudgeAnswer(w) PROVE Same
    BY <1>5 DEF JudgeAnswer, Return
  <1>6. ASSUME NEW w \in Workers, JudgeStale(w) PROVE Same
    BY <1>6 DEF JudgeStale
  <1>7. ASSUME NEW w \in Workers, LookAgain(w) PROVE Same
    BY <1>7 DEF LookAgain
  <1>8. ASSUME NEW w \in Workers, WaitForLock(w) PROVE Same
    BY <1>8 DEF WaitForLock
  <1>9. ASSUME NEW w \in Workers, Exchange(w) PROVE Same
    BY <1>9 DEF Exchange
  <1>10. ASSUME NEW w \in Workers, ExchangeLost(w) PROVE Same
    BY <1>10 DEF ExchangeLost
  <1>11. ASSUME NEW w \in Workers, ExchangeFails(w) PROVE Same
    BY <1>11 DEF ExchangeFails, Leave, Return
  <1>12. ASSUME NEW w \in Workers, ResetCount(w) PROVE Same
    BY <1>12 DEF ResetCount, Leave, Return
  <1>13. ASSUME NEW w \in Workers, StoreRow(w) PROVE Same
    BY <1>13 DEF StoreRow
  <1>14. ASSUME NEW w \in Workers, StoreCache(w) PROVE Same
    BY <1>14 DEF StoreCache
  <1>15. ASSUME NEW w \in Workers, Refuse(w) PROVE Same
    BY <1>15 DEF Refuse
  <1>16. ASSUME NEW w \in Workers, RefuseUncounted(w) PROVE Same
    BY <1>16 DEF RefuseUncounted, Leave, Return
  <1>17. ASSUME NEW w \in Workers, Count(w) PROVE Same
    BY <1>17 DEF Count
  <1>18. ASSUME NEW w \in Workers, Counted(w) PROVE Same
    BY <1>18 DEF Counted, Leave, Return
  <1>19. ASSUME NEW w \in Workers, Alert(w) PROVE Same
    BY <1>19 DEF Alert, Buried, Leave, Return
  <1>20. ASSUME NEW w \in Workers, Bury(w) PROVE Same
    BY <1>20 DEF Bury
  <1>21. ASSUME NEW w \in Workers, Clear(w) PROVE Same
    BY <1>21 DEF Clear, Buried, Leave, Return
  <1>22. ASSUME NEW w \in Workers, MarkDisconnected(w) PROVE Same
    BY <1>22 DEF MarkDisconnected, Return
  <1>23. ASSUME NEW w \in Workers, Swallow(w) PROVE Same
    BY <1>23 DEF Swallow, Buried, Leave, Return
  <1>24. CASE SweepJudge
    BY <1>24 DEF SweepJudge, Return
  <1>25. CASE Reconnect
    BY <1>25 DEF Reconnect, Call
  <1>38. CASE EraseRow
    BY <1>38 DEF EraseRow
  <1>26. CASE Disconnect
    BY <1>26 DEF Disconnect, Call
  <1>27. CASE LapseCache
    BY <1>27 DEF LapseCache, Expire
  <1>28. CASE LapseCount
    BY <1>28 DEF LapseCount, Expire
  <1>29. CASE LapseAlert
    BY <1>29 DEF LapseAlert, Expire
  <1>30. CASE Age
    BY <1>30 DEF Age, Expire
  <1>31. CASE EndGrant
    BY <1>31 DEF EndGrant, Expire
  <1>32. CASE UNCHANGED vars
    BY <1>32 DEF vars
  <1> QED
    BY <1>1, <1>2, <1>3, <1>4, <1>5, <1>6, <1>7, <1>8, <1>9, <1>10, <1>11,
       <1>12, <1>13, <1>14, <1>15, <1>16, <1>17, <1>18, <1>19, <1>20, <1>21,
       <1>22, <1>23, <1>24, <1>25, <1>26, <1>27, <1>28, <1>29, <1>30, <1>31,
       <1>32, <1>38
       DEF Next, Step, Lapse

\* Who asks for the lock is a request.
LEMMA NextAsking == TypeOK /\ Asking /\ [Next]_vars => Asking'
  <1> SUFFICES ASSUME TypeOK, Asking, [Next]_vars PROVE Asking'
    OBVIOUS
  <1> USE Members DEF TypeOK, Asking, Goto,
         provider, database, stores, keys, locals, history
  <1>1. ASSUME NEW w \in Workers, Begin(w) PROVE Asking'
    BY <1>1 DEF Begin, Call
  <1>2. ASSUME NEW w \in Workers, ReadCache(w) PROVE Asking'
    BY <1>2 DEF ReadCache
  <1>3. ASSUME NEW w \in Workers, LoadRow(w) PROVE Asking'
    BY <1>3 DEF LoadRow
  <1>4. ASSUME NEW w \in Workers, Warm(w) PROVE Asking'
    BY <1>4 DEF Warm
  <1>5. ASSUME NEW w \in Workers, JudgeAnswer(w) PROVE Asking'
    BY <1>5 DEF JudgeAnswer, Return
  <1>6. ASSUME NEW w \in Workers, JudgeStale(w) PROVE Asking'
    BY <1>6 DEF JudgeStale
  <1>7. ASSUME NEW w \in Workers, LookAgain(w) PROVE Asking'
    BY <1>7 DEF LookAgain
  <1>8. ASSUME NEW w \in Workers, TakeLock(w) PROVE Asking'
    BY <1>8 DEF TakeLock
  <1>9. ASSUME NEW w \in Workers, WaitForLock(w) PROVE Asking'
    BY <1>9 DEF WaitForLock
  <1>10. ASSUME NEW w \in Workers, Exchange(w) PROVE Asking'
    BY <1>10 DEF Exchange
  <1>11. ASSUME NEW w \in Workers, ExchangeLost(w) PROVE Asking'
    BY <1>11 DEF ExchangeLost
  <1>12. ASSUME NEW w \in Workers, ExchangeFails(w) PROVE Asking'
    BY <1>12 DEF ExchangeFails, Leave, Return
  <1>13. ASSUME NEW w \in Workers, ResetCount(w) PROVE Asking'
    BY <1>13 DEF ResetCount, Leave, Return
  <1>14. ASSUME NEW w \in Workers, StoreRow(w) PROVE Asking'
    BY <1>14 DEF StoreRow
  <1>15. ASSUME NEW w \in Workers, StoreCache(w) PROVE Asking'
    BY <1>15 DEF StoreCache
  <1>16. ASSUME NEW w \in Workers, Release(w) PROVE Asking'
    BY <1>16 DEF Release, Return
  <1>17. ASSUME NEW w \in Workers, Refuse(w) PROVE Asking'
    BY <1>17 DEF Refuse
  <1>18. ASSUME NEW w \in Workers, RefuseUncounted(w) PROVE Asking'
    BY <1>18 DEF RefuseUncounted, Leave, Return
  <1>19. ASSUME NEW w \in Workers, Count(w) PROVE Asking'
    BY <1>19 DEF Count
  <1>20. ASSUME NEW w \in Workers, Counted(w) PROVE Asking'
    BY <1>20 DEF Counted, Leave, Return
  <1>21. ASSUME NEW w \in Workers, Alert(w) PROVE Asking'
    BY <1>21 DEF Alert, Buried, Leave, Return
  <1>22. ASSUME NEW w \in Workers, Bury(w) PROVE Asking'
    BY <1>22 DEF Bury
  <1>23. ASSUME NEW w \in Workers, Clear(w) PROVE Asking'
    BY <1>23 DEF Clear, Buried, Leave, Return
  <1>24. ASSUME NEW w \in Workers, MarkDisconnected(w) PROVE Asking'
    BY <1>24 DEF MarkDisconnected, Return
  <1>25. ASSUME NEW w \in Workers, Swallow(w) PROVE Asking'
    BY <1>25 DEF Swallow, Buried, Leave, Return
  <1>26. ASSUME NEW w \in Workers, Die(w) PROVE Asking'
    BY <1>26 DEF Die, Return
  <1>27. CASE SweepJudge
    BY <1>27 DEF SweepJudge, Return
  <1>28. CASE Reconnect
    BY <1>28 DEF Reconnect, Call
  <1>38. CASE EraseRow
    BY <1>38 DEF EraseRow
  <1>29. CASE Disconnect
    BY <1>29 DEF Disconnect, Call
  <1>30. CASE LapseLock
    BY <1>30 DEF LapseLock
  <1>31. CASE LapseCache
    BY <1>31 DEF LapseCache, Expire
  <1>32. CASE LapseCount
    BY <1>32 DEF LapseCount, Expire
  <1>33. CASE LapseAlert
    BY <1>33 DEF LapseAlert, Expire
  <1>34. CASE Age
    BY <1>34 DEF Age, Expire
  <1>35. CASE EndGrant
    BY <1>35 DEF EndGrant, Expire
  <1>36. CASE UNCHANGED vars
    BY <1>36 DEF vars
  <1> QED
    BY <1>1, <1>2, <1>3, <1>4, <1>5, <1>6, <1>7, <1>8, <1>9, <1>10,
       <1>11, <1>12, <1>13, <1>14, <1>15, <1>16, <1>17, <1>18, <1>19,
       <1>20, <1>21, <1>22, <1>23, <1>24, <1>25, <1>26, <1>27, <1>28,
       <1>29, <1>30, <1>31, <1>32, <1>33, <1>34, <1>35, <1>36, <1>38
       DEF Next, Step, Lapse

\* Who takes the lock enters, and nobody leaves while it is theirs but by
\* giving it back or by dying.
LEMMA NextLockInv == TypeOK /\ LockInv /\ [Next]_vars => LockInv'
  <1> SUFFICES ASSUME TypeOK, LockInv, [Next]_vars PROVE Overlaps' /\ LockIsManned'
    BY NextAsking DEF LockInv
  <1>0. lapses \in Nat /\ lock \in {"free", "held"} /\ Cardinality(Refreshing) \in Nat
    BY FS_CardinalityType DEF TypeOK, LockInv, Overlaps
  <1>1. CASE UNCHANGED << Refreshing, lock, lapses >> /\ (faults' = 0 => faults = 0)
    <2>1. Refreshing' = Refreshing /\ lock' = lock /\ lapses' = lapses
      BY <1>1
    <2> QED
      BY <1>1, <2>1 DEF LockInv, Overlaps, LockIsManned
  <1>2. CASE LapseLock
    <2>1. /\ Refreshing' = Refreshing /\ lapses' = lapses + 1
          /\ lock' = "free" /\ lock = "held"
      BY <1>2 DEF LapseLock, Refreshing
    <2> QED
      BY <1>0, <2>1 DEF LockInv, Overlaps, LockIsManned
  <1>3. ASSUME NEW w \in Workers, TakeLock(w) PROVE Overlaps' /\ LockIsManned'
    <2>1. /\ w \notin Refreshing /\ Refreshing' = Refreshing \cup {w}
          /\ lock = "free" /\ lock' = "held" /\ lapses' = lapses
      BY <1>3, Members DEF TakeLock, Refreshing, Critical, Goto, TypeOK, LockInv,
         Asking, history
    <2>2. IsFiniteSet(Refreshing') /\ Cardinality(Refreshing') = Cardinality(Refreshing) + 1
      BY <2>1, FS_AddElement DEF LockInv, Overlaps
    <2> QED
      BY <1>0, <2>1, <2>2 DEF LockInv, Overlaps, LockIsManned
  <1>4. ASSUME NEW w \in Workers, Release(w) PROVE Overlaps' /\ LockIsManned'
    <2>1. /\ w \in Refreshing /\ Refreshing' = Refreshing \ {w}
          /\ lock' = "free" /\ lapses' = lapses
      BY <1>4, Members DEF Release, Return, Refreshing, Critical, Goto, TypeOK, history
    <2>2. IsFiniteSet(Refreshing') /\ Cardinality(Refreshing') = Cardinality(Refreshing) - 1
      BY <2>1, FS_RemoveElement DEF LockInv, Overlaps
    <2> QED
      BY <1>0, <2>1, <2>2 DEF LockInv, Overlaps, LockIsManned
  <1>5. ASSUME NEW w \in Workers, Die(w) PROVE Overlaps' /\ LockIsManned'
    <2>1. /\ Refreshing' = Refreshing \ {w} /\ lock' = lock /\ lapses' = lapses
          /\ faults' # 0
      BY <1>5, Members DEF Die, Return, Refreshing, Critical, Goto, TypeOK, keys
    <2>2. /\ IsFiniteSet(Refreshing') /\ Cardinality(Refreshing') \in Nat
          /\ Cardinality(Refreshing') <= Cardinality(Refreshing)
      <3>1. Refreshing' \subseteq Refreshing /\ IsFiniteSet(Refreshing)
        BY <2>1 DEF LockInv, Overlaps
      <3>2. /\ IsFiniteSet(Refreshing')
            /\ Cardinality(Refreshing') <= Cardinality(Refreshing)
        BY <3>1, FS_Subset
      <3> QED
        BY <3>2, FS_CardinalityType
    <2> QED
      BY <1>0, <2>1, <2>2 DEF LockInv, Overlaps, LockIsManned
  <1> QED
    BY <1>1, <1>2, <1>3, <1>4, <1>5, LockSteps

-----------------------------------------------------------------------------
(* Rotated tokens *)

\* Nobody has, and no store holds, a token that w is about to store, and
\* everybody else at work has an older one.
Sole(w) ==
    /\ got[w] = issued
    /\ row < issued /\ stored < issued /\ cache < issued
    /\ \A v \in Workers : held[v] < issued
    /\ \A v \in Workers \ {w} :
          pc[v] \in {"resetting", "storing", "caching", "settling"} => got[v] < issued

\* With rotation only the newest token is live, and only one worker is between
\* its exchange and the row.
RotationInv ==
    rotates = "yes" =>
        /\ floor = issued
        /\ reconnects = 0 =>
              \A w \in Workers : pc[w] \in {"resetting", "storing"} => Sole(w)

\* No step hands a new token to two workers, or lets an old one be stored.
LEMMA NextRotation ==
    TypeOK /\ Storable /\ RotationInv /\ [Next]_vars => RotationInv'
  <1> SUFFICES ASSUME TypeOK, Storable, RotationInv, [Next]_vars PROVE RotationInv'
    OBVIOUS
  <1> USE Members DEF TypeOK, Positions, Critical, RotationInv, Sole, Live, Goto,
         provider, database, stores, keys, locals, history
  <1>1. ASSUME NEW w \in Workers, Begin(w) PROVE RotationInv'
    BY <1>1 DEF Begin, Call
  <1>2. ASSUME NEW w \in Workers, ReadCache(w) PROVE RotationInv'
    BY <1>2 DEF ReadCache
  <1>3. ASSUME NEW w \in Workers, LoadRow(w) PROVE RotationInv'
    BY <1>3 DEF LoadRow
  <1>4. ASSUME NEW w \in Workers, Warm(w) PROVE RotationInv'
    BY <1>4 DEF Warm
  <1>5. ASSUME NEW w \in Workers, JudgeAnswer(w) PROVE RotationInv'
    BY <1>5 DEF JudgeAnswer, Return
  <1>6. ASSUME NEW w \in Workers, JudgeStale(w) PROVE RotationInv'
    BY <1>6 DEF JudgeStale
  <1>7. ASSUME NEW w \in Workers, LookAgain(w) PROVE RotationInv'
    BY <1>7 DEF LookAgain
  <1>8. ASSUME NEW w \in Workers, TakeLock(w) PROVE RotationInv'
    BY <1>8 DEF TakeLock
  <1>9. ASSUME NEW w \in Workers, WaitForLock(w) PROVE RotationInv'
    BY <1>9 DEF WaitForLock
  <1>10. ASSUME NEW w \in Workers, Exchange(w) PROVE RotationInv'
    BY <1>10 DEF Exchange
  <1>11. ASSUME NEW w \in Workers, ExchangeLost(w) PROVE RotationInv'
    BY <1>11 DEF ExchangeLost
  <1>12. ASSUME NEW w \in Workers, ExchangeFails(w) PROVE RotationInv'
    BY <1>12 DEF ExchangeFails, Leave, Return
  <1>13. ASSUME NEW w \in Workers, ResetCount(w) PROVE RotationInv'
    BY <1>13 DEF ResetCount, Leave, Return
  <1>14. ASSUME NEW w \in Workers, StoreRow(w) PROVE RotationInv'
    BY <1>14 DEF StoreRow
  <1>15. ASSUME NEW w \in Workers, StoreCache(w) PROVE RotationInv'
    BY <1>15 DEF StoreCache
  <1>16. ASSUME NEW w \in Workers, Release(w) PROVE RotationInv'
    BY <1>16 DEF Release, Return
  <1>17. ASSUME NEW w \in Workers, Refuse(w) PROVE RotationInv'
    BY <1>17 DEF Refuse
  <1>18. ASSUME NEW w \in Workers, RefuseUncounted(w) PROVE RotationInv'
    BY <1>18 DEF RefuseUncounted, Leave, Return
  <1>19. ASSUME NEW w \in Workers, Count(w) PROVE RotationInv'
    BY <1>19 DEF Count
  <1>20. ASSUME NEW w \in Workers, Counted(w) PROVE RotationInv'
    BY <1>20 DEF Counted, Leave, Return
  <1>21. ASSUME NEW w \in Workers, Alert(w) PROVE RotationInv'
    BY <1>21 DEF Alert, Buried, Leave, Return
  <1>22. ASSUME NEW w \in Workers, Bury(w) PROVE RotationInv'
    BY <1>22 DEF Bury
  <1>23. ASSUME NEW w \in Workers, Clear(w) PROVE RotationInv'
    BY <1>23 DEF Clear, Buried, Leave, Return
  <1>24. ASSUME NEW w \in Workers, MarkDisconnected(w) PROVE RotationInv'
    BY <1>24 DEF MarkDisconnected, Return
  <1>25. ASSUME NEW w \in Workers, Swallow(w) PROVE RotationInv'
    BY <1>25 DEF Swallow, Buried, Leave, Return
  <1>26. ASSUME NEW w \in Workers, Die(w) PROVE RotationInv'
    BY <1>26 DEF Die, Return
  <1>27. CASE SweepJudge
    BY <1>27 DEF SweepJudge, Return
  <1>28. CASE Reconnect
    BY <1>28 DEF Reconnect, Call
  <1>38. CASE EraseRow
    BY <1>38 DEF EraseRow
  <1>29. CASE Disconnect
    BY <1>29 DEF Disconnect, Call
  <1>30. CASE LapseLock
    BY <1>30 DEF LapseLock
  <1>31. CASE LapseCache
    BY <1>31 DEF LapseCache, Expire
  <1>32. CASE LapseCount
    BY <1>32 DEF LapseCount, Expire
  <1>33. CASE LapseAlert
    BY <1>33 DEF LapseAlert, Expire
  <1>34. CASE Age
    BY <1>34 DEF Age, Expire
  <1>35. CASE EndGrant
    BY <1>35 DEF EndGrant, Expire
  <1>36. CASE UNCHANGED vars
    BY <1>36 DEF vars
  <1> QED
    BY <1>1, <1>2, <1>3, <1>4, <1>5, <1>6, <1>7, <1>8, <1>9, <1>10,
       <1>11, <1>12, <1>13, <1>14, <1>15, <1>16, <1>17, <1>18, <1>19,
       <1>20, <1>21, <1>22, <1>23, <1>24, <1>25, <1>26, <1>27, <1>28,
       <1>29, <1>30, <1>31, <1>32, <1>33, <1>34, <1>35, <1>36, <1>38
       DEF Next, Step, Lapse

\* The newest token, where nothing failed and nobody reconnected, is in the
\* row or on its way there.
LEMMA NextKept ==
    TypeOK /\ RotationInv /\ TokenKept /\ [Next]_vars => TokenKept'
  <1> SUFFICES ASSUME TypeOK, RotationInv, TokenKept, [Next]_vars PROVE TokenKept'
    OBVIOUS
  <1> USE Members DEF TypeOK, Positions, Critical, RotationInv, Sole, TokenKept, Goto,
         provider, database, stores, keys, locals, history
  <1>1. ASSUME NEW w \in Workers, Begin(w) PROVE TokenKept'
    BY <1>1 DEF Begin, Call
  <1>2. ASSUME NEW w \in Workers, ReadCache(w) PROVE TokenKept'
    BY <1>2 DEF ReadCache
  <1>3. ASSUME NEW w \in Workers, LoadRow(w) PROVE TokenKept'
    BY <1>3 DEF LoadRow
  <1>4. ASSUME NEW w \in Workers, Warm(w) PROVE TokenKept'
    BY <1>4 DEF Warm
  <1>5. ASSUME NEW w \in Workers, JudgeAnswer(w) PROVE TokenKept'
    BY <1>5 DEF JudgeAnswer, Return
  <1>6. ASSUME NEW w \in Workers, JudgeStale(w) PROVE TokenKept'
    BY <1>6 DEF JudgeStale
  <1>7. ASSUME NEW w \in Workers, LookAgain(w) PROVE TokenKept'
    BY <1>7 DEF LookAgain
  <1>8. ASSUME NEW w \in Workers, TakeLock(w) PROVE TokenKept'
    BY <1>8 DEF TakeLock
  <1>9. ASSUME NEW w \in Workers, WaitForLock(w) PROVE TokenKept'
    BY <1>9 DEF WaitForLock
  <1>10. ASSUME NEW w \in Workers, Exchange(w) PROVE TokenKept'
    BY <1>10 DEF Exchange
  <1>11. ASSUME NEW w \in Workers, ExchangeLost(w) PROVE TokenKept'
    BY <1>11 DEF ExchangeLost
  <1>12. ASSUME NEW w \in Workers, ExchangeFails(w) PROVE TokenKept'
    BY <1>12 DEF ExchangeFails, Leave, Return
  <1>13. ASSUME NEW w \in Workers, ResetCount(w) PROVE TokenKept'
    BY <1>13 DEF ResetCount, Leave, Return
  <1>14. ASSUME NEW w \in Workers, StoreRow(w) PROVE TokenKept'
    BY <1>14 DEF StoreRow
  <1>15. ASSUME NEW w \in Workers, StoreCache(w) PROVE TokenKept'
    BY <1>15 DEF StoreCache
  <1>16. ASSUME NEW w \in Workers, Release(w) PROVE TokenKept'
    BY <1>16 DEF Release, Return
  <1>17. ASSUME NEW w \in Workers, Refuse(w) PROVE TokenKept'
    BY <1>17 DEF Refuse
  <1>18. ASSUME NEW w \in Workers, RefuseUncounted(w) PROVE TokenKept'
    BY <1>18 DEF RefuseUncounted, Leave, Return
  <1>19. ASSUME NEW w \in Workers, Count(w) PROVE TokenKept'
    BY <1>19 DEF Count
  <1>20. ASSUME NEW w \in Workers, Counted(w) PROVE TokenKept'
    BY <1>20 DEF Counted, Leave, Return
  <1>21. ASSUME NEW w \in Workers, Alert(w) PROVE TokenKept'
    BY <1>21 DEF Alert, Buried, Leave, Return
  <1>22. ASSUME NEW w \in Workers, Bury(w) PROVE TokenKept'
    BY <1>22 DEF Bury
  <1>23. ASSUME NEW w \in Workers, Clear(w) PROVE TokenKept'
    BY <1>23 DEF Clear, Buried, Leave, Return
  <1>24. ASSUME NEW w \in Workers, MarkDisconnected(w) PROVE TokenKept'
    BY <1>24 DEF MarkDisconnected, Return
  <1>25. ASSUME NEW w \in Workers, Swallow(w) PROVE TokenKept'
    BY <1>25 DEF Swallow, Buried, Leave, Return
  <1>26. ASSUME NEW w \in Workers, Die(w) PROVE TokenKept'
    BY <1>26 DEF Die, Return
  <1>27. CASE SweepJudge
    BY <1>27 DEF SweepJudge, Return
  <1>28. CASE Reconnect
    BY <1>28 DEF Reconnect, Call
  <1>38. CASE EraseRow
    BY <1>38 DEF EraseRow
  <1>29. CASE Disconnect
    BY <1>29 DEF Disconnect, Call
  <1>30. CASE LapseLock
    BY <1>30 DEF LapseLock
  <1>31. CASE LapseCache
    BY <1>31 DEF LapseCache, Expire
  <1>32. CASE LapseCount
    BY <1>32 DEF LapseCount, Expire
  <1>33. CASE LapseAlert
    BY <1>33 DEF LapseAlert, Expire
  <1>34. CASE Age
    BY <1>34 DEF Age, Expire
  <1>35. CASE EndGrant
    BY <1>35 DEF EndGrant, Expire
  <1>36. CASE UNCHANGED vars
    BY <1>36 DEF vars
  <1> QED
    BY <1>1, <1>2, <1>3, <1>4, <1>5, <1>6, <1>7, <1>8, <1>9, <1>10,
       <1>11, <1>12, <1>13, <1>14, <1>15, <1>16, <1>17, <1>18, <1>19,
       <1>20, <1>21, <1>22, <1>23, <1>24, <1>25, <1>26, <1>27, <1>28,
       <1>29, <1>30, <1>31, <1>32, <1>33, <1>34, <1>35, <1>36, <1>38
       DEF Next, Step, Lapse

\* What a step may do to the row.
RowMoves ==
    \/ row' = row
    \/ row' > stored
    \/ row' = 0 /\ pc[User] = "erasing"

\* Only the newest token is written to the row, and only the user erases it.
LEMMA RowStep ==
    ASSUME TypeOK, RotationInv, [Next]_vars, rotates = "yes", reconnects' = 0
    PROVE  RowMoves
  <1>1. ASSUME NEW w \in Workers, StoreRow(w) PROVE RowMoves
    <2>1. reconnects = 0 /\ row' = got[w] /\ pc[w] = "storing"
      BY <1>1 DEF StoreRow, history
    <2>2. got[w] = issued /\ stored < issued
      BY <2>1 DEF RotationInv, Sole
    <2> QED
      BY <2>1, <2>2 DEF RowMoves
  <1>2. CASE row' = row
    BY <1>2 DEF RowMoves
  <1>3. ASSUME NEW w \in Workers, Begin(w) PROVE row' = row
    BY <1>3 DEF Begin, Call, database, stores
  <1>4. ASSUME NEW w \in Workers, ReadCache(w) PROVE row' = row
    BY <1>4 DEF ReadCache, database, stores
  <1>5. ASSUME NEW w \in Workers, LoadRow(w) PROVE row' = row
    BY <1>5 DEF LoadRow, database, stores
  <1>6. ASSUME NEW w \in Workers, Warm(w) PROVE row' = row
    BY <1>6 DEF Warm, database, stores
  <1>7. ASSUME NEW w \in Workers, JudgeAnswer(w) PROVE row' = row
    BY <1>7 DEF JudgeAnswer, database, stores
  <1>8. ASSUME NEW w \in Workers, JudgeStale(w) PROVE row' = row
    BY <1>8 DEF JudgeStale, database, stores
  <1>9. ASSUME NEW w \in Workers, LookAgain(w) PROVE row' = row
    BY <1>9 DEF LookAgain, database, stores
  <1>10. ASSUME NEW w \in Workers, TakeLock(w) PROVE row' = row
    BY <1>10 DEF TakeLock, database, stores
  <1>11. ASSUME NEW w \in Workers, WaitForLock(w) PROVE row' = row
    BY <1>11 DEF WaitForLock, database, stores
  <1>12. ASSUME NEW w \in Workers, Exchange(w) PROVE row' = row
    BY <1>12 DEF Exchange, database, stores
  <1>13. ASSUME NEW w \in Workers, ExchangeLost(w) PROVE row' = row
    BY <1>13 DEF ExchangeLost, database, stores
  <1>14. ASSUME NEW w \in Workers, ExchangeFails(w) PROVE row' = row
    BY <1>14 DEF ExchangeFails, database, stores
  <1>15. ASSUME NEW w \in Workers, ResetCount(w) PROVE row' = row
    BY <1>15 DEF ResetCount, database, stores
  <1>16. ASSUME NEW w \in Workers, StoreCache(w) PROVE row' = row
    BY <1>16 DEF StoreCache, database, stores
  <1>17. ASSUME NEW w \in Workers, Release(w) PROVE row' = row
    BY <1>17 DEF Release, database, stores
  <1>18. ASSUME NEW w \in Workers, Refuse(w) PROVE row' = row
    BY <1>18 DEF Refuse, database, stores
  <1>19. ASSUME NEW w \in Workers, RefuseUncounted(w) PROVE row' = row
    BY <1>19 DEF RefuseUncounted, database, stores
  <1>20. ASSUME NEW w \in Workers, Count(w) PROVE row' = row
    BY <1>20 DEF Count, database, stores
  <1>21. ASSUME NEW w \in Workers, Counted(w) PROVE row' = row
    BY <1>21 DEF Counted, database, stores
  <1>22. ASSUME NEW w \in Workers, Alert(w) PROVE row' = row
    BY <1>22 DEF Alert, database, stores
  <1>23. ASSUME NEW w \in Workers, Bury(w) PROVE row' = row
    BY <1>23 DEF Bury, database, stores
  <1>24. ASSUME NEW w \in Workers, Clear(w) PROVE row' = row
    BY <1>24 DEF Clear, database, stores
  <1>25. ASSUME NEW w \in Workers, MarkDisconnected(w) PROVE row' = row
    BY <1>25 DEF MarkDisconnected, database, stores
  <1>26. ASSUME NEW w \in Workers, Swallow(w) PROVE row' = row
    BY <1>26 DEF Swallow, database, stores
  <1>27. ASSUME NEW w \in Workers, Die(w) PROVE row' = row
    BY <1>27 DEF Die, database, stores
  <1>28. CASE SweepJudge
    BY <1>2, <1>28 DEF SweepJudge, database, stores
  <1>29. CASE Reconnect
    BY <1>2, <1>29 DEF Reconnect, database, stores
  <1>38. CASE EraseRow
    BY <1>38 DEF EraseRow, RowMoves
  <1>30. CASE Disconnect
    BY <1>2, <1>30 DEF Disconnect, database, stores
  <1>31. CASE LapseLock
    BY <1>2, <1>31 DEF LapseLock, database, stores
  <1>32. CASE LapseCache
    BY <1>2, <1>32 DEF LapseCache, database, stores
  <1>33. CASE LapseCount
    BY <1>2, <1>33 DEF LapseCount, database, stores
  <1>34. CASE LapseAlert
    BY <1>2, <1>34 DEF LapseAlert, database, stores
  <1>35. CASE Age
    BY <1>2, <1>35 DEF Age, database, stores
  <1>36. CASE EndGrant
    BY <1>2, <1>36 DEF EndGrant, database, stores
  <1>37. CASE UNCHANGED vars
    BY <1>2, <1>37 DEF vars
  <1> QED
    BY <1>1, <1>2, <1>3, <1>4, <1>5, <1>6, <1>7, <1>8, <1>9, <1>10, <1>11,
       <1>12, <1>13, <1>14, <1>15, <1>16, <1>17, <1>18, <1>19, <1>20, <1>21,
       <1>22, <1>23, <1>24, <1>25, <1>26, <1>27, <1>28, <1>29, <1>30, <1>31,
       <1>32, <1>33, <1>34, <1>35, <1>36, <1>37, <1>38
       DEF Next, Step, Lapse

-----------------------------------------------------------------------------
(* The count of refusals *)

\* The workers that will count a refusal twice more.
Twice == {w \in Workers : due[w] = 2}

\* What is counted and what is still to be counted is at most two for each
\* refusal since the count was reset.
CountInv == fatal + Cardinality(Owing) + Cardinality(Twice) <= 2 * refused

Shrinks == /\ Owing' \subseteq Owing /\ Twice' \subseteq Twice
           /\ fatal' = fatal /\ refused' = refused
Forgets == /\ Owing' \subseteq Owing /\ Twice' \subseteq Twice
           /\ fatal' = 0 /\ refused' = Cardinality(Owing)

\* A step counts, refuses, forgets or at most ends a worker's call.
LEMMA CountSteps ==
    ASSUME TypeOK, [Next]_vars
    PROVE  Shrinks \/ Forgets \/ \E w \in Workers : Refuse(w) \/ Count(w)
  <1> USE Members
      DEF TypeOK, Positions, Critical, Owing, Twice, Shrinks, Forgets, Goto,
          provider, database, stores, keys, locals, history
  <1>1. ASSUME NEW w \in Workers, Begin(w) PROVE Shrinks
    BY <1>1 DEF Begin, Call
  <1>2. ASSUME NEW w \in Workers, ReadCache(w) PROVE Shrinks
    BY <1>2 DEF ReadCache
  <1>3. ASSUME NEW w \in Workers, LoadRow(w) PROVE Shrinks
    BY <1>3 DEF LoadRow
  <1>4. ASSUME NEW w \in Workers, Warm(w) PROVE Shrinks
    BY <1>4 DEF Warm
  <1>5. ASSUME NEW w \in Workers, JudgeAnswer(w) PROVE Shrinks
    BY <1>5 DEF JudgeAnswer, Return
  <1>6. ASSUME NEW w \in Workers, JudgeStale(w) PROVE Shrinks
    BY <1>6 DEF JudgeStale
  <1>7. ASSUME NEW w \in Workers, LookAgain(w) PROVE Shrinks
    BY <1>7 DEF LookAgain
  <1>8. ASSUME NEW w \in Workers, TakeLock(w) PROVE Shrinks
    BY <1>8 DEF TakeLock
  <1>9. ASSUME NEW w \in Workers, WaitForLock(w) PROVE Shrinks
    BY <1>9 DEF WaitForLock
  <1>10. ASSUME NEW w \in Workers, Exchange(w) PROVE Shrinks
    BY <1>10 DEF Exchange
  <1>11. ASSUME NEW w \in Workers, ExchangeLost(w) PROVE Shrinks
    BY <1>11 DEF ExchangeLost
  <1>12. ASSUME NEW w \in Workers, ExchangeFails(w) PROVE Shrinks
    BY <1>12 DEF ExchangeFails, Leave, Return
  <1>13. ASSUME NEW w \in Workers, ResetCount(w) PROVE Forgets
    BY <1>13 DEF ResetCount, Leave, Return
  <1>14. ASSUME NEW w \in Workers, StoreRow(w) PROVE Shrinks
    BY <1>14 DEF StoreRow
  <1>15. ASSUME NEW w \in Workers, StoreCache(w) PROVE Shrinks
    BY <1>15 DEF StoreCache
  <1>16. ASSUME NEW w \in Workers, Release(w) PROVE Shrinks
    BY <1>16 DEF Release, Return
  <1>17. ASSUME NEW w \in Workers, RefuseUncounted(w) PROVE Shrinks
    BY <1>17 DEF RefuseUncounted, Leave, Return
  <1>18. ASSUME NEW w \in Workers, Counted(w) PROVE Shrinks
    BY <1>18 DEF Counted, Leave, Return
  <1>19. ASSUME NEW w \in Workers, Alert(w) PROVE Shrinks
    BY <1>19 DEF Alert, Buried, Leave, Return
  <1>20. ASSUME NEW w \in Workers, Bury(w) PROVE Shrinks
    BY <1>20 DEF Bury
  <1>21. ASSUME NEW w \in Workers, Clear(w) PROVE Forgets
    BY <1>21 DEF Clear, Buried, Leave, Return
  <1>22. ASSUME NEW w \in Workers, MarkDisconnected(w) PROVE Shrinks
    BY <1>22 DEF MarkDisconnected, Return
  <1>23. ASSUME NEW w \in Workers, Swallow(w) PROVE Shrinks
    BY <1>23 DEF Swallow, Buried, Leave, Return
  <1>24. ASSUME NEW w \in Workers, Die(w) PROVE Shrinks
    BY <1>24 DEF Die, Return
  <1>25. CASE SweepJudge
    BY <1>25 DEF SweepJudge, Return
  <1>26. CASE Reconnect
    BY <1>26 DEF Reconnect, Call
  <1>38. CASE EraseRow
    BY <1>38 DEF EraseRow
  <1>27. CASE Disconnect
    BY <1>27 DEF Disconnect, Call
  <1>28. CASE LapseLock
    BY <1>28 DEF LapseLock
  <1>29. CASE LapseCache
    BY <1>29 DEF LapseCache, Expire
  <1>30. CASE LapseCount
    BY <1>30 DEF LapseCount, Expire
  <1>31. CASE LapseAlert
    BY <1>31 DEF LapseAlert, Expire
  <1>32. CASE Age
    BY <1>32 DEF Age, Expire
  <1>33. CASE EndGrant
    BY <1>33 DEF EndGrant, Expire
  <1>34. CASE UNCHANGED vars
    BY <1>34 DEF vars
  <1> QED
    BY <1>1, <1>2, <1>3, <1>4, <1>5, <1>6, <1>7, <1>8, <1>9, <1>10, <1>11,
       <1>12, <1>13, <1>14, <1>15, <1>16, <1>17, <1>18, <1>19, <1>20, <1>21,
       <1>22, <1>23, <1>24, <1>25, <1>26, <1>27, <1>28, <1>29, <1>30, <1>31,
       <1>32, <1>33, <1>34, <1>38
       DEF Next, Step, Lapse

\* The sets that are counted are finite.
LEMMA CountedFinite ==
    TypeOK => /\ IsFiniteSet(Owing) /\ IsFiniteSet(Twice)
              /\ Cardinality(Owing) \in Nat /\ Cardinality(Twice) \in Nat
              /\ Cardinality(Twice) <= Cardinality(Owing)
  <1> SUFFICES ASSUME TypeOK
               PROVE  IsFiniteSet(Twice) /\ Cardinality(Twice) <= Cardinality(Owing)
    BY OwingFinite, FS_CardinalityType
  <1>1. Twice \subseteq Owing
    BY DEF Twice, Owing
  <1> QED
    BY <1>1, OwingFinite, FS_Subset

\* What is smaller counts less.
LEMMA Smaller ==
    ASSUME TypeOK, Owing' \subseteq Owing, Twice' \subseteq Twice
    PROVE  /\ Cardinality(Owing') \in Nat /\ Cardinality(Twice') \in Nat
           /\ Cardinality(Owing') <= Cardinality(Owing)
           /\ Cardinality(Twice') <= Cardinality(Twice)
  <1>1. IsFiniteSet(Owing') /\ Cardinality(Owing') <= Cardinality(Owing)
    BY CountedFinite, FS_Subset
  <1>2. IsFiniteSet(Twice') /\ Cardinality(Twice') <= Cardinality(Twice)
    BY CountedFinite, FS_Subset
  <1> QED
    BY <1>1, <1>2, FS_CardinalityType

\* A refusal adds two, and a count takes from what is still to be counted.
LEMMA NextCountInv == TypeOK /\ CountInv /\ [Next]_vars => CountInv'
  <1> SUFFICES ASSUME TypeOK, CountInv, [Next]_vars PROVE CountInv'
    OBVIOUS
  <1>0. fatal \in Nat /\ refused \in Nat
    BY DEF TypeOK
  <1>1. CASE Shrinks
    BY <1>0, <1>1, CountedFinite, Smaller DEF Shrinks, CountInv
  <1>2. CASE Forgets
    <2>1. /\ Cardinality(Owing') \in Nat /\ Cardinality(Twice') \in Nat
          /\ Cardinality(Owing') <= Cardinality(Owing)
          /\ Cardinality(Twice') <= Cardinality(Owing)
      BY <1>2, CountedFinite, Smaller DEF Forgets
    <2> QED
      BY <1>2, <2>1, CountedFinite DEF Forgets, CountInv
  <1>3. ASSUME NEW w \in Workers, Refuse(w) PROVE CountInv'
    <2>1. /\ Owing' \subseteq Owing \cup {w} /\ Twice' \subseteq Twice \cup {w}
          /\ fatal' = fatal /\ refused' = refused + 1
      BY <1>3 DEF Refuse, Owing, Twice, TypeOK, keys
    <2>2. /\ IsFiniteSet(Owing \cup {w})
          /\ Cardinality(Owing \cup {w}) <= Cardinality(Owing) + 1
      <3>1. IsFiniteSet(Owing) /\ Cardinality(Owing) \in Nat
        BY CountedFinite
      <3>2. /\ IsFiniteSet(Owing \cup {w})
            /\ Cardinality(Owing \cup {w}) =
                  IF w \in Owing THEN Cardinality(Owing) ELSE Cardinality(Owing) + 1
        BY <3>1, FS_AddElement
      <3> QED
        BY <3>1, <3>2
    <2>3. /\ IsFiniteSet(Twice \cup {w})
          /\ Cardinality(Twice \cup {w}) <= Cardinality(Twice) + 1
      <3>1. IsFiniteSet(Twice) /\ Cardinality(Twice) \in Nat
        BY CountedFinite
      <3>2. /\ IsFiniteSet(Twice \cup {w})
            /\ Cardinality(Twice \cup {w}) =
                  IF w \in Twice THEN Cardinality(Twice) ELSE Cardinality(Twice) + 1
        BY <3>1, FS_AddElement
      <3> QED
        BY <3>1, <3>2
    <2>4. /\ IsFiniteSet(Owing')
          /\ Cardinality(Owing') <= Cardinality(Owing \cup {w})
      BY <2>1, <2>2, FS_Subset
    <2>5. /\ IsFiniteSet(Twice')
          /\ Cardinality(Twice') <= Cardinality(Twice \cup {w})
      BY <2>1, <2>3, FS_Subset
    <2>6. /\ Cardinality(Owing') \in Nat /\ Cardinality(Twice') \in Nat
          /\ Cardinality(Owing \cup {w}) \in Nat /\ Cardinality(Twice \cup {w}) \in Nat
      BY <2>2, <2>3, <2>4, <2>5, FS_CardinalityType
    <2> QED
      BY <1>0, <2>1, <2>2, <2>3, <2>4, <2>5, <2>6, CountedFinite DEF CountInv
  <1>4. ASSUME NEW w \in Workers, Count(w) PROVE CountInv'
    <2>0. /\ due[w] \in {1, 2} /\ due' = [due EXCEPT ![w] = @ - 1]
          /\ fatal' = fatal + 1 /\ refused' = refused
          /\ due \in [Workers -> 0 .. 2]
      BY <1>4 DEF Count, TypeOK, history
    <2>1. CASE due[w] = 1
      <3>1. w \in Owing /\ Owing' = Owing \ {w} /\ Twice' = Twice
        BY <2>0, <2>1 DEF Owing, Twice
      <3>2. Cardinality(Owing') = Cardinality(Owing) - 1
        BY <3>1, CountedFinite, FS_RemoveElement
      <3> QED
        BY <1>0, <2>0, <3>1, <3>2, CountedFinite DEF CountInv
    <2>2. CASE due[w] = 2
      <3>1. w \in Twice /\ Owing' = Owing /\ Twice' = Twice \ {w}
        BY <2>0, <2>2 DEF Owing, Twice
      <3>2. Cardinality(Twice') = Cardinality(Twice) - 1
        BY <3>1, CountedFinite, FS_RemoveElement
      <3> QED
        BY <1>0, <2>0, <3>1, <3>2, CountedFinite DEF CountInv
    <2> QED
      BY <2>0, <2>1, <2>2
  <1> QED
    BY <1>1, <1>2, <1>3, <1>4, CountSteps

\* A request on its way to giving the token up has counted.
LEMMA DyingStep ==
    ASSUME TypeOK, Asking, CountInv, [Next]_vars, NEW c \in Callers,
           pc[c] = "counting", pc'[c] = "dying"
    PROVE  2 * refused >= Threshold
  <1>1. Count(c)
    <2> USE Members, WorkersAssumption
        DEF TypeOK, Positions, Critical, Goto, provider, database, stores, keys, locals, history
    <2>1. ASSUME NEW w \in Workers, Begin(w) PROVE Count(c)
      BY <2>1 DEF Begin, Call
    <2>2. ASSUME NEW w \in Workers, ReadCache(w) PROVE Count(c)
      BY <2>2 DEF ReadCache
    <2>3. ASSUME NEW w \in Workers, LoadRow(w) PROVE Count(c)
      BY <2>3 DEF LoadRow
    <2>4. ASSUME NEW w \in Workers, Warm(w) PROVE Count(c)
      BY <2>4 DEF Warm
    <2>5. ASSUME NEW w \in Workers, JudgeAnswer(w) PROVE Count(c)
      BY <2>5 DEF JudgeAnswer, Return
    <2>6. ASSUME NEW w \in Workers, JudgeStale(w) PROVE Count(c)
      BY <2>6 DEF JudgeStale
    <2>7. ASSUME NEW w \in Workers, LookAgain(w) PROVE Count(c)
      BY <2>7 DEF LookAgain
    <2>8. ASSUME NEW w \in Workers, TakeLock(w) PROVE Count(c)
      BY <2>8 DEF TakeLock
    <2>9. ASSUME NEW w \in Workers, WaitForLock(w) PROVE Count(c)
      BY <2>9 DEF WaitForLock
    <2>10. ASSUME NEW w \in Workers, Exchange(w) PROVE Count(c)
      BY <2>10 DEF Exchange
    <2>11. ASSUME NEW w \in Workers, ExchangeLost(w) PROVE Count(c)
      BY <2>11 DEF ExchangeLost
    <2>12. ASSUME NEW w \in Workers, ExchangeFails(w) PROVE Count(c)
      BY <2>12 DEF ExchangeFails, Leave, Return
    <2>13. ASSUME NEW w \in Workers, ResetCount(w) PROVE Count(c)
      BY <2>13 DEF ResetCount, Leave, Return
    <2>14. ASSUME NEW w \in Workers, StoreRow(w) PROVE Count(c)
      BY <2>14 DEF StoreRow
    <2>15. ASSUME NEW w \in Workers, StoreCache(w) PROVE Count(c)
      BY <2>15 DEF StoreCache
    <2>16. ASSUME NEW w \in Workers, Release(w) PROVE Count(c)
      BY <2>16 DEF Release, Return
    <2>17. ASSUME NEW w \in Workers, Refuse(w) PROVE Count(c)
      BY <2>17 DEF Refuse
    <2>18. ASSUME NEW w \in Workers, RefuseUncounted(w) PROVE Count(c)
      BY <2>18 DEF RefuseUncounted, Leave, Return
    <2>19. ASSUME NEW w \in Workers, Count(w) PROVE Count(c)
      BY <2>19 DEF Count
    <2>20. ASSUME NEW w \in Workers, Counted(w) PROVE Count(c)
      BY <2>20 DEF Counted, Leave, Return
    <2>21. ASSUME NEW w \in Workers, Alert(w) PROVE Count(c)
      BY <2>21 DEF Alert, Buried, Leave, Return
    <2>22. ASSUME NEW w \in Workers, Bury(w) PROVE Count(c)
      BY <2>22 DEF Bury
    <2>23. ASSUME NEW w \in Workers, Clear(w) PROVE Count(c)
      BY <2>23 DEF Clear, Buried, Leave, Return
    <2>24. ASSUME NEW w \in Workers, MarkDisconnected(w) PROVE Count(c)
      BY <2>24 DEF MarkDisconnected, Return
    <2>25. ASSUME NEW w \in Workers, Swallow(w) PROVE Count(c)
      BY <2>25 DEF Swallow, Buried, Leave, Return
    <2>26. ASSUME NEW w \in Workers, Die(w) PROVE Count(c)
      BY <2>26 DEF Die, Return
    <2>27. CASE SweepJudge
      BY <2>27 DEF SweepJudge, Return
    <2>28. CASE Reconnect
      BY <2>28 DEF Reconnect, Call
    <2>38. CASE EraseRow
      BY <2>38 DEF EraseRow
    <2>29. CASE Disconnect
      BY <2>29 DEF Disconnect, Call
    <2>30. CASE LapseLock
      BY <2>30 DEF LapseLock
    <2>31. CASE LapseCache
      BY <2>31 DEF LapseCache, Expire
    <2>32. CASE LapseCount
      BY <2>32 DEF LapseCount, Expire
    <2>33. CASE LapseAlert
      BY <2>33 DEF LapseAlert, Expire
    <2>34. CASE Age
      BY <2>34 DEF Age, Expire
    <2>35. CASE EndGrant
      BY <2>35 DEF EndGrant, Expire
    <2>36. CASE UNCHANGED vars
      BY <2>36 DEF vars
    <2> QED
      BY <2>1, <2>2, <2>3, <2>4, <2>5, <2>6, <2>7, <2>8, <2>9, <2>10, <2>11,
         <2>12, <2>13, <2>14, <2>15, <2>16, <2>17, <2>18, <2>19, <2>20,
         <2>21, <2>22, <2>23, <2>24, <2>25, <2>26, <2>27, <2>28, <2>29,
         <2>30, <2>31, <2>32, <2>33, <2>34, <2>35, <2>36, <2>38
         DEF Next, Step, Lapse
  <1>2. fatal + 1 >= Threshold /\ c \in Owing
    BY <1>1, WorkersAssumption, Members DEF Count, Hopeless, Owing, Goto, TypeOK
  <1>3. Cardinality(Owing) >= 1
    BY <1>2, CountedFinite, FS_EmptySet, FS_CardinalityType
  <1> QED
    BY <1>2, <1>3, CountedFinite, BoundsAssumption DEF CountInv, TypeOK

-----------------------------------------------------------------------------
(* The theorems *)

IInv == TypeOK /\ Storable /\ LockInv /\ RotationInv /\ TokenKept /\ CountInv

\* The inductive invariant of the token's refresh holds in every reachable state.
THEOREM Invariance == Spec => []IInv
  <1>1. Init => IInv
    <2> SUFFICES ASSUME Init PROVE IInv
      OBVIOUS
    <2>1. Refreshing = {} /\ Owing = {} /\ Twice = {}
      BY Members DEF Init, Refreshing, Critical, Owing, Twice
    <2>2. LockInv
      BY <2>1, FS_EmptySet DEF Init, LockInv, Asking, Overlaps, LockIsManned
    <2>3. RotationInv /\ TokenKept
      BY DEF Init, RotationInv, TokenKept
    <2>4. CountInv
      BY <2>1, FS_EmptySet DEF Init, CountInv
    <2> QED
      BY <2>2, <2>3, <2>4, InitType DEF IInv
  <1>2. IInv /\ [Next]_vars => IInv'
    BY NextType, NextStorable, NextLockInv, NextRotation, NextKept, NextCountInv
       DEF IInv
  <1> QED
    BY <1>1, <1>2, PTL DEF Spec

\* Requests refresh one at a time but for lapses of the lock, and the lock is
\* given back (_get_valid_token), for any number of requests.
THEOREM LockExcludes == Spec => []Inv
  <1>1. IInv => Inv
    BY DEF IInv, Inv, LockInv, Overlaps, RefreshersExclude
  <1> QED
    BY <1>1, Invariance, PTL

\* No newest token is lost between workers that refresh at once, or while the
\* user disconnects (_store_token, _clear_provider_meta).
THEOREM NothingLost == Spec => []TokenKept
  BY Invariance, PTL DEF IInv

\* What is written to the row in client_integrations is newer than all it has
\* had, those the user erased included (_pg_store, _clear_provider_meta).
THEOREM RowOnlyForward == Spec => RowNeverGoesBack
  <1>1. IInv /\ [Next]_vars =>
            [rotates = "yes" /\ reconnects' = 0 /\ row' # row =>
                \/ row' > stored
                \/ row' = 0 /\ pc[User] = "erasing"]_vars
    BY RowStep DEF IInv, RowMoves
  <1> QED
    BY <1>1, Invariance, PTL DEF Spec, RowNeverGoesBack

\* A request gives a token up for half the threshold of refusals at least.
THEOREM GivenUpForCause == Spec => DeadIsDeserved
  <1>1. IInv /\ [Next]_vars =>
            [\A c \in Callers :
                pc[c] = "counting" /\ pc'[c] = "dying" => 2 * refused >= Threshold]_vars
    BY DyingStep DEF IInv, LockInv
  <1> QED
    BY <1>1, Invariance, PTL DEF Spec, DeadIsDeserved

=============================================================================
