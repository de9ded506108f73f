------------------------ MODULE CircuitBreaker_proofs ------------------------
(***************************************************************************)
(* CircuitBreaker for any number of workers and any TTLs: types, that an   *)
(* outage is acted upon, that the probe lock is not left behind, and that  *)
(* an open breaker lets nobody in before the cool-down is over.            *)
(***************************************************************************)
EXTENDS CircuitBreaker, TLAPS

\* A counted failure has not lapsed.
CountLives == fails > 0 => failTtl > 0

\* At the threshold the breaker stays open at least as long as the count.
OpenOutlastsCount ==
    deaths = 0 /\ fails = Threshold =>
        openTtl >= failTtl \/ \E w \in Workers : pc[w] = "set_open"

IInv == TypeOK /\ CountLives /\ OpenOutlastsCount /\ NoOrphanLock

LEMMA LeastType ==
    ASSUME NEW m \in Nat, NEW n \in Nat
    PROVE  /\ Least(m, n) \in 0..n
           /\ m > 0 /\ n > 0 => Least(m, n) > 0
  BY DEF Least

LEMMA LessType ==
    ASSUME NEW n \in Nat, NEW m \in 0..n
    PROVE  /\ Less(m) \in 0..n
           /\ \A k \in Nat : m >= k => Less(m) >= Less(k)
  BY DEF Less

\* A worker that leaves a position the property does not speak of, or moves to
\* one it does, takes no witness away.
LEMMA WitnessStays ==
    ASSUME NEW S, NEW w \in Workers, NEW position \in Positions,
           pc \in [Workers -> Positions],
           pc[w] \notin S \/ position \in S,
           Goto(w, position),
           \E v \in Workers : pc[v] \in S
    PROVE  \E v \in Workers : pc'[v] \in S
  <1>1. PICK v \in Workers : pc[v] \in S
    OBVIOUS
  <1>2. CASE v = w
    BY <1>1, <1>2 DEF Goto
  <1>3. CASE v # w
    BY <1>1, <1>3 DEF Goto
  <1> QED
    BY <1>2, <1>3

-----------------------------------------------------------------------------
\* The initial state satisfies the invariant.
LEMMA InitInvariant == Init => IInv
  BY ThresholdAssumption, TtlAssumption
     DEF Init, IInv, TypeOK, CountLives, OpenOutlastsCount, NoOrphanLock,
         Positions

\* Types are preserved.
LEMMA NextType == TypeOK /\ [Next]_vars => TypeOK'
  <1> SUFFICES ASSUME TypeOK, [Next]_vars PROVE TypeOK'
    OBVIOUS
  <1> USE ThresholdAssumption, TtlAssumption
  <1>1. ASSUME NEW w \in Workers, ReadOpen(w) PROVE TypeOK'
    BY <1>1 DEF TypeOK, ReadOpen, LetIn, Goto, counter, opening, Positions,
                Waiting, Calling
  <1>2. ASSUME NEW w \in Workers, ReadTtl(w) PROVE TypeOK'
    BY <1>2 DEF TypeOK, ReadTtl, Leave, Goto, counter, opening, Positions,
                Waiting, Calling
  <1>3. ASSUME NEW w \in Workers, LockProbe(w) PROVE TypeOK'
    BY <1>3 DEF TypeOK, LockProbe, LetIn, Leave, Goto, counter, opening,
                Positions, Waiting, Calling
  <1>4. ASSUME NEW w \in Workers, CallSucceeds(w) PROVE TypeOK'
    BY <1>4 DEF TypeOK, CallSucceeds, DeleteAll, Leave, Goto, Positions
  <1>5. ASSUME NEW w \in Workers, CallRefused(w) PROVE TypeOK'
    BY <1>5 DEF TypeOK, CallRefused, Leave, Goto, counter, opening, Positions
  <1>6. ASSUME NEW w \in Workers, CallFails(w) PROVE TypeOK'
    <2>1. fails' \in 0..Threshold
      BY <1>6, LeastType DEF TypeOK, CallFails, CountFailure
    <2> QED
      BY <1>6, <2>1 DEF TypeOK, CallFails, CountFailure, Leave, Goto, opening,
                        Positions
  <1>7. ASSUME NEW w \in Workers, Opens(w) PROVE TypeOK'
    BY <1>7 DEF TypeOK, Opens, SetOpen, Leave, Goto, counter, Positions
  <1>8. ASSUME NEW w \in Workers, ProbeSucceeds(w) PROVE TypeOK'
    BY <1>8 DEF TypeOK, ProbeSucceeds, DeleteAll, Goto, Positions
  <1>9. ASSUME NEW w \in Workers, ProbeRefused(w) PROVE TypeOK'
    BY <1>9 DEF TypeOK, ProbeRefused, Goto, counter, opening, Positions
  <1>10. ASSUME NEW w \in Workers, ProbeFails(w) PROVE TypeOK'
    BY <1>10 DEF TypeOK, ProbeFails, SetOpen, Goto, counter, Positions
  <1>11. ASSUME NEW w \in Workers, UnlockProbe(w) PROVE TypeOK'
    BY <1>11 DEF TypeOK, UnlockProbe, Leave, Goto, counter, opening, Positions
  <1>12. ASSUME NEW w \in Workers, Die(w) PROVE TypeOK'
    BY <1>12 DEF TypeOK, Die, Leave, Goto, counter, opening, Positions
  <1>13. ASSUME Tick PROVE TypeOK'
    <2>1. /\ failTtl' \in 0..WindowTtl
          /\ openTtl' \in 0..OpenTtl
          /\ probeTtl' \in 0..ProbeTtl
      BY <1>13, LessType DEF TypeOK, Tick
    <2>2. openAge' \in 0..OpenTtl
      BY <1>13 DEF TypeOK, Tick, Least
    <2>3. age' \in [Workers -> 0..MaxCall]
      BY <1>13 DEF TypeOK, Tick
    <2> QED
      BY <1>13, <2>1, <2>2, <2>3 DEF TypeOK, Tick
  <1>14. CASE UNCHANGED vars
    BY <1>14 DEF TypeOK, vars
  <1>15. CASE Reset \/ ForgetDead
    BY <1>15 DEF TypeOK, Reset, ForgetDead, DeleteAll
  <1> QED
    BY <1>1, <1>2, <1>3, <1>4, <1>5, <1>6, <1>7, <1>8, <1>9, <1>10, <1>11,
       <1>12, <1>13, <1>14, <1>15 DEF Next, Proceed

\* A counted failure does not outlive its key.
LEMMA NextCount == TypeOK /\ CountLives /\ [Next]_vars => CountLives'
  <1> SUFFICES ASSUME TypeOK, CountLives, [Next]_vars PROVE CountLives'
    OBVIOUS
  <1>1. CASE Tick
    BY <1>1, TtlAssumption, LessType DEF TypeOK, CountLives, Tick
  <1>2. ASSUME NEW w \in Workers, CallFails(w) PROVE CountLives'
    BY <1>2, TtlAssumption DEF CountLives, CallFails, CountFailure
  <1>3. ASSUME DeleteAll PROVE CountLives'
    BY <1>3 DEF CountLives, DeleteAll
  <1>4. ASSUME UNCHANGED counter PROVE CountLives'
    BY <1>4 DEF CountLives, counter
  <1>5. ASSUME UNCHANGED vars PROVE CountLives'
    BY <1>5 DEF CountLives, vars
  <1>6. CASE ForgetDead
    BY <1>6 DEF CountLives, ForgetDead
  <1> QED
    BY <1>1, <1>2, <1>3, <1>4, <1>5, <1>6
       DEF Next, Proceed, ReadOpen, ReadTtl, LockProbe, CallSucceeds,
           CallRefused, Opens, ProbeSucceeds, ProbeRefused, ProbeFails,
           UnlockProbe, Die, Reset

-----------------------------------------------------------------------------
\* The open key is set for at least as long as the count lives.
LEMMA NextOpen == IInv /\ [Next]_vars => OpenOutlastsCount'
  <1> SUFFICES ASSUME IInv, [Next]_vars, deaths' = 0, fails' = Threshold
               PROVE  \/ openTtl' >= failTtl'
                      \/ \E w \in Workers : pc'[w] = "set_open"
    BY DEF OpenOutlastsCount
  <1> DEFINE Goal == \/ openTtl' >= failTtl'
                     \/ \E w \in Workers : pc'[w] = "set_open"
  <1> USE ThresholdAssumption, TtlAssumption
  <1>0. TypeOK /\ TypeOK'
    BY NextType DEF IInv
  <1>1. ASSUME NEW w \in Workers, NEW position \in Positions,
               Goto(w, position), pc[w] # "set_open",
               UNCHANGED << fails, failTtl, openTtl, deaths >>
        PROVE  Goal
    <2>1. CASE openTtl >= failTtl
      BY <1>1, <2>1
    <2>2. CASE \E v \in Workers : pc[v] \in {"set_open"}
      <3>1. \E v \in Workers : pc'[v] \in {"set_open"}
        BY <1>0, <1>1, <2>2, WitnessStays DEF TypeOK
      <3> QED
        BY <3>1
    <2> QED
      BY <1>1, <2>1, <2>2 DEF IInv, OpenOutlastsCount
  <1>2. ASSUME NEW w \in Workers,
               ReadOpen(w) \/ ReadTtl(w) \/ LockProbe(w) \/ CallRefused(w)
               \/ ProbeRefused(w) \/ UnlockProbe(w)
        PROVE  Goal
    <2>1. /\ pc[w] # "set_open"
          /\ UNCHANGED << fails, failTtl, openTtl, deaths >>
      BY <1>2 DEF ReadOpen, ReadTtl, LockProbe, CallRefused, ProbeRefused,
                  UnlockProbe, counter, opening
    <2>2. \E position \in Positions : Goto(w, position)
      BY <1>2 DEF ReadOpen, ReadTtl, LockProbe, CallRefused, ProbeRefused,
                  UnlockProbe, LetIn, Leave, Positions, Waiting, Calling
    <2> QED
      BY <1>1, <2>1, <2>2
  <1>3. ASSUME NEW w \in Workers, CallSucceeds(w) \/ ProbeSucceeds(w)
        PROVE  Goal
    BY <1>3 DEF CallSucceeds, ProbeSucceeds, DeleteAll
  <1>4. ASSUME NEW w \in Workers, CallFails(w) PROVE Goal
    BY <1>0, <1>4 DEF CallFails, Goto, TypeOK
  <1>5. ASSUME NEW w \in Workers, Opens(w) \/ ProbeFails(w) PROVE Goal
    BY <1>0, <1>5, WindowAssumption
       DEF Opens, ProbeFails, SetOpen, counter, TypeOK
  <1>6. ASSUME NEW w \in Workers, Die(w) PROVE Goal
    BY <1>0, <1>6 DEF Die, TypeOK
  <1>7. CASE Tick
    <2>1. fails = Threshold /\ deaths = 0 /\ UNCHANGED pc
      BY <1>7 DEF Tick
    <2>2. CASE openTtl >= failTtl
      BY <1>0, <1>7, <2>2, LessType DEF Tick, TypeOK
    <2> QED
      BY <2>1, <2>2 DEF IInv, OpenOutlastsCount
  <1>8. CASE UNCHANGED vars
    BY <1>8 DEF IInv, OpenOutlastsCount, vars
  <1>9. CASE Reset \/ ForgetDead
    BY <1>9 DEF Reset, ForgetDead, DeleteAll
  <1> QED
    BY <1>2, <1>3, <1>4, <1>5, <1>6, <1>7, <1>8, <1>9 DEF Next, Proceed

\* The probe lock has a holder, or the step that took it away freed it.
LEMMA NextLock == TypeOK /\ NoOrphanLock /\ [Next]_vars => NoOrphanLock'
  <1> DEFINE Holding == {"probing", "unlock_probe"}
  <1> SUFFICES ASSUME TypeOK, NoOrphanLock, [Next]_vars,
                      deaths' = 0, probeTtl' > 0
               PROVE  \E w \in Workers : pc'[w] \in Holding
    BY DEF NoOrphanLock
  <1> USE TtlAssumption
  <1>1. ASSUME NEW w \in Workers, NEW position \in Positions,
               Goto(w, position), pc[w] \notin Holding \/ position \in Holding,
               UNCHANGED << probeTtl, deaths >>
        PROVE  \E v \in Workers : pc'[v] \in Holding
    <2>1. \E v \in Workers : pc[v] \in Holding
      BY <1>1 DEF NoOrphanLock
    <2> HIDE DEF Holding
    <2> QED
      BY <1>1, <2>1, WitnessStays DEF TypeOK
  <1>2. ASSUME NEW w \in Workers,
               ReadOpen(w) \/ ReadTtl(w) \/ CallRefused(w) \/ CallFails(w)
               \/ Opens(w) \/ ProbeRefused(w) \/ ProbeFails(w)
        PROVE  \E v \in Workers : pc'[v] \in Holding
    <2>1. UNCHANGED << probeTtl, deaths >>
      BY <1>2 DEF ReadOpen, ReadTtl, CallRefused, CallFails, Opens,
                  ProbeRefused, ProbeFails
    <2>2. \E position \in Positions :
             Goto(w, position) /\ (pc[w] \notin Holding \/ position \in Holding)
      BY <1>2 DEF ReadOpen, ReadTtl, CallRefused, CallFails, Opens,
                  ProbeRefused, ProbeFails, LetIn, Leave, Positions, Waiting,
                  Calling
    <2> QED
      BY <1>1, <2>1, <2>2
  <1>3. ASSUME NEW w \in Workers, LockProbe(w)
        PROVE  \E v \in Workers : pc'[v] \in Holding
    <2>1. CASE probeTtl > 0 /\ Leave(w) /\ UNCHANGED probeTtl
      BY <1>1, <1>3, <2>1 DEF LockProbe, Leave, Positions
    <2>2. CASE LetIn(w, "probing")
      BY <2>2 DEF LetIn, Goto, TypeOK
    <2> QED
      BY <1>3, <2>1, <2>2 DEF LockProbe
  <1>4. ASSUME NEW w \in Workers,
               CallSucceeds(w) \/ ProbeSucceeds(w) \/ UnlockProbe(w)
        PROVE  \E v \in Workers : pc'[v] \in Holding
    BY <1>4 DEF CallSucceeds, ProbeSucceeds, UnlockProbe, DeleteAll
  <1>5. ASSUME NEW w \in Workers, Die(w)
        PROVE  \E v \in Workers : pc'[v] \in Holding
    BY <1>5 DEF Die, TypeOK
  <1>6. CASE Tick
    BY <1>6 DEF Tick, Less, NoOrphanLock, TypeOK
  <1>7. CASE UNCHANGED vars
    BY <1>7 DEF NoOrphanLock, vars
  <1>8. CASE Reset
    BY <1>8 DEF Reset, DeleteAll
  <1>9. CASE ForgetDead
    BY <1>9 DEF ForgetDead, NoOrphanLock
  <1> QED
    BY <1>2, <1>3, <1>4, <1>5, <1>6, <1>7, <1>8, <1>9 DEF Next, Proceed

-----------------------------------------------------------------------------
\* The inductive invariant holds in every reachable state.
THEOREM Invariance == Spec => []IInv
  <1>1. IInv /\ [Next]_vars => IInv'
    BY NextType, NextCount, NextOpen, NextLock DEF IInv
  <1> QED
    BY InitInvariant, <1>1, PTL DEF Spec

\* Every variable has its type, whatever the workers and TTLs.
THEOREM TypeCorrect == Spec => []TypeOK
  <1>1. IInv => TypeOK
    BY DEF IInv
  <1> QED
    BY Invariance, <1>1, PTL

\* As long as no worker is killed, a count at the threshold means that the
\* breaker is open or is being opened: EXPIRE of the count never outlasts SETEX
\* of the open key, and DELETE takes both.
THEOREM OutagesActedUpon == Spec => []OutageActedUpon
  <1>1. IInv => OutageActedUpon
    BY ThresholdAssumption, TtlAssumption
       DEF IInv, TypeOK, CountLives, OpenOutlastsCount, OutageActedUpon
  <1> QED
    BY Invariance, <1>1, PTL

\* As long as no worker is killed, the probe lock has a holder that will
\* delete it, whatever func raised.
THEOREM NoLockOrphaned == Spec => []NoOrphanLock
  <1>1. IInv => NoOrphanLock
    BY DEF IInv
  <1> QED
    BY Invariance, <1>1, PTL

-----------------------------------------------------------------------------
\* What is left of the cool-down is the TTL of the open key.
CoolDown == health = "down" => openTtl + openAge >= OpenTtl

\* Short of a deletion, which ends the outage, only time takes the key away.
LEMMA NextCoolDown == TypeOK /\ CoolDown /\ [Next]_vars => CoolDown'
  <1> SUFFICES ASSUME TypeOK, CoolDown, [Next]_vars PROVE CoolDown'
    OBVIOUS
  <1> USE TtlAssumption
  <1>1. ASSUME DeleteAll \/ ForgetDead PROVE CoolDown'
    BY <1>1 DEF CoolDown, DeleteAll, ForgetDead
  <1>2. ASSUME SetOpen PROVE CoolDown'
    BY <1>2 DEF CoolDown, SetOpen
  <1>3. ASSUME UNCHANGED opening PROVE CoolDown'
    BY <1>3 DEF CoolDown, opening
  <1>4. CASE Tick
    BY <1>4 DEF Tick, CoolDown, Less, Least, TypeOK
  <1>5. CASE UNCHANGED vars
    BY <1>5 DEF CoolDown, vars
  <1> QED
    BY <1>1, <1>2, <1>3, <1>4, <1>5
       DEF Next, Proceed, ReadOpen, ReadTtl, LockProbe, CallSucceeds,
           CallRefused, CallFails, Opens, ProbeSucceeds, ProbeRefused,
           ProbeFails, UnlockProbe, Die, Reset

\* Nobody walks in during an outage before the cool-down is over: EXISTS of
\* the open key is true for as long as SETEX has promised, and only a success
\* or a reset deletes it.
THEOREM OpenKeepsOut == Spec => OpenHolds
  <1>1. Init => CoolDown
    BY DEF Init, CoolDown
  <1>2. TypeOK /\ CoolDown /\ [Next]_vars =>
           [\A w \in Workers :
               /\ pc[w] = "idle" /\ pc'[w] = "calling"
               /\ health = "down"
               => openAge >= OpenTtl]_vars
    <2> SUFFICES ASSUME TypeOK, CoolDown, [Next]_vars,
                        NEW w \in Workers, pc[w] = "idle", pc'[w] = "calling",
                        health = "down"
                 PROVE  openTtl = 0
      BY TtlAssumption DEF TypeOK, CoolDown
    <2>1. ASSUME NEW v \in Workers, ReadOpen(v) PROVE openTtl = 0
      BY <2>1 DEF ReadOpen, LetIn, Goto, TypeOK
    <2>2. ASSUME NEW v \in Workers, NEW position \in Positions \ {"calling"},
                 Goto(v, position)
          PROVE  FALSE
      BY <2>2 DEF Goto, TypeOK
    <2>3. ASSUME NEW v \in Workers, Proceed(v) \/ Die(v) PROVE FALSE
      <3>1. \E position \in Positions \ {"calling"} : Goto(v, position)
        BY <2>3 DEF Proceed, ReadTtl, LockProbe, LetIn, Leave, CallSucceeds,
                    CallRefused, CallFails, Opens, ProbeSucceeds, ProbeRefused,
                    ProbeFails, UnlockProbe, Die, Positions, Waiting, Calling
      <3> QED
        BY <2>2, <3>1
    <2>4. UNCHANGED pc \/ \E v \in Workers : ReadOpen(v) \/ Proceed(v) \/ Die(v)
      BY DEF Next, Reset, ForgetDead, Tick, vars
    <2> QED
      BY <2>1, <2>3, <2>4 DEF TypeOK
  <1> QED
    BY <1>1, <1>2, NextCoolDown, TypeCorrect, PTL DEF Spec, OpenHolds

=============================================================================
