------------------------- MODULE PendingActions_proofs -------------------------
(***************************************************************************)
(* For every set of actions, requests and tenants, any number of crashes   *)
(* and any clock: the safety properties of the propose -> confirm gate,    *)
(* and that it implements ActionGate.  At the end, those of AuditChain,    *)
(* the chain its transactions write.                                       *)
(***************************************************************************)
EXTENDS PendingActions, AuditChain, SequenceTheorems, TLAPS

-----------------------------------------------------------------------------
(* The inductive invariant: what a request at each position has written,   *)
(* what it holds, and what that says about the committed row.              *)

\* The position a row of request r gets, and the row.
Base(r) == Len(chain[TenantOf(r)])
Line(r, event, n) ==
    [event |-> event, action |-> ActionOf(r), by |-> r, prev |-> n]

ConfirmedLine(r) == Line(r, "action_confirmed", Base(r))

\* Positions from which nothing has been written, in either table.
Clean == {"idle", "lookup", "read", "write cancelled", "done"}
\* Positions between the confirmation and its outcome.
Confirmed == {"decrypt", "find duplicate", "dispatch", "mark executed",
              "audit failed", "audit raised", "audit duplicate",
              "audit invoked"}

WriteAt(r) ==
    /\ pc[r] \in Clean => write[r] = "none"
    /\ pc[r] = "audit expired" => write[r] = "expired"
    /\ pc[r] \in {"audit confirmed", "decrypt", "find duplicate", "dispatch",
                  "mark executed"} => write[r] = "confirmed"
    /\ pc[r] \in {"audit failed", "audit raised", "audit duplicate"} =>
          write[r] = "failed"
    /\ pc[r] = "audit invoked" => write[r] = "executed"
    /\ pc[r] = "audit cancelled" => write[r] \in {"none", "cancelled"}
    /\ pc[r] = "commit" => write[r] # "confirmed"
    /\ pc[r] = "rollback" => write[r] \in {"expired", "failed"}

TrailAt(r) ==
    /\ pc[r] \in Clean \cup {"audit expired", "audit confirmed",
                             "audit cancelled"} => entries[r] = << >>
    /\ pc[r] \in Confirmed => entries[r] = << ConfirmedLine(r) >>
    /\ pc[r] = "rollback" => entries[r] # << >>

\* At the end of a transaction, its rows are the trail of what it wrote.
OutcomeLine(r, event) == Line(r, event, Base(r) + 1)
CommitTrail(r) ==
    /\ write[r] \in {"none", "cancelled"} =>
          entries[r] = << Line(r, "action_cancelled", Base(r)) >>
    /\ write[r] = "expired" =>
          entries[r] = << Line(r, "action_expired", Base(r)) >>
    /\ write[r] = "executed" =>
          entries[r] = << ConfirmedLine(r), OutcomeLine(r, "capability_invoked") >>
    /\ write[r] = "failed" =>
          \E event \in {"capability_failed", "capability_duplicate_replay"} :
              entries[r] = << ConfirmedLine(r), OutcomeLine(r, event) >>

RowAt(r) ==
    /\ write[r] # "none" => rowLock[ActionOf(r)] = r
    /\ write[r] \notin {"none", "cancelled"} => status[ActionOf(r)] = "pending"
    /\ pc[r] \notin {"idle", "lookup", "read", "done"} =>
          OwnerOf[ActionOf(r)] = TenantOf(r) /\ status[ActionOf(r)] # "absent"
    /\ pc[r] \in {"audit cancelled", "commit"} /\ write[r] = "none" =>
          status[ActionOf(r)] \in Settled

RequestInv(r) ==
    /\ WriteAt(r)
    /\ TrailAt(r)
    /\ pc[r] = "commit" => CommitTrail(r)
    /\ RowAt(r)
    /\ entries[r] # << >> => chainLock[TenantOf(r)] = r
    /\ performed[r] => pc[r] \in {"mark executed", "audit failed",
                                  "audit invoked", "commit"}
                       /\ write[r] \in {"confirmed", "failed", "executed"}

\* A run is remembered by the row, or by the request that is in flight, or is
\* counted as lost.
ActionInv(a) ==
    /\ status[a] # "confirmed"
    /\ status[a] # "absent" => proposal[a] = "stored"
    /\ effects[a] <= 1 + lost[a]
    /\ status[a] \in {"absent", "pending"} =>
          \/ effects[a] <= lost[a]
          \/ \E r \in Requests : ActionOf(r) = a /\ performed[r]

IInv ==
    /\ TypeOK
    /\ \A r \in Requests : RequestInv(r)
    /\ \A a \in Actions : ActionInv(a)
    /\ ChainLinked

-----------------------------------------------------------------------------
(* Framing: what a step leaves alone stays true. *)

\* Requests that do not move keep their invariant, as long as the locks they
\* hold, the chains those guard and the rows those guard are left alone.
LEMMA OthersHold ==
    ASSUME IInv, NEW M \in SUBSET Requests,
           job' = job,
           \A r \in Requests \ M :
               /\ pc'[r] = pc[r] /\ write'[r] = write[r]
               /\ entries'[r] = entries[r] /\ performed'[r] = performed[r],
           \A r \in Requests \ M, a \in Actions :
               rowLock[a] = r => rowLock'[a] = r,
           \A r \in Requests \ M, t \in Tenants :
               chainLock[t] = r => chainLock'[t] = r /\ chain'[t] = chain[t],
           \A a \in Actions :
               \/ status'[a] = status[a]
               \/ /\ \A r \in Requests \ M : rowLock[a] # r \/ status[a] = "absent"
                  /\ status'[a] # "absent"
                  /\ status[a] \in Settled => status'[a] \in Settled
    PROVE  \A r \in Requests \ M : RequestInv(r)'
<1> SUFFICES ASSUME NEW r \in Requests \ M PROVE RequestInv(r)'
  OBVIOUS
<1> DEFINE a == job[r].action
           t == job[r].tenant
<1>1. a \in Actions /\ t \in Tenants /\ RequestInv(r)
  BY DEF IInv, TypeOK, Jobs
<1>2. ActionOf(r) = a /\ ActionOf(r)' = a /\ TenantOf(r) = t /\ TenantOf(r)' = t
  BY DEF ActionOf, TenantOf
<1>3. WriteAt(r)'
  BY <1>1 DEF RequestInv, WriteAt
<1>4. entries[r] # << >> => Base(r)' = Base(r)
  BY <1>1, <1>2 DEF RequestInv, Base
<1>5. TrailAt(r)'
  <2>1. pc[r] \in Confirmed => entries[r] = << ConfirmedLine(r) >>
    BY <1>1 DEF RequestInv, TrailAt
  <2>2. pc[r] \in Confirmed => ConfirmedLine(r)' = ConfirmedLine(r)
    BY <1>2, <1>4, <2>1 DEF ConfirmedLine, Line
  <2> QED BY <1>1, <2>2 DEF RequestInv, TrailAt
<1>6. (pc[r] = "commit" => CommitTrail(r))'
  <2> SUFFICES ASSUME pc[r] = "commit" PROVE CommitTrail(r)'
    OBVIOUS
  <2>1. CommitTrail(r)
    BY <1>1 DEF RequestInv
  <2>2. write[r] \in {"none", "cancelled", "expired", "executed", "failed"}
    BY <1>1 DEF RequestInv, WriteAt, IInv, TypeOK, Settled
  <2>3. entries[r] # << >>
    BY <2>1, <2>2 DEF CommitTrail
  <2> QED BY <1>2, <1>4, <2>1, <2>3
          DEF CommitTrail, ConfirmedLine, OutcomeLine, Line
<1>7. RowAt(r)'
  <2>1. rowLock[a] # r => write[r] = "none"
    BY <1>1, <1>2 DEF RequestInv, RowAt, ActionOf, TenantOf
  <2>2. status[a] = "absent" => write[r] = "none"
    BY <1>1, <1>2 DEF RequestInv, RowAt, WriteAt, Clean, ActionOf, TenantOf
  <2>3. CASE status'[a] = status[a]
    BY <1>1, <1>2, <2>3 DEF RequestInv, RowAt, ActionOf, TenantOf
  <2>4. CASE status'[a] # status[a]
    <3>1. write[r] = "none"
      BY <1>1, <2>1, <2>2, <2>4
    <3>2. status'[a] # "absent" /\ (status[a] \in Settled => status'[a] \in Settled)
      BY <1>1, <2>4
    <3> QED BY <1>1, <1>2, <3>1, <3>2 DEF RequestInv, RowAt, ActionOf, TenantOf
  <2> QED BY <2>3, <2>4
<1>8. (entries[r] # << >> => chainLock[TenantOf(r)] = r)'
  BY <1>1, <1>2 DEF RequestInv, ActionOf, TenantOf
<1>9. (performed[r] => /\ pc[r] \in {"mark executed", "audit failed",
                                     "audit invoked", "commit"}
                       /\ write[r] \in {"confirmed", "failed", "executed"})'
  BY <1>1 DEF RequestInv
<1> QED BY <1>3, <1>5, <1>6, <1>7, <1>8, <1>9 DEF RequestInv

\* Steps that leave rows, effects and runs in flight alone.
LEMMA ActionsHold ==
    ASSUME IInv, UNCHANGED << proposal, status, effects, lost, performed, job >>
    PROVE  \A a \in Actions : ActionInv(a)'
  BY DEF IInv, ActionInv, ActionOf

LEMMA ChainHolds ==
    ASSUME IInv, UNCHANGED chain PROVE ChainLinked'
  BY DEF IInv, ChainLinked

\* What is known of the action and the tenant of a request.
LEMMA JobType ==
    ASSUME TypeOK, NEW r \in Requests
    PROVE  ActionOf(r) \in Actions /\ TenantOf(r) \in Tenants
  BY DEF TypeOK, Jobs, ActionOf, TenantOf

-----------------------------------------------------------------------------
(* Audit rows. *)

LEMMA LineType ==
    ASSUME TypeOK, NEW r \in Requests, NEW event \in Events, NEW n \in Nat
    PROVE  Line(r, event, n) \in Entries
  BY JobType DEF Line, Entries

LEMMA BaseType ==
    ASSUME TypeOK, NEW r \in Requests
    PROVE  Base(r) \in Nat /\ Len(entries[r]) \in Nat
<1>1. chain[TenantOf(r)] \in Seq(Entries) /\ entries[r] \in Seq(Entries)
  BY JobType DEF TypeOK
<1> QED BY <1>1, LenProperties DEF Base

\* What every audit row does, whichever step writes it.
LEMMA AuditWriteHolds ==
    ASSUME IInv, NEW r \in Requests, NEW event \in Events,
           NEW position \in Positions, AuditWrite(r, event, position)
    PROVE  /\ TypeOK'
           /\ \A q \in Requests \ {r} : RequestInv(q)'
           /\ \A a \in Actions : ActionInv(a)'
           /\ ChainLinked'
           /\ chainLock'[TenantOf(r)] = r
           /\ entries'[r] = Append(entries[r],
                                   Line(r, event, Base(r) + Len(entries[r])))
           /\ pc'[r] = position
<1> DEFINE t == TenantOf(r)
           line == Line(r, event, Base(r) + Len(entries[r]))
<1>1. ActionOf(r) \in Actions /\ t \in Tenants
  BY JobType DEF IInv
<1>2. UNCHANGED << proposal, status, chain, rowLock, job, write, performed,
                   effects, lost >>
  BY DEF AuditWrite, rows, world
<1>3. /\ chainLock[t] \in {NoRequest, r}
      /\ chainLock' = [chainLock EXCEPT ![t] = r]
      /\ pc' = [pc EXCEPT ![r] = position]
      /\ entries' = [entries EXCEPT ![r] = Append(@, line)]
  BY DEF AuditWrite, Goto, Line, Base
<1>4. TypeOK'
  <2>1. line \in Entries
    BY LineType, BaseType DEF IInv
  <2>2. entries[r] \in Seq(Entries)
    BY DEF IInv, TypeOK
  <2>3. Append(entries[r], line) \in Seq(Entries)
    BY <2>1, <2>2, AppendProperties
  <2> HIDE DEF line
  <2>4. entries' \in [Requests -> Seq(Entries)]
    BY <1>3, <2>3 DEF IInv, TypeOK
  <2>5. chainLock' \in [Tenants -> Requests \cup {NoRequest}]
    BY <1>1, <1>3 DEF IInv, TypeOK
  <2>6. pc' \in [Requests -> Positions]
    BY <1>3 DEF IInv, TypeOK
  <2> QED BY <2>4, <2>5, <2>6 DEF IInv, TypeOK, AuditWrite, rows, world
<1> HIDE DEF line
<1>5. \A q \in Requests \ {r} : RequestInv(q)'
  <2>1. \A q \in Requests \ {r} :
           /\ pc'[q] = pc[q] /\ write'[q] = write[q]
           /\ entries'[q] = entries[q] /\ performed'[q] = performed[q]
    BY <1>2, <1>3 DEF IInv, TypeOK
  <2>2. \A q \in Requests \ {r}, u \in Tenants :
           chainLock[u] = q => chainLock'[u] = q /\ chain'[u] = chain[u]
    BY <1>1, <1>2, <1>3, LockAssumption DEF IInv, TypeOK
  <2> QED BY <1>2, <2>1, <2>2, OthersHold
<1>6. \A a \in Actions : ActionInv(a)'
  BY <1>2, ActionsHold
<1>7. ChainLinked'
  BY <1>2, ChainHolds
<1>8. chainLock'[t] = r /\ entries'[r] = Append(entries[r], line) /\ pc'[r] = position
  BY <1>1, <1>3 DEF IInv, TypeOK
<1> QED BY <1>4, <1>5, <1>6, <1>7, <1>8 DEF line

LEMMA ShortSequences ==
    ASSUME NEW x, NEW y
    PROVE  /\ Append(<< >>, x) = << x >>
           /\ Append(<< x >>, y) = << x, y >>
           /\ Len(<< >>) = 0 /\ Len(<< x >>) = 1
           /\ << x >> # << >> /\ << x, y >> # << >>
<1> DEFINE S == {x, y}
<1>1. /\ << >> \in Seq(S) /\ << x >> \in Seq(S) /\ << x, y >> \in Seq(S)
      /\ Len(<< >>) = 0 /\ Len(<< x >>) = 1 /\ Len(<< x, y >>) = 2
  OBVIOUS
<1>2. Append(<< >>, x) = << x >>
  OBVIOUS
<1>3. Append(<< x >>, y) = << x, y >>
  <2> DEFINE s == Append(<< x >>, y)
  <2>1. s \in Seq(S) /\ Len(s) = 2 /\ s[1] = x /\ s[2] = y
    <3>1. y \in S
      OBVIOUS
    <3>2. /\ s \in Seq(S) /\ Len(s) = 1 + 1
          /\ \A i \in 1..1 : s[i] = << x >>[i]
          /\ s[1 + 1] = y
      BY <1>1, <3>1, AppendProperties
    <3> HIDE DEF s
    <3> QED BY <3>2
  <2> HIDE DEF s
  <2>2. \A i \in 1..2 : s[i] = << x, y >>[i]
    BY <2>1
  <2> HIDE DEF S
  <2>3. s = << x, y >>
    BY <1>1, <2>1, <2>2, SeqEqual
  <2> QED BY <2>3 DEF s
<1> QED BY <1>1, <1>2, <1>3

\* The first audit row of a transaction, and the second.
LEMMA FirstRow ==
    ASSUME IInv, NEW r \in Requests, NEW event \in Events,
           NEW position \in Positions, AuditWrite(r, event, position),
           entries[r] = << >>
    PROVE  entries'[r] = << Line(r, event, Base(r)) >>
<1>1. entries'[r] = Append(<< >>, Line(r, event, Base(r) + Len(<< >>)))
  BY AuditWriteHolds
<1>2. Base(r) \in Nat
  BY BaseType DEF IInv
<1>3. Len(<< >>) = 0 /\ Base(r) + 0 = Base(r)
  BY <1>2
<1> QED BY <1>1, <1>3, ShortSequences

LEMMA SecondRow ==
    ASSUME IInv, NEW r \in Requests, NEW event \in Events,
           NEW position \in Positions, AuditWrite(r, event, position),
           entries[r] = << ConfirmedLine(r) >>
    PROVE  entries'[r] = << ConfirmedLine(r), OutcomeLine(r, event) >>
<1>1. entries'[r] = Append(<< ConfirmedLine(r) >>,
                           Line(r, event, Base(r) + Len(<< ConfirmedLine(r) >>)))
  BY AuditWriteHolds
<1>2. Len(<< ConfirmedLine(r) >>) = 1
  BY ShortSequences
<1> QED BY <1>1, <1>2, ShortSequences DEF OutcomeLine

\* The request that writes keeps its row, and the base of its rows.
LEMMA AuditWriteOwn ==
    ASSUME IInv, NEW r \in Requests, NEW event \in Events,
           NEW position \in Positions, AuditWrite(r, event, position)
    PROVE  /\ UNCHANGED << chain, job, write, performed, status, rowLock >>
           /\ chainLock'[TenantOf(r)'] = r
  BY AuditWriteHolds DEF AuditWrite, rows, world, TenantOf

\* The row side of the invariant survives a move to a later position.
LEMMA RowMoves ==
    ASSUME NEW r \in Requests, RowAt(r),
           UNCHANGED << job, write, status, rowLock >>,
           pc[r] \notin {"idle", "lookup", "read", "done"},
           pc'[r] \in {"audit cancelled", "commit"} /\ write[r] = "none" =>
               pc[r] \in {"audit cancelled", "commit"}
    PROVE  RowAt(r)'
  BY DEF RowAt, ActionOf, TenantOf

LEMMA AuditExpiredHolds ==
    ASSUME IInv, NEW r \in Requests, AuditExpired(r) PROVE IInv'
<1> DEFINE event == "action_expired"
           position == AfterRaise(r)
<1>1. pc[r] = "audit expired" /\ AuditWrite(r, event, position)
  BY DEF AuditExpired
<1>2. position \in {"rollback", "commit"} /\ position \in Positions /\ event \in Events
  BY DEF AfterRaise, Positions, Running, Owning, Events
<1> HIDE DEF event, position
<1>3. write[r] = "expired" /\ entries[r] = << >> /\ ~performed[r] /\ RowAt(r)
  BY <1>1 DEF IInv, RequestInv, WriteAt, TrailAt
<1>4. entries'[r] = << Line(r, event, Base(r)) >>
  BY <1>1, <1>2, <1>3, FirstRow
<1>5. pc'[r] = position
  BY <1>1, <1>2, AuditWriteHolds
<1>6. RequestInv(r)'
  <2>1. WriteAt(r)' /\ TrailAt(r)'
    BY <1>1, <1>2, <1>3, <1>4, <1>5, AuditWriteOwn, ShortSequences
       DEF WriteAt, TrailAt, Clean, Confirmed
  <2>2. CommitTrail(r)'
    BY <1>1, <1>2, <1>3, <1>4, AuditWriteOwn
       DEF CommitTrail, event, Line, Base, ActionOf, TenantOf
  <2>3. RowAt(r)'
    BY <1>1, <1>2, <1>3, <1>5, AuditWriteOwn, RowMoves
  <2> QED BY <1>1, <1>2, <1>3, <2>1, <2>2, <2>3, AuditWriteOwn DEF RequestInv
<1> QED BY <1>1, <1>2, <1>6, AuditWriteHolds DEF IInv

LEMMA AuditConfirmedHolds ==
    ASSUME IInv, NEW r \in Requests, AuditConfirmed(r) PROVE IInv'
<1> DEFINE event == "action_confirmed"
           position == "decrypt"
<1>1. pc[r] = "audit confirmed" /\ AuditWrite(r, event, position)
  BY DEF AuditConfirmed
<1>2. position \in Positions /\ event \in Events
  BY DEF Positions, Running, Owning, Events
<1> HIDE DEF event
<1>3. write[r] = "confirmed" /\ entries[r] = << >> /\ ~performed[r] /\ RowAt(r)
  BY <1>1 DEF IInv, RequestInv, WriteAt, TrailAt
<1>4. entries'[r] = << Line(r, event, Base(r)) >>
  BY <1>1, <1>2, <1>3, FirstRow
<1>5. pc'[r] = position
  BY <1>1, <1>2, AuditWriteHolds
<1>6. RequestInv(r)'
  <2>1. WriteAt(r)'
    BY <1>1, <1>2, <1>3, <1>5, AuditWriteOwn DEF WriteAt, Clean
  <2>2. TrailAt(r)'
    BY <1>1, <1>2, <1>4, <1>5, AuditWriteOwn
       DEF TrailAt, Clean, Confirmed, ConfirmedLine, event, Line, Base,
           ActionOf, TenantOf
  <2>3. RowAt(r)'
    BY <1>1, <1>2, <1>3, <1>5, AuditWriteOwn, RowMoves
  <2> QED BY <1>1, <1>2, <1>3, <1>5, <2>1, <2>2, <2>3, AuditWriteOwn
          DEF RequestInv
<1> QED BY <1>1, <1>2, <1>6, AuditWriteHolds DEF IInv

LEMMA AuditCancelledHolds ==
    ASSUME IInv, NEW r \in Requests, AuditCancelled(r) PROVE IInv'
<1> DEFINE event == "action_cancelled"
           position == "commit"
<1>1. pc[r] = "audit cancelled" /\ AuditWrite(r, event, position)
  BY DEF AuditCancelled
<1>2. position \in Positions /\ event \in Events
  BY DEF Positions, Running, Owning, Events
<1> HIDE DEF event
<1>3. /\ write[r] \in {"none", "cancelled"}
      /\ entries[r] = << >> /\ ~performed[r] /\ RowAt(r)
  BY <1>1 DEF IInv, RequestInv, WriteAt, TrailAt
<1>4. entries'[r] = << Line(r, event, Base(r)) >>
  BY <1>1, <1>2, <1>3, FirstRow
<1>5. pc'[r] = position
  BY <1>1, <1>2, AuditWriteHolds
<1>6. RequestInv(r)'
  <2>1. WriteAt(r)' /\ TrailAt(r)'
    BY <1>1, <1>2, <1>3, <1>5, AuditWriteOwn
       DEF WriteAt, TrailAt, Clean, Confirmed
  <2>2. CommitTrail(r)'
    BY <1>1, <1>2, <1>3, <1>4, AuditWriteOwn
       DEF CommitTrail, event, Line, Base, ActionOf, TenantOf
  <2>3. RowAt(r)'
    BY <1>1, <1>2, <1>3, <1>5, AuditWriteOwn, RowMoves
  <2> QED BY <1>1, <1>2, <1>3, <2>1, <2>2, <2>3, AuditWriteOwn DEF RequestInv
<1> QED BY <1>1, <1>2, <1>6, AuditWriteHolds DEF IInv

\* The rows that record an outcome.
LEMMA OutcomeHolds ==
    ASSUME IInv, NEW r \in Requests, NEW event \in Events,
           NEW position \in Positions,
           position \in {"rollback", "commit"},
           AuditWrite(r, event, position),
           \/ /\ pc[r] = "audit invoked"
              /\ event = "capability_invoked" /\ position = "commit"
           \/ /\ pc[r] \in {"audit failed", "audit raised"}
              /\ pc[r] = "audit failed" => position = "commit"
              /\ event = "capability_failed"
           \/ /\ pc[r] = "audit duplicate"
              /\ event = "capability_duplicate_replay" /\ position = "commit"
    PROVE  IInv'
<1>2. RequestInv(r) /\ WriteAt(r) /\ TrailAt(r) /\ RowAt(r)
  BY DEF IInv, RequestInv
<1>3. /\ entries[r] = << ConfirmedLine(r) >>
      /\ write[r] \in {"failed", "executed"}
      /\ write[r] = "executed" <=> event = "capability_invoked"
      /\ write[r] = "failed" <=>
            event \in {"capability_failed", "capability_duplicate_replay"}
  BY <1>2 DEF WriteAt, TrailAt, Confirmed
<1>4. entries'[r] = << ConfirmedLine(r), OutcomeLine(r, event) >>
  BY <1>3, SecondRow
<1>5. pc'[r] = position
  BY DEF AuditWrite, Goto, IInv, TypeOK
<1>6. UNCHANGED << chain, job, write, performed, status, rowLock >>
      /\ chainLock'[TenantOf(r)'] = r
  BY AuditWriteOwn
<1>7. WriteAt(r)' /\ TrailAt(r)'
  BY <1>2, <1>3, <1>4, <1>5, <1>6, ShortSequences
     DEF WriteAt, TrailAt, Clean, Confirmed
<1>8. CommitTrail(r)'
  <2>1. entries'[r] = << ConfirmedLine(r)', OutcomeLine(r, event)' >>
    BY <1>4, <1>6
       DEF ConfirmedLine, OutcomeLine, Line, Base, ActionOf, TenantOf
  <2>2. write'[r] = write[r]
    BY <1>6
  <2> QED BY <1>3, <2>1, <2>2 DEF CommitTrail
<1>9. RowAt(r)'
  BY <1>2, <1>3, <1>5, <1>6, RowMoves
<1>10. performed[r] => pc[r] \in {"audit failed", "audit invoked"}
  BY <1>2 DEF RequestInv
<1>11. (performed[r] => /\ pc[r] \in {"mark executed", "audit failed",
                                      "audit invoked", "commit"}
                        /\ write[r] \in {"confirmed", "failed", "executed"})'
  BY <1>3, <1>5, <1>6, <1>10
<1>12. RequestInv(r)'
  BY <1>6, <1>7, <1>8, <1>9, <1>11 DEF RequestInv
<1> QED BY <1>12, AuditWriteHolds DEF IInv

\* Every step that writes an audit row.
LEMMA AuditHolds ==
    ASSUME IInv, NEW r \in Requests,
           \/ AuditExpired(r) \/ AuditConfirmed(r) \/ AuditCancelled(r)
           \/ AuditRaised(r) \/ AuditFailed(r) \/ AuditDuplicate(r)
           \/ AuditInvoked(r)
    PROVE  IInv'
<1>1. CASE AuditRaised(r)
  BY <1>1, OutcomeHolds
     DEF AuditRaised, AfterRaise, Events, Positions, Running, Owning
<1>2. CASE AuditFailed(r)
  BY <1>2, OutcomeHolds
     DEF AuditFailed, Events, Positions, Running, Owning
<1>3. CASE AuditDuplicate(r)
  BY <1>3, OutcomeHolds
     DEF AuditDuplicate, Events, Positions, Running, Owning
<1>4. CASE AuditInvoked(r)
  BY <1>4, OutcomeHolds
     DEF AuditInvoked, Events, Positions, Running, Owning
<1> QED BY <1>1, <1>2, <1>3, <1>4, AuditExpiredHolds, AuditConfirmedHolds,
           AuditCancelledHolds

-----------------------------------------------------------------------------
(* The chat turn, the sweep and the clock. *)

\* Steps that touch no request: what is left to show is about the rows.
LEMMA EnvironmentHolds ==
    ASSUME IInv, TypeOK',
           UNCHANGED << chain, locks, job, pc, write, entries, performed,
                        effects, lost >>,
           \A a \in Actions :
               \/ status'[a] = status[a]
               \/ /\ rowLock[a] = NoRequest \/ status[a] = "absent"
                  /\ status'[a] # "absent"
                  /\ status[a] \in Settled => status'[a] \in Settled,
           \A a \in Actions :
               /\ status'[a] # "confirmed"
               /\ status'[a] # "absent" => proposal'[a] = "stored"
               /\ status'[a] \in {"absent", "pending"} =>
                     status[a] \in {"absent", "pending"}
    PROVE  IInv'
<1>1. \A r \in Requests : RequestInv(r)'
  <2>1. \A r \in Requests \ {} : RequestInv(r)'
    BY LockAssumption, OthersHold DEF locks
  <2> QED BY <2>1
<1>2. \A a \in Actions : ActionInv(a)'
  BY DEF IInv, ActionInv, ActionOf
<1>3. ChainLinked'
  BY ChainHolds
<1> QED BY <1>1, <1>2, <1>3 DEF IInv

LEMMA ProposalHolds ==
    ASSUME IInv, NEW a \in Actions,
           Propose(a) \/ CommitProposal(a) \/ DropProposal(a)
    PROVE  IInv'
<1>1. CASE Propose(a)
  <2>1. TypeOK'
    BY <1>1, BoundAssumption DEF IInv, TypeOK, Propose, locks, world
  <2> QED BY <1>1, <2>1, EnvironmentHolds DEF IInv, ActionInv, TypeOK, Propose, locks, world
<1>2. CASE CommitProposal(a)
  <2>1. TypeOK'
    BY <1>2 DEF IInv, TypeOK, CommitProposal, locks, world, Statuses
  <2>2. status[a] = "absent"
    BY <1>2 DEF IInv, ActionInv, CommitProposal
  <2> QED BY <1>2, <2>1, <2>2, EnvironmentHolds
          DEF IInv, ActionInv, TypeOK, CommitProposal, world, Settled
<1>3. CASE DropProposal(a)
  <2>1. TypeOK'
    BY <1>3 DEF IInv, TypeOK, DropProposal, locks, world
  <2> QED BY <1>3, <2>1, EnvironmentHolds
          DEF IInv, ActionInv, TypeOK, DropProposal, world
<1> QED BY <1>1, <1>2, <1>3

LEMMA SweepHolds ==
    ASSUME IInv, SweepExpired PROVE IInv'
<1> DEFINE stale == {a \in Actions : status[a] = "pending" /\ expires[a] < now}
<1>1. /\ \A a \in stale : rowLock[a] = NoRequest
      /\ status' = [a \in Actions |->
                       IF a \in stale THEN "expired" ELSE status[a]]
      /\ UNCHANGED << proposal, expires, chain, locks, job, pc, write,
                      entries, performed, reply, world >>
  BY DEF SweepExpired
<1>2. TypeOK'
  BY <1>1 DEF IInv, TypeOK, locks, world, Statuses, Settled
<1>3. \A a \in stale : status[a] = "pending" /\ a \in Actions
  OBVIOUS
<1> HIDE DEF stale
<1> QED BY <1>1, <1>2, <1>3, EnvironmentHolds DEF IInv, ActionInv, world, Settled

LEMMA TickHolds ==
    ASSUME IInv, Tick PROVE IInv'
<1>1. TypeOK'
  BY DEF IInv, TypeOK, Tick, rows, locks
<1> QED BY <1>1, EnvironmentHolds DEF IInv, ActionInv, Tick, rows

LEMMA StutterHolds ==
    ASSUME IInv, UNCHANGED vars PROVE IInv'
<1>1. TypeOK'
  BY DEF IInv, TypeOK, vars
<1> QED BY <1>1, EnvironmentHolds DEF IInv, ActionInv, vars, locks

-----------------------------------------------------------------------------
(* Steps of a request inside its transaction, apart from its audit rows. *)

\* A request that only moves, or decides what it will write.
LEMMA QuietHolds ==
    ASSUME IInv, TypeOK', NEW r \in Requests,
           UNCHANGED << proposal, status, chain, locks, job, entries, performed,
                        effects, lost >>,
           \A q \in Requests \ {r} : pc'[q] = pc[q] /\ write'[q] = write[q],
           WriteAt(r)', TrailAt(r)', RowAt(r)',
           pc'[r] = "commit" => UNCHANGED << pc, write >>,
           performed[r] => /\ pc'[r] \in {"mark executed", "audit failed",
                                          "audit invoked", "commit"}
                           /\ write'[r] \in {"confirmed", "failed", "executed"}
    PROVE  IInv'
<1>1. \A q \in Requests \ {r} : RequestInv(q)'
  BY OthersHold DEF locks
<1>2. RequestInv(r)'
  <2>1. (pc[r] = "commit" => CommitTrail(r))'
    BY DEF IInv, RequestInv, CommitTrail, ConfirmedLine, OutcomeLine, Line,
           Base, ActionOf, TenantOf
  <2>2. (entries[r] # << >> => chainLock[TenantOf(r)] = r)'
    BY DEF IInv, RequestInv, locks, TenantOf
  <2> QED BY <2>1, <2>2 DEF RequestInv
<1>3. \A a \in Actions : ActionInv(a)'
  BY ActionsHold
<1>4. ChainLinked'
  BY ChainHolds
<1> QED BY <1>1, <1>2, <1>3, <1>4 DEF IInv

\* A request comes in.
LEMMA ReceiveHolds ==
    ASSUME IInv, NEW r \in Requests, Receive(r) PROVE IInv'
<1> DEFINE position == IF job[r].op = "confirm" THEN "lookup" ELSE "read"
<1>1. /\ pc[r] = "idle" /\ pc' = [pc EXCEPT ![r] = position]
      /\ UNCHANGED << rows, chain, locks, job, write, entries, performed, reply,
                      world >>
  BY DEF Receive, Goto
<1>2. position \in {"lookup", "read"}
  OBVIOUS
<1> HIDE DEF position
<1>3. TypeOK'
  BY <1>1, <1>2 DEF IInv, TypeOK, rows, locks, world, Positions, Running
<1>4. WriteAt(r)' /\ TrailAt(r)' /\ RowAt(r)'
  BY <1>1, <1>2 DEF IInv, TypeOK, RequestInv, WriteAt, TrailAt, RowAt, Clean,
                    Confirmed, ActionOf, TenantOf, rows, locks
<1>5. ~performed[r]
  BY <1>1 DEF IInv, RequestInv
<1> QED BY <1>1, <1>2, <1>3, <1>4, <1>5, QuietHolds DEF IInv, TypeOK, rows, world

\* A refused request writes nothing.
LEMMA RejectHolds ==
    ASSUME IInv, NEW r \in Requests, ConfirmReject(r) \/ CancelReject(r)
    PROVE  IInv'
<1>1. /\ pc[r] \in {"lookup", "read"}
      /\ pc' = [pc EXCEPT ![r] = "done"]
      /\ reply' = [reply EXCEPT ![r] = "invalid"]
      /\ UNCHANGED << rows, chain, locks, job, write, entries, performed, world >>
  BY DEF ConfirmReject, CancelReject, Locked, Reject, Goto
<1>2. TypeOK'
  BY <1>1 DEF IInv, TypeOK, rows, locks, world, Positions, Answers
<1>3. WriteAt(r)' /\ TrailAt(r)' /\ RowAt(r)'
  BY <1>1 DEF IInv, TypeOK, RequestInv, WriteAt, TrailAt, RowAt, Clean,
              Confirmed, ActionOf, TenantOf, rows, locks
<1>4. ~performed[r]
  BY <1>1 DEF IInv, RequestInv
<1> QED BY <1>1, <1>2, <1>3, <1>4, QuietHolds DEF IInv, TypeOK, rows, world

LEMMA CancelReadHolds ==
    ASSUME IInv, NEW r \in Requests, CancelRead(r) PROVE IInv'
<1> DEFINE open == status[ActionOf(r)] \in {"pending", "confirmed"}
           position == IF open THEN "write cancelled" ELSE "audit cancelled"
<1>1. /\ pc[r] = "read" /\ Owned(r)
      /\ pc' = [pc EXCEPT ![r] = position]
      /\ UNCHANGED << rows, chain, locks, job, write, entries, performed, reply,
                      world >>
  BY DEF CancelRead, Goto
<1>2. /\ position \in {"write cancelled", "audit cancelled"}
      /\ position = "audit cancelled" => ~open
  OBVIOUS
<1> HIDE DEF position
<1>3. TypeOK'
  BY <1>1, <1>2 DEF IInv, TypeOK, rows, locks, world, Positions, Running, Owning
<1>4. ~open => status[ActionOf(r)] \in Settled
  BY <1>1, JobType DEF IInv, TypeOK, Owned, Statuses
<1> HIDE DEF open
<1>5. WriteAt(r)' /\ TrailAt(r)'
  BY <1>1, <1>2 DEF IInv, TypeOK, RequestInv, WriteAt, TrailAt, Clean, Confirmed
<1>6. RowAt(r)'
  BY <1>1, <1>2, <1>4 DEF IInv, TypeOK, RequestInv, WriteAt, RowAt, Clean, Owned,
                          ActionOf, TenantOf, rows, locks
<1>7. ~performed[r]
  BY <1>1 DEF IInv, RequestInv
<1> QED BY <1>1, <1>2, <1>3, <1>5, <1>6, <1>7, QuietHolds
        DEF IInv, TypeOK, rows, world

\* A confirmed request that moves on, or gives up before the provider call.
LEMMA PhaseBHolds ==
    ASSUME IInv, NEW r \in Requests,
           \/ Decrypt(r) \/ DecryptFails(r) \/ FindDuplicate(r)
           \/ DispatchUnknown(r) \/ MarkExecuted(r)
    PROVE  IInv'
<1>1. PICK position \in Positions, value \in {"confirmed", "failed", "executed"} :
         /\ pc' = [pc EXCEPT ![r] = position]
         /\ write' = [write EXCEPT ![r] = value]
         /\ UNCHANGED << rows, chain, locks, job, entries, performed, reply,
                         world >>
         /\ pc[r] \in {"decrypt", "find duplicate", "dispatch", "mark executed"}
         /\ \/ /\ position \in {"find duplicate", "dispatch"}
               /\ value = "confirmed" /\ pc[r] \in {"decrypt", "find duplicate"}
            \/ /\ position \in {"audit raised", "audit duplicate"}
               /\ value = "failed"
               /\ pc[r] \in {"decrypt", "find duplicate", "dispatch"}
            \/ /\ position = "audit invoked" /\ value = "executed"
               /\ pc[r] = "mark executed"
  <2>1. \/ write[r] = "confirmed" /\ write = [write EXCEPT ![r] = write[r]]
        \/ pc[r] \notin {"decrypt", "find duplicate"}
    BY DEF IInv, TypeOK, RequestInv, WriteAt
  <2>2. CASE Decrypt(r)
    BY <2>1, <2>2 DEF Decrypt, Goto, Positions, Running, Owning
  <2>3. CASE DecryptFails(r)
    BY <2>3 DEF DecryptFails, MarkFailed, Goto, Buffer, Positions, Running, Owning
  <2>4. CASE FindDuplicate(r)
    BY <2>1, <2>4 DEF FindDuplicate, MarkFailed, Goto, Buffer, Positions, Running,
                      Owning
  <2>5. CASE DispatchUnknown(r)
    BY <2>5 DEF DispatchUnknown, MarkFailed, Goto, Buffer, Positions, Running,
                Owning
  <2>6. CASE MarkExecuted(r)
    BY <2>6 DEF MarkExecuted, Goto, Buffer, Positions, Running, Owning
  <2> QED BY <2>2, <2>3, <2>4, <2>5, <2>6
<1>2. TypeOK'
  BY <1>1 DEF IInv, TypeOK, rows, locks, world, Settled
<1>3. write[r] = "confirmed" /\ RowAt(r) /\ entries[r] = << ConfirmedLine(r) >>
  BY <1>1 DEF IInv, RequestInv, WriteAt, TrailAt, Confirmed
<1>4. pc'[r] = position /\ write'[r] = value
  BY <1>1 DEF IInv, TypeOK
<1>5. WriteAt(r)'
  BY <1>1, <1>4 DEF WriteAt, Clean
<1>6. TrailAt(r)'
  BY <1>1, <1>3, <1>4 DEF TrailAt, Clean, Confirmed, ConfirmedLine, Line, Base,
                          ActionOf, TenantOf
<1>7. RowAt(r)'
  BY <1>1, <1>3, <1>4 DEF RowAt, ActionOf, TenantOf, rows, locks
<1>8. performed[r] => pc[r] = "mark executed"
  BY <1>1 DEF IInv, RequestInv
<1> QED BY <1>1, <1>2, <1>4, <1>5, <1>6, <1>7, <1>8, QuietHolds
        DEF IInv, TypeOK, rows, world

\* The last audit row of a request names the event it answers with.
LEMMA AnswerType ==
    ASSUME IInv, NEW r \in Requests, entries[r] # << >>
    PROVE  Answer(r) \in Answers
<1> DEFINE n == Len(entries[r])
<1>1. entries[r] \in Seq(Entries)
  BY DEF IInv, TypeOK
<1>2. n \in 1..n /\ entries[r][n] \in Entries
  BY <1>1, EmptySeq, LenProperties, ElementOfSeq
<1> QED BY <1>2 DEF Answer, Answers, Entries

LEMMA CommitEntries ==
    ASSUME IInv, NEW r \in Requests, pc[r] = "commit"
    PROVE  entries[r] # << >> /\ CommitTrail(r) /\ RowAt(r)
<1>1. CommitTrail(r) /\ RowAt(r)
  BY DEF IInv, RequestInv
<1>2. write[r] \in {"none", "cancelled", "expired", "executed", "failed"}
  BY DEF IInv, TypeOK, RequestInv, WriteAt, Settled
<1> QED BY <1>1, <1>2, ShortSequences DEF CommitTrail

LEMMA AnswerFirstHolds ==
    ASSUME IInv, NEW r \in Requests, AnswerFirst(r) PROVE IInv'
<1>1. /\ reply' = [reply EXCEPT ![r] = Answer(r)]
      /\ UNCHANGED << rows, chain, locks, job, pc, write, entries, performed,
                      world >>
  BY DEF AnswerFirst
<1>2. Answer(r) \in Answers
  BY AnswerType, CommitEntries DEF AnswerFirst
<1>3. TypeOK'
  BY <1>1, <1>2 DEF IInv, TypeOK, rows, locks, world
<1> QED BY <1>1, <1>3, EnvironmentHolds DEF IInv, ActionInv, rows, world

\* A request that takes the free row lock and buffers its first write.
LEMMA LockingHolds ==
    ASSUME IInv, NEW r \in Requests, NEW position \in Positions,
           NEW value \in {"expired", "confirmed", "cancelled"},
           pc[r] \in {"lookup", "write cancelled"},
           rowLock[ActionOf(r)] = NoRequest,
           rowLock' = [rowLock EXCEPT ![ActionOf(r)] = r],
           write' = [write EXCEPT ![r] = value],
           pc' = [pc EXCEPT ![r] = position],
           UNCHANGED << rows, chain, chainLock, job, entries, performed, reply,
                        world >>,
           OwnerOf[ActionOf(r)] = TenantOf(r), status[ActionOf(r)] # "absent",
           value # "cancelled" => status[ActionOf(r)] = "pending",
           \/ value = "expired" /\ position = "audit expired"
           \/ value = "confirmed" /\ position = "audit confirmed"
           \/ value = "cancelled" /\ position = "audit cancelled"
    PROVE  IInv'
<1> DEFINE a == ActionOf(r)
<1>1. a \in Actions /\ ActionOf(r)' = a /\ TenantOf(r)' = TenantOf(r)
  BY JobType DEF IInv, ActionOf, TenantOf
<1>2. TypeOK'
  BY <1>1 DEF IInv, TypeOK, rows, world, Settled
<1>3. pc'[r] = position /\ write'[r] = value /\ rowLock'[a] = r
  BY <1>1 DEF IInv, TypeOK
<1>4. \A q \in Requests \ {r} : RequestInv(q)'
  <2>1. \A q \in Requests \ {r}, b \in Actions : rowLock[b] = q => rowLock'[b] = q
    BY <1>1, LockAssumption DEF IInv, TypeOK
  <2>2. \A q \in Requests \ {r} : /\ pc'[q] = pc[q] /\ write'[q] = write[q]
    BY DEF IInv, TypeOK
  <2> QED BY <2>1, <2>2, OthersHold DEF rows
<1>5. entries[r] = << >> /\ ~performed[r]
  BY DEF IInv, RequestInv, TrailAt, Clean
<1>6. RequestInv(r)'
  <2>1. WriteAt(r)' /\ TrailAt(r)'
    BY <1>3, <1>5 DEF WriteAt, TrailAt, Clean, Confirmed
  <2>2. RowAt(r)'
    BY <1>1, <1>3 DEF RowAt, rows
  <2> QED BY <1>3, <1>5, <2>1, <2>2 DEF RequestInv
<1>7. \A b \in Actions : ActionInv(b)'
  BY ActionsHold DEF rows, world
<1>8. ChainLinked'
  BY ChainHolds
<1> QED BY <1>2, <1>4, <1>6, <1>7, <1>8 DEF IInv

LEMMA TakeRowHolds ==
    ASSUME IInv, NEW r \in Requests,
           ConfirmLate(r) \/ Confirm(r) \/ CancelWrite(r)
    PROVE  IInv'
<1>1. CASE ConfirmLate(r)
  BY <1>1, LockingHolds DEF ConfirmLate, TakeRow, Locked, Owned, Buffer, Goto,
                            Positions, Running, Owning
<1>2. CASE Confirm(r)
  BY <1>2, LockingHolds DEF Confirm, TakeRow, Locked, Owned, Buffer, Goto,
                            Positions, Running, Owning
<1>3. CASE CancelWrite(r)
  <2>1. OwnerOf[ActionOf(r)] = TenantOf(r) /\ status[ActionOf(r)] # "absent"
    BY <1>3 DEF CancelWrite, IInv, RequestInv, RowAt
  <2> QED BY <1>3, <2>1, LockingHolds DEF CancelWrite, Buffer, Goto, Positions,
                                          Running, Owning
<1> QED BY <1>1, <1>2, <1>3

-----------------------------------------------------------------------------
(* The provider call. *)

\* Whoever ran an action and has not ended holds its row, so no one else can.
LEMMA NobodyElseRan ==
    ASSUME IInv, NEW r \in Requests, pc[r] = "dispatch"
    PROVE  /\ status[ActionOf(r)] = "pending" /\ write[r] = "confirmed"
           /\ effects[ActionOf(r)] <= lost[ActionOf(r)]
<1>1. RequestInv(r) /\ ActionOf(r) \in Actions
  BY JobType DEF IInv
<1>2. /\ write[r] = "confirmed" /\ rowLock[ActionOf(r)] = r
      /\ status[ActionOf(r)] = "pending" /\ ~performed[r]
  BY <1>1 DEF RequestInv, WriteAt, RowAt
<1>3. \A q \in Requests : performed[q] => rowLock[ActionOf(q)] = q
  BY DEF IInv, RequestInv, RowAt
<1> QED BY <1>1, <1>2, <1>3 DEF IInv, ActionInv

LEMMA DispatchHolds ==
    ASSUME IInv, NEW r \in Requests, DispatchRaises(r) \/ DispatchReturns(r)
    PROVE  IInv'
<1> DEFINE a == ActionOf(r)
<1>1. PICK did \in BOOLEAN : Perform(r, did)
  BY DEF DispatchRaises, DispatchReturns
<1>2. PICK position \in Positions, value \in {"confirmed", "failed"} :
         /\ pc' = [pc EXCEPT ![r] = position]
         /\ write' = [write EXCEPT ![r] = value]
         /\ UNCHANGED << rows, chain, locks, job, entries, reply >>
         /\ \/ position = "audit failed" /\ value = "failed"
            \/ position = "mark executed" /\ value = "confirmed"
  <2>1. CASE DispatchRaises(r)
    BY <2>1 DEF DispatchRaises, MarkFailed, Buffer, Goto, Positions, Running,
                Owning
  <2>2. CASE DispatchReturns(r)
    <3>1. write = [write EXCEPT ![r] = "confirmed"]
      BY <2>2, NobodyElseRan DEF DispatchReturns, IInv, TypeOK
    <3> QED BY <2>2, <3>1 DEF DispatchReturns, Goto, Positions, Running, Owning
  <2> QED BY <2>1, <2>2
<1>3. pc[r] = "dispatch"
  BY DEF DispatchRaises, DispatchReturns
<1>4. /\ a \in Actions /\ ActionOf(r)' = a /\ TenantOf(r)' = TenantOf(r)
      /\ \A q \in Requests : ActionOf(q)' = ActionOf(q)
  BY <1>2, JobType DEF IInv, ActionOf, TenantOf
<1>5. /\ performed' = [performed EXCEPT ![r] = did]
      /\ effects' = IF did THEN [effects EXCEPT ![a] = @ + 1] ELSE effects
      /\ UNCHANGED << lost, now, faults >>
  BY <1>1 DEF Perform
<1>6. TypeOK'
  <2>1. effects' \in [Actions -> Nat]
    BY <1>4, <1>5 DEF IInv, TypeOK
  <2>2. performed' \in [Requests -> BOOLEAN]
    BY <1>5 DEF IInv, TypeOK
  <2> QED BY <1>2, <1>5, <2>1, <2>2 DEF IInv, TypeOK, rows, locks, Settled
<1>7. pc'[r] = position /\ write'[r] = value /\ performed'[r] = did
  BY <1>2, <1>5 DEF IInv, TypeOK
<1>8. \A q \in Requests \ {r} : /\ pc'[q] = pc[q] /\ write'[q] = write[q]
                               /\ performed'[q] = performed[q]
  BY <1>2, <1>5 DEF IInv, TypeOK
<1>9. \A q \in Requests \ {r} : RequestInv(q)'
  BY <1>2, <1>8, OthersHold DEF rows, locks
<1>10. RequestInv(r)'
  <2>1. WriteAt(r)'
    BY <1>2, <1>7 DEF WriteAt, Clean
  <2>2. TrailAt(r)'
    BY <1>2, <1>3, <1>7
       DEF IInv, RequestInv, TrailAt, Clean, Confirmed, ConfirmedLine, Line,
           Base, ActionOf, TenantOf
  <2>3. RowAt(r)'
    BY <1>2, <1>3, <1>4, <1>7, NobodyElseRan
       DEF IInv, RequestInv, RowAt, rows, locks
  <2>4. (entries[r] # << >> => chainLock[TenantOf(r)] = r)'
    BY <1>2, <1>4 DEF IInv, RequestInv, locks
  <2> QED BY <1>2, <1>7, <2>1, <2>2, <2>3, <2>4 DEF RequestInv
<1>11. \A b \in Actions : ActionInv(b)'
  <2> SUFFICES ASSUME NEW b \in Actions PROVE ActionInv(b)'
    OBVIOUS
  <2>1. CASE b = a
    <3>1. effects[a] \in Nat /\ lost[a] \in Nat /\ lost'[a] = lost[a]
      BY <1>4, <1>5 DEF IInv, TypeOK
    <3>2. effects'[a] = IF did THEN effects[a] + 1 ELSE effects[a]
      BY <1>4, <1>5 DEF IInv, TypeOK
    <3>3. effects[a] <= lost[a]
      BY <1>3, NobodyElseRan
    <3>4. effects'[a] <= 1 + lost'[a] /\ (did \/ effects'[a] <= lost'[a])
      BY <3>1, <3>2, <3>3
    <3>5. status'[a] # "confirmed" /\ (status'[a] # "absent" => proposal'[a] = "stored")
      BY <1>2, <1>4 DEF IInv, ActionInv, rows
    <3> QED BY <1>4, <1>7, <2>1, <3>4, <3>5 DEF ActionInv
  <2>2. CASE b # a
    <3>1. effects'[b] = effects[b] /\ lost'[b] = lost[b]
      BY <1>4, <1>5, <2>2 DEF IInv, TypeOK
    <3>2. \A q \in Requests : ActionOf(q) = b /\ performed[q] =>
             ActionOf(q)' = b /\ performed'[q]
      BY <1>4, <1>8, <2>2
    <3>3. ActionInv(b)
      BY DEF IInv
    <3> QED BY <1>2, <3>1, <3>2, <3>3 DEF ActionInv, rows
  <2> QED BY <2>1, <2>2
<1>12. ChainLinked'
  BY <1>2, ChainHolds
<1> QED BY <1>6, <1>9, <1>10, <1>11, <1>12 DEF IInv

-----------------------------------------------------------------------------
(* The end of the transaction. *)

\* What Release leaves behind is the clean state of a request that is done.
LEMMA Released ==
    ASSUME IInv, NEW r \in Requests, Release(r), UNCHANGED job
    PROVE  /\ RequestInv(r)'
           /\ \A q \in Requests \ {r} :
                 /\ pc'[q] = pc[q] /\ write'[q] = write[q]
                 /\ entries'[q] = entries[q] /\ performed'[q] = performed[q]
           /\ \A q \in Requests \ {r}, a \in Actions :
                 rowLock[a] = q => rowLock'[a] = q
           /\ \A q \in Requests \ {r}, t \in Tenants :
                 chainLock[t] = q => chainLock'[t] = q
           /\ ~performed'[r]
<1>1. /\ pc'[r] = "done" /\ write'[r] = "none" /\ entries'[r] = << >>
      /\ performed'[r] = FALSE
  BY DEF IInv, TypeOK, Release, Goto
<1>2. RequestInv(r)'
  BY <1>1 DEF RequestInv, WriteAt, TrailAt, RowAt, Clean, Confirmed
<1>3. \A q \in Requests \ {r} :
         /\ pc'[q] = pc[q] /\ write'[q] = write[q]
         /\ entries'[q] = entries[q] /\ performed'[q] = performed[q]
  BY DEF IInv, TypeOK, Release, Goto
<1>4. /\ \A q \in Requests \ {r}, a \in Actions :
            rowLock[a] = q => rowLock'[a] = q
      /\ \A q \in Requests \ {r}, t \in Tenants :
            chainLock[t] = q => chainLock'[t] = q
  BY DEF Release
<1> QED BY <1>1, <1>2, <1>3, <1>4

LEMMA ReleaseType ==
    ASSUME IInv, NEW r \in Requests, Release(r)
    PROVE  /\ rowLock' \in [Actions -> Requests \cup {NoRequest}]
           /\ chainLock' \in [Tenants -> Requests \cup {NoRequest}]
           /\ pc' \in [Requests -> Positions]
           /\ write' \in [Requests -> {"none", "confirmed"} \cup Settled]
           /\ entries' \in [Requests -> Seq(Entries)]
           /\ performed' \in [Requests -> BOOLEAN]
<1>1. << >> \in Seq(Entries)
  OBVIOUS
<1> QED BY <1>1 DEF IInv, TypeOK, Release, Goto, Positions

\* A rollback forgets the run, if there was one, and says so in lost.
LEMMA UndoHolds ==
    ASSUME IInv, NEW r \in Requests, NEW answer \in Answers, Undo(r, answer),
           faults' \in Nat
    PROVE  IInv'
<1> DEFINE a == ActionOf(r)
<1>1. /\ reply' = [reply EXCEPT ![r] = IF @ = "none" THEN answer ELSE @]
      /\ lost' = IF performed[r] THEN [lost EXCEPT ![a] = @ + 1] ELSE lost
      /\ Release(r)
      /\ UNCHANGED << proposal, status, expires, chain, job, effects, now >>
  BY DEF Undo, rows
<1>2. a \in Actions
  BY JobType DEF IInv
<1>3. TypeOK'
  <2>1. lost' \in [Actions -> Nat]
    BY <1>1, <1>2 DEF IInv, TypeOK
  <2>2. reply' \in [Requests -> Answers]
    BY <1>1 DEF IInv, TypeOK
  <2> QED BY <1>1, <2>1, <2>2, ReleaseType DEF IInv, TypeOK
<1>4. \A q \in Requests \ {r} : RequestInv(q)'
  <2>1. /\ \A q \in Requests \ {r} :
              /\ pc'[q] = pc[q] /\ write'[q] = write[q]
              /\ entries'[q] = entries[q] /\ performed'[q] = performed[q]
        /\ \A q \in Requests \ {r}, b \in Actions :
              rowLock[b] = q => rowLock'[b] = q
        /\ \A q \in Requests \ {r}, t \in Tenants :
              chainLock[t] = q => chainLock'[t] = q
    BY <1>1, Released
  <2> QED BY <1>1, <2>1, OthersHold
<1>5. \A b \in Actions : ActionInv(b)'
  <2> SUFFICES ASSUME NEW b \in Actions PROVE ActionInv(b)'
    OBVIOUS
  <2>1. /\ effects'[b] = effects[b] /\ effects[b] \in Nat /\ lost[b] \in Nat
        /\ status'[b] = status[b] /\ proposal'[b] = proposal[b]
    BY <1>1 DEF IInv, TypeOK
  <2>2. lost'[b] = IF performed[r] /\ b = a THEN lost[b] + 1 ELSE lost[b]
    BY <1>1, <1>2 DEF IInv, TypeOK
  <2>3. \A q \in Requests \ {r} : ActionOf(q)' = ActionOf(q)
                                /\ performed'[q] = performed[q]
    BY <1>1, Released DEF ActionOf
  <2>4. ActionInv(b)
    BY DEF IInv
  <2>5. CASE performed[r] /\ b = a
    BY <2>1, <2>2, <2>4, <2>5 DEF ActionInv
  <2>6. CASE ~(performed[r] /\ b = a)
    <3>1. \A q \in Requests : ActionOf(q) = b /\ performed[q] =>
             ActionOf(q)' = b /\ performed'[q]
      BY <2>3, <2>6
    <3> QED BY <2>1, <2>2, <2>4, <2>6, <3>1 DEF ActionInv
  <2> QED BY <2>5, <2>6
<1>6. ChainLinked'
  BY <1>1, ChainHolds
<1> QED BY <1>1, <1>3, <1>4, <1>5, <1>6, Released DEF IInv

LEMMA RollbackHolds ==
    ASSUME IInv, NEW r \in Requests, Rollback(r) \/ MarkConflict(r) \/ Fault(r)
    PROVE  IInv'
<1>1. CASE Rollback(r)
  <2>1. entries[r] # << >>
    BY <1>1 DEF Rollback, IInv, RequestInv, TrailAt
  <2> QED BY <1>1, <2>1, AnswerType, UndoHolds DEF Rollback, IInv, TypeOK
<1>2. CASE MarkConflict(r)
  BY <1>2, UndoHolds DEF MarkConflict, Answers, IInv, TypeOK
<1>3. CASE Fault(r)
  BY <1>3, UndoHolds DEF Fault, Answers, IInv, TypeOK
<1> QED BY <1>1, <1>2, <1>3

\* The trail a transaction commits continues the chain.
LEMMA TrailContinues ==
    ASSUME IInv, NEW r \in Requests, pc[r] = "commit"
    PROVE  /\ entries[r] \in Seq(Entries)
           /\ \A i \in 1..Len(entries[r]) : entries[r][i].prev = Base(r) + i - 1
<1>1. Base(r) \in Nat /\ entries[r] \in Seq(Entries)
  BY BaseType DEF IInv, TypeOK
<1>2. CommitTrail(r)
  BY CommitEntries
<1>3. write[r] \in {"none", "cancelled", "expired", "executed", "failed"}
  BY DEF IInv, TypeOK, RequestInv, WriteAt, Settled
<1>4. \/ \E event : entries[r] = << Line(r, event, Base(r)) >>
      \/ \E event : entries[r] = << ConfirmedLine(r), OutcomeLine(r, event) >>
  BY <1>2, <1>3 DEF CommitTrail
<1>5. \A event, n : Line(r, event, n).prev = n
  BY DEF Line
<1>6. CASE \E event : entries[r] = << Line(r, event, Base(r)) >>
  <2>1. PICK event : entries[r] = << Line(r, event, Base(r)) >>
    BY <1>6
  <2> DEFINE line == Line(r, event, Base(r))
  <2>2. line.prev = Base(r)
    BY <1>5
  <2> HIDE DEF line
  <2>3. Len(entries[r]) = 1 /\ entries[r][1] = line
    BY <2>1 DEF line
  <2> QED BY <1>1, <2>2, <2>3
<1>7. CASE \E event : entries[r] = << ConfirmedLine(r), OutcomeLine(r, event) >>
  <2>1. PICK event : entries[r] = << ConfirmedLine(r), OutcomeLine(r, event) >>
    BY <1>7
  <2> DEFINE x == ConfirmedLine(r)
             y == OutcomeLine(r, event)
  <2>2. x.prev = Base(r) /\ y.prev = Base(r) + 1
    BY <1>5 DEF ConfirmedLine, OutcomeLine
  <2> HIDE DEF x, y
  <2>3. Len(entries[r]) = 2 /\ entries[r][1] = x /\ entries[r][2] = y
    BY <2>1 DEF x, y
  <2>4. \A i \in 1..2 : i = 1 \/ i = 2
    OBVIOUS
  <2> QED BY <1>1, <2>2, <2>3, <2>4
<1> QED BY <1>1, <1>4, <1>6, <1>7

LEMMA CommitHolds ==
    ASSUME IInv, NEW r \in Requests, Commit(r) PROVE IInv'
<1> DEFINE a == ActionOf(r)
           t == TenantOf(r)
<1>1. /\ pc[r] = "commit"
      /\ status' = IF write[r] = "none" THEN status
                   ELSE [status EXCEPT ![a] = write[r]]
      /\ chain' = [chain EXCEPT ![t] = @ \o entries[r]]
      /\ reply' = [reply EXCEPT ![r] = Answer(r)]
      /\ Release(r)
      /\ UNCHANGED << proposal, expires, job, effects, lost, now, faults >>
  BY DEF Commit, world
<1>2. a \in Actions /\ t \in Tenants
  BY JobType DEF IInv
<1>3. /\ entries[r] # << >> /\ RowAt(r) /\ RequestInv(r)
      /\ write[r] \in {"none", "cancelled", "expired", "executed", "failed"}
  BY <1>1, CommitEntries DEF IInv, TypeOK, RequestInv, WriteAt, Settled
<1>4. chainLock[t] = r
  BY <1>3 DEF RequestInv
<1>5. \A b \in Actions : status'[b] =
         IF b = a /\ write[r] # "none" THEN write[r] ELSE status[b]
  BY <1>1, <1>2 DEF IInv, TypeOK
<1>6. TypeOK'
  <2>1. status' \in [Actions -> Statuses]
    BY <1>1, <1>2, <1>3 DEF IInv, TypeOK, Statuses, Settled
  <2>2. chain' \in [Tenants -> Seq(Entries)]
    <3>1. chain[t] \o entries[r] \in Seq(Entries)
      BY <1>2, ConcatProperties DEF IInv, TypeOK
    <3> QED BY <1>1, <1>2, <3>1 DEF IInv, TypeOK
  <2>3. reply' \in [Requests -> Answers]
    BY <1>1, <1>3, AnswerType DEF IInv, TypeOK
  <2> QED BY <1>1, <2>1, <2>2, <2>3, ReleaseType DEF IInv, TypeOK
<1>7. \A q \in Requests \ {r} : RequestInv(q)'
  <2>1. \A q \in Requests \ {r}, u \in Tenants :
           chainLock[u] = q => chainLock'[u] = q /\ chain'[u] = chain[u]
    BY <1>1, <1>2, <1>4, Released DEF IInv, TypeOK
  <2>2. \A b \in Actions :
           \/ status'[b] = status[b]
           \/ /\ \A q \in Requests \ {r} : rowLock[b] # q \/ status[b] = "absent"
              /\ status'[b] # "absent"
              /\ status[b] \in Settled => status'[b] \in Settled
    BY <1>3, <1>5 DEF RowAt, Settled
  <2>3. /\ \A q \in Requests \ {r} :
              /\ pc'[q] = pc[q] /\ write'[q] = write[q]
              /\ entries'[q] = entries[q] /\ performed'[q] = performed[q]
        /\ \A q \in Requests \ {r}, b \in Actions :
              rowLock[b] = q => rowLock'[b] = q
    BY <1>1, Released
  <2> QED BY <1>1, <2>1, <2>2, <2>3, OthersHold
<1>8. \A b \in Actions : ActionInv(b)'
  <2> SUFFICES ASSUME NEW b \in Actions PROVE ActionInv(b)'
    OBVIOUS
  <2>1. /\ effects'[b] = effects[b] /\ lost'[b] = lost[b]
        /\ proposal'[b] = proposal[b] /\ ActionInv(b)
    BY <1>1 DEF IInv
  <2>2. CASE b = a /\ write[r] # "none"
    <3>1. status[a] # "absent"
      BY <1>1, <1>3 DEF RowAt
    <3>2. status'[b] = write[r]
      BY <1>5, <2>2
    <3> QED BY <1>3, <2>1, <2>2, <3>1, <3>2 DEF ActionInv
  <2>3. CASE ~(b = a /\ write[r] # "none")
    <3>1. status'[b] = status[b]
      BY <1>5, <2>3
    <3>2. \A q \in Requests : ActionOf(q) = b /\ performed[q] =>
             ActionOf(q)' = b /\ performed'[q]
      <4>1. ~(ActionOf(r) = b /\ performed[r])
        BY <1>3, <2>3 DEF RequestInv
      <4> QED BY <1>1, <4>1, Released DEF ActionOf
    <3> QED BY <2>1, <3>1, <3>2 DEF ActionInv
  <2> QED BY <2>2, <2>3
<1>9. ChainLinked'
  <2> SUFFICES ASSUME NEW u \in Tenants, NEW i \in DOMAIN chain'[u]
               PROVE  chain'[u][i].prev = i - 1
    BY DEF ChainLinked
  <2>1. CASE u # t
    BY <1>1, <2>1 DEF IInv, TypeOK, ChainLinked
  <2>2. CASE u = t
    <3> DEFINE s == chain[t]
               e == entries[r]
    <3>1. /\ s \in Seq(Entries) /\ e \in Seq(Entries)
          /\ \A j \in 1..Len(e) : e[j].prev = Len(s) + j - 1
          /\ \A j \in DOMAIN s : s[j].prev = j - 1
          /\ chain'[u] = s \o e
      BY <1>1, <1>2, <2>2, TrailContinues DEF Base, IInv, TypeOK, ChainLinked
    <3> HIDE DEF s, e
    <3>2. /\ Len(s \o e) = Len(s) + Len(e) /\ DOMAIN (s \o e) = 1..Len(s \o e)
          /\ \A j \in 1..Len(s) + Len(e) :
                (s \o e)[j] = IF j <= Len(s) THEN s[j] ELSE e[j - Len(s)]
          /\ Len(s) \in Nat /\ Len(e) \in Nat /\ DOMAIN s = 1..Len(s)
      BY <3>1, ConcatProperties, LenProperties
    <3>3. i \in 1..Len(s) + Len(e) /\ i \in Nat
      BY <3>1, <3>2
    <3>4. CASE i <= Len(s)
      BY <3>1, <3>2, <3>3, <3>4
    <3>5. CASE i > Len(s)
      <4>1. i - Len(s) \in 1..Len(e)
        BY <3>2, <3>3, <3>5
      <4>2. e[i - Len(s)].prev = Len(s) + (i - Len(s)) - 1
        BY <3>1, <4>1
      <4> QED BY <3>1, <3>2, <3>3, <3>5, <4>2
    <3> QED BY <3>2, <3>3, <3>4, <3>5
  <2> QED BY <2>1, <2>2
<1> QED BY <1>1, <1>6, <1>7, <1>8, <1>9, Released DEF IInv

-----------------------------------------------------------------------------
(* The invariant holds initially and at every step. *)

LEMMA InitHolds == Init => IInv
<1> SUFFICES ASSUME Init PROVE IInv
  OBVIOUS
<1>1. << >> \in Seq(Entries)
  OBVIOUS
<1>2. TypeOK
  BY <1>1 DEF Init, TypeOK, Statuses, Positions, Answers
<1>3. \A r \in Requests : RequestInv(r)
  BY DEF Init, RequestInv, WriteAt, TrailAt, RowAt, Clean, Confirmed
<1>4. \A a \in Actions : ActionInv(a)
  <2> SUFFICES ASSUME NEW a \in Actions PROVE ActionInv(a)
    OBVIOUS
  <2>1. status[a] = "absent" /\ effects[a] = 0 /\ lost[a] = 0
    BY DEF Init
  <2> QED BY <2>1 DEF ActionInv
<1>5. ChainLinked
  BY DEF Init, ChainLinked
<1> QED BY <1>2, <1>3, <1>4, <1>5 DEF IInv

LEMMA HandleHolds ==
    ASSUME IInv, NEW r \in Requests, Handle(r) PROVE IInv'
<1>1. CASE ConfirmStep(r)
  BY <1>1, RejectHolds, TakeRowHolds, AuditHolds, PhaseBHolds, DispatchHolds,
     RollbackHolds DEF ConfirmStep
<1>2. CASE CancelStep(r)
  BY <1>2, RejectHolds, CancelReadHolds, TakeRowHolds, AuditHolds DEF CancelStep
<1>3. CASE EndStep(r)
  BY <1>3, CommitHolds, AnswerFirstHolds, RollbackHolds DEF EndStep
<1> QED BY <1>1, <1>2, <1>3 DEF Handle

LEMMA NextHolds == IInv /\ [Next]_vars => IInv'
<1> SUFFICES ASSUME IInv, [Next]_vars PROVE IInv'
  OBVIOUS
<1>1. CASE Environment
  BY <1>1, ProposalHolds, SweepHolds, TickHolds DEF Environment
<1>2. CASE \E r \in Requests : Receive(r) \/ Handle(r) \/ Fault(r)
  BY <1>2, ReceiveHolds, HandleHolds, RollbackHolds
<1>3. CASE Terminating \/ UNCHANGED vars
  BY <1>3, StutterHolds DEF Terminating
<1> QED BY <1>1, <1>2, <1>3 DEF Next

\* The inductive invariant holds in every behaviour.
THEOREM Invariance == Spec => []IInv
  BY InitHolds, NextHolds, PTL DEF Spec

-----------------------------------------------------------------------------
(* What follows from it. *)

\* No handler ever leaves a row, a lock, a buffer or a counter in a state its
\* column, its holder or its reader does not know.
THEOREM TypeCorrect == Spec => []TypeOK
<1>1. IInv => TypeOK
  BY DEF IInv
<1> QED BY <1>1, Invariance, PTL

\* Two clicks on one card never run side by side: both would hold its row lock.
THEOREM ClicksExclude == Spec => []SingleFlight
<1>1. IInv => SingleFlight
  <2> SUFFICES ASSUME IInv, NEW q \in Requests, NEW r \in Requests,
                      q # r, ActionOf(q) = ActionOf(r),
                      pc[q] \in Owning, pc[r] \in Owning
               PROVE  FALSE
    BY DEF SingleFlight
  <2>1. \A p \in Requests : pc[p] \in Owning => rowLock[ActionOf(p)] = p
    BY DEF IInv, RequestInv, WriteAt, RowAt, Owning
  <2> QED BY <2>1
<1> QED BY <1>1, Invariance, PTL

\* A tenant runs one action at a time: both requests would hold its advisory
\* lock.
THEOREM TenantsSerialise == Spec => []TenantSerialised
<1>1. IInv => TenantSerialised
  <2> SUFFICES ASSUME IInv, NEW q \in Requests, NEW r \in Requests,
                      q # r, TenantOf(q) = TenantOf(r),
                      pc[q] \in Dispatching, pc[r] \in Dispatching
               PROVE  FALSE
    BY DEF TenantSerialised
  <2>1. \A p \in Requests : pc[p] \in Dispatching => entries[p] # << >>
    BY ShortSequences DEF IInv, RequestInv, TrailAt, Dispatching, Owning, Confirmed
  <2>2. \A p \in Requests : pc[p] \in Dispatching => chainLock[TenantOf(p)] = p
    BY <2>1 DEF IInv, RequestInv
  <2> QED BY <2>2
<1> QED BY <1>1, Invariance, PTL

\* Every run beyond the first is one that a rollback made the database forget.
THEOREM RunsAccounted == Spec => []EffectsAccounted
<1>1. IInv => EffectsAccounted
  BY DEF IInv, ActionInv, EffectsAccounted
<1> QED BY <1>1, Invariance, PTL

\* No crash strands an action between click and outcome.
THEOREM NothingStranded == Spec => []ConfirmedNeverStored
<1>1. IInv => ConfirmedNeverStored
  BY DEF IInv, ActionInv, ConfirmedNeverStored
<1> QED BY <1>1, Invariance, PTL

\* The tenant's audit chain has no fork and no gap.
THEOREM ChainStaysLinked == Spec => []ChainLinked
<1>1. IInv => ChainLinked
  BY DEF IInv
<1> QED BY <1>1, Invariance, PTL

-----------------------------------------------------------------------------
(* Steps: what each does to the row, to the chain and to the provider. *)

\* All steps but four leave them alone.
LEMMA VisibleSteps ==
    ASSUME [Next]_vars
    PROVE  \/ UNCHANGED << status, chain, effects >>
           \/ \E a \in Actions : CommitProposal(a)
           \/ SweepExpired
           \/ \E r \in Requests : DispatchRaises(r) \/ DispatchReturns(r)
           \/ \E r \in Requests : Commit(r)
<1>1. CASE Environment
  BY <1>1 DEF Environment, Propose, DropProposal, Tick, rows, world
<1>2. ASSUME NEW r \in Requests, Receive(r) \/ Fault(r)
      PROVE  UNCHANGED << status, chain, effects >>
  BY <1>2 DEF Receive, Fault, Undo, rows, world
<1>3. ASSUME NEW r \in Requests, ConfirmStep(r)
      PROVE  \/ UNCHANGED << status, chain, effects >>
             \/ DispatchRaises(r) \/ DispatchReturns(r)
  <2>1. CASE ConfirmReject(r) \/ ConfirmLate(r) \/ Confirm(r)
    BY <2>1 DEF ConfirmReject, Reject, ConfirmLate, Confirm, TakeRow, rows, world
  <2>2. CASE \/ AuditExpired(r) \/ AuditConfirmed(r) \/ AuditRaised(r)
             \/ AuditFailed(r) \/ AuditDuplicate(r) \/ AuditInvoked(r)
    BY <2>2 DEF AuditExpired, AuditConfirmed, AuditRaised, AuditFailed,
                AuditDuplicate, AuditInvoked, AuditWrite, rows, world
  <2>3. CASE \/ Decrypt(r) \/ DecryptFails(r) \/ FindDuplicate(r)
             \/ DispatchUnknown(r) \/ MarkExecuted(r) \/ MarkConflict(r)
    BY <2>3 DEF Decrypt, DecryptFails, FindDuplicate, DispatchUnknown,
                MarkExecuted, MarkConflict, MarkFailed, Undo, rows, world
  <2> QED BY <1>3, <2>1, <2>2, <2>3 DEF ConfirmStep
<1>4. ASSUME NEW r \in Requests, CancelStep(r)
      PROVE  UNCHANGED << status, chain, effects >>
  BY <1>4 DEF CancelStep, CancelReject, Reject, CancelRead, CancelWrite,
              AuditCancelled, AuditWrite, rows, world
<1>5. ASSUME NEW r \in Requests, EndStep(r)
      PROVE  UNCHANGED << status, chain, effects >> \/ Commit(r)
  BY <1>5 DEF EndStep, AnswerFirst, Rollback, Undo, rows, world
<1>6. CASE Terminating \/ UNCHANGED vars
  BY <1>6 DEF Terminating, vars
<1> QED BY <1>1, <1>2, <1>3, <1>4, <1>5, <1>6 DEF Next, Handle

\* What a commit finds and leaves.
LEMMA CommitRow ==
    ASSUME IInv, NEW r \in Requests, Commit(r)
    PROVE  /\ OwnerOf[ActionOf(r)] = TenantOf(r)
           /\ write[r] \in {"expired", "executed", "failed"} =>
                 status[ActionOf(r)] = "pending"
           /\ write[r] = "none" => status[ActionOf(r)] \in Settled
           /\ write[r] = "cancelled" =>
                 status[ActionOf(r)] \in {"pending"} \cup Settled
           /\ write[r] \in {"none", "cancelled", "expired", "executed", "failed"}
           /\ chain' = [chain EXCEPT ![TenantOf(r)] = @ \o entries[r]]
           /\ status' = IF write[r] = "none" THEN status
                        ELSE [status EXCEPT ![ActionOf(r)] = write[r]]
           /\ UNCHANGED effects
<1>1. pc[r] = "commit"
  BY DEF Commit
<1>2. RowAt(r) /\ write[r] \in {"none", "cancelled", "expired", "executed", "failed"}
  BY <1>1, CommitEntries DEF IInv, TypeOK, RequestInv, WriteAt, Settled
<1>3. /\ ActionOf(r) \in Actions /\ status[ActionOf(r)] \in Statuses
      /\ status[ActionOf(r)] # "confirmed"
  BY JobType DEF IInv, TypeOK, ActionInv
<1> QED BY <1>1, <1>2, <1>3 DEF Commit, RowAt, Statuses, world

\* The provider is never called for an action that is not open.
THEOREM SettledActionsNeverRun == Spec => SettledNeverRuns
<1>1. ASSUME IInv, [Next]_vars, NEW a \in Actions, effects'[a] # effects[a]
      PROVE  status[a] = "pending"
  <2>1. PICK r \in Requests : DispatchRaises(r) \/ DispatchReturns(r)
    <3>1. ASSUME NEW b \in Actions, CommitProposal(b) PROVE FALSE
      BY <1>1, <3>1 DEF CommitProposal, world
    <3>2. ASSUME SweepExpired PROVE FALSE
      BY <1>1, <3>2 DEF SweepExpired, world
    <3>3. ASSUME NEW r \in Requests, Commit(r) PROVE FALSE
      BY <1>1, <3>3 DEF Commit, world
    <3> QED BY <1>1, <3>1, <3>2, <3>3, VisibleSteps
  <2>2. pc[r] = "dispatch" /\ \E did \in BOOLEAN : Perform(r, did)
    BY <2>1 DEF DispatchRaises, DispatchReturns
  <2>3. a = ActionOf(r)
    BY <1>1, <2>2 DEF Perform, IInv, TypeOK
  <2> QED BY <1>1, <2>2, <2>3, NobodyElseRan
<1>2. IInv /\ [Next]_vars =>
        [\A a \in Actions : effects'[a] # effects[a] => status[a] = "pending"]_vars
  BY <1>1
<1> QED BY <1>2, Invariance, PTL DEF Spec, SettledNeverRuns

\* What is settled is never reopened, nor given another outcome.
THEOREM SettledActionsStay == Spec => SettledStays
<1>1. ASSUME IInv, [Next]_vars, NEW a \in Actions, status[a] \in Settled
      PROVE  status'[a] \in {status[a], "cancelled"}
  <2>1. CASE UNCHANGED << status, chain, effects >>
    BY <2>1
  <2>2. ASSUME NEW b \in Actions, CommitProposal(b)
        PROVE  status'[a] = status[a]
    <3>1. status[b] = "absent"
      BY <1>1, <2>2 DEF CommitProposal, IInv, ActionInv
    <3> QED BY <1>1, <2>2, <3>1 DEF CommitProposal, IInv, TypeOK, Settled
  <2>3. CASE SweepExpired
    BY <1>1, <2>3 DEF SweepExpired, Settled
  <2>4. ASSUME NEW r \in Requests, DispatchRaises(r) \/ DispatchReturns(r)
        PROVE  status'[a] = status[a]
    BY <2>4 DEF DispatchRaises, DispatchReturns, MarkFailed, rows
  <2>5. ASSUME NEW r \in Requests, Commit(r)
        PROVE  status'[a] \in {status[a], "cancelled"}
    BY <1>1, <2>5, CommitRow DEF IInv, TypeOK, Settled
  <2> QED BY <1>1, <2>1, <2>2, <2>3, <2>4, <2>5, VisibleSteps
<1>2. IInv /\ [Next]_vars =>
        [\A a \in Actions : status[a] \in Settled =>
            status'[a] \in {status[a], "cancelled"}]_vars
  BY <1>1
<1> QED BY <1>2, Invariance, PTL DEF Spec, SettledStays

-----------------------------------------------------------------------------
(* The detailed specification implements the gate. *)

\* The rows of a trail, one or two of them, as the gate appends them.
LEMMA LineBlocks ==
    ASSUME IInv, NEW r \in Requests, NEW event
    PROVE  /\ Gate!Block(ActionOf(r), r, << event >>, Base(r)) =
                << Line(r, event, Base(r)) >>
           /\ Gate!Block(ActionOf(r), r, << "action_confirmed", event >>,
                         Base(r)) =
                << ConfirmedLine(r), OutcomeLine(r, event) >>
<1> DEFINE n == Base(r)
           x == "action_confirmed"
           one == [i \in 1..1 |-> Line(r, << event >>[i], n + i - 1)]
           two == [i \in 1..2 |-> Line(r, << x, event >>[i], n + i - 1)]
<1>1. n \in Nat
  BY BaseType DEF IInv
<1>2. Gate!Block(ActionOf(r), r, << event >>, n) = one
  BY DEF Gate!Block, Line
<1>3. Gate!Block(ActionOf(r), r, << x, event >>, n) = two
  BY DEF Gate!Block, Line
<1> HIDE DEF n, x
<1>4. n + 1 - 1 = n /\ n + 2 - 1 = n + 1
  BY <1>1
<1>5. one[1] = Line(r, event, n)
  BY <1>4
<1>6. two[1] = Line(r, x, n) /\ two[2] = Line(r, event, n + 1)
  BY <1>4
<1>7. one = << one[1] >>
  OBVIOUS
<1>8. two = << two[1], two[2] >>
  OBVIOUS
<1> HIDE DEF one, two
<1> QED BY <1>2, <1>3, <1>5, <1>6, <1>7, <1>8
        DEF ConfirmedLine, OutcomeLine, n, x

\* What a transaction commits to the chain is one of the gate's trails.
LEMMA CommitIsBlock ==
    ASSUME IInv, NEW r \in Requests, Commit(r)
    PROVE  /\ write[r] \in {"none", "cancelled"} =>
                 entries[r] = Gate!Block(ActionOf(r), r, << "action_cancelled" >>,
                                         Base(r))
           /\ write[r] \in {"expired", "executed", "failed"} =>
                 \E trail \in Gate!Trails[write[r]] :
                     entries[r] = Gate!Block(ActionOf(r), r, trail, Base(r))
<1>1. CommitTrail(r)
  BY CommitEntries DEF Commit
<1>2. CASE write[r] \in {"none", "cancelled"}
  BY <1>1, <1>2, LineBlocks DEF CommitTrail
<1>3. CASE write[r] = "expired"
  <2>1. entries[r] = Gate!Block(ActionOf(r), r, << "action_expired" >>, Base(r))
    BY <1>1, <1>3, LineBlocks DEF CommitTrail
  <2>2. << "action_expired" >> \in Gate!Trails[write[r]]
    BY <1>3 DEF Gate!Trails
  <2> QED BY <1>3, <2>1, <2>2
<1>4. CASE write[r] = "executed"
  <2>1. entries[r] = Gate!Block(ActionOf(r), r,
                        << "action_confirmed", "capability_invoked" >>, Base(r))
    BY <1>1, <1>4, LineBlocks DEF CommitTrail
  <2>2. << "action_confirmed", "capability_invoked" >> \in Gate!Trails[write[r]]
    BY <1>4 DEF Gate!Trails
  <2> QED BY <1>4, <2>1, <2>2
<1>5. CASE write[r] = "failed"
  <2>1. PICK event \in {"capability_failed", "capability_duplicate_replay"} :
           entries[r] = << ConfirmedLine(r), OutcomeLine(r, event) >>
    BY <1>1, <1>5 DEF CommitTrail
  <2>2. entries[r] = Gate!Block(ActionOf(r), r, << "action_confirmed", event >>,
                                Base(r))
    BY <2>1, LineBlocks
  <2>3. << "action_confirmed", event >> \in Gate!Trails[write[r]]
    BY <1>5 DEF Gate!Trails
  <2> QED BY <1>5, <2>2, <2>3
<1> QED BY <1>2, <1>3, <1>4, <1>5

LEMMA CommitIsGateStep ==
    ASSUME IInv, NEW r \in Requests, Commit(r) PROVE Gate!Next
<1> DEFINE a == ActionOf(r)
           Trail1 == << "action_cancelled" >>
<1>1. a \in Actions /\ OwnerOf[a] = TenantOf(r)
  BY JobType, CommitRow DEF IInv
<1>2. ASSUME NEW trail, entries[r] = Gate!Block(a, r, trail, Base(r))
      PROVE  Gate!Record(a, r, trail)
  <2> DEFINE t == TenantOf(r)
             added == Gate!Block(a, r, trail, Len(chain[t]))
  <2>1. entries[r] = added
    BY <1>2 DEF Base
  <2>2. chain' = [chain EXCEPT ![t] = chain[t] \o entries[r]]
    BY CommitRow
  <2> HIDE DEF added
  <2>3. chain' = [chain EXCEPT ![t] = chain[t] \o added]
    BY <2>1, <2>2
  <2> QED BY <1>1, <2>3 DEF Gate!Record, added
<1>3. CASE write[r] \in {"expired", "executed", "failed"}
  <2>1. PICK trail \in Gate!Trails[write[r]] :
           entries[r] = Gate!Block(a, r, trail, Base(r))
    BY <1>3, CommitIsBlock
  <2>2. status[a] = "pending" /\ status' = [status EXCEPT ![a] = write[r]]
        /\ UNCHANGED effects /\ write[r] \in Gate!Settled
    BY <1>3, CommitRow DEF Gate!Settled
  <2>3. Gate!Record(a, r, trail)
    BY <1>2, <2>1
  <2>4. Gate!Settle(a, r)
    BY <2>2, <2>3 DEF Gate!Settle
  <2> QED BY <1>1, <2>4 DEF Gate!Next
<1>4. CASE write[r] \in {"none", "cancelled"}
  <2>1. Gate!Record(a, r, Trail1) /\ UNCHANGED effects
    BY <1>2, <1>4, CommitIsBlock, CommitRow
  <2>2. CASE status[a] \in Settled
    <3>1. status' = status \/ status' = [status EXCEPT ![a] = "cancelled"]
      BY <1>4, CommitRow
    <3>2. Gate!CancelLate(a, r)
      BY <2>1, <2>2, <3>1 DEF Gate!CancelLate, Gate!Settled, Settled
    <3> QED BY <1>1, <3>2 DEF Gate!Next
  <2>3. CASE status[a] = "pending"
    <3>1. status' = [status EXCEPT ![a] = "cancelled"]
      BY <1>4, <2>3, CommitRow DEF Settled
    <3>2. Trail1 \in Gate!Trails["cancelled"] /\ "cancelled" \in Gate!Settled
      BY DEF Gate!Trails, Gate!Settled
    <3>3. Gate!Settle(a, r)
      BY <2>1, <2>3, <3>1, <3>2 DEF Gate!Settle
    <3> QED BY <1>1, <3>3 DEF Gate!Next
  <2> QED BY <1>4, <2>2, <2>3, CommitRow
<1> QED BY <1>3, <1>4, CommitRow

LEMMA StepsAreGateSteps ==
    ASSUME IInv, [Next]_vars PROVE [Gate!Next]_Gate!vars
<1>1. CASE UNCHANGED << status, chain, effects >>
  BY <1>1 DEF Gate!vars
<1>2. ASSUME NEW a \in Actions, CommitProposal(a) PROVE Gate!Next
  <2>1. status[a] = "absent"
    BY <1>2 DEF IInv, ActionInv, CommitProposal
  <2> QED BY <1>2, <2>1 DEF CommitProposal, world, Gate!Next, Gate!Offer
<1>3. CASE SweepExpired
  <2> DEFINE stale == {a \in Actions : status[a] = "pending" /\ expires[a] < now}
  <2>1. Gate!Lapse(stale)
    BY <1>3 DEF SweepExpired, Gate!Lapse, world
  <2>2. stale \in SUBSET Actions
    OBVIOUS
  <2> QED BY <2>1, <2>2 DEF Gate!Next
<1>4. ASSUME NEW r \in Requests, DispatchRaises(r) \/ DispatchReturns(r)
      PROVE  [Gate!Next]_Gate!vars
  <2>1. PICK did \in BOOLEAN : Perform(r, did)
    BY <1>4 DEF DispatchRaises, DispatchReturns
  <2>2. pc[r] = "dispatch" /\ UNCHANGED << status, chain >>
    BY <1>4 DEF DispatchRaises, DispatchReturns, MarkFailed, rows
  <2>3. ActionOf(r) \in Actions /\ status[ActionOf(r)] = "pending"
    BY <2>2, NobodyElseRan, JobType DEF IInv
  <2>4. CASE did
    <3>1. Gate!Perform(ActionOf(r))
      BY <2>1, <2>2, <2>3, <2>4 DEF Perform, Gate!Perform
    <3> QED BY <2>3, <3>1 DEF Gate!Next
  <2>5. CASE ~did
    BY <2>1, <2>2, <2>5 DEF Perform, Gate!vars
  <2> QED BY <2>4, <2>5
<1>5. ASSUME NEW r \in Requests, Commit(r) PROVE Gate!Next
  BY <1>5, CommitIsGateStep
<1> QED BY <1>1, <1>2, <1>3, <1>4, <1>5, VisibleSteps

\* Requests, locks, buffers and rollbacks implement the gate: what is committed
\* and what the provider does is a behaviour of ActionGate.
THEOREM GateImplemented == Spec => GateSpec
<1>1. Init => Gate!Init
  BY DEF Init, Gate!Init
<1>2. IInv /\ [Next]_vars => [Gate!Next]_Gate!vars
  BY StepsAreGateSteps
<1> QED BY <1>1, <1>2, Invariance, PTL DEF Spec, GateSpec, Gate!Spec

-----------------------------------------------------------------------------
(* The row and the chain tell the same story. *)

EventsIn(s, a) == {s[i].event : i \in {j \in DOMAIN s : s[j].action = a}}

LEMMA EventsOfConcat ==
    ASSUME NEW s \in Seq(Entries), NEW e \in Seq(Entries), NEW a
    PROVE  EventsIn(s \o e, a) = EventsIn(s, a) \cup EventsIn(e, a)
<1> DEFINE c == s \o e
<1>1. /\ c \in Seq(Entries) /\ Len(c) = Len(s) + Len(e)
      /\ \A i \in 1..Len(s) + Len(e) :
            c[i] = IF i <= Len(s) THEN s[i] ELSE e[i - Len(s)]
  BY ConcatProperties
<1>2. /\ Len(s) \in Nat /\ Len(e) \in Nat
      /\ DOMAIN s = 1..Len(s) /\ DOMAIN e = 1..Len(e) /\ DOMAIN c = 1..Len(c)
  BY <1>1, LenProperties
<1> HIDE DEF c
<1>3. \A i \in DOMAIN s : i \in DOMAIN c /\ c[i] = s[i]
  BY <1>1, <1>2
<1>4. \A i \in DOMAIN e : i + Len(s) \in DOMAIN c /\ c[i + Len(s)] = e[i]
  <2> TAKE i \in DOMAIN e
  <2>1. i \in 1..Len(e) /\ i + Len(s) \in 1..Len(s) + Len(e)
    BY <1>2
  <2>2. ~(i + Len(s) <= Len(s)) /\ (i + Len(s)) - Len(s) = i
    BY <1>2, <2>1
  <2> QED BY <1>1, <1>2, <2>1, <2>2
<1>5. \A i \in DOMAIN c : \/ i \in DOMAIN s
                          \/ i - Len(s) \in DOMAIN e /\ c[i] = e[i - Len(s)]
  BY <1>1, <1>2
<1>6. EventsIn(s, a) \subseteq EventsIn(c, a)
  BY <1>3 DEF EventsIn
<1>7. EventsIn(e, a) \subseteq EventsIn(c, a)
  BY <1>4 DEF EventsIn
<1>8. EventsIn(c, a) \subseteq EventsIn(s, a) \cup EventsIn(e, a)
  BY <1>3, <1>5 DEF EventsIn
<1> QED BY <1>6, <1>7, <1>8 DEF c

\* The audit rows of a transaction are about its action.
LEMMA EventsOfLine ==
    ASSUME NEW r, NEW x, NEW m, NEW a
    PROVE  EventsIn(<< Line(r, x, m) >>, a) = IF a = ActionOf(r) THEN {x} ELSE {}
<1> DEFINE p == Line(r, x, m)
           one == << p >>
<1>1. p.event = x /\ p.action = ActionOf(r)
  BY DEF Line
<1> HIDE DEF p
<1>2. DOMAIN one = {1} /\ one[1] = p
  OBVIOUS
<1> HIDE DEF one
<1>3. EventsIn(one, a) = IF a = ActionOf(r) THEN {x} ELSE {}
  BY <1>1, <1>2 DEF EventsIn
<1> QED BY <1>3 DEF one, p

LEMMA EventsOfLines ==
    ASSUME NEW r, NEW x, NEW y, NEW m, NEW n, NEW a
    PROVE  EventsIn(<< Line(r, x, m), Line(r, y, n) >>, a) =
              IF a = ActionOf(r) THEN {x, y} ELSE {}
<1> DEFINE p == Line(r, x, m)
           q == Line(r, y, n)
           two == << p, q >>
<1>1. /\ p.event = x /\ p.action = ActionOf(r)
      /\ q.event = y /\ q.action = ActionOf(r)
  BY DEF Line
<1> HIDE DEF p, q
<1>2. DOMAIN two = {1, 2} /\ two[1] = p /\ two[2] = q
  OBVIOUS
<1> HIDE DEF two
<1>3. EventsIn(two, a) = IF a = ActionOf(r) THEN {x, y} ELSE {}
  BY <1>1, <1>2 DEF EventsIn
<1> QED BY <1>3 DEF two, p, q

\* What a commit adds to the trails.
LEMMA TrailGrows ==
    ASSUME IInv, NEW r \in Requests, Commit(r)
    PROVE  \E added \in SUBSET Events :
              /\ \A a \in Actions :
                    Trail(a)' = Trail(a) \cup
                                (IF a = ActionOf(r) THEN added ELSE {})
              /\ write[r] \in {"none", "cancelled"} =>
                    added = {"action_cancelled"}
              /\ write[r] = "expired" => added = {"action_expired"}
              /\ write[r] = "executed" =>
                    added = {"action_confirmed", "capability_invoked"}
              /\ write[r] = "failed" =>
                    \E event \in {"capability_failed",
                                  "capability_duplicate_replay"} :
                        added = {"action_confirmed", event}
<1> DEFINE t == TenantOf(r)
           e == entries[r]
           added == EventsIn(e, ActionOf(r))
<1>1. CommitTrail(r) /\ e \in Seq(Entries) /\ chain[t] \in Seq(Entries) /\ t \in Tenants
  BY CommitEntries, TrailContinues, JobType DEF Commit, IInv, TypeOK
<1>2. write[r] \in {"none", "cancelled", "expired", "executed", "failed"}
  BY CommitRow
<1>3. /\ write[r] \in {"none", "cancelled"} => added = {"action_cancelled"}
      /\ write[r] = "expired" => added = {"action_expired"}
      /\ write[r] = "executed" =>
            added = {"action_confirmed", "capability_invoked"}
      /\ write[r] = "failed" =>
            \E event \in {"capability_failed", "capability_duplicate_replay"} :
                added = {"action_confirmed", event}
  <2>1. \A x : EventsIn(<< Line(r, x, Base(r)) >>, ActionOf(r)) = {x}
    BY EventsOfLine
  <2>2. \A x : EventsIn(<< ConfirmedLine(r), OutcomeLine(r, x) >>, ActionOf(r))
                  = {"action_confirmed", x}
    <3> TAKE x
    <3> DEFINE y == "action_confirmed"
               m == Base(r)
               n == Base(r) + 1
               a == ActionOf(r)
    <3> HIDE DEF y, m, n, a
    <3>1. EventsIn(<< Line(r, y, m), Line(r, x, n) >>, a)
             = IF a = ActionOf(r) THEN {y, x} ELSE {}
      BY EventsOfLines
    <3> QED BY <3>1 DEF ConfirmedLine, OutcomeLine, y, m, n, a
  <2>3. write[r] \in {"none", "cancelled"} => added = {"action_cancelled"}
    BY <1>1, <2>1 DEF CommitTrail
  <2>4. write[r] = "expired" => added = {"action_expired"}
    BY <1>1, <2>1 DEF CommitTrail
  <2>5. write[r] = "executed" => added = {"action_confirmed", "capability_invoked"}
    BY <1>1, <2>2 DEF CommitTrail
  <2>6. ASSUME write[r] = "failed"
        PROVE  \E event \in {"capability_failed", "capability_duplicate_replay"} :
                  added = {"action_confirmed", event}
    <3>1. PICK event \in {"capability_failed", "capability_duplicate_replay"} :
             e = << ConfirmedLine(r), OutcomeLine(r, event) >>
      BY <1>1, <2>6 DEF CommitTrail
    <3>2. added = {"action_confirmed", event}
      BY <2>2, <3>1
    <3> QED BY <3>2
  <2> QED BY <2>3, <2>4, <2>5, <2>6
<1>4. ASSUME NEW a, a # ActionOf(r) PROVE EventsIn(e, a) = {}
  <2>1. \/ \E x, m : e = << Line(r, x, m) >>
        \/ \E x, m, y, n : e = << Line(r, x, m), Line(r, y, n) >>
    BY <1>1, <1>2 DEF CommitTrail, ConfirmedLine, OutcomeLine
  <2>2. CASE \E x, m : e = << Line(r, x, m) >>
    <3>1. PICK x, m : e = << Line(r, x, m) >>
      BY <2>2
    <3>2. EventsIn(<< Line(r, x, m) >>, a) = {}
      BY <1>4, EventsOfLine
    <3> QED BY <3>1, <3>2
  <2>3. CASE \E x, m, y, n : e = << Line(r, x, m), Line(r, y, n) >>
    <3>1. PICK x, m, y, n : e = << Line(r, x, m), Line(r, y, n) >>
      BY <2>3
    <3>2. EventsIn(<< Line(r, x, m), Line(r, y, n) >>, a) = {}
      BY <1>4, EventsOfLines
    <3> QED BY <3>1, <3>2
  <2> QED BY <2>1, <2>2, <2>3
<1>5. \A u \in Tenants : chain'[u] = IF u = t THEN chain[t] \o e ELSE chain[u]
  BY <1>1, CommitRow DEF IInv, TypeOK
<1>6. \A a \in Actions : Trail(a)' = Trail(a) \cup
                            (IF a = ActionOf(r) THEN added ELSE {})
  <2> TAKE a \in Actions
  <2>1. Trail(a) = EventsIn(chain[OwnerOf[a]], a)
        /\ Trail(a)' = EventsIn(chain'[OwnerOf[a]], a)
    BY DEF Trail, EventsIn
  <2>2. OwnerOf[a] \in Tenants
    BY RowAssumption
  <2>3. a = ActionOf(r) => OwnerOf[a] = t
    BY CommitRow
  <2>4. EventsIn(chain[t] \o e, a) = EventsIn(chain[t], a) \cup EventsIn(e, a)
    BY <1>1, EventsOfConcat
  <2> HIDE DEF t, e
  <2> QED BY <1>4, <1>5, <2>1, <2>2, <2>3, <2>4
<1>7. added \in SUBSET Events
  BY <1>2, <1>3 DEF Events
<1> QED BY <1>3, <1>6, <1>7

LEMMA TrailHolds ==
    ASSUME IInv, TrailMatchesStatus, [Next]_vars PROVE TrailMatchesStatus'
<1>1. ASSUME UNCHANGED << status, chain >> PROVE TrailMatchesStatus'
  BY <1>1 DEF TrailMatchesStatus, Trail
<1>2. ASSUME NEW b \in Actions, CommitProposal(b) PROVE TrailMatchesStatus'
  <2>1. status[b] = "absent" /\ chain' = chain
    BY <1>2 DEF IInv, ActionInv, CommitProposal
  <2>2. \A a \in Actions : /\ Trail(a)' = Trail(a)
                           /\ \/ status'[a] = status[a]
                              \/ status[a] = "absent" /\ status'[a] = "pending"
    BY <1>2, <2>1 DEF CommitProposal, Trail, IInv, TypeOK
  <2> QED BY <2>2 DEF TrailMatchesStatus
<1>3. CASE SweepExpired
  <2>1. \A a \in Actions : /\ Trail(a)' = Trail(a)
                           /\ \/ status'[a] = status[a]
                              \/ status[a] = "pending" /\ status'[a] = "expired"
    BY <1>3 DEF SweepExpired, Trail
  <2> QED BY <2>1 DEF TrailMatchesStatus
<1>4. ASSUME NEW r \in Requests, DispatchRaises(r) \/ DispatchReturns(r)
      PROVE  UNCHANGED << status, chain >>
  BY <1>4 DEF DispatchRaises, DispatchReturns, MarkFailed, rows
<1>5. ASSUME NEW r \in Requests, Commit(r) PROVE TrailMatchesStatus'
  <2>0. PICK b \in Actions : b = ActionOf(r)
    BY JobType DEF IInv
  <2>1. PICK added \in SUBSET Events :
              /\ \A a \in Actions :
                    Trail(a)' = Trail(a) \cup (IF a = b THEN added ELSE {})
              /\ write[r] \in {"none", "cancelled"} =>
                    added = {"action_cancelled"}
              /\ write[r] = "expired" => added = {"action_expired"}
              /\ write[r] = "executed" =>
                    added = {"action_confirmed", "capability_invoked"}
              /\ write[r] = "failed" =>
                    \E event \in {"capability_failed",
                                  "capability_duplicate_replay"} :
                        added = {"action_confirmed", event}
    BY <1>5, <2>0, TrailGrows
  <2>2. \A a \in Actions :
           status'[a] = IF a = b /\ write[r] # "none" THEN write[r] ELSE status[a]
    BY <1>5, <2>0, CommitRow DEF IInv, TypeOK
  <2>3. /\ b \in Actions
        /\ write[r] \in {"expired", "executed", "failed"} => status[b] = "pending"
        /\ write[r] = "none" => status[b] \in Settled
        /\ write[r] = "cancelled" => status[b] \in {"pending"} \cup Settled
        /\ write[r] \in {"none", "cancelled", "expired", "executed", "failed"}
    BY <1>5, <2>0, CommitRow
  <2>4. \A a \in Actions : a # b => Trail(a)' = Trail(a) /\ status'[a] = status[a]
    BY <2>1, <2>2
  <2>5. Trail(b)' = Trail(b) \cup added
    BY <2>1, <2>3
  <2>6. /\ status'[b] \in {"absent", "pending"} => Trail(b)' = {}
        /\ status'[b] = "executed" => "capability_invoked" \in Trail(b)'
        /\ status'[b] = "failed" =>
              Trail(b)' \cap {"capability_failed",
                              "capability_duplicate_replay"} # {}
        /\ status'[b] = "cancelled" => "action_cancelled" \in Trail(b)'
        /\ "capability_invoked" \in Trail(b)' =>
              status'[b] \in {"executed", "cancelled"}
    BY <2>1, <2>2, <2>3, <2>5 DEF TrailMatchesStatus, Settled
  <2> QED BY <2>4, <2>6 DEF TrailMatchesStatus
<1> QED BY <1>1, <1>2, <1>3, <1>4, <1>5, VisibleSteps

\* The committed status of a row and the audit rows of its action agree at
\* every moment: an outcome is in the chain exactly when the row has it, and
\* nothing of an open action is there.
THEOREM TrailTellsStatus == Spec => []TrailMatchesStatus
<1>1. Init => TrailMatchesStatus
  <2> SUFFICES ASSUME Init, NEW a \in Actions
               PROVE  Trail(a) = {} /\ status[a] = "absent"
    BY DEF TrailMatchesStatus
  <2>1. chain[OwnerOf[a]] = << >> /\ DOMAIN << >> = {}
    BY RowAssumption DEF Init
  <2> QED BY <2>1 DEF Init, Trail
<1>2. IInv /\ TrailMatchesStatus /\ [Next]_vars => TrailMatchesStatus'
  BY TrailHolds
<1> QED BY <1>1, <1>2, Invariance, PTL DEF Spec

-----------------------------------------------------------------------------
(* Requests one by one: what a step does to the request it runs, and to the *)
(* others nothing.                                                          *)

RequestStep(q) ==
    /\ job' = job
    /\ pc'[q] = "rollback" => pc[q] = "rollback" \/ job[q].channel = "web"
    /\ pc'[q] = "dispatch" /\ job[q].channel = "web" =>
          pc[q] = "dispatch" \/ ~ExecutedTwin(q)
    /\ performed'[q] => performed[q] \/ pc[q] = "dispatch"
    /\ reply'[q] \in Events =>
          \/ reply'[q] = reply[q]
          \/ job[q].channel = "web"
          \/ pc[q] = "rollback"
          \/ Commit(q)

LEMMA RequestSteps ==
    ASSUME TypeOK, [Next]_vars, NEW q \in Requests PROVE RequestStep(q)
<1>1. ASSUME NEW r \in Requests,
             \/ ConfirmReject(r) \/ CancelReject(r) \/ ConfirmLate(r) \/ Confirm(r)
             \/ CancelRead(r) \/ CancelWrite(r) \/ Receive(r)
      PROVE  RequestStep(q)
  <2>1. CASE ConfirmReject(r) \/ CancelReject(r)
    <3>1. /\ UNCHANGED << job, performed >>
          /\ pc' = [pc EXCEPT ![r] = "done"]
          /\ reply' = [reply EXCEPT ![r] = "invalid"]
      BY <2>1 DEF ConfirmReject, CancelReject, Reject, Goto
    <3> QED BY <3>1 DEF RequestStep, TypeOK, Events
  <2>2. CASE ConfirmLate(r) \/ Confirm(r) \/ CancelWrite(r)
    BY <2>2 DEF ConfirmLate, Confirm, TakeRow, CancelWrite, Goto, RequestStep, TypeOK
  <2>3. CASE CancelRead(r) \/ Receive(r)
    BY <2>3 DEF CancelRead, Receive, Goto, RequestStep, TypeOK
  <2> QED BY <1>1, <2>1, <2>2, <2>3
<1>2. ASSUME NEW r \in Requests,
             \/ AuditExpired(r) \/ AuditConfirmed(r) \/ AuditRaised(r)
             \/ AuditFailed(r) \/ AuditDuplicate(r) \/ AuditInvoked(r)
             \/ AuditCancelled(r)
      PROVE  RequestStep(q)
  <2>1. /\ UNCHANGED << job, performed, reply >>
        /\ \E position \in {"decrypt", "rollback", "commit"} :
                         /\ pc' = [pc EXCEPT ![r] = position]
                         /\ position = "rollback" => job[r].channel = "web"
    BY <1>2 DEF AuditExpired, AuditConfirmed, AuditRaised, AuditFailed,
                AuditDuplicate, AuditInvoked, AuditCancelled, AuditWrite, Goto,
                AfterRaise
  <2>2. /\ pc'[q] = "rollback" => pc[q] = "rollback" \/ job[q].channel = "web"
        /\ pc'[q] = "dispatch" => pc[q] = "dispatch"
    <3>1. PICK position \in {"decrypt", "rollback", "commit"} :
             /\ pc' = [pc EXCEPT ![r] = position]
             /\ position = "rollback" => job[r].channel = "web"
      BY <2>1
    <3>2. pc'[q] = IF q = r THEN position ELSE pc[q]
      BY <3>1 DEF TypeOK
    <3> QED BY <3>1, <3>2
  <2> QED BY <2>1, <2>2 DEF RequestStep
<1>3. ASSUME NEW r \in Requests,
             \/ Decrypt(r) \/ DecryptFails(r) \/ FindDuplicate(r)
             \/ DispatchUnknown(r) \/ MarkExecuted(r)
      PROVE  RequestStep(q)
  <2>1. CASE Decrypt(r)
    BY <2>1 DEF Decrypt, Goto, RequestStep, TypeOK
  <2>2. CASE FindDuplicate(r)
    BY <2>2 DEF FindDuplicate, MarkFailed, Goto, RequestStep, TypeOK
  <2>3. CASE DecryptFails(r) \/ DispatchUnknown(r) \/ MarkExecuted(r)
    BY <2>3 DEF DecryptFails, DispatchUnknown, MarkExecuted, MarkFailed, Goto,
                RequestStep, TypeOK
  <2> QED BY <1>3, <2>1, <2>2, <2>3
<1>4. ASSUME NEW r \in Requests, DispatchRaises(r) \/ DispatchReturns(r)
      PROVE  RequestStep(q)
  BY <1>4 DEF DispatchRaises, DispatchReturns, Perform, MarkFailed, Goto,
              RequestStep, TypeOK
<1>5. ASSUME NEW r \in Requests, Rollback(r) \/ MarkConflict(r) \/ Fault(r)
      PROVE  RequestStep(q)
  BY <1>5 DEF Rollback, MarkConflict, Fault, Undo, Release, Goto, RequestStep,
              TypeOK, Events
<1>6. ASSUME NEW r \in Requests, Commit(r) PROVE RequestStep(q)
  <2>1. /\ job' = job
        /\ pc' = [pc EXCEPT ![r] = "done"]
        /\ performed' = [performed EXCEPT ![r] = FALSE]
        /\ reply' = [reply EXCEPT ![r] = Answer(r)]
    BY <1>6 DEF Commit, Release, Goto
  <2> QED BY <1>6, <2>1 DEF RequestStep, TypeOK
<1>7. ASSUME NEW r \in Requests, AnswerFirst(r) PROVE RequestStep(q)
  BY <1>7 DEF AnswerFirst, RequestStep, TypeOK
<1>8. CASE \/ Environment \/ Terminating \/ UNCHANGED vars
  BY <1>8 DEF Environment, Propose, CommitProposal, DropProposal, SweepExpired,
              Tick, Terminating, vars, RequestStep
<1> QED BY <1>1, <1>2, <1>3, <1>4, <1>5, <1>6, <1>7, <1>8
        DEF Next, Handle, ConfirmStep, CancelStep, EndStep

-----------------------------------------------------------------------------
(* Telegram commits before it answers. *)

AnswersInv ==
    /\ TelegramAnswerRecorded
    /\ \A r \in Requests : pc[r] = "rollback" => job[r].channel = "web"

\* The last audit row of a transaction is its own, and a Telegram answer names
\* its event.
LEMMA CommitRecords ==
    ASSUME IInv, NEW r \in Requests, Commit(r), job[r].channel = "telegram"
    PROVE  Recorded(r)'
<1> DEFINE t == TenantOf(r)
           s == chain[t]
           e == entries[r]
           n == Len(e)
<1>1. CommitTrail(r) /\ e \in Seq(Entries) /\ s \in Seq(Entries)
      /\ t \in Tenants /\ e # << >>
  BY CommitEntries, TrailContinues, JobType DEF Commit, IInv, TypeOK
<1>2. /\ t' = t /\ chain' = [chain EXCEPT ![t] = s \o e]
      /\ reply'[r] = e[n].event
  BY DEF Commit, Answer, TenantOf, IInv, TypeOK
<1>3. write[r] \in {"none", "cancelled", "expired", "executed", "failed"}
  BY CommitRow
<1>4. e[n].by = r
  <2>1. \A x, m : Line(r, x, m).by = r
    BY DEF Line
  <2>2. \/ \E x, m : e = << Line(r, x, m) >>
        \/ \E x, m, y, k : e = << Line(r, x, m), Line(r, y, k) >>
    BY <1>1, <1>3 DEF CommitTrail, ConfirmedLine, OutcomeLine
  <2>3. CASE \E x, m : e = << Line(r, x, m) >>
    <3>1. PICK x, m : e = << Line(r, x, m) >>
      BY <2>3
    <3> DEFINE line == Line(r, x, m)
    <3>2. line.by = r
      BY <2>1
    <3> HIDE DEF line
    <3>3. e = << line >>
      BY <3>1 DEF line
    <3> QED BY <3>2, <3>3
  <2>4. CASE \E x, m, y, k : e = << Line(r, x, m), Line(r, y, k) >>
    <3>1. PICK x, m, y, k : e = << Line(r, x, m), Line(r, y, k) >>
      BY <2>4
    <3> DEFINE first == Line(r, x, m)
               line == Line(r, y, k)
    <3>2. line.by = r
      BY <2>1
    <3> HIDE DEF first, line
    <3>3. e = << first, line >>
      BY <3>1 DEF first, line
    <3> QED BY <3>2, <3>3
  <2> QED BY <2>2, <2>3, <2>4
<1>5. chain'[t] = s \o e
  BY <1>1, <1>2 DEF IInv, TypeOK
<1> HIDE DEF t, s, e
<1>6. /\ s \o e \in Seq(Entries) /\ Len(s \o e) = Len(s) + n
      /\ \A i \in 1..Len(s) + n :
            (s \o e)[i] = IF i <= Len(s) THEN s[i] ELSE e[i - Len(s)]
  BY <1>1, ConcatProperties
<1>7. /\ Len(s) \in Nat /\ n \in Nat \ {0}
      /\ DOMAIN (s \o e) = 1..Len(s \o e)
  BY <1>1, <1>6, LenProperties, EmptySeq
<1> HIDE DEF n
<1> DEFINE last == Len(s) + n
<1>8. last \in DOMAIN (s \o e) /\ (s \o e)[last] = e[n]
  <2>1. last \in 1..Len(s) + n /\ ~(last <= Len(s)) /\ last - Len(s) = n
    BY <1>7
  <2> QED BY <1>6, <1>7, <2>1
<1> HIDE DEF last
<1>9. /\ last \in DOMAIN chain'[t'] /\ chain'[t'][last].by = r
      /\ chain'[t'][last].event = reply'[r]
  BY <1>2, <1>4, <1>5, <1>8
<1> QED BY <1>9 DEF Recorded, t

\* No step takes a row out of a chain.
LEMMA CommittedRowsStay ==
    ASSUME IInv, [Next]_vars, NEW t \in Tenants, NEW i \in DOMAIN chain[t]
    PROVE  i \in DOMAIN chain'[t] /\ chain'[t][i] = chain[t][i]
<1>1. ASSUME NEW r \in Requests, Commit(r), t = TenantOf(r)
      PROVE  i \in DOMAIN chain'[t] /\ chain'[t][i] = chain[t][i]
  <2> DEFINE s == chain[t]
             e == entries[r]
  <2>1. chain'[t] = s \o e /\ s \in Seq(Entries) /\ e \in Seq(Entries)
    BY <1>1, CommitRow DEF IInv, TypeOK
  <2> HIDE DEF s, e
  <2>2. /\ s \o e \in Seq(Entries) /\ Len(s \o e) = Len(s) + Len(e)
        /\ \A j \in 1..Len(s) + Len(e) :
              (s \o e)[j] = IF j <= Len(s) THEN s[j] ELSE e[j - Len(s)]
    BY <2>1, ConcatProperties
  <2>3. /\ Len(s) \in Nat /\ Len(e) \in Nat /\ DOMAIN s = 1..Len(s)
        /\ DOMAIN (s \o e) = 1..Len(s \o e)
    BY <2>1, <2>2, LenProperties
  <2>4. i \in DOMAIN s
    BY DEF s
  <2>5. i \in 1..Len(s) + Len(e) /\ i <= Len(s)
    BY <2>3, <2>4
  <2> QED BY <2>1, <2>2, <2>3, <2>5 DEF s
<1>2. ASSUME NEW r \in Requests, Commit(r), t # TenantOf(r)
      PROVE  chain'[t] = chain[t]
  BY <1>2, CommitRow, JobType DEF IInv, TypeOK
<1>3. ASSUME ~ \E r \in Requests : Commit(r) PROVE chain' = chain
  BY <1>3, VisibleSteps
     DEF CommitProposal, SweepExpired, DispatchRaises, DispatchReturns, MarkFailed
<1> QED BY <1>1, <1>2, <1>3

LEMMA AnswersHold ==
    ASSUME IInv, AnswersInv, [Next]_vars PROVE AnswersInv'
<1>1. \A q \in Requests : RequestStep(q)
  BY RequestSteps DEF IInv
<1>2. \A r \in Requests : (pc[r] = "rollback" => job[r].channel = "web")'
  BY <1>1 DEF RequestStep, AnswersInv
<1>3. TelegramAnswerRecorded'
  <2> SUFFICES ASSUME NEW r \in Requests, job'[r].channel = "telegram",
                      reply'[r] \in Events
               PROVE  Recorded(r)'
    BY DEF TelegramAnswerRecorded
  <2>1. job[r].channel = "telegram" /\ RequestStep(r) /\ job' = job
    BY <1>1 DEF RequestStep
  <2>2. CASE Commit(r)
    BY <2>1, <2>2, CommitRecords
  <2>3. CASE reply'[r] = reply[r]
    <3>1. Recorded(r)
      BY <2>1, <2>3 DEF AnswersInv, TelegramAnswerRecorded
    <3>2. TenantOf(r)' = TenantOf(r) /\ TenantOf(r) \in Tenants
      BY <2>1, JobType DEF TenantOf, IInv
    <3>3. PICK i \in DOMAIN chain[TenantOf(r)] :
             /\ chain[TenantOf(r)][i].by = r
             /\ chain[TenantOf(r)][i].event = reply[r]
      BY <3>1 DEF Recorded
    <3>4. i \in DOMAIN chain'[TenantOf(r)]
          /\ chain'[TenantOf(r)][i] = chain[TenantOf(r)][i]
      BY <3>2, CommittedRowsStay
    <3> QED BY <2>3, <3>2, <3>3, <3>4 DEF Recorded
  <2> QED BY <2>1, <2>2, <2>3 DEF RequestStep, AnswersInv
<1> QED BY <1>2, <1>3 DEF AnswersInv

\* Whatever outcome a Telegram user is told is in the tenant's chain, in a row
\* of that very request.
THEOREM TelegramAnswersRecorded == Spec => []TelegramAnswerRecorded
<1>1. Init => AnswersInv
  BY DEF Init, AnswersInv, TelegramAnswerRecorded, Events
<1>2. IInv /\ AnswersInv /\ [Next]_vars => AnswersInv'
  BY AnswersHold
<1>3. AnswersInv => TelegramAnswerRecorded
  BY DEF AnswersInv
<1> QED BY <1>1, <1>2, <1>3, Invariance, PTL DEF Spec

-----------------------------------------------------------------------------
(* The duplicate check of the web route is not a race. *)

Unduplicated ==
    \A r \in Requests :
        pc[r] = "dispatch" /\ job[r].channel = "web" => ~ExecutedTwin(r)

\* A transaction that commits an execution holds the advisory lock of the
\* tenant, which a request that is about to dispatch holds too.
LEMMA NoTwinAppears ==
    ASSUME IInv, [Next]_vars, NEW r \in Requests, pc'[r] = "dispatch",
           ~ExecutedTwin(r)
    PROVE  ~ExecutedTwin(r)'
<1>1. ActionOf(r)' = ActionOf(r)
  BY RequestSteps DEF IInv, RequestStep, ActionOf
<1> SUFFICES ASSUME NEW a \in Actions, SameKey(a, ActionOf(r)),
                    status'[a] = "executed", status[a] # "executed"
             PROVE  FALSE
  BY <1>1 DEF ExecutedTwin, SameKey
<1>2. PICK q \in Requests : Commit(q)
  <2>1. ASSUME NEW b \in Actions, CommitProposal(b) PROVE FALSE
    BY <2>1 DEF CommitProposal, IInv, TypeOK
  <2>2. ASSUME SweepExpired PROVE FALSE
    BY <2>2 DEF SweepExpired
  <2>3. ASSUME NEW q \in Requests, DispatchRaises(q) \/ DispatchReturns(q)
        PROVE FALSE
    BY <2>3 DEF DispatchRaises, DispatchReturns, MarkFailed, rows
  <2> QED BY <2>1, <2>2, <2>3, VisibleSteps
<1>3. a = ActionOf(q) /\ OwnerOf[a] = TenantOf(q)
  BY <1>2, CommitRow, JobType DEF IInv, TypeOK
<1>4. pc[q] = "commit" /\ pc'[q] = "done" /\ q # r /\ pc[r] = "dispatch"
  BY <1>2 DEF Commit, Release, Goto, IInv, TypeOK
<1>5. chainLock[TenantOf(q)] = q
  BY <1>4, CommitEntries DEF IInv, RequestInv
<1>6. chainLock[TenantOf(r)] = r /\ OwnerOf[ActionOf(r)] = TenantOf(r)
  BY <1>4, ShortSequences DEF IInv, RequestInv, TrailAt, Confirmed, RowAt
<1> QED BY <1>3, <1>4, <1>5, <1>6 DEF SameKey

LEMMA UnduplicatedHolds ==
    ASSUME IInv, Unduplicated, [Next]_vars PROVE Unduplicated'
<1> SUFFICES ASSUME NEW r \in Requests, pc'[r] = "dispatch",
                    job'[r].channel = "web"
             PROVE  ~ExecutedTwin(r)'
  BY DEF Unduplicated
<1>1. job' = job /\ RequestStep(r)
  BY RequestSteps DEF IInv, RequestStep
<1>2. ~ExecutedTwin(r)
  BY <1>1 DEF RequestStep, Unduplicated
<1> QED BY <1>2, NoTwinAppears

\* The web route never runs an action while one of the same tenant with the
\* same idempotency key is executed.
THEOREM WebNeverReplays == Spec => WebReplays
<1>1. Init => Unduplicated
  BY DEF Init, Unduplicated
<1>2. IInv /\ Unduplicated /\ [Next]_vars => Unduplicated'
  BY UnduplicatedHolds
<1>3. IInv /\ Unduplicated /\ [Next]_vars =>
        [\A r \in Requests :
            /\ job[r].channel = "web"
            /\ ~performed[r] /\ performed'[r]
            => ~ExecutedTwin(r)]_vars
  <2>1. ASSUME IInv, Unduplicated, [Next]_vars, NEW r \in Requests,
               job[r].channel = "web", ~performed[r], performed'[r]
        PROVE  ~ExecutedTwin(r)
    BY <2>1, RequestSteps DEF IInv, RequestStep, Unduplicated
  <2> QED BY <2>1
<1> QED BY <1>1, <1>2, <1>3, Invariance, PTL DEF Spec, WebReplays

-----------------------------------------------------------------------------
(* AuditChain: as long as the clocks of the app servers agree, the chain    *)
(* that the gate's transactions write always verifies, and only grows at    *)
(* its end.  The gate's AuditWrite is its Acquire, ReadLatest and Insert in *)
(* one step.                                                                *)

\* Whoever is past the lock, or has rows to commit, holds it.
LockHeld ==
    \A w \in Writers :
        stage[w] \in {"locked", "read", "written"} \/ unsaved[w] # {}
            => holder[tenantOf[w]] = w

\* No transaction is open between two requests.
IdleIsEmpty == \A w \in Writers : stage[w] = "idle" => unsaved[w] = {}

\* No row is stamped in the future.
StampsPast ==
    /\ \A t \in TenantIds : \A x \in logged[t] : x.at <= clock
    /\ \A w \in Writers : \A x \in unsaved[w] : x.at <= clock

\* A writer's rows follow all that is committed.
BufferFollows ==
    \A w \in Writers : \A x \in logged[tenantOf[w]], y \in unsaved[w] :
        Before(x, y)

\* A chain in the making has a last row: only then does the CHOOSE of
\* LatestHash pick one.
HasLatest(S) == S = {} \/ \E x \in S : \A y \in S \ {x} : Before(y, x)
ChainsHaveLatest ==
    /\ \A t \in TenantIds : HasLatest(logged[t])
    /\ \A w \in Writers : HasLatest(Visible(w))

\* What a writer sees is a correct chain, and it has read its last hash.
VisibleVerifies == \A w \in Writers : Verifies(Visible(w))
PrevIsLatest ==
    \A w \in Writers : stage[w] = "read" => lastHash[w] = LatestHash(Visible(w))

\* The inductive invariant.
ChainInv ==
    /\ ChainTypeOK
    /\ LockHeld
    /\ IdleIsEmpty
    /\ StampsPast
    /\ BufferFollows
    /\ ChainsHaveLatest
    /\ ChainVerifies
    /\ VisibleVerifies
    /\ PrevIsLatest

-----------------------------------------------------------------------------
\* A chain extended by a later row that names its last hash is a chain.
LEMMA ExtendChain ==
    ASSUME NEW S \in SUBSET Row, NEW x \in Row,
           Verifies(S),
           \A y \in S : y.at < x.at,
           x.prev = LatestHash(S)
    PROVE  Verifies(S \cup {x})
<1> DEFINE T == S \cup {x}
<1>1. ASSUME NEW y \in S
      PROVE  {z \in T : Before(z, y)} = {z \in S : Before(z, y)}
  <2>1. ~Before(x, y)
    BY IdAssumption DEF Before, Row
  <2> QED BY <2>1
<1>2. {z \in T : Before(z, x)} = S
  <2>1. x.at \in Nat /\ x.id \in Nat
    BY IdAssumption DEF Row
  <2>2. ~Before(x, x)
    BY <2>1 DEF Before
  <2>3. \A y \in S : Before(y, x)
    BY DEF Before
  <2> QED BY <2>2, <2>3
<1>3. ASSUME NEW y \in S
      PROVE  y.prev = LatestHash({z \in T : Before(z, y)})
  BY <1>1 DEF Verifies
<1>4. x.prev = LatestHash({z \in T : Before(z, x)})
  BY <1>2
<1> QED BY <1>3, <1>4 DEF Verifies

\* The hash of such a set is an id or genesis.
LEMMA LatestHashType ==
    ASSUME NEW S \in SUBSET Row, HasLatest(S)
    PROVE  LatestHash(S) \in Ids \cup {Genesis}
<1>1. CASE S = {}
  BY <1>1 DEF LatestHash
<1>2. CASE S # {}
  <2>1. (CHOOSE x \in S : \A y \in S \ {x} : Before(y, x)) \in S
    BY <1>2 DEF HasLatest
  <2> QED BY <1>2, <2>1 DEF LatestHash, Row
<1> QED BY <1>1, <1>2

-----------------------------------------------------------------------------
LEMMA ChainInitHolds == ChainInit => ChainInv
<1> SUFFICES ASSUME ChainInit PROVE ChainInv
  OBVIOUS
<1>1. ChainTypeOK
  BY SkewAssumption DEF ChainInit, ChainTypeOK
<1>2. \A w \in Writers : Visible(w) = {}
  BY DEF ChainInit, Visible
<1>3. Verifies({}) /\ HasLatest({})
  BY DEF Verifies, HasLatest
<1>4. ChainVerifies /\ VisibleVerifies /\ ChainsHaveLatest
  BY <1>2, <1>3 DEF ChainInit, ChainVerifies, VisibleVerifies, ChainsHaveLatest
<1> QED BY <1>1, <1>4
         DEF ChainInv, ChainInit, LockHeld, IdleIsEmpty, StampsPast,
             BufferFollows,
             PrevIsLatest

\* Steps that touch neither rows nor buffers leave what is said about them.
LEMMA BeginHolds ==
    ASSUME ChainInv, NEW w \in Writers, Begin(w) PROVE ChainInv'
<1>1. PICK t \in TenantIds : tenantOf' = [tenantOf EXCEPT ![w] = t]
  BY DEF Begin
<1>2. unsaved[w] = {} /\ stage'[w] = "waiting"
  BY DEF ChainInv, IdleIsEmpty, Begin, ChainTypeOK
<1>3. tenantOf'[w] = t /\ \A q \in Writers \ {w} : tenantOf'[q] = tenantOf[q]
  BY <1>1 DEF ChainInv, ChainTypeOK
<1>4. Visible(w)' = logged[t]
  BY <1>2, <1>3 DEF Visible, Begin
<1>5. \A q \in Writers \ {w} : Visible(q)' = Visible(q)
  BY <1>3 DEF Visible, Begin
<1>6. ChainTypeOK'
  BY <1>1 DEF ChainInv, ChainTypeOK, Begin
<1>7. LockHeld' /\ IdleIsEmpty' /\ StampsPast' /\ BufferFollows'
  BY <1>2, <1>3 DEF ChainInv, ChainTypeOK, LockHeld, IdleIsEmpty, StampsPast,
                    BufferFollows, Begin
<1>8. ChainsHaveLatest' /\ ChainVerifies' /\ VisibleVerifies'
  <2>1. UNCHANGED logged
    BY DEF Begin
  <2>2. \A q \in Writers : Visible(q)' = Visible(q) \/ Visible(q)' = logged[t]
    BY <1>4, <1>5
  <2> QED BY <2>1, <2>2 DEF ChainInv, ChainsHaveLatest, ChainVerifies,
                            VisibleVerifies
<1>9. PrevIsLatest'
  BY <1>2, <1>5 DEF ChainInv, ChainTypeOK, PrevIsLatest, Begin
<1> QED BY <1>6, <1>7, <1>8, <1>9 DEF ChainInv

LEMMA AcquireHolds ==
    ASSUME ChainInv, NEW w \in Writers, Acquire(w) PROVE ChainInv'
<1>1. \A q \in Writers : Visible(q)' = Visible(q)
  BY DEF Visible, Acquire
<1>2. ChainTypeOK'
  BY DEF ChainInv, ChainTypeOK, Acquire
<1>3. LockHeld'
  BY WriterAssumption DEF ChainInv, ChainTypeOK, LockHeld, Acquire
<1>4. IdleIsEmpty' /\ StampsPast' /\ BufferFollows'
  BY DEF ChainInv, ChainTypeOK, IdleIsEmpty, StampsPast, BufferFollows, Acquire
<1>5. ChainsHaveLatest' /\ ChainVerifies' /\ VisibleVerifies'
  BY <1>1 DEF ChainInv, ChainsHaveLatest, ChainVerifies, VisibleVerifies,
              Acquire
<1>6. PrevIsLatest'
  BY <1>1 DEF ChainInv, ChainTypeOK, PrevIsLatest, Acquire
<1> QED BY <1>2, <1>3, <1>4, <1>5, <1>6 DEF ChainInv

LEMMA ReadLatestHolds ==
    ASSUME ChainInv, NEW w \in Writers, ReadLatest(w) PROVE ChainInv'
<1>1. \A q \in Writers : Visible(q)' = Visible(q)
  BY DEF Visible, ReadLatest
<1>2. ChainTypeOK'
  <2>1. Visible(w) \in SUBSET Row /\ HasLatest(Visible(w))
    BY DEF ChainInv, ChainTypeOK, Visible, ChainsHaveLatest
  <2>2. LatestHash(Visible(w)) \in Ids \cup {Genesis}
    BY <2>1, LatestHashType
  <2> QED BY <2>2 DEF ChainInv, ChainTypeOK, ReadLatest
<1>3. LockHeld' /\ IdleIsEmpty' /\ StampsPast' /\ BufferFollows'
  BY DEF ChainInv, ChainTypeOK, LockHeld, IdleIsEmpty, StampsPast,
         BufferFollows,
         ReadLatest
<1>4. ChainsHaveLatest' /\ ChainVerifies' /\ VisibleVerifies'
  BY <1>1 DEF ChainInv, ChainsHaveLatest, ChainVerifies, VisibleVerifies,
              ReadLatest
<1>5. PrevIsLatest'
  BY <1>1 DEF ChainInv, ChainTypeOK, PrevIsLatest, ReadLatest
<1> QED BY <1>2, <1>3, <1>4, <1>5 DEF ChainInv

LEMMA WriteAgainHolds ==
    ASSUME ChainInv, NEW w \in Writers, WriteAgain(w) PROVE ChainInv'
<1>1. \A q \in Writers : Visible(q)' = Visible(q)
  BY DEF Visible, WriteAgain
<1>2. ChainTypeOK'
  BY DEF ChainInv, ChainTypeOK, WriteAgain
<1>3. LockHeld' /\ IdleIsEmpty' /\ StampsPast' /\ BufferFollows'
  BY DEF ChainInv, ChainTypeOK, LockHeld, IdleIsEmpty, StampsPast,
         BufferFollows,
         WriteAgain
<1>4. ChainsHaveLatest' /\ ChainVerifies' /\ VisibleVerifies'
  BY <1>1 DEF ChainInv, ChainsHaveLatest, ChainVerifies, VisibleVerifies,
              WriteAgain
<1>5. PrevIsLatest'
  BY <1>1 DEF ChainInv, ChainTypeOK, PrevIsLatest, WriteAgain
<1> QED BY <1>2, <1>3, <1>4, <1>5 DEF ChainInv

\* The new row is stamped after every row in sight: the clocks agree.
LEMMA InsertHolds ==
    ASSUME ChainInv, NEW w \in Writers, Insert(w), MaxSkew = 0 PROVE ChainInv'
<1>1. PICK id \in Ids \ UsedIds :
        unsaved' = [unsaved EXCEPT ![w] =
                     @ \cup {[id |-> id, at |-> clock' + ahead[w],
                              prev |-> lastHash[w]]}]
  BY DEF Insert
<1> DEFINE x == [id |-> id, at |-> clock + 1, prev |-> lastHash[w]]
<1>2. clock' = clock + 1 /\ clock \in Nat /\ ahead[w] = 0
  BY DEF Insert, ChainInv, ChainTypeOK
<1>3. /\ unsaved'[w] = unsaved[w] \cup {x}
      /\ \A q \in Writers \ {w} : unsaved'[q] = unsaved[q]
  BY <1>1, <1>2 DEF ChainInv, ChainTypeOK
<1>4. x \in Row
  BY <1>2 DEF ChainInv, ChainTypeOK, Row
<1>5. /\ Visible(w)' = Visible(w) \cup {x}
      /\ \A q \in Writers \ {w} : Visible(q)' = Visible(q)
  BY <1>3 DEF Visible, Insert
<1>6. Visible(w) \in SUBSET Row
  BY DEF ChainInv, ChainTypeOK, Visible
<1>7. \A y \in Visible(w) : y.at < x.at
  <2>1. \A y \in Visible(w) : y.at <= clock /\ y.at \in Nat
    BY <1>6 DEF ChainInv, ChainTypeOK, StampsPast, Visible, Row
  <2> QED BY <1>2, <2>1
<1>8. x.prev = LatestHash(Visible(w))
  BY DEF Insert, ChainInv, PrevIsLatest
<1>9. ChainTypeOK'
  BY <1>2, <1>3, <1>4, <1>1 DEF ChainInv, ChainTypeOK, Insert
<1>10. LockHeld' /\ IdleIsEmpty'
  BY <1>3 DEF ChainInv, ChainTypeOK, LockHeld, IdleIsEmpty, Insert
<1>11. StampsPast'
  <2>1. \A t \in TenantIds : \A y \in logged[t] : y.at <= clock' /\ y.at \in Nat
    BY <1>2 DEF ChainInv, ChainTypeOK, StampsPast, Row
  <2>2. \A q \in Writers : \A y \in unsaved[q] : y.at <= clock' /\ y.at \in Nat
    BY <1>2 DEF ChainInv, ChainTypeOK, StampsPast, Row
  <2>3. x.at <= clock'
    BY <1>2
  <2> QED BY <2>1, <2>2, <2>3, <1>3 DEF StampsPast, Insert
<1>12. BufferFollows'
  <2>1. \A y \in logged[tenantOf[w]] : Before(y, x)
    BY <1>7 DEF Before, Visible
  <2> QED BY <1>3, <2>1 DEF ChainInv, ChainTypeOK, BufferFollows, Insert
<1>13. ChainsHaveLatest'
  <2>1. HasLatest(Visible(w) \cup {x})
    BY <1>7 DEF HasLatest, Before
  <2> QED BY <1>5, <2>1 DEF ChainInv, ChainsHaveLatest, Insert
<1>14. ChainVerifies' /\ VisibleVerifies'
  <2>1. Verifies(Visible(w) \cup {x})
    BY <1>4, <1>6, <1>7, <1>8, ExtendChain DEF ChainInv, VisibleVerifies
  <2> QED BY <1>5, <2>1 DEF ChainInv, ChainVerifies, VisibleVerifies, Insert
<1>15. PrevIsLatest'
  BY <1>5 DEF ChainInv, ChainTypeOK, PrevIsLatest, Insert
<1> QED BY <1>9, <1>10, <1>11, <1>12, <1>13, <1>14, <1>15 DEF ChainInv

\* A transaction that ends frees its own lock, and drops its rows.
LEMMA ReleaseLockHolds ==
    ASSUME ChainInv, NEW w \in Writers, ReleaseLock(w),
           UNCHANGED << tenantOf, ahead, clock >>,
           logged' \in [TenantIds -> SUBSET Row]
    PROVE  /\ ChainTypeOK'
           /\ LockHeld'
           /\ IdleIsEmpty'
           /\ unsaved'[w] = {}
           /\ \A q \in Writers \ {w} : unsaved'[q] = unsaved[q]
           /\ stage'[w] = "idle"
           /\ \A q \in Writers \ {w} :
                 stage'[q] = stage[q] /\ lastHash'[q] = lastHash[q]
<1>1. ChainTypeOK'
  BY DEF ChainInv, ChainTypeOK, ReleaseLock
<1>2. /\ unsaved'[w] = {} /\ \A q \in Writers \ {w} : unsaved'[q] = unsaved[q]
      /\ stage'[w] = "idle"
      /\ \A q \in Writers \ {w} :
            stage'[q] = stage[q] /\ lastHash'[q] = lastHash[q]
  BY DEF ChainInv, ChainTypeOK, ReleaseLock
<1>3. LockHeld'
  BY <1>2 DEF ChainInv, ChainTypeOK, LockHeld, ReleaseLock
<1>4. IdleIsEmpty'
  BY <1>2 DEF ChainInv, IdleIsEmpty
<1> QED BY <1>1, <1>2, <1>3, <1>4

LEMMA CommitRowsHolds ==
    ASSUME ChainInv, NEW w \in Writers, CommitRows(w) PROVE ChainInv'
<1> DEFINE t == tenantOf[w]
<1>1. t \in TenantIds
  BY DEF ChainInv, ChainTypeOK
<1>2. logged' = [logged EXCEPT ![t] = Visible(w)]
  BY DEF CommitRows, Visible
<1>3. /\ logged'[t] = Visible(w)
      /\ \A u \in TenantIds \ {t} : logged'[u] = logged[u]
      /\ logged' \in [TenantIds -> SUBSET Row]
  BY <1>1, <1>2 DEF ChainInv, ChainTypeOK, Visible
<1>4. /\ ChainTypeOK' /\ LockHeld' /\ IdleIsEmpty'
      /\ unsaved'[w] = {} /\ \A q \in Writers \ {w} : unsaved'[q] = unsaved[q]
      /\ stage'[w] = "idle"
      /\ \A q \in Writers \ {w} :
            stage'[q] = stage[q] /\ lastHash'[q] = lastHash[q]
  BY <1>3, ReleaseLockHolds DEF CommitRows
<1>5. UNCHANGED << tenantOf, ahead, clock >>
  BY DEF CommitRows
<1>6. holder[t] = w
  BY DEF CommitRows, ChainInv, LockHeld
<1>7. ASSUME NEW q \in Writers \ {w}, tenantOf[q] = t
      PROVE  unsaved[q] = {} /\ stage[q] # "read"
  BY <1>6, <1>7 DEF ChainInv, LockHeld
<1>8. Visible(w)' = Visible(w)
  BY <1>3, <1>4, <1>5 DEF Visible
<1>9. ASSUME NEW q \in Writers \ {w}
      PROVE  Visible(q)' = IF tenantOf[q] = t THEN Visible(w) ELSE Visible(q)
  BY <1>3, <1>4, <1>5, <1>7 DEF Visible, ChainInv, ChainTypeOK
<1>10. StampsPast'
  <2>1. \A x \in Visible(w) : x.at <= clock
    BY <1>1 DEF ChainInv, StampsPast, Visible
  <2> QED BY <2>1, <1>3, <1>4, <1>5 DEF ChainInv, StampsPast
<1>11. BufferFollows'
  BY <1>3, <1>4, <1>5, <1>7 DEF ChainInv, ChainTypeOK, BufferFollows
<1>12. ChainsHaveLatest' /\ ChainVerifies' /\ VisibleVerifies'
  <2>1. HasLatest(Visible(w)) /\ Verifies(Visible(w))
    BY DEF ChainInv, ChainsHaveLatest, VisibleVerifies
  <2>2. \A q \in Writers : Visible(q)' \in {Visible(w), Visible(q)}
    BY <1>8, <1>9
  <2>3. \A q \in Writers : HasLatest(Visible(q)') /\ Verifies(Visible(q)')
    BY <2>1, <2>2 DEF ChainInv, ChainsHaveLatest, VisibleVerifies
  <2>4. \A u \in TenantIds : HasLatest(logged'[u]) /\ Verifies(logged'[u])
    BY <2>1, <1>3 DEF ChainInv, ChainsHaveLatest, ChainVerifies
  <2> QED BY <2>3, <2>4 DEF ChainsHaveLatest, ChainVerifies, VisibleVerifies
<1>13. PrevIsLatest'
  BY <1>4, <1>7, <1>9 DEF ChainInv, PrevIsLatest
<1> QED BY <1>4, <1>10, <1>11, <1>12, <1>13 DEF ChainInv

LEMMA AbortHolds ==
    ASSUME ChainInv, NEW w \in Writers, Abort(w) PROVE ChainInv'
<1>1. /\ ChainTypeOK' /\ LockHeld' /\ IdleIsEmpty'
      /\ unsaved'[w] = {} /\ \A q \in Writers \ {w} : unsaved'[q] = unsaved[q]
      /\ stage'[w] = "idle"
      /\ \A q \in Writers \ {w} :
            stage'[q] = stage[q] /\ lastHash'[q] = lastHash[q]
  BY ReleaseLockHolds DEF Abort, ChainInv, ChainTypeOK
<1>2. UNCHANGED << logged, tenantOf, ahead, clock >>
  BY DEF Abort
<1>3. Visible(w)' = logged[tenantOf[w]]
  BY <1>1, <1>2 DEF Visible
<1>4. \A q \in Writers \ {w} : Visible(q)' = Visible(q)
  BY <1>1, <1>2 DEF Visible
<1>5. StampsPast' /\ BufferFollows'
  BY <1>1, <1>2 DEF ChainInv, StampsPast, BufferFollows
<1>6. ChainsHaveLatest' /\ ChainVerifies' /\ VisibleVerifies'
  <2>1. tenantOf[w] \in TenantIds
    BY DEF ChainInv, ChainTypeOK
  <2> QED BY <2>1, <1>2, <1>3, <1>4
          DEF ChainInv, ChainsHaveLatest, ChainVerifies, VisibleVerifies
<1>7. PrevIsLatest'
  BY <1>1, <1>4 DEF ChainInv, PrevIsLatest
<1> QED BY <1>1, <1>5, <1>6, <1>7 DEF ChainInv

LEMMA ChainStutterHolds == ChainInv /\ UNCHANGED chainVars => ChainInv'
<1> SUFFICES ASSUME ChainInv, UNCHANGED chainVars PROVE ChainInv'
  OBVIOUS
<1>1. \A w \in Writers : Visible(w)' = Visible(w)
  BY DEF chainVars, Visible
<1> QED BY <1>1 DEF chainVars, ChainInv, ChainTypeOK, LockHeld, IdleIsEmpty,
                    StampsPast,
               BufferFollows, ChainsHaveLatest, ChainVerifies, VisibleVerifies,
               PrevIsLatest

-----------------------------------------------------------------------------
LEMMA ChainNextHolds ==
    ASSUME MaxSkew = 0 PROVE ChainInv /\ [ChainNext]_chainVars => ChainInv'
<1> SUFFICES ASSUME ChainInv, [ChainNext]_chainVars PROVE ChainInv'
  OBVIOUS
<1>1. CASE UNCHANGED chainVars
  BY <1>1, ChainStutterHolds
<1>2. CASE ChainNext
  BY <1>2, BeginHolds, AcquireHolds, ReadLatestHolds, InsertHolds,
     WriteAgainHolds, CommitRowsHolds, AbortHolds DEF ChainNext
<1> QED BY <1>1, <1>2

\* With one clock, the inductive invariant holds of every behaviour.
THEOREM ChainInvariance == ASSUME MaxSkew = 0 PROVE ChainSpec => []ChainInv
<1>1. ChainInit => ChainInv
  BY ChainInitHolds
<1>2. ChainInv /\ [ChainNext]_chainVars => ChainInv'
  BY ChainNextHolds
<1> QED BY <1>1, <1>2, PTL DEF ChainSpec

\* With one clock, verify_chain never reports a chain that the writers of
\* AuditChainWriter.write produced, and every variable keeps its type.
THEOREM ChainAlwaysVerifies ==
    ASSUME MaxSkew = 0 PROVE ChainSpec => [](ChainTypeOK /\ ChainVerifies)
<1>1. ChainInv => ChainTypeOK /\ ChainVerifies
  BY DEF ChainInv
<1> QED BY <1>1, ChainInvariance, PTL

\* With one clock, rows are only ever added behind the committed ones.
THEOREM ChainOnlyGrows == ASSUME MaxSkew = 0 PROVE ChainSpec => ChainGrows
<1> DEFINE Grows == \A t \in TenantIds :
                       /\ logged[t] \subseteq logged'[t]
                       /\ \A x \in logged[t], y \in logged'[t] \ logged[t] :
                             Before(x, y)
<1>1. ChainInv /\ [ChainNext]_chainVars => [Grows]_chainVars
  <2> SUFFICES ASSUME ChainInv, ChainNext PROVE Grows
    BY DEF chainVars
  <2>1. CASE UNCHANGED logged
    BY <2>1
  <2>2. ASSUME NEW w \in Writers, CommitRows(w) PROVE Grows
    <3>1. tenantOf[w] \in TenantIds
      BY DEF ChainInv, ChainTypeOK
    <3>2. /\ logged'[tenantOf[w]] = logged[tenantOf[w]] \cup unsaved[w]
          /\ \A t \in TenantIds \ {tenantOf[w]} : logged'[t] = logged[t]
      BY <2>2, <3>1 DEF CommitRows, ChainInv, ChainTypeOK
    <3> QED BY <3>1, <3>2 DEF ChainInv, BufferFollows
  <2> QED BY <2>1, <2>2
          DEF ChainNext, Begin, Acquire, ReadLatest, Insert, WriteAgain, Abort
<1> QED BY <1>1, ChainInvariance, PTL DEF ChainSpec, ChainGrows

=============================================================================
