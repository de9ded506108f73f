--------------------------- MODULE ChatTurns_proofs ---------------------------
(***************************************************************************)
(* ChatTurns for any number of turns, clears and rounds: types, how turns  *)
(* are numbered, what is stored and cleared together, and by how much the  *)
(* day's budget is passed.                                                 *)
(***************************************************************************)
EXTENDS ChatTurns, FiniteSetTheorems, WellFoundedInduction, TLAPS

Stored == {"checking", "calling", "answering", "committing", "aborting", "done"}
Drafting == {"responding", "checking", "calling", "answering", "committing",
             "aborting"}

\* Where a turn may be, and where a clear.
Places ==
    /\ \A t \in Turns : pc[t] \notin {"wiping", "deleting"}
    /\ \A c \in Clears : pc[c] \in {"new", "finding", "wiping", "deleting",
                                    "committing", "done"}

\* What a turn has drafted is in its thread, the answer last.
Drafted ==
    \A t \in Turns :
        /\ pc[t] \in (Drafting \cup {"asking"}) \ {"aborting"} => mine[t] \in Turns
        /\ draft[t] # {} => pc[t] \in Drafting
        /\ \A m \in draft[t] :
              /\ m.turn = t /\ m.thread = mine[t]
              /\ m.role = "assistant" => pc[t] \in {"committing", "aborting"}

\* What is stored is of a turn that has come so far, in the turn's thread.
Saved ==
    \A m \in messages :
        /\ pc[m.turn] \in Stored /\ m.thread = mine[m.turn]
        /\ m.role = "assistant" => pc[m.turn] = "done" /\ told[m.turn] # "error"
        /\ exit = "after" => pc[m.turn] = "done" /\ told[m.turn] # "error"

Spent == {"answering", "committing", "aborting", "done"}

\* The rounds of a turn are what it has used, until it is recorded.
Metered ==
    \A t \in Turns :
        /\ usage[t] <= rounds[t]
        /\ pc[t] = "calling" => rounds[t] < MaxRounds
        /\ pc[t] \notin {"calling"} \cup Spent => rounds[t] = 0
        /\ pc[t] = "done" => usage[t] = 0

\* Turns known to have ended have ended.
Ended == {t \in Turns : pc[t] = "done"}
Past == \A r \in Requests : before[r] \subseteq Ended

\* A turn's question stands ahead of its answer, and behind all of a turn that
\* had ended before.
Own(t) == draft[t] \cup {m \in messages : m.turn = t}
Ordered ==
    \A t \in Turns : \A n \in Own(t) :
        /\ \A m \in messages :
              m.thread = n.thread /\ m.turn \in before[t] => m.index < n.index
        /\ \A m \in Own(t) :
              m.role = "user" /\ n.role = "assistant" => m.index < n.index

\* The numbers of the messages there are have a bound.
Bounded ==
    \E b \in Nat : \A t \in Turns : \A m \in messages \cup draft[t] : m.index <= b

\* With the commit after the stream, the draft grows to question and answer,
\* what is stored of a turn is both, or the question if the client went away,
\* and what is being deleted is all of it or nothing.
Has(S, t, role) == \E m \in S : m.turn = t /\ m.role = role
Whole ==
    exit = "after" =>
        /\ \A t \in Turns :
              /\ pc[t] \in Drafting \ {"aborting"} => Has(draft[t], t, "user")
              /\ pc[t] = "committing" => Has(draft[t], t, "assistant")
        /\ \A m \in messages :
              /\ Has(messages, m.turn, "user")
              /\ told[m.turn] # "gone" => Has(messages, m.turn, "assistant")
        /\ \A c \in Clears : \A m \in dropped[c] : \A n \in messages :
              m.turn = n.turn => n \in dropped[c]

\* What a clear deletes is of its thread and of no other clear's, and nothing
\* that it should delete is missing.
Wiping ==
    /\ \A c \in Clears :
          /\ dropped[c] # {} => pc[c] \in {"deleting", "committing"}
          /\ \A m \in dropped[c] : m \in messages /\ m.thread = mine[c]
          /\ pc[c] \in {"deleting", "committing"} =>
                \A m \in messages :
                    m.turn \in before[c] /\ m.thread = mine[c] => m \in dropped[c]
    /\ \A c, d \in Clears : c # d => dropped[c] \cap dropped[d] = {}

\* The turns that may still add to the day's tokens.
Spending == {t \in Turns : \/ pc[t] = "calling"
                           \/ usage[t] > 0 /\ pc[t] \in {"answering", "committing"}}

\* Each has the margin of one turn reserved, and no more were recorded than
\* turns have ended.
Margin == recorded + MaxRounds * Cardinality(Spending) <= DailyCap - 1 + MaxRounds * crowd
Recorded == recorded <= MaxRounds * Cardinality(Ended)

HistoryInv == Places /\ Drafted /\ Saved /\ Past /\ Ordered /\ Bounded /\ Whole /\ Wiping
                 /\ ClearedIsGone
BudgetInv == Metered /\ Margin /\ Recorded
IInv == TypeOK /\ HistoryInv /\ BudgetInv

-----------------------------------------------------------------------------
\* Turns are finitely many, and no clear is among them.
LEMMA Finite ==
    /\ \A S \in SUBSET Turns : IsFiniteSet(S) /\ Cardinality(S) \in Nat
    /\ \A S \in SUBSET Turns : \A u \in Turns :
          /\ Cardinality(S \cup {u}) = IF u \in S THEN Cardinality(S) ELSE Cardinality(S) + 1
          /\ Cardinality(S \ {u}) = IF u \in S THEN Cardinality(S) - 1 ELSE Cardinality(S)
    /\ \A S, T \in SUBSET Turns : S \subseteq T => Cardinality(S) <= Cardinality(T)
  <1>1. \A S \in SUBSET Turns : IsFiniteSet(S)
    BY FS_Subset, ConstantsAssumption
  <1>2. \A S \in SUBSET Turns : Cardinality(S) \in Nat
    BY <1>1, FS_CardinalityType
  <1>3. ASSUME NEW S \in SUBSET Turns, NEW u \in Turns
        PROVE  /\ Cardinality(S \cup {u}) = IF u \in S THEN Cardinality(S) ELSE Cardinality(S) + 1
               /\ Cardinality(S \ {u}) = IF u \in S THEN Cardinality(S) - 1 ELSE Cardinality(S)
    BY <1>1, FS_AddElement, FS_RemoveElement
  <1>4. ASSUME NEW S \in SUBSET Turns, NEW T \in SUBSET Turns, S \subseteq T
        PROVE  Cardinality(S) <= Cardinality(T)
    BY <1>1, <1>4, FS_Subset
  <1> QED
    BY <1>1, <1>2, <1>3, <1>4

\* A set of numbers with a bound has a greatest.
LEMMA Greatest ==
    ASSUME NEW S \in SUBSET Nat, S # {}, NEW b \in Nat, \A x \in S : x <= b
    PROVE  Max(S) \in S /\ \A x \in S : x <= Max(S)
  <1> DEFINE Tops == {k \in Nat : \A x \in S : x <= k}
  <1>1. PICK k \in Tops : \A j \in Tops : ~ (j < k)
    <2>1. Tops \subseteq Nat /\ Tops # {}
      OBVIOUS
    <2>2. PICK k \in Tops : \A j \in Tops : ~ (<<j, k>> \in OpToRel(<, Nat))
      BY <2>1, WFMin, NatLessThanWellFounded
    <2> QED
      BY <2>2 DEF OpToRel
  <1>2. k \in S
    <2> SUFFICES ASSUME k \notin S PROVE FALSE
      OBVIOUS
    <2>1. \A x \in S : x < k
      OBVIOUS
    <2>2. k # 0
      <3>1. PICK x \in S : x \in Nat /\ x < k
        BY <2>1
      <3> QED
        BY <3>1
    <2>3. k - 1 \in Nat /\ \A x \in S : x <= k - 1
      BY <2>1, <2>2
    <2>4. k - 1 \in Tops
      BY <2>3
    <2> QED
      BY <2>4, <1>1
  <1>3. \A x \in S : k >= x
    OBVIOUS
  <1>4. Max(S) \in S /\ \A y \in S : Max(S) >= y
    BY <1>2, <1>3 DEF Max
  <1> QED
    BY <1>4

\* The next number is above all of the thread that the turn sees.
LEMMA NextNumber ==
    ASSUME TypeOK, Bounded, NEW t \in Turns
    PROVE  /\ NextTurnIndex(t) \in Nat
           /\ \A m \in Visible(t) : m.index < NextTurnIndex(t)
  <1> DEFINE I == {m.index : m \in Visible(t)}
  <1>1. Visible(t) \subseteq Messages
    BY DEF Visible, TypeOK
  <1>2. I \in SUBSET Nat
    BY <1>1 DEF Messages
  <1>3. PICK b \in Nat : \A x \in I : x <= b
    BY DEF Bounded, Visible
  <1>4. CASE Visible(t) = {}
    BY <1>4 DEF NextTurnIndex
  <1>5. CASE Visible(t) # {}
    <2>1. I # {}
      BY <1>5
    <2>2. Max(I) \in I /\ \A x \in I : x <= Max(I)
      BY <1>2, <1>3, <2>1, Greatest
    <2>3. NextTurnIndex(t) = 1 + Max(I)
      BY <1>5 DEF NextTurnIndex
    <2> QED
      BY <1>2, <2>2, <2>3
  <1> QED
    BY <1>4, <1>5

\* Of products.
LEMMA Product ==
    ASSUME NEW a \in Nat, NEW b \in Nat, NEW c \in Nat
    PROVE  /\ a * b \in Nat /\ a * (b + 1) = a * b + a
           /\ b <= c => a * b <= a * c
  <1>1. a * b \in Nat /\ a * c \in Nat
    BY SMT
  <1>2. a * (b + 1) = a * b + a
    BY SMT
  <1>3. ASSUME b <= c PROVE a * b <= a * c
    <2>1. PICK d \in Nat : c = b + d
      <3>1. c - b \in Nat /\ c = b + (c - b)
        BY <1>3
      <3> QED
        BY <3>1
    <2>2. a * d \in Nat
      BY SMT
    <2>3. a * (b + d) = a * b + a * d
      BY SMT
    <2> QED
      BY <1>1, <2>1, <2>2, <2>3
  <1> QED
    BY <1>1, <1>2, <1>3

\* The initial state satisfies the invariant.
LEMMA InitInvariant == Init => IInv
  <1> SUFFICES ASSUME Init PROVE IInv
    OBVIOUS
  <1> USE ConstantsAssumption DEF Init, Requests
  <1>1. Ended = {} /\ Spending = {} /\ Cardinality({}) = 0
    BY FS_EmptySet DEF Ended, Spending
  <1>2. Cardinality(Turns) \in Nat /\ MaxRounds * Cardinality(Turns) \in Nat /\ MaxRounds * 0 = 0
    BY Finite, Product
  <1>3. TypeOK
    BY <1>2 DEF TypeOK, Positions, Messages
  <1>4. HistoryInv
    <2>1. Places /\ Drafted /\ Saved /\ Past
      BY DEF Places, Drafted, Saved, Past, Drafting
    <2>2. Ordered /\ Bounded
      BY DEF Ordered, Bounded, Own
    <2>3. Whole /\ Wiping /\ ClearedIsGone
      BY DEF Whole, Wiping, ClearedIsGone, Drafting
    <2> QED
      BY <2>1, <2>2, <2>3 DEF HistoryInv
  <1>5. BudgetInv
    BY <1>1, <1>2 DEF BudgetInv, Metered, Spent, Margin, Recorded
  <1> QED
    BY <1>3, <1>4, <1>5 DEF IInv

\* Turns and clears keep to their places.
LEMMA NextPlaces ==
    ASSUME TypeOK, Places, [Next]_vars
    PROVE  Places'
  <1> USE ConstantsAssumption
      DEF TypeOK, Places, Positions, Requests, Goto, stored, transactions, history
  <1>1. ASSUME NEW r \in Requests, Begin(r) PROVE Places'
    BY <1>1 DEF Begin
  <1>2. ASSUME NEW r \in Requests, FindThread(r) PROVE Places'
    BY <1>2 DEF FindThread
  <1>3. ASSUME NEW r \in Requests, InsertThread(r) PROVE Places'
    BY <1>3 DEF InsertThread
  <1>4. ASSUME NEW r \in Requests, SaveUserMessage(r) PROVE Places'
    BY <1>4 DEF SaveUserMessage, Message
  <1>5. ASSUME NEW r \in Requests, Respond(r) PROVE Places'
    BY <1>5 DEF Respond, Store
  <1>6. ASSUME NEW r \in Requests, CheckBudget(r) PROVE Places'
    BY <1>6 DEF CheckBudget
  <1>7. ASSUME NEW r \in Requests, Call(r) PROVE Places'
    BY <1>7 DEF Call
  <1>8. ASSUME NEW r \in Requests, SaveAssistantMessage(r) PROVE Places'
    BY <1>8 DEF SaveAssistantMessage, Message
  <1>9. ASSUME NEW r \in Requests, Commit(r) PROVE Places'
    BY <1>9 DEF Commit, Store
  <1>10. ASSUME NEW r \in Requests, Raise(r) PROVE Places'
    BY <1>10 DEF Raise
  <1>11. ASSUME NEW r \in Requests, Rollback(r) PROVE Places'
    BY <1>11 DEF Rollback
  <1>12. ASSUME NEW r \in Requests, SelectThread(r) PROVE Places'
    BY <1>12 DEF SelectThread
  <1>13. ASSUME NEW r \in Requests, Wipe(r) PROVE Places'
    BY <1>13 DEF Wipe
  <1>14. ASSUME NEW r \in Requests, DeleteThread(r) PROVE Places'
    BY <1>14 DEF DeleteThread
  <1>15. ASSUME NEW r \in Requests, CommitClear(r) PROVE Places'
    BY <1>15 DEF CommitClear
  <1>17. ASSUME NEW r \in Requests, Leave(r) PROVE Places'
    BY <1>17 DEF Leave, Store
  <1>16. CASE UNCHANGED vars
    BY <1>16 DEF vars
  <1> QED
    BY <1>1, <1>2, <1>3, <1>4, <1>5, <1>6, <1>7, <1>8, <1>9, <1>10, <1>11,
       <1>12, <1>13, <1>14, <1>15, <1>16, <1>17 DEF Next, Step

\* What had ended stays so.
LEMMA NextPast ==
    ASSUME TypeOK, Past, [Next]_vars
    PROVE  Past'
  <1> USE ConstantsAssumption
      DEF TypeOK, Places, Positions, Requests, Goto, stored, transactions, history,
          Past, Ended
  <1>1. ASSUME NEW r \in Requests, Begin(r) PROVE Past'
    BY <1>1 DEF Begin
  <1>2. ASSUME NEW r \in Requests, FindThread(r) PROVE Past'
    BY <1>2 DEF FindThread
  <1>3. ASSUME NEW r \in Requests, InsertThread(r) PROVE Past'
    BY <1>3 DEF InsertThread
  <1>4. ASSUME NEW r \in Requests, SaveUserMessage(r) PROVE Past'
    BY <1>4 DEF SaveUserMessage, Message
  <1>5. ASSUME NEW r \in Requests, Respond(r) PROVE Past'
    BY <1>5 DEF Respond, Store
  <1>6. ASSUME NEW r \in Requests, CheckBudget(r) PROVE Past'
    BY <1>6 DEF CheckBudget
  <1>7. ASSUME NEW r \in Requests, Call(r) PROVE Past'
    BY <1>7 DEF Call
  <1>8. ASSUME NEW r \in Requests, SaveAssistantMessage(r) PROVE Past'
    BY <1>8 DEF SaveAssistantMessage, Message
  <1>9. ASSUME NEW r \in Requests, Commit(r) PROVE Past'
    BY <1>9 DEF Commit, Store
  <1>10. ASSUME NEW r \in Requests, Raise(r) PROVE Past'
    BY <1>10 DEF Raise
  <1>11. ASSUME NEW r \in Requests, Rollback(r) PROVE Past'
    BY <1>11 DEF Rollback
  <1>12. ASSUME NEW r \in Requests, SelectThread(r) PROVE Past'
    BY <1>12 DEF SelectThread
  <1>13. ASSUME NEW r \in Requests, Wipe(r) PROVE Past'
    BY <1>13 DEF Wipe
  <1>14. ASSUME NEW r \in Requests, DeleteThread(r) PROVE Past'
    BY <1>14 DEF DeleteThread
  <1>15. ASSUME NEW r \in Requests, CommitClear(r) PROVE Past'
    BY <1>15 DEF CommitClear
  <1>17. ASSUME NEW r \in Requests, Leave(r) PROVE Past'
    BY <1>17 DEF Leave, Store
  <1>16. CASE UNCHANGED vars
    BY <1>16 DEF vars
  <1> QED
    BY <1>1, <1>2, <1>3, <1>4, <1>5, <1>6, <1>7, <1>8, <1>9, <1>10, <1>11,
       <1>12, <1>13, <1>14, <1>15, <1>16, <1>17 DEF Next, Step

\* Usage is counted in rounds.
LEMMA NextMetered ==
    ASSUME TypeOK, Places, Metered, [Next]_vars
    PROVE  Metered'
  <1> USE ConstantsAssumption
      DEF TypeOK, Places, Positions, Requests, Goto, stored, transactions, history,
          Metered, Spent
  <1>1. ASSUME NEW r \in Requests, Begin(r) PROVE Metered'
    BY <1>1 DEF Begin
  <1>2. ASSUME NEW r \in Requests, FindThread(r) PROVE Metered'
    BY <1>2 DEF FindThread
  <1>3. ASSUME NEW r \in Requests, InsertThread(r) PROVE Metered'
    BY <1>3 DEF InsertThread
  <1>4. ASSUME NEW r \in Requests, SaveUserMessage(r) PROVE Metered'
    BY <1>4 DEF SaveUserMessage, Message
  <1>5. ASSUME NEW r \in Requests, Respond(r) PROVE Metered'
    BY <1>5 DEF Respond, Store
  <1>6. ASSUME NEW r \in Requests, CheckBudget(r) PROVE Metered'
    BY <1>6 DEF CheckBudget
  <1>7. ASSUME NEW r \in Requests, Call(r) PROVE Metered'
    BY <1>7 DEF Call
  <1>8. ASSUME NEW r \in Requests, SaveAssistantMessage(r) PROVE Metered'
    BY <1>8 DEF SaveAssistantMessage, Message
  <1>9. ASSUME NEW r \in Requests, Commit(r) PROVE Metered'
    BY <1>9 DEF Commit, Store
  <1>10. ASSUME NEW r \in Requests, Raise(r) PROVE Metered'
    BY <1>10 DEF Raise
  <1>11. ASSUME NEW r \in Requests, Rollback(r) PROVE Metered'
    BY <1>11 DEF Rollback
  <1>12. ASSUME NEW r \in Requests, SelectThread(r) PROVE Metered'
    BY <1>12 DEF SelectThread
  <1>13. ASSUME NEW r \in Requests, Wipe(r) PROVE Metered'
    BY <1>13 DEF Wipe
  <1>14. ASSUME NEW r \in Requests, DeleteThread(r) PROVE Metered'
    BY <1>14 DEF DeleteThread
  <1>15. ASSUME NEW r \in Requests, CommitClear(r) PROVE Metered'
    BY <1>15 DEF CommitClear
  <1>17. ASSUME NEW r \in Requests, Leave(r) PROVE Metered'
    BY <1>17 DEF Leave, Store
  <1>16. CASE UNCHANGED vars
    BY <1>16 DEF vars
  <1> QED
    BY <1>1, <1>2, <1>3, <1>4, <1>5, <1>6, <1>7, <1>8, <1>9, <1>10, <1>11,
       <1>12, <1>13, <1>14, <1>15, <1>16, <1>17 DEF Next, Step

\* Drafts are written in the turn's thread.
LEMMA NextDrafted ==
    ASSUME TypeOK, Places, Drafted, [Next]_vars
    PROVE  Drafted'
  <1> USE ConstantsAssumption
      DEF TypeOK, Places, Positions, Requests, Goto, stored, transactions, history,
          Drafted, Drafting, Messages, Roles
  <1>1. ASSUME NEW r \in Requests, Begin(r) PROVE Drafted'
    BY <1>1 DEF Begin
  <1>2. ASSUME NEW r \in Requests, FindThread(r) PROVE Drafted'
    BY <1>2 DEF FindThread
  <1>3. ASSUME NEW r \in Requests, InsertThread(r) PROVE Drafted'
    BY <1>3 DEF InsertThread
  <1>4. ASSUME NEW r \in Requests, SaveUserMessage(r) PROVE Drafted'
    BY <1>4 DEF SaveUserMessage, Message
  <1>5. ASSUME NEW r \in Requests, Respond(r) PROVE Drafted'
    BY <1>5 DEF Respond, Store
  <1>6. ASSUME NEW r \in Requests, CheckBudget(r) PROVE Drafted'
    BY <1>6 DEF CheckBudget
  <1>7. ASSUME NEW r \in Requests, Call(r) PROVE Drafted'
    BY <1>7 DEF Call
  <1>8. ASSUME NEW r \in Requests, SaveAssistantMessage(r) PROVE Drafted'
    BY <1>8 DEF SaveAssistantMessage, Message
  <1>9. ASSUME NEW r \in Requests, Commit(r) PROVE Drafted'
    BY <1>9 DEF Commit, Store
  <1>10. ASSUME NEW r \in Requests, Raise(r) PROVE Drafted'
    BY <1>10 DEF Raise
  <1>11. ASSUME NEW r \in Requests, Rollback(r) PROVE Drafted'
    BY <1>11 DEF Rollback
  <1>12. ASSUME NEW r \in Requests, SelectThread(r) PROVE Drafted'
    BY <1>12 DEF SelectThread
  <1>13. ASSUME NEW r \in Requests, Wipe(r) PROVE Drafted'
    BY <1>13 DEF Wipe
  <1>14. ASSUME NEW r \in Requests, DeleteThread(r) PROVE Drafted'
    BY <1>14 DEF DeleteThread
  <1>15. ASSUME NEW r \in Requests, CommitClear(r) PROVE Drafted'
    BY <1>15 DEF CommitClear
  <1>17. ASSUME NEW r \in Requests, Leave(r) PROVE Drafted'
    BY <1>17 DEF Leave, Store
  <1>16. CASE UNCHANGED vars
    BY <1>16 DEF vars
  <1> QED
    BY <1>1, <1>2, <1>3, <1>4, <1>5, <1>6, <1>7, <1>8, <1>9, <1>10, <1>11,
       <1>12, <1>13, <1>14, <1>15, <1>16, <1>17 DEF Next, Step

\* What is stored stays as it was written.
LEMMA NextSaved ==
    ASSUME TypeOK, Places, Drafted, Saved, [Next]_vars
    PROVE  Saved'
  <1> USE ConstantsAssumption
      DEF TypeOK, Places, Positions, Requests, Goto, stored, transactions, history,
          Saved, Drafted, Drafting, Stored, Messages, Roles
  <1>1. ASSUME NEW r \in Requests, Begin(r) PROVE Saved'
    BY <1>1 DEF Begin
  <1>2. ASSUME NEW r \in Requests, FindThread(r) PROVE Saved'
    BY <1>2 DEF FindThread
  <1>3. ASSUME NEW r \in Requests, InsertThread(r) PROVE Saved'
    BY <1>3 DEF InsertThread
  <1>4. ASSUME NEW r \in Requests, SaveUserMessage(r) PROVE Saved'
    BY <1>4 DEF SaveUserMessage, Message
  <1>5. ASSUME NEW r \in Requests, Respond(r) PROVE Saved'
    <2>1. r \in Turns /\ \A m \in messages' : m \in messages \/ m \in draft[r]
      BY <1>5 DEF Respond, Store
    <2>2. \A m \in messages' \ messages : m.turn = r /\ m.thread = mine[r]
      BY <2>1
    <2>3. \A m \in draft[r] : m.role # "assistant"
      BY <1>5 DEF Respond
    <2>4. /\ pc' = [pc EXCEPT ![r] = "checking"] /\ pc[r] = "responding"
          /\ exit = "after" => messages' = messages
          /\ UNCHANGED << exit, mine, told >>
      BY <1>5 DEF Respond
    <2> QED
      BY <2>1, <2>2, <2>3, <2>4
  <1>6. ASSUME NEW r \in Requests, CheckBudget(r) PROVE Saved'
    BY <1>6 DEF CheckBudget
  <1>7. ASSUME NEW r \in Requests, Call(r) PROVE Saved'
    BY <1>7 DEF Call
  <1>8. ASSUME NEW r \in Requests, SaveAssistantMessage(r) PROVE Saved'
    BY <1>8 DEF SaveAssistantMessage, Message
  <1>9. ASSUME NEW r \in Requests, Commit(r) PROVE Saved'
    <2>1. r \in Turns /\ \A m \in messages' : m \in messages \/ m \in draft[r]
      BY <1>9 DEF Commit, Store
    <2>2. \A m \in messages' \ messages : m.turn = r /\ m.thread = mine[r]
      BY <2>1
    <2>3. /\ pc' = [pc EXCEPT ![r] = "done"] /\ pc[r] = "committing"
          /\ told' = [told EXCEPT ![r] = "answer"] /\ UNCHANGED << exit, mine >>
      BY <1>9 DEF Commit
    <2> QED
      BY <2>1, <2>2, <2>3
  <1>10. ASSUME NEW r \in Requests, Raise(r) PROVE Saved'
    BY <1>10 DEF Raise
  <1>11. ASSUME NEW r \in Requests, Rollback(r) PROVE Saved'
    <2>1. /\ pc' = [pc EXCEPT ![r] = "done"] /\ pc[r] = "aborting" /\ r \in Turns
          /\ told' = [told EXCEPT ![r] = "error"] /\ UNCHANGED << exit, mine, messages >>
      BY <1>11 DEF Rollback
    <2>2. \A m \in messages : m.turn = r => m.role # "assistant" /\ exit # "after"
      BY <2>1
    <2> QED
      BY <2>1, <2>2
  <1>12. ASSUME NEW r \in Requests, SelectThread(r) PROVE Saved'
    BY <1>12 DEF SelectThread
  <1>13. ASSUME NEW r \in Requests, Wipe(r) PROVE Saved'
    BY <1>13 DEF Wipe
  <1>14. ASSUME NEW r \in Requests, DeleteThread(r) PROVE Saved'
    BY <1>14 DEF DeleteThread
  <1>15. ASSUME NEW r \in Requests, CommitClear(r) PROVE Saved'
    BY <1>15 DEF CommitClear
  <1>17. ASSUME NEW r \in Requests, Leave(r) PROVE Saved'
    <2>1. r \in Turns /\ \A m \in messages' : m \in messages \/ m \in draft[r]
      BY <1>17 DEF Leave, Store
    <2>2. \A m \in messages' \ messages : m.turn = r /\ m.thread = mine[r]
      BY <2>1
    <2>3. /\ pc' = [pc EXCEPT ![r] = "done"] /\ pc[r] # "aborting"
          /\ told' = [told EXCEPT ![r] = "gone"] /\ UNCHANGED << exit, mine >>
      BY <1>17 DEF Leave
    <2> QED
      BY <2>1, <2>2, <2>3
  <1>16. CASE UNCHANGED vars
    BY <1>16 DEF vars
  <1> QED
    BY <1>1, <1>2, <1>3, <1>4, <1>5, <1>6, <1>7, <1>8, <1>9, <1>10, <1>11,
       <1>12, <1>13, <1>14, <1>15, <1>16, <1>17 DEF Next, Step

\* Steps after which no more is recorded, and no turn may spend that might not
\* before.
Quiet == /\ recorded' = recorded /\ crowd' = crowd
         /\ Ended \subseteq Ended' /\ Spending' \subseteq Spending
Busy(r) == r \in Turns /\ (CheckBudget(r) \/ Commit(r) \/ Leave(r))
BudgetStep == Quiet \/ \E r \in Requests : Busy(r)

\* Only the check of the budget and a commit of a turn change its account.
LEMMA BudgetSteps ==
    ASSUME TypeOK, Places, Metered, [Next]_vars
    PROVE  BudgetStep
  <1> USE ConstantsAssumption
      DEF TypeOK, Places, Positions, Requests, Goto, stored, transactions, history,
          Metered, Spent, Quiet, Ended, Spending
  <1>1. ASSUME NEW r \in Requests, Begin(r) PROVE BudgetStep
    BY <1>1 DEF Begin, BudgetStep
  <1>2. ASSUME NEW r \in Requests, FindThread(r) PROVE BudgetStep
    BY <1>2 DEF FindThread, BudgetStep
  <1>3. ASSUME NEW r \in Requests, InsertThread(r) PROVE BudgetStep
    BY <1>3 DEF InsertThread, BudgetStep
  <1>4. ASSUME NEW r \in Requests, SaveUserMessage(r) PROVE BudgetStep
    BY <1>4 DEF SaveUserMessage, Message, BudgetStep
  <1>5. ASSUME NEW r \in Requests, Respond(r) PROVE BudgetStep
    BY <1>5 DEF Respond, Store, BudgetStep
  <1>6. ASSUME NEW r \in Requests, CheckBudget(r) PROVE BudgetStep
    BY <1>6 DEF BudgetStep, Busy, CheckBudget
  <1>7. ASSUME NEW r \in Requests, Call(r) PROVE BudgetStep
    BY <1>7 DEF Call, BudgetStep
  <1>8. ASSUME NEW r \in Requests, SaveAssistantMessage(r) PROVE BudgetStep
    BY <1>8 DEF SaveAssistantMessage, Message, BudgetStep
  <1>9. ASSUME NEW r \in Requests, Commit(r) PROVE BudgetStep
    BY <1>9 DEF BudgetStep, Busy, Commit
  <1>10. ASSUME NEW r \in Requests, Raise(r) PROVE BudgetStep
    BY <1>10 DEF Raise, BudgetStep
  <1>11. ASSUME NEW r \in Requests, Rollback(r) PROVE BudgetStep
    BY <1>11 DEF Rollback, BudgetStep
  <1>12. ASSUME NEW r \in Requests, SelectThread(r) PROVE BudgetStep
    BY <1>12 DEF SelectThread, BudgetStep
  <1>13. ASSUME NEW r \in Requests, Wipe(r) PROVE BudgetStep
    BY <1>13 DEF Wipe, BudgetStep
  <1>14. ASSUME NEW r \in Requests, DeleteThread(r) PROVE BudgetStep
    BY <1>14 DEF DeleteThread, BudgetStep
  <1>15. ASSUME NEW r \in Requests, CommitClear(r) PROVE BudgetStep
    BY <1>15 DEF CommitClear, BudgetStep
  <1>17. ASSUME NEW r \in Requests, Leave(r) PROVE BudgetStep
    BY <1>17 DEF BudgetStep, Busy, Leave
  <1>16. CASE UNCHANGED vars
    BY <1>16 DEF vars, BudgetStep
  <1> QED
    BY <1>1, <1>2, <1>3, <1>4, <1>5, <1>6, <1>7, <1>8, <1>9, <1>10, <1>11,
       <1>12, <1>13, <1>14, <1>15, <1>16, <1>17 DEF Next, Step

\* The day's account: every turn that may still spend has its margin reserved.
LEMMA NextAccount ==
    ASSUME TypeOK, Places, Metered, Margin, Recorded, [Next]_vars
    PROVE  Margin' /\ Recorded'
  <1> DEFINE S == Cardinality(Spending)
             S1 == Cardinality(Spending')
             E == Cardinality(Ended)
             E1 == Cardinality(Ended')
  <1> USE ConstantsAssumption
  <1>1. /\ Ended \in SUBSET Turns /\ Ended' \in SUBSET Turns
        /\ Spending \in SUBSET Turns /\ Spending' \in SUBSET Turns
    BY DEF Ended, Spending
  <1>2. S \in Nat /\ S1 \in Nat /\ E \in Nat /\ E1 \in Nat
    BY <1>1, Finite
  <1>3. recorded \in Nat /\ crowd \in Nat /\ MaxRounds \in Nat /\ DailyCap - 1 \in Nat
    <2>1. Cardinality(Turns) \in Nat
      BY Finite
    <2>2. MaxRounds * Cardinality(Turns) \in Nat
      BY <2>1, Product
    <2> QED
      BY <2>1, <2>2 DEF TypeOK
  <1> HIDE DEF S, S1, E, E1
  <1>4. MaxRounds * S \in Nat /\ MaxRounds * E \in Nat /\ MaxRounds * crowd \in Nat
    BY <1>2, <1>3, Product
  <1>5. CASE Quiet
    <2>1. S1 <= S /\ E <= E1
      BY <1>1, <1>5, Finite DEF Quiet, S, S1, E, E1
    <2>2. MaxRounds * S1 <= MaxRounds * S /\ MaxRounds * E <= MaxRounds * E1
          /\ MaxRounds * S1 \in Nat /\ MaxRounds * E1 \in Nat
      BY <2>1, <1>2, <1>3, Product
    <2>3. recorded + MaxRounds * S1 <= DailyCap - 1 + MaxRounds * crowd
      BY <2>2, <1>3, <1>4 DEF Margin, S
    <2>4. recorded <= MaxRounds * E1
      BY <2>2, <1>3, <1>4 DEF Recorded, E
    <2> QED
      BY <1>5, <2>3, <2>4 DEF Quiet, Margin, Recorded, S1, E1
  <1>6. ASSUME NEW r \in Turns, CheckBudget(r) PROVE Margin' /\ Recorded'
    <2>1. recorded' = recorded /\ Ended' = Ended /\ crowd' \in Nat /\ crowd' >= crowd
          /\ crowd' >= Cardinality(Unaccounted) + 1
      <3>1. Cardinality(Unaccounted) \in Nat
        BY Finite DEF Unaccounted
      <3> QED
        BY <3>1, <1>3, <1>6 DEF CheckBudget, stored, Goto, Ended, TypeOK, Requests
    <2>2. Spending \subseteq Unaccounted /\ Unaccounted \in SUBSET Turns
      BY DEF Spending, Unaccounted
    <2>3. S <= Cardinality(Unaccounted) /\ Cardinality(Unaccounted) \in Nat
      BY <2>2, <1>1, Finite DEF S
    <2>4. recorded' <= MaxRounds * Cardinality(Ended')
      BY <2>1 DEF Recorded
    <2>5. CASE recorded < DailyCap
      <3>1. Spending' \subseteq Spending \cup {r}
        BY <1>6 DEF CheckBudget, Spending, Goto, TypeOK, Requests, transactions
      <3>2. Spending \cup {r} \in SUBSET Turns
        BY <1>1
      <3>3. S1 <= Cardinality(Spending \cup {r})
        BY <3>1, <3>2, <1>1, Finite DEF S1
      <3>4. Cardinality(Spending \cup {r}) <= S + 1
        BY <1>1, <1>2, Finite DEF S
      <3>5. Cardinality(Spending \cup {r}) \in Nat
        BY <3>2, Finite
      <3>6. S1 <= crowd'
        BY <3>3, <3>4, <3>5, <2>1, <2>3, <1>2
      <3>7. MaxRounds * S1 <= MaxRounds * crowd' /\ MaxRounds * S1 \in Nat
            /\ MaxRounds * crowd' \in Nat
        BY <3>6, <2>1, <1>2, <1>3, Product
      <3>8. recorded + MaxRounds * S1 <= DailyCap - 1 + MaxRounds * crowd'
        BY <3>7, <2>5, <1>3
      <3> QED
        BY <3>8, <2>1, <2>4 DEF Margin, Recorded, S1
    <2>6. CASE ~ (recorded < DailyCap)
      <3>1. Spending' \subseteq Spending
        BY <2>6, <1>6 DEF CheckBudget, Spending, Goto, TypeOK, Requests, transactions,
                      Metered, Spent
      <3>2. S1 <= S
        BY <3>1, <1>1, Finite DEF S, S1
      <3>3. MaxRounds * S1 <= MaxRounds * S /\ MaxRounds * crowd <= MaxRounds * crowd'
            /\ MaxRounds * S1 \in Nat /\ MaxRounds * crowd' \in Nat
        BY <3>2, <2>1, <1>2, <1>3, Product
      <3>4. recorded + MaxRounds * S1 <= DailyCap - 1 + MaxRounds * crowd'
        BY <3>3, <1>3, <1>4 DEF Margin, S
      <3> QED
        BY <3>4, <2>1, <2>4 DEF Margin, Recorded, S1
    <2> QED
      BY <2>5, <2>6
  <1>7. ASSUME NEW r \in Turns, Commit(r) \/ Leave(r) PROVE Margin' /\ Recorded'
    <2>1. /\ recorded' = recorded + usage[r] /\ crowd' = crowd
          /\ usage[r] \in 0 .. MaxRounds
          /\ pc[r] \in {"checking", "calling", "answering", "committing"}
          /\ pc' = [pc EXCEPT ![r] = "done"]
          /\ usage' = [usage EXCEPT ![r] = 0]
      BY <1>7 DEF Commit, Leave, Store, Goto, history, TypeOK
    <2>2. Ended' = Ended \cup {r} /\ r \notin Ended
      BY <2>1 DEF Ended, TypeOK, Requests
    <2>3. E1 = E + 1
      BY <2>2, <1>1, Finite DEF E, E1
    <2>4. MaxRounds * (E + 1) = MaxRounds * E + MaxRounds
      BY <1>2, <1>3, Product
    <2>5. recorded' <= MaxRounds * E1
      BY <2>1, <2>3, <2>4, <1>3, <1>4 DEF Recorded, E
    <2>6. CASE usage[r] = 0
      <3>1. Spending' \subseteq Spending
        BY <2>1 DEF Spending, TypeOK, Requests
      <3>2. S1 <= S
        BY <3>1, <1>1, Finite DEF S, S1
      <3>3. MaxRounds * S1 <= MaxRounds * S /\ MaxRounds * S1 \in Nat
        BY <3>2, <1>2, <1>3, Product
      <3>4. recorded' + MaxRounds * S1 <= DailyCap - 1 + MaxRounds * crowd
        BY <2>1, <2>6, <3>3, <1>3, <1>4 DEF Margin, S
      <3> QED
        BY <3>4, <2>1, <2>5 DEF Margin, Recorded, S1, E1
    <2>7. CASE usage[r] > 0
      <3>1. Spending' \subseteq Spending \ {r} /\ r \in Spending
        <4>1. pc[r] # "checking"
          BY <2>1, <2>7 DEF Metered, Spent, TypeOK
        <4> QED
          BY <2>1, <2>7, <4>1 DEF Spending, TypeOK, Requests
      <3>2. Spending \ {r} \in SUBSET Turns
        BY <1>1
      <3>3. Cardinality(Spending \ {r}) = S - 1 /\ S1 <= Cardinality(Spending \ {r})
        BY <3>1, <3>2, <1>1, Finite DEF S, S1
      <3>4. S1 + 1 <= S /\ S1 + 1 \in Nat
        BY <3>3, <1>2
      <3>5. MaxRounds * (S1 + 1) <= MaxRounds * S
            /\ MaxRounds * (S1 + 1) = MaxRounds * S1 + MaxRounds
            /\ MaxRounds * S1 \in Nat
        BY <3>4, <1>2, <1>3, Product
      <3>6. recorded' + MaxRounds * S1 <= DailyCap - 1 + MaxRounds * crowd
        BY <2>1, <3>5, <1>3, <1>4 DEF Margin, S
      <3> QED
        BY <3>6, <2>1, <2>5 DEF Margin, Recorded, S1, E1
    <2> QED
      BY <2>1, <2>6, <2>7
  <1> QED
    BY <1>5, <1>6, <1>7, BudgetSteps DEF BudgetStep, Busy

\* Types are preserved.
LEMMA NextType ==
    ASSUME TypeOK, Places, Drafted, Metered, Recorded, Recorded', Bounded, Wiping,
           [Next]_vars
    PROVE  TypeOK'
  <1> USE ConstantsAssumption
      DEF TypeOK, Places, Positions, Requests, Goto, stored, transactions, history,
          Metered, Spent
  <1>1. ASSUME NEW r \in Requests, Begin(r) PROVE TypeOK'
    BY <1>1 DEF Begin
  <1>2. ASSUME NEW r \in Requests, FindThread(r) PROVE TypeOK'
    BY <1>2 DEF FindThread
  <1>3. ASSUME NEW r \in Requests, InsertThread(r) PROVE TypeOK'
    BY <1>3 DEF InsertThread
  <1>4. ASSUME NEW r \in Requests, SaveUserMessage(r) PROVE TypeOK'
    <2>1. r \in Turns /\ mine[r] \in Turns
      BY <1>4 DEF SaveUserMessage, Drafted, Drafting
    <2>2. NextTurnIndex(r) \in Nat
      BY <2>1, NextNumber
    <2>3. Message(r, "user") \in Messages
      BY <2>1, <2>2 DEF Message, Messages, Roles
    <2> QED
      BY <2>1, <2>3, <1>4 DEF SaveUserMessage
  <1>5. ASSUME NEW r \in Requests, Respond(r) PROVE TypeOK'
    <2>1. r \in Turns /\ messages' \in SUBSET Messages /\ draft' \in [Turns -> SUBSET Messages]
      BY <1>5 DEF Respond, Store
    <2>2. recorded' \in 0 .. MaxRounds * Cardinality(Turns)
      BY <1>5 DEF Respond, Store
    <2>3. dropped' \in [Clears -> SUBSET messages']
      BY <1>5 DEF Respond, Store
    <2> QED
      BY <2>1, <2>2, <2>3, <1>5 DEF Respond, Store
  <1>6. ASSUME NEW r \in Requests, CheckBudget(r) PROVE TypeOK'
    <2>1. Cardinality(Turns) \in Nat /\ Cardinality(Unaccounted) \in Nat
      BY Finite DEF Unaccounted
    <2>2. r \in Turns
      BY <1>6 DEF CheckBudget
    <2>3. Cardinality(Unaccounted) + 1 <= Cardinality(Turns)
      <3>1. r \notin Unaccounted
        BY <1>6 DEF CheckBudget, Unaccounted
      <3>2. Unaccounted \cup {r} \in SUBSET Turns /\ Unaccounted \in SUBSET Turns
        BY <2>2 DEF Unaccounted
      <3>3. Cardinality(Unaccounted \cup {r}) = Cardinality(Unaccounted) + 1
        BY <2>2, <3>1, <3>2, Finite
      <3>4. Cardinality(Unaccounted \cup {r}) <= Cardinality(Turns)
        BY <3>2, Finite
      <3> QED
        BY <3>3, <3>4
    <2> QED
      BY <2>1, <2>3, <1>6 DEF CheckBudget
  <1>7. ASSUME NEW r \in Requests, Call(r) PROVE TypeOK'
    BY <1>7 DEF Call
  <1>8. ASSUME NEW r \in Requests, SaveAssistantMessage(r) PROVE TypeOK'
    <2>1. r \in Turns /\ mine[r] \in Turns
      BY <1>8 DEF SaveAssistantMessage, Drafted, Drafting
    <2>2. NextTurnIndex(r) \in Nat
      BY <2>1, NextNumber
    <2>3. Message(r, "assistant") \in Messages
      BY <2>1, <2>2 DEF Message, Messages, Roles
    <2> QED
      BY <2>1, <2>3, <1>8 DEF SaveAssistantMessage
  <1>9. ASSUME NEW r \in Requests, Commit(r) PROVE TypeOK'
    <2>1. r \in Turns /\ messages' \in SUBSET Messages /\ draft' \in [Turns -> SUBSET Messages]
      BY <1>9 DEF Commit, Store
    <2>2. recorded' \in 0 .. MaxRounds * Cardinality(Turns)
      <3>1. Ended' \in SUBSET Turns
        BY DEF Ended
      <3>2. Cardinality(Ended') \in Nat /\ Cardinality(Turns) \in Nat
            /\ Cardinality(Ended') <= Cardinality(Turns)
        BY <3>1, Finite
      <3>3. MaxRounds * Cardinality(Ended') <= MaxRounds * Cardinality(Turns)
        BY <3>2, Product
      <3> QED
        BY <3>2, <3>3, Product, <1>9 DEF Commit, Store, Recorded
    <2>3. dropped' \in [Clears -> SUBSET messages']
      BY <1>9 DEF Commit, Store
    <2> QED
      BY <2>1, <2>2, <2>3, <1>9 DEF Commit, Store
  <1>10. ASSUME NEW r \in Requests, Raise(r) PROVE TypeOK'
    BY <1>10 DEF Raise
  <1>11. ASSUME NEW r \in Requests, Rollback(r) PROVE TypeOK'
    BY <1>11 DEF Rollback
  <1>12. ASSUME NEW r \in Requests, SelectThread(r) PROVE TypeOK'
    BY <1>12 DEF SelectThread
  <1>13. ASSUME NEW r \in Requests, Wipe(r) PROVE TypeOK'
    BY <1>13 DEF Wipe
  <1>14. ASSUME NEW r \in Requests, DeleteThread(r) PROVE TypeOK'
    BY <1>14 DEF DeleteThread
  <1>15. ASSUME NEW r \in Requests, CommitClear(r) PROVE TypeOK'
    <2>1. r \in Clears /\ messages' = messages \ dropped[r]
      BY <1>15 DEF CommitClear
    <2>2. dropped' = [dropped EXCEPT ![r] = {}]
      BY <1>15 DEF CommitClear
    <2>3. \A c \in Clears : c # r => dropped[c] \cap dropped[r] = {}
      BY <2>1 DEF Wiping
    <2>4. dropped' \in [Clears -> SUBSET messages']
      BY <2>1, <2>2, <2>3
    <2> QED
      BY <2>1, <2>4, <1>15 DEF CommitClear
  <1>17. ASSUME NEW r \in Requests, Leave(r) PROVE TypeOK'
    <2>1. r \in Turns /\ messages' \in SUBSET Messages /\ draft' \in [Turns -> SUBSET Messages]
      BY <1>17 DEF Leave, Store
    <2>2. recorded' \in 0 .. MaxRounds * Cardinality(Turns)
      <3>1. Ended' \in SUBSET Turns
        BY DEF Ended
      <3>2. Cardinality(Ended') \in Nat /\ Cardinality(Turns) \in Nat
            /\ Cardinality(Ended') <= Cardinality(Turns)
        BY <3>1, Finite
      <3>3. MaxRounds * Cardinality(Ended') <= MaxRounds * Cardinality(Turns)
        BY <3>2, Product
      <3> QED
        BY <3>2, <3>3, Product, <1>17 DEF Leave, Store, Recorded
    <2>3. dropped' \in [Clears -> SUBSET messages']
      BY <1>17 DEF Leave, Store
    <2> QED
      BY <2>1, <2>2, <2>3, <1>17 DEF Leave, Store
  <1>16. CASE UNCHANGED vars
    BY <1>16 DEF vars
  <1> QED
    BY <1>1, <1>2, <1>3, <1>4, <1>5, <1>6, <1>7, <1>8, <1>9, <1>10, <1>11,
       <1>12, <1>13, <1>14, <1>15, <1>16, <1>17 DEF Next, Step

\* Every message after a step was there before, or has the next number of a turn.
Before(m) == \E v \in Turns : m \in messages \cup draft[v]
NewMessages ==
    \/ \A u \in Turns : \A m \in messages' \cup draft'[u] : Before(m)
    \/ \E v \in Turns : \A u \in Turns : \A m \in messages' \cup draft'[u] :
          Before(m) \/ m.index = NextTurnIndex(v)

\* Only the next number of a turn is new.
LEMMA MessageSteps ==
    ASSUME TypeOK, Places, [Next]_vars
    PROVE  NewMessages
  <1> USE ConstantsAssumption
      DEF TypeOK, Places, Positions, Requests, Goto, stored, transactions, history,
          NewMessages, Before
  <1>1. ASSUME NEW r \in Requests, Begin(r) PROVE NewMessages
    BY <1>1 DEF Begin
  <1>2. ASSUME NEW r \in Requests, FindThread(r) PROVE NewMessages
    BY <1>2 DEF FindThread
  <1>3. ASSUME NEW r \in Requests, InsertThread(r) PROVE NewMessages
    BY <1>3 DEF InsertThread
  <1>4. ASSUME NEW r \in Requests, SaveUserMessage(r) PROVE NewMessages
    <2>1. r \in Turns /\ messages' = messages 
      BY <1>4 DEF SaveUserMessage
    <2>2. \A u \in Turns : \A m \in draft'[u] : m \in draft[u] \/ m = Message(r, "user")
      BY <2>1, <1>4 DEF SaveUserMessage
    <2>3. Message(r, "user").index = NextTurnIndex(r)
      BY DEF Message
    <2> QED
      BY <2>1, <2>2, <2>3
  <1>5. ASSUME NEW r \in Requests, Respond(r) PROVE NewMessages
    BY <1>5 DEF Respond, Store
  <1>6. ASSUME NEW r \in Requests, CheckBudget(r) PROVE NewMessages
    BY <1>6 DEF CheckBudget
  <1>7. ASSUME NEW r \in Requests, Call(r) PROVE NewMessages
    BY <1>7 DEF Call
  <1>8. ASSUME NEW r \in Requests, SaveAssistantMessage(r) PROVE NewMessages
    <2>1. r \in Turns /\ messages' = messages 
      BY <1>8 DEF SaveAssistantMessage
    <2>2. \A u \in Turns : \A m \in draft'[u] : m \in draft[u] \/ m = Message(r, "assistant")
      BY <2>1, <1>8 DEF SaveAssistantMessage
    <2>3. Message(r, "assistant").index = NextTurnIndex(r)
      BY DEF Message
    <2> QED
      BY <2>1, <2>2, <2>3
  <1>9. ASSUME NEW r \in Requests, Commit(r) PROVE NewMessages
    BY <1>9 DEF Commit, Store
  <1>10. ASSUME NEW r \in Requests, Raise(r) PROVE NewMessages
    BY <1>10 DEF Raise
  <1>11. ASSUME NEW r \in Requests, Rollback(r) PROVE NewMessages
    BY <1>11 DEF Rollback
  <1>12. ASSUME NEW r \in Requests, SelectThread(r) PROVE NewMessages
    BY <1>12 DEF SelectThread
  <1>13. ASSUME NEW r \in Requests, Wipe(r) PROVE NewMessages
    BY <1>13 DEF Wipe
  <1>14. ASSUME NEW r \in Requests, DeleteThread(r) PROVE NewMessages
    BY <1>14 DEF DeleteThread
  <1>15. ASSUME NEW r \in Requests, CommitClear(r) PROVE NewMessages
    BY <1>15 DEF CommitClear
  <1>17. ASSUME NEW r \in Requests, Leave(r) PROVE NewMessages
    BY <1>17 DEF Leave, Store
  <1>16. CASE UNCHANGED vars
    BY <1>16 DEF vars
  <1> QED
    BY <1>1, <1>2, <1>3, <1>4, <1>5, <1>6, <1>7, <1>8, <1>9, <1>10, <1>11,
       <1>12, <1>13, <1>14, <1>15, <1>16, <1>17 DEF Next, Step

\* The numbers stay bounded.
LEMMA NextBounded ==
    ASSUME TypeOK, Places, Bounded, [Next]_vars
    PROVE  Bounded'
  <1>1. PICK b \in Nat : \A u \in Turns : \A m \in messages \cup draft[u] : m.index <= b
    BY DEF Bounded
  <1>2. \A m : Before(m) => m.index <= b /\ m.index \in Nat
    BY <1>1 DEF Before, TypeOK, Messages
  <1>3. CASE \A u \in Turns : \A m \in messages' \cup draft'[u] : Before(m)
    BY <1>2, <1>3 DEF Bounded
  <1>4. ASSUME NEW v \in Turns,
               \A u \in Turns : \A m \in messages' \cup draft'[u] :
                  Before(m) \/ m.index = NextTurnIndex(v)
        PROVE  Bounded'
    <2>1. NextTurnIndex(v) \in Nat
      BY NextNumber
    <2>2. b + NextTurnIndex(v) \in Nat
      BY <2>1
    <2>3. \A u \in Turns : \A m \in messages' \cup draft'[u] : m.index <= b + NextTurnIndex(v)
      BY <1>2, <1>4, <2>1
    <2> QED
      BY <2>2, <2>3 DEF Bounded
  <1> QED
    BY <1>3, <1>4, MessageSteps DEF NewMessages

\* Turns keep their order, whoever numbers and clears.
LEMMA NextOrdered ==
    ASSUME TypeOK, Places, Drafted, Saved, Past, Bounded, Ordered, [Next]_vars
    PROVE  Ordered'
  <1> USE ConstantsAssumption
      DEF TypeOK, Places, Positions, Requests, Goto, stored, transactions, history
  <1>1. ASSUME NEW r \in Requests, Begin(r) PROVE Ordered'
    <2>1. UNCHANGED << messages, draft >> /\ pc[r] = "new"
          /\ before' = [before EXCEPT ![r] = {u \in Turns : pc[u] = "done"}]
      BY <1>1 DEF Begin
    <2>2. r \in Turns => Own(r) = {}
      BY <2>1 DEF Own, Drafted, Saved, Stored, Drafting
    <2>3. \A u \in Turns : Own(u)' = Own(u) /\ (u # r => before'[u] = before[u])
      BY <2>1 DEF Own
    <2> QED
      BY <2>1, <2>2, <2>3 DEF Ordered
  <1>2. ASSUME NEW r \in Requests, FindThread(r) PROVE Ordered'
    <2>1. UNCHANGED << messages, draft, before >>
      BY <1>2 DEF FindThread
    <2> QED
      BY <2>1 DEF Ordered, Own
  <1>3. ASSUME NEW r \in Requests, InsertThread(r) PROVE Ordered'
    <2>1. UNCHANGED << messages, draft, before >>
      BY <1>3 DEF InsertThread
    <2> QED
      BY <2>1 DEF Ordered, Own
  <1>4. ASSUME NEW r \in Requests, SaveUserMessage(r) PROVE Ordered'
    <2> DEFINE new == Message(r, "user")
    <2>1. r \in Turns /\ UNCHANGED << messages, before >> /\ mine[r] \in Turns
      BY <1>4 DEF SaveUserMessage, history, Drafted, Drafting
    <2>2. new.index = NextTurnIndex(r) /\ new.thread = mine[r] /\ new.turn = r
          /\ new.role = "user"
      BY DEF Message
    <2> HIDE DEF new
    <2>3. draft' = [draft EXCEPT ![r] = {new}]
      BY <1>4 DEF SaveUserMessage, new
    <2>4. \A m \in messages \cup draft[r] : m.thread = mine[r] => m.index < new.index
      BY <2>1, <2>2, NextNumber DEF Visible
    <2>5. \A u \in Turns \ {r} : Own(u)' = Own(u)
      BY <2>1, <2>3 DEF Own
    <2>6. Own(r)' = Own(r) \cup {new} /\ \A m \in Own(r) : m.thread = mine[r] /\ FALSE
      BY <2>1, <2>3, <1>4 DEF Own, Drafted, Saved, Stored, Drafting, SaveUserMessage
    <2>7. \A m \in Own(r) : m \in messages \cup draft[r]
      BY DEF Own
    <2> QED
      BY <2>1, <2>2, <2>4, <2>5, <2>6, <2>7 DEF Ordered
  <1>5. ASSUME NEW r \in Requests, Respond(r) PROVE Ordered'
    <2>0. CASE exit = "after"
      BY <2>0, <1>5 DEF Respond, Ordered, Own
    <2>a. CASE exit = "before"
      <3>1. r \in Turns /\ messages' = messages \cup draft[r] /\ UNCHANGED before
            /\ draft' = [draft EXCEPT ![r] = {}]
        BY <2>a, <1>5 DEF Respond, Store, history
      <3>2. \A u \in Turns : Own(u)' = Own(u)
        BY <3>1 DEF Own, Drafted
      <3>3. \A u \in Turns : r \notin before[u]
        BY <2>a, <1>5 DEF Respond, Past, Ended
      <3>4. \A m \in messages' : m \in messages \/ m.turn = r
        BY <3>1 DEF Drafted
      <3> QED
        BY <3>1, <3>2, <3>3, <3>4 DEF Ordered
    <2> QED
      BY <2>0, <2>a
  <1>6. ASSUME NEW r \in Requests, CheckBudget(r) PROVE Ordered'
    <2>1. UNCHANGED << messages, draft, before >>
      BY <1>6 DEF CheckBudget
    <2> QED
      BY <2>1 DEF Ordered, Own
  <1>7. ASSUME NEW r \in Requests, Call(r) PROVE Ordered'
    <2>1. UNCHANGED << messages, draft, before >>
      BY <1>7 DEF Call
    <2> QED
      BY <2>1 DEF Ordered, Own
  <1>8. ASSUME NEW r \in Requests, SaveAssistantMessage(r) PROVE Ordered'
    <2> DEFINE new == Message(r, "assistant")
    <2>1. r \in Turns /\ UNCHANGED << messages, before >> /\ mine[r] \in Turns
      BY <1>8 DEF SaveAssistantMessage, history, Drafted, Drafting
    <2>2. new.index = NextTurnIndex(r) /\ new.thread = mine[r] /\ new.turn = r
          /\ new.role = "assistant"
      BY DEF Message
    <2> HIDE DEF new
    <2>3. draft' = [draft EXCEPT ![r] = draft[r] \cup {new}]
      BY <1>8 DEF SaveAssistantMessage, new
    <2>4. \A m \in messages \cup draft[r] : m.thread = mine[r] => m.index < new.index
      BY <2>1, <2>2, NextNumber DEF Visible
    <2>5. \A u \in Turns \ {r} : Own(u)' = Own(u)
      BY <2>1, <2>3 DEF Own
    <2>6. Own(r)' = Own(r) \cup {new} /\ \A m \in Own(r) : m.thread = mine[r] /\ m.role # "assistant"
      BY <2>1, <2>3, <1>8 DEF Own, Drafted, Saved, Stored, Drafting, SaveAssistantMessage
    <2>7. \A m \in Own(r) : m \in messages \cup draft[r]
      BY DEF Own
    <2> QED
      BY <2>1, <2>2, <2>4, <2>5, <2>6, <2>7 DEF Ordered
  <1>9. ASSUME NEW r \in Requests, Commit(r) PROVE Ordered'
    <2>1. r \in Turns /\ messages' = messages \cup draft[r] /\ UNCHANGED before
          /\ draft' = [draft EXCEPT ![r] = {}]
      BY <1>9 DEF Commit, Store, history
    <2>2. \A u \in Turns : Own(u)' = Own(u)
      BY <2>1 DEF Own, Drafted
    <2>3. \A u \in Turns : r \notin before[u]
      BY <1>9 DEF Commit, Past, Ended
    <2>4. \A m \in messages' : m \in messages \/ m.turn = r
      BY <2>1 DEF Drafted
    <2> QED
      BY <2>1, <2>2, <2>3, <2>4 DEF Ordered
  <1>10. ASSUME NEW r \in Requests, Raise(r) PROVE Ordered'
    <2>1. UNCHANGED << messages, draft, before >>
      BY <1>10 DEF Raise
    <2> QED
      BY <2>1 DEF Ordered, Own
  <1>11. ASSUME NEW r \in Requests, Rollback(r) PROVE Ordered'
    <2>1. UNCHANGED << messages, before >> /\ draft' = [draft EXCEPT ![r] = {}] /\ r \in Turns
      BY <1>11 DEF Rollback
    <2>2. \A u \in Turns : Own(u)' \subseteq Own(u)
      BY <2>1 DEF Own
    <2> QED
      BY <2>1, <2>2 DEF Ordered
  <1>12. ASSUME NEW r \in Requests, SelectThread(r) PROVE Ordered'
    <2>1. UNCHANGED << messages, draft, before >>
      BY <1>12 DEF SelectThread
    <2> QED
      BY <2>1 DEF Ordered, Own
  <1>13. ASSUME NEW r \in Requests, Wipe(r) PROVE Ordered'
    <2>1. UNCHANGED << messages, draft, before >>
      BY <1>13 DEF Wipe
    <2> QED
      BY <2>1 DEF Ordered, Own
  <1>14. ASSUME NEW r \in Requests, DeleteThread(r) PROVE Ordered'
    <2>1. UNCHANGED << messages, draft, before >>
      BY <1>14 DEF DeleteThread
    <2> QED
      BY <2>1 DEF Ordered, Own
  <1>15. ASSUME NEW r \in Requests, CommitClear(r) PROVE Ordered'
    <2>1. UNCHANGED << draft, before >> /\ messages' \subseteq messages
      BY <1>15 DEF CommitClear
    <2>2. \A u \in Turns : Own(u)' \subseteq Own(u)
      BY <2>1 DEF Own
    <2> QED
      BY <2>1, <2>2 DEF Ordered
  <1>17. ASSUME NEW r \in Requests, Leave(r) PROVE Ordered'
    <2>1. r \in Turns /\ messages' = messages \cup draft[r] /\ UNCHANGED before
          /\ draft' = [draft EXCEPT ![r] = {}]
      BY <1>17 DEF Leave, Store, history
    <2>2. \A u \in Turns : Own(u)' = Own(u)
      BY <2>1 DEF Own, Drafted
    <2>3. \A u \in Turns : r \notin before[u]
      BY <1>17 DEF Leave, Past, Ended
    <2>4. \A m \in messages' : m \in messages \/ m.turn = r
      BY <2>1 DEF Drafted
    <2> QED
      BY <2>1, <2>2, <2>3, <2>4 DEF Ordered
  <1>16. CASE UNCHANGED vars
    <2>1. UNCHANGED << messages, draft, before >>
      BY <1>16 DEF vars
    <2> QED
      BY <2>1 DEF Ordered, Own
  <1> QED
    BY <1>1, <1>2, <1>3, <1>4, <1>5, <1>6, <1>7, <1>8, <1>9, <1>10, <1>11,
       <1>12, <1>13, <1>14, <1>15, <1>16, <1>17 DEF Next, Step

\* With the commit after the stream turns stay whole.
LEMMA NextWhole ==
    ASSUME TypeOK, Places, Drafted, Saved, Wiping, Whole, [Next]_vars
    PROVE  Whole'
  <1> USE ConstantsAssumption
      DEF TypeOK, Places, Positions, Requests, Goto, stored, transactions, history,
          Whole, Has, Drafting
  <1>1. ASSUME NEW r \in Requests, Begin(r) PROVE Whole'
    BY <1>1 DEF Begin
  <1>2. ASSUME NEW r \in Requests, FindThread(r) PROVE Whole'
    BY <1>2 DEF FindThread
  <1>3. ASSUME NEW r \in Requests, InsertThread(r) PROVE Whole'
    BY <1>3 DEF InsertThread
  <1>4. ASSUME NEW r \in Requests, SaveUserMessage(r) PROVE Whole'
    <2>1. r \in Turns /\ draft' = [draft EXCEPT ![r] = {Message(r, "user")}]
      BY <1>4 DEF SaveUserMessage
    <2>2. Message(r, "user").turn = r /\ Message(r, "user").role = "user"
      BY DEF Message
    <2> QED
      BY <2>1, <2>2, <1>4 DEF SaveUserMessage
  <1>5. ASSUME NEW r \in Requests, Respond(r) PROVE Whole'
    BY <1>5 DEF Respond, Store
  <1>6. ASSUME NEW r \in Requests, CheckBudget(r) PROVE Whole'
    BY <1>6 DEF CheckBudget
  <1>7. ASSUME NEW r \in Requests, Call(r) PROVE Whole'
    BY <1>7 DEF Call
  <1>8. ASSUME NEW r \in Requests, SaveAssistantMessage(r) PROVE Whole'
    <2> DEFINE new == Message(r, "assistant")
    <2>1. new.turn = r /\ new.role = "assistant"
      BY DEF Message
    <2>2. r \in Turns /\ draft' = [draft EXCEPT ![r] = draft[r] \cup {new}]
      BY <1>8 DEF SaveAssistantMessage
    <2> HIDE DEF new
    <2> QED
      BY <2>1, <2>2, <1>8 DEF SaveAssistantMessage
  <1>9. ASSUME NEW r \in Requests, Commit(r) PROVE Whole'
    <2> SUFFICES ASSUME exit = "after" PROVE Whole'
      BY <1>9 DEF Commit
    <2>1. r \in Turns /\ messages' = messages \cup draft[r] /\ pc[r] \in Drafting
          /\ draft' = [draft EXCEPT ![r] = {}] /\ UNCHANGED << exit, dropped, before, mine >>
          /\ pc' = [pc EXCEPT ![r] = "done"] /\ told' = [told EXCEPT ![r] = "answer"]
      BY <1>9 DEF Commit, Store, history, Drafting
    <2>2. pc[r] = "committing"
      BY <1>9 DEF Commit
    <2>3. \A m \in draft[r] : m.turn = r
      BY <2>1 DEF Drafted
    <2>4. \A m \in messages : m.turn # r
      BY <2>2 DEF Saved
    <2>5. \A role \in Roles : Has(messages', r, role)
      <3>1. Has(draft[r], r, "user") /\ Has(draft[r], r, "assistant")
        BY <2>1, <2>2
      <3> QED
        BY <2>1, <3>1 DEF Roles
    <2>6. \A m \in messages' :
             /\ Has(messages', m.turn, "user")
             /\ told'[m.turn] # "gone" => Has(messages', m.turn, "assistant")
      <3>1. ASSUME NEW m \in messages
            PROVE  /\ Has(messages', m.turn, "user")
                   /\ told'[m.turn] # "gone" => Has(messages', m.turn, "assistant")
        <4>1. told'[m.turn] = told[m.turn] /\ messages \subseteq messages'
          BY <2>1, <2>4
        <4> QED
          BY <4>1
      <3> QED
        BY <2>1, <2>3, <2>5, <3>1 DEF Roles
    <2>7. \A c \in Clears : \A m \in dropped'[c] : \A n \in messages' :
             m.turn = n.turn => n \in dropped'[c]
      BY <2>1, <2>3, <2>4
    <2>8. \A u \in Turns \ {r} : draft'[u] = draft[u] /\ pc'[u] = pc[u]
      BY <2>1
    <2>9. pc'[r] = "done"
      BY <2>1
    <2> QED
      BY <2>6, <2>7, <2>8, <2>9
  <1>10. ASSUME NEW r \in Requests, Raise(r) PROVE Whole'
    BY <1>10 DEF Raise
  <1>11. ASSUME NEW r \in Requests, Rollback(r) PROVE Whole'
    <2>1. \A m \in messages : exit = "after" => m.turn # r
      BY <1>11 DEF Rollback, Saved
    <2> QED
      BY <2>1, <1>11 DEF Rollback
  <1>12. ASSUME NEW r \in Requests, SelectThread(r) PROVE Whole'
    BY <1>12 DEF SelectThread
  <1>13. ASSUME NEW r \in Requests, Wipe(r) PROVE Whole'
    <2> SUFFICES ASSUME exit = "after" PROVE Whole'
      BY <1>13 DEF Wipe
    <2>1. UNCHANGED << messages, draft, told >> /\ pc[r] = "wiping"
          /\ pc' = [pc EXCEPT ![r] = "deleting"]
          /\ dropped' = [dropped EXCEPT ![r] = {m \in messages : m.thread = mine[r]}]
      BY <1>13 DEF Wipe
    <2>2. \A m, n \in messages : m.turn = n.turn => m.thread = n.thread
      BY DEF Saved
    <2>3. \A c \in Clears : \A m \in dropped'[c] : \A n \in messages' :
             m.turn = n.turn => n \in dropped'[c]
      BY <2>1, <2>2
    <2> QED
      BY <2>1, <2>3
  <1>14. ASSUME NEW r \in Requests, DeleteThread(r) PROVE Whole'
    BY <1>14 DEF DeleteThread
  <1>15. ASSUME NEW r \in Requests, CommitClear(r) PROVE Whole'
    <2> SUFFICES ASSUME exit = "after" PROVE Whole'
      BY <1>15 DEF CommitClear
    <2>1. r \in Clears /\ draft' = draft /\ pc' = [pc EXCEPT ![r] = "done"]
          /\ messages' = messages \ dropped[r] /\ dropped' = [dropped EXCEPT ![r] = {}]
      BY <1>15 DEF CommitClear
    <2>2. \A m \in messages' :
             /\ Has(messages', m.turn, "user")
             /\ told'[m.turn] # "gone" => Has(messages', m.turn, "assistant")
      <3>1. told' = told
        BY <1>15 DEF CommitClear
      <3>2. ASSUME NEW m \in messages' PROVE m \in messages /\ m \notin dropped[r]
        BY <2>1
      <3>3. \A n \in messages : \A m \in messages' : n.turn = m.turn => n \in messages'
        BY <2>1, <3>2
      <3> QED
        BY <3>1, <3>2, <3>3
    <2>3. \A c \in Clears : \A m \in dropped'[c] : \A n \in messages' :
             m.turn = n.turn => n \in dropped'[c]
      BY <2>1
    <2> QED
      BY <2>1, <2>2, <2>3
  <1>17. ASSUME NEW r \in Requests, Leave(r) PROVE Whole'
    <2> SUFFICES ASSUME exit = "after" PROVE Whole'
      BY <1>17 DEF Leave
    <2>1. r \in Turns /\ messages' = messages \cup draft[r]
          /\ draft' = [draft EXCEPT ![r] = {}] /\ UNCHANGED << exit, dropped >>
          /\ pc' = [pc EXCEPT ![r] = "done"] /\ told' = [told EXCEPT ![r] = "gone"]
      BY <1>17 DEF Leave, Store
    <2>2. pc[r] \in Drafting \ {"aborting"} /\ pc[r] # "done"
      BY <1>17 DEF Leave
    <2>3. \A m \in draft[r] : m.turn = r
      BY <2>1 DEF Drafted
    <2>4. \A m \in messages : m.turn # r
      BY <2>2 DEF Saved
    <2>5. Has(messages', r, "user")
      <3>1. Has(draft[r], r, "user")
        BY <2>1, <2>2
      <3> QED
        BY <2>1, <3>1
    <2>6. \A m \in messages' :
             /\ Has(messages', m.turn, "user")
             /\ told'[m.turn] # "gone" => Has(messages', m.turn, "assistant")
      <3>1. ASSUME NEW m \in messages
            PROVE  /\ Has(messages', m.turn, "user")
                   /\ told'[m.turn] # "gone" => Has(messages', m.turn, "assistant")
        <4>1. told'[m.turn] = told[m.turn] /\ messages \subseteq messages'
          BY <2>1, <2>4
        <4> QED
          BY <4>1
      <3>2. \A m \in draft[r] : m.turn = r /\ told'[m.turn] = "gone"
        BY <2>1, <2>3
      <3> QED
        BY <2>1, <2>5, <3>1, <3>2
    <2>7. \A c \in Clears : \A m \in dropped'[c] : \A n \in messages' :
             m.turn = n.turn => n \in dropped'[c]
      BY <2>1, <2>3, <2>4
    <2>8. \A u \in Turns \ {r} : draft'[u] = draft[u] /\ pc'[u] = pc[u]
      BY <2>1
    <2>9. pc'[r] = "done"
      BY <2>1
    <2> QED
      BY <2>6, <2>7, <2>8, <2>9
  <1>16. CASE UNCHANGED vars
    BY <1>16 DEF vars
  <1> QED
    BY <1>1, <1>2, <1>3, <1>4, <1>5, <1>6, <1>7, <1>8, <1>9, <1>10, <1>11,
       <1>12, <1>13, <1>14, <1>15, <1>16, <1>17 DEF Next, Step

\* A clear deletes all it should, and alone.
LEMMA NextWiping ==
    ASSUME TypeOK, Places, Past, Drafted, Wiping, [Next]_vars
    PROVE  Wiping'
  <1> USE ConstantsAssumption
      DEF TypeOK, Places, Positions, Requests, Goto, stored, transactions, history,
          Wiping
  <1>1. ASSUME NEW r \in Requests, Begin(r) PROVE Wiping'
    BY <1>1 DEF Begin
  <1>2. ASSUME NEW r \in Requests, FindThread(r) PROVE Wiping'
    BY <1>2 DEF FindThread
  <1>3. ASSUME NEW r \in Requests, InsertThread(r) PROVE Wiping'
    BY <1>3 DEF InsertThread
  <1>4. ASSUME NEW r \in Requests, SaveUserMessage(r) PROVE Wiping'
    BY <1>4 DEF SaveUserMessage, Message
  <1>5. ASSUME NEW r \in Requests, Respond(r) PROVE Wiping'
    <2>0. CASE exit = "after"
      BY <2>0, <1>5 DEF Respond
    <2>a. CASE exit = "before"
      <3>1. r \in Turns /\ messages' = messages \cup draft[r] /\ pc[r] \in Drafting
            /\ draft' = [draft EXCEPT ![r] = {}] /\ UNCHANGED << exit, dropped, before, mine >>
            /\ pc' = [pc EXCEPT ![r] = "checking"]
        BY <2>a, <1>5 DEF Respond, Store, history, Drafting
  
      <3>2. \A c \in Clears : r \notin before[c]
        BY <3>1 DEF Past, Ended, Drafting
      <3>3. \A m \in messages' : m \in messages \/ m.turn = r
        BY <3>1 DEF Drafted
      <3>4. \A c \in Clears : pc'[c] = pc[c] /\ dropped'[c] = dropped[c] /\ mine'[c] = mine[c]
                               /\ before'[c] = before[c]
        BY <3>1, ConstantsAssumption
      <3>5. messages \subseteq messages'
        BY <3>1
      <3> QED
        BY <3>2, <3>3, <3>4, <3>5
    <2> QED
      BY <2>0, <2>a
  <1>6. ASSUME NEW r \in Requests, CheckBudget(r) PROVE Wiping'
    BY <1>6 DEF CheckBudget
  <1>7. ASSUME NEW r \in Requests, Call(r) PROVE Wiping'
    BY <1>7 DEF Call
  <1>8. ASSUME NEW r \in Requests, SaveAssistantMessage(r) PROVE Wiping'
    BY <1>8 DEF SaveAssistantMessage, Message
  <1>9. ASSUME NEW r \in Requests, Commit(r) PROVE Wiping'
    <2>1. r \in Turns /\ messages' = messages \cup draft[r] /\ pc[r] \in Drafting
          /\ draft' = [draft EXCEPT ![r] = {}] /\ UNCHANGED << exit, dropped, before, mine >>
          /\ pc' = [pc EXCEPT ![r] = "done"]
      BY <1>9 DEF Commit, Store, history, Drafting

    <2>2. \A c \in Clears : r \notin before[c]
      BY <2>1 DEF Past, Ended, Drafting
    <2>3. \A m \in messages' : m \in messages \/ m.turn = r
      BY <2>1 DEF Drafted
    <2>4. \A c \in Clears : pc'[c] = pc[c] /\ dropped'[c] = dropped[c] /\ mine'[c] = mine[c]
                             /\ before'[c] = before[c]
      BY <2>1, ConstantsAssumption
    <2>5. messages \subseteq messages'
      BY <2>1
    <2> QED
      BY <2>2, <2>3, <2>4, <2>5
  <1>10. ASSUME NEW r \in Requests, Raise(r) PROVE Wiping'
    BY <1>10 DEF Raise
  <1>11. ASSUME NEW r \in Requests, Rollback(r) PROVE Wiping'
    BY <1>11 DEF Rollback
  <1>12. ASSUME NEW r \in Requests, SelectThread(r) PROVE Wiping'
    BY <1>12 DEF SelectThread
  <1>13. ASSUME NEW r \in Requests, Wipe(r) PROVE Wiping'
    BY <1>13 DEF Wipe
  <1>14. ASSUME NEW r \in Requests, DeleteThread(r) PROVE Wiping'
    BY <1>14 DEF DeleteThread
  <1>15. ASSUME NEW r \in Requests, CommitClear(r) PROVE Wiping'
    BY <1>15 DEF CommitClear
  <1>17. ASSUME NEW r \in Requests, Leave(r) PROVE Wiping'
    <2>1. r \in Turns /\ messages' = messages \cup draft[r] /\ pc[r] \in Drafting
          /\ draft' = [draft EXCEPT ![r] = {}] /\ UNCHANGED << exit, dropped, before, mine >>
          /\ pc' = [pc EXCEPT ![r] = "done"]
      BY <1>17 DEF Leave, Store, history, Drafting

    <2>2. \A c \in Clears : r \notin before[c]
      BY <2>1 DEF Past, Ended, Drafting
    <2>3. \A m \in messages' : m \in messages \/ m.turn = r
      BY <2>1 DEF Drafted
    <2>4. \A c \in Clears : pc'[c] = pc[c] /\ dropped'[c] = dropped[c] /\ mine'[c] = mine[c]
                             /\ before'[c] = before[c]
      BY <2>1, ConstantsAssumption
    <2>5. messages \subseteq messages'
      BY <2>1
    <2> QED
      BY <2>2, <2>3, <2>4, <2>5
  <1>16. CASE UNCHANGED vars
    BY <1>16 DEF vars
  <1> QED
    BY <1>1, <1>2, <1>3, <1>4, <1>5, <1>6, <1>7, <1>8, <1>9, <1>10, <1>11,
       <1>12, <1>13, <1>14, <1>15, <1>16, <1>17 DEF Next, Step

\* What a clear has deleted stays away.
LEMMA NextCleared ==
    ASSUME TypeOK, Places, Past, Drafted, Wiping, ClearedIsGone, [Next]_vars
    PROVE  ClearedIsGone'
  <1> USE ConstantsAssumption
      DEF TypeOK, Places, Positions, Requests, Goto, stored, transactions, history,
          ClearedIsGone
  <1>1. ASSUME NEW r \in Requests, Begin(r) PROVE ClearedIsGone'
    BY <1>1 DEF Begin
  <1>2. ASSUME NEW r \in Requests, FindThread(r) PROVE ClearedIsGone'
    BY <1>2 DEF FindThread
  <1>3. ASSUME NEW r \in Requests, InsertThread(r) PROVE ClearedIsGone'
    BY <1>3 DEF InsertThread
  <1>4. ASSUME NEW r \in Requests, SaveUserMessage(r) PROVE ClearedIsGone'
    BY <1>4 DEF SaveUserMessage, Message
  <1>5. ASSUME NEW r \in Requests, Respond(r) PROVE ClearedIsGone'
    <2>0. CASE exit = "after"
      BY <2>0, <1>5 DEF Respond
    <2>a. CASE exit = "before"
      <3>1. r \in Turns /\ messages' = messages \cup draft[r] /\ pc[r] \in Drafting
            /\ draft' = [draft EXCEPT ![r] = {}] /\ UNCHANGED << exit, dropped, before, mine >>
            /\ pc' = [pc EXCEPT ![r] = "checking"]
        BY <2>a, <1>5 DEF Respond, Store, history, Drafting
  
      <3>2. \A c \in Clears : r \notin before[c]
        BY <3>1 DEF Past, Ended, Drafting
      <3>3. \A m \in messages' : m \in messages \/ m.turn = r
        BY <3>1 DEF Drafted
      <3>4. \A c \in Clears : pc'[c] = pc[c] /\ dropped'[c] = dropped[c] /\ mine'[c] = mine[c]
                               /\ before'[c] = before[c]
        BY <3>1, ConstantsAssumption
      <3>5. messages \subseteq messages'
        BY <3>1
      <3> QED
        BY <3>2, <3>3, <3>4, <3>5
    <2> QED
      BY <2>0, <2>a
  <1>6. ASSUME NEW r \in Requests, CheckBudget(r) PROVE ClearedIsGone'
    BY <1>6 DEF CheckBudget
  <1>7. ASSUME NEW r \in Requests, Call(r) PROVE ClearedIsGone'
    BY <1>7 DEF Call
  <1>8. ASSUME NEW r \in Requests, SaveAssistantMessage(r) PROVE ClearedIsGone'
    BY <1>8 DEF SaveAssistantMessage, Message
  <1>9. ASSUME NEW r \in Requests, Commit(r) PROVE ClearedIsGone'
    <2>1. r \in Turns /\ messages' = messages \cup draft[r] /\ pc[r] \in Drafting
          /\ draft' = [draft EXCEPT ![r] = {}] /\ UNCHANGED << exit, dropped, before, mine >>
          /\ pc' = [pc EXCEPT ![r] = "done"]
      BY <1>9 DEF Commit, Store, history, Drafting

    <2>2. \A c \in Clears : r \notin before[c]
      BY <2>1 DEF Past, Ended, Drafting
    <2>3. \A m \in messages' : m \in messages \/ m.turn = r
      BY <2>1 DEF Drafted
    <2>4. \A c \in Clears : pc'[c] = pc[c] /\ dropped'[c] = dropped[c] /\ mine'[c] = mine[c]
                             /\ before'[c] = before[c]
      BY <2>1, ConstantsAssumption
    <2>5. messages \subseteq messages'
      BY <2>1
    <2> QED
      BY <2>2, <2>3, <2>4, <2>5
  <1>10. ASSUME NEW r \in Requests, Raise(r) PROVE ClearedIsGone'
    BY <1>10 DEF Raise
  <1>11. ASSUME NEW r \in Requests, Rollback(r) PROVE ClearedIsGone'
    BY <1>11 DEF Rollback
  <1>12. ASSUME NEW r \in Requests, SelectThread(r) PROVE ClearedIsGone'
    BY <1>12, ConstantsAssumption DEF SelectThread, Messages
  <1>13. ASSUME NEW r \in Requests, Wipe(r) PROVE ClearedIsGone'
    BY <1>13 DEF Wipe
  <1>14. ASSUME NEW r \in Requests, DeleteThread(r) PROVE ClearedIsGone'
    BY <1>14 DEF DeleteThread
  <1>15. ASSUME NEW r \in Requests, CommitClear(r) PROVE ClearedIsGone'
    BY <1>15 DEF CommitClear, Wiping
  <1>17. ASSUME NEW r \in Requests, Leave(r) PROVE ClearedIsGone'
    <2>1. r \in Turns /\ messages' = messages \cup draft[r] /\ pc[r] \in Drafting
          /\ draft' = [draft EXCEPT ![r] = {}] /\ UNCHANGED << exit, dropped, before, mine >>
          /\ pc' = [pc EXCEPT ![r] = "done"]
      BY <1>17 DEF Leave, Store, history, Drafting

    <2>2. \A c \in Clears : r \notin before[c]
      BY <2>1 DEF Past, Ended, Drafting
    <2>3. \A m \in messages' : m \in messages \/ m.turn = r
      BY <2>1 DEF Drafted
    <2>4. \A c \in Clears : pc'[c] = pc[c] /\ dropped'[c] = dropped[c] /\ mine'[c] = mine[c]
                             /\ before'[c] = before[c]
      BY <2>1, ConstantsAssumption
    <2>5. messages \subseteq messages'
      BY <2>1
    <2> QED
      BY <2>2, <2>3, <2>4, <2>5
  <1>16. CASE UNCHANGED vars
    BY <1>16 DEF vars
  <1> QED
    BY <1>1, <1>2, <1>3, <1>4, <1>5, <1>6, <1>7, <1>8, <1>9, <1>10, <1>11,
       <1>12, <1>13, <1>14, <1>15, <1>16, <1>17 DEF Next, Step

\* Every step preserves the invariant.
LEMMA Inductive ==
    ASSUME IInv, [Next]_vars
    PROVE  IInv'
  <1> USE DEF IInv, HistoryInv, BudgetInv
  <1>1. Places' /\ Past' /\ Drafted' /\ Saved'
    BY NextPlaces, NextPast, NextDrafted, NextSaved
  <1>2. Metered' /\ Margin' /\ Recorded'
    BY NextMetered, NextAccount
  <1>3. TypeOK'
    BY <1>2, NextType
  <1>4. Ordered' /\ Bounded' /\ Whole'
    BY NextOrdered, NextBounded, NextWhole
  <1>5. Wiping' /\ ClearedIsGone'
    BY NextWiping, NextCleared
  <1> QED
    BY <1>1, <1>2, <1>3, <1>4, <1>5

\* The invariant holds for any number of turns, clears, rounds and any budget.
THEOREM Invariance == Spec => []IInv
  BY InitInvariant, Inductive, PTL DEF Spec

\* It says that turns are in order.
LEMMA OrderFromInvariant ==
    ASSUME IInv
    PROVE  TurnsInOrder
  <1> USE DEF IInv, HistoryInv
  <1>1. ASSUME NEW m \in messages, NEW n \in messages, m.thread = n.thread
        PROVE  /\ m.turn \in before[n.turn] => m.index < n.index
               /\ m.turn = n.turn /\ m.role = "user" /\ n.role = "assistant" =>
                      m.index < n.index
    <2>1. n.turn \in Turns /\ n \in Own(n.turn) /\ (m.turn = n.turn => m \in Own(n.turn))
      BY DEF TypeOK, Messages, Own
    <2> QED
      BY <2>1, <1>1 DEF Ordered
  <1> QED
    BY <1>1 DEF TurnsInOrder

\* And that turns are whole.
LEMMA WholeFromInvariant ==
    ASSUME IInv
    PROVE  TurnIsWhole
  <1> USE DEF IInv, HistoryInv, TypeOK
  <1> DEFINE Kept(u) == {m.role : m \in {n \in messages : n.turn = u}}
  <1>1. \A m \in messages : m.role \in Roles
    BY DEF Messages
  <1>2. ASSUME NEW u \in Turns, exit = "after"
        PROVE  Kept(u) \in {{}, Roles} \/ (Kept(u) = {"user"} /\ told[u] = "gone")
    <2>1. CASE \E m \in messages : m.turn = u
      <3>1. /\ \E m \in messages : m.turn = u /\ m.role = "user"
            /\ told[u] # "gone" => \E m \in messages : m.turn = u /\ m.role = "assistant"
        BY <1>2, <2>1 DEF Whole, Has
      <3>2. "user" \in Kept(u) /\ (told[u] # "gone" => "assistant" \in Kept(u))
        BY <3>1
      <3>3. Kept(u) \subseteq {"user", "assistant"}
        BY <1>1 DEF Roles
      <3> HIDE DEF Kept
      <3> QED
        BY <3>2, <3>3 DEF Roles
    <2>2. CASE ~ \E m \in messages : m.turn = u
      BY <2>2
    <2> QED
      BY <2>1, <2>2
  <1>3. ASSUME NEW u \in Turns, told[u] = "error"
        PROVE  Kept(u) \subseteq IF exit = "before" THEN {"user"} ELSE {}
    BY <1>1, <1>3 DEF Saved, Roles
  <1> QED
    BY <1>2, <1>3 DEF TurnIsWhole

\* The history of any number of turns and clears is in order and whole.
THEOREM HistoryHolds == Spec => []Inv
  <1>1. IInv => Inv
    BY OrderFromInvariant, WholeFromInvariant DEF IInv, Inv
  <1> QED
    BY <1>1, Invariance, PTL

\* A clear leaves nothing of the turns that had ended when it began, whatever
\* turns and other clears do meanwhile.
THEOREM ClearsErase == Spec => []ClearedIsGone
  <1>1. IInv => ClearedIsGone
    BY DEF IInv, HistoryInv
  <1> QED
    BY <1>1, Invariance, PTL

\* The day's tokens pass the cap by no more than the rounds of the turns that
\* were under way at once.
THEOREM BudgetBounded == Spec => []MarginOfCrowd
  <1>1. ASSUME IInv
        PROVE  MarginOfCrowd
    <2>1. Cardinality(Spending) \in Nat /\ MaxRounds \in Nat
      BY Finite, ConstantsAssumption DEF Spending
    <2>2. MaxRounds * Cardinality(Spending) \in Nat
      BY <2>1, Product
    <2>3. Cardinality(Turns) \in Nat
      BY Finite
    <2>4. crowd \in Nat /\ MaxRounds * Cardinality(Turns) \in Nat
      BY <1>1, <2>1, <2>3, Product DEF IInv, TypeOK
    <2>5. recorded \in Nat
      BY <1>1, <2>4 DEF IInv, TypeOK
    <2>6. MaxRounds * crowd \in Nat
      BY <2>1, <2>4, Product
    <2> QED
      BY <1>1, <2>2, <2>5, <2>6, ConstantsAssumption DEF IInv, BudgetInv, Margin, MarginOfCrowd
  <1> QED
    BY <1>1, Invariance, PTL

=============================================================================
