------------------------ MODULE TenantIntegrations_proofs ------------------------
(***************************************************************************)
(* TenantIntegrations for any number of requests, codes and tokens: types, *)
(* what the end of a one-time code has to do with the link made with it,   *)
(* and what becomes of a refresh token that the provider replaces.         *)
(***************************************************************************)
EXTENDS TenantIntegrations, TLAPS

\* A request that works on a code, and one that works on what it linked.
Redeeming == {"reading", "deleting", "judging", "exchanging"}
Linking == {"judging", "exchanging", "selecting", "writing", "working", "committing"}

\* Only a redemption works on a code, and only a use refreshes.
CodesAreRedeemed ==
    \A h \in Requests : /\ pc[h] \in Redeeming => task[h] = "redeem"
                        /\ pc[h] \in {"refreshing", "rereading"} => task[h] = "use"

\* The integration is locked by a request that is about to commit or to roll
\* back, and a request whose change was committed is over.
Locked ==
    /\ locker # Nobody => pc[locker] \in {"working", "committing", "aborting"}
    /\ \A h \in Requests :
          /\ pc[h] = "working" /\ task[h] # "disconnect" => locker = h
          /\ h \in written => pc[h] = "done"

\* A redemption that is past the DELETE has deleted its code, or found it gone.
CodeInHand ==
    \A h \in Requests :
        task[h] = "redeem" /\ pc[h] \in Linking =>
            code[h] \in deleting[h] \/ code[h] \notin alive

\* What a request was told, from the moment it is decided to the end.
Answers ==
    \A h \in Requests :
        /\ told[h] = "invalid" =>
              \/ pc[h] = "committing" /\ task[h] = "redeem"
              \/ pc[h] = "done" /\ code[h] \notin alive
        /\ kind = "oauth" /\ told[h] = "linked" =>
              \/ pc[h] = "committing" /\ locker = h
              \/ pc[h] = "done" /\ h \in written

\* Codes known to be redeemed are gone, and no request has come past the
\* lookup with one of them.
LateCodes ==
    \A h \in Requests :
        /\ late[h] \cap alive = {}
        /\ task[h] = "redeem" /\ pc[h] # "new" =>
              \/ pc[h] \in {"reading", "committing", "aborting", "done"}
              \/ code[h] \notin late[h]
        /\ task[h] = "redeem" /\ (locker = h \/ h \in written) => code[h] \notin late[h]

CodeInv == /\ CodesAreRedeemed /\ Locked /\ CodeInHand /\ Answers /\ LateCodes
           /\ LinkConsumesCode

\* The tokens of the provider are numbered as they are issued.
Numbered ==
    /\ row # NoRow => row.token <= issued
    /\ \A h \in Requests : /\ new[h] <= issued
                           /\ seen[h] # NoRow => seen[h].token <= issued

\* A request has no token before it asked for one, a use that goes on after a
\* refresh holds the row, and the change of the row is what its author made.
Holding ==
    /\ \A h \in Requests :
          /\ pc[h] \in {"new", "reading", "deleting", "judging", "exchanging",
                        "refreshing"} => new[h] = 0
          /\ task[h] = "use" /\ pc[h] = "selecting" => new[h] = 0
          /\ task[h] = "demo" => new[h] = 0
          /\ pc[h] \in {"refreshing", "rereading"} => seen[h] # NoRow
          /\ pc[h] = "rereading" => new[h] # 0
          /\ task[h] = "use" /\ pc[h] = "writing" => first[h] # NoRow /\ new[h] # 0
          /\ task[h] = "use" /\ pc[h] = "committing" /\ new[h] # 0 => locker = h
    /\ draft # NoRow => locker # Nobody /\ draft.token = new[locker]

\* A token that a request has received and not yet committed is known to it
\* alone: nobody can have given it back to the provider.
Private ==
    \A h \in Requests :
        new[h] # 0 /\ pc[h] \notin {"done", "aborting"} =>
            /\ new[h] \in valid
            /\ row # NoRow => row.token # new[h]
            /\ \A r \in Requests : /\ seen[r] # NoRow => seen[r].token # new[h]
                                   /\ r # h => new[r] # new[h]

TokenInv == Numbered /\ Holding /\ Private

IInv == TypeOK /\ CodeInv /\ TokenInv /\ RefreshTokenKept

-----------------------------------------------------------------------------
\* The initial state satisfies the invariant.
LEMMA InitInvariant == Init => IInv
  <1> SUFFICES ASSUME Init PROVE IInv
    OBVIOUS
  <1> USE ConstantsAssumption DEF Init
  <1>1. TypeOK
    BY DEF TypeOK, Positions, Tasks, Told, Rows, Connected
  <1>2. CodeInv
    BY DEF CodeInv, CodesAreRedeemed, Redeeming, Locked, CodeInHand, Linking, Answers,
           LateCodes, LinkConsumesCode, Redeemed
  <1>3. TokenInv
    BY DEF TokenInv, Numbered, Holding, Private, Connected
  <1>4. RefreshTokenKept
    BY DEF RefreshTokenKept, Connected
  <1> QED
    BY <1>1, <1>2, <1>3, <1>4 DEF IInv

\* Types are preserved.
LEMMA NextType ==
    ASSUME TypeOK, Holding, [Next]_vars
    PROVE  TypeOK'
  <1> USE ConstantsAssumption
      DEF TypeOK, Positions, Tasks, Told, Rows, Redeemed, Goto, Tell, transactions,
          locals, provider, history
  <1>1. ASSUME NEW h \in Requests, Begin(h) PROVE TypeOK'
    BY <1>1 DEF Begin
  <1>2. ASSUME NEW h \in Requests, ReadCode(h) PROVE TypeOK'
    BY <1>2 DEF ReadCode
  <1>3. ASSUME NEW h \in Requests, DeleteCode(h) PROVE TypeOK'
    BY <1>3 DEF DeleteCode
  <1>4. ASSUME NEW h \in Requests, JudgeCode(h) PROVE TypeOK'
    BY <1>4 DEF JudgeCode
  <1>5. ASSUME NEW h \in Requests, ExchangeCode(h) PROVE TypeOK'
    BY <1>5 DEF ExchangeCode, Issue
  <1>6. ASSUME NEW h \in Requests, ExchangeFails(h) PROVE TypeOK'
    BY <1>6 DEF ExchangeFails
  <1>7. ASSUME NEW h \in Requests, Refresh(h) PROVE TypeOK'
    <2>1. issued + 1 \in 1 .. MaxTokens /\ issued' = issued + 1
      BY <1>7 DEF Refresh, Issue
    <2>2. valid' \in SUBSET (1 .. MaxTokens)
      BY <2>1, <1>7 DEF Refresh
    <2>3. new' \in [Requests -> 0 .. MaxTokens]
      BY <2>1, <1>7 DEF Refresh, Issue
    <2> QED
      BY <2>1, <2>2, <2>3, <1>7 DEF Refresh
  <1>8. ASSUME NEW h \in Requests, RefreshFails(h) PROVE TypeOK'
    BY <1>8 DEF RefreshFails
  <1>9. ASSUME NEW h \in Requests, Select(h) PROVE TypeOK'
    BY <1>9 DEF Select
  <1>20. ASSUME NEW h \in Requests, Reread(h) PROVE TypeOK'
    BY <1>20 DEF Reread
  <1>10. ASSUME NEW h \in Requests, Write(h) PROVE TypeOK'
    <2>1. Made(h) \in Rows \cup {NoRow}
      <3>1. CASE task[h] = "disconnect"
        BY <3>1 DEF Made
      <3>2. CASE task[h] = "use"
        <4>1. first[h] \in Rows /\ (seen[h] # NoRow => row \in Rows /\ seen[h] \in Rows)
          BY <1>10, <3>2 DEF Write, SameRow, Holding
        <4> QED
          BY <3>2, <4>1 DEF Made, Refreshed
      <3>3. CASE task[h] \in {"redeem", "demo"}
        <4>1. seen[h] # NoRow => row \in Rows /\ seen[h] \in Rows
          BY <1>10 DEF Write, SameRow
        <4> QED
          BY <3>3, <4>1 DEF Made
      <3> QED
        BY <3>1, <3>2, <3>3
    <2> QED
      BY <2>1, <1>10 DEF Write
  <1>11. ASSUME NEW h \in Requests, Clash(h) PROVE TypeOK'
    BY <1>11 DEF Clash, SameRow
  <1>12. ASSUME NEW h \in Requests, DeleteNothing(h) PROVE TypeOK'
    BY <1>12 DEF DeleteNothing, SameRow
  <1>13. ASSUME NEW h \in Requests, Finish(h) PROVE TypeOK'
    BY <1>13 DEF Finish
  <1>14. ASSUME NEW h \in Requests, Raise(h) PROVE TypeOK'
    BY <1>14 DEF Raise
  <1>15. ASSUME NEW h \in Requests, Commit(h) PROVE TypeOK'
    BY <1>15 DEF Commit, Unlock
  <1>16. ASSUME NEW h \in Requests, Rollback(h) PROVE TypeOK'
    BY <1>16 DEF Rollback, Unlock
  <1>17. ASSUME NEW h \in Requests, Crash(h) PROVE TypeOK'
    BY <1>17 DEF Crash
  <1>18. ASSUME NEW c \in Codes, Spoil(c) PROVE TypeOK'
    BY <1>18 DEF Spoil
  <1>19. CASE UNCHANGED vars
    BY <1>19 DEF vars
  <1> QED
    BY <1>1, <1>2, <1>3, <1>4, <1>5, <1>6, <1>7, <1>8, <1>9, <1>10,
       <1>11, <1>12, <1>13, <1>14, <1>15, <1>16, <1>17, <1>18, <1>19,
       <1>20 DEF Next, Step

\* A request keeps its task.
LEMMA NextCodes ==
    ASSUME TypeOK, CodesAreRedeemed, [Next]_vars
    PROVE  CodesAreRedeemed'
  <1> USE DEF TypeOK, Positions, Tasks, CodesAreRedeemed, Redeeming, Goto, Tell,
              transactions, locals, provider, history
  <1>1. ASSUME NEW h \in Requests, Begin(h) PROVE CodesAreRedeemed'
    BY <1>1 DEF Begin
  <1>2. ASSUME NEW h \in Requests, ReadCode(h) PROVE CodesAreRedeemed'
    BY <1>2 DEF ReadCode
  <1>3. ASSUME NEW h \in Requests, DeleteCode(h) PROVE CodesAreRedeemed'
    BY <1>3 DEF DeleteCode
  <1>4. ASSUME NEW h \in Requests, JudgeCode(h) PROVE CodesAreRedeemed'
    BY <1>4 DEF JudgeCode
  <1>5. ASSUME NEW h \in Requests, ExchangeCode(h) PROVE CodesAreRedeemed'
    BY <1>5 DEF ExchangeCode, Issue
  <1>6. ASSUME NEW h \in Requests, ExchangeFails(h) PROVE CodesAreRedeemed'
    BY <1>6 DEF ExchangeFails
  <1>7. ASSUME NEW h \in Requests, Refresh(h) PROVE CodesAreRedeemed'
    BY <1>7 DEF Refresh, Issue
  <1>8. ASSUME NEW h \in Requests, RefreshFails(h) PROVE CodesAreRedeemed'
    BY <1>8 DEF RefreshFails
  <1>9. ASSUME NEW h \in Requests, Select(h) PROVE CodesAreRedeemed'
    BY <1>9 DEF Select
  <1>20. ASSUME NEW h \in Requests, Reread(h) PROVE CodesAreRedeemed'
    BY <1>20 DEF Reread
  <1>10. ASSUME NEW h \in Requests, Write(h) PROVE CodesAreRedeemed'
    BY <1>10 DEF Write, Made, Refreshed, SameRow
  <1>11. ASSUME NEW h \in Requests, Clash(h) PROVE CodesAreRedeemed'
    BY <1>11 DEF Clash, SameRow
  <1>12. ASSUME NEW h \in Requests, DeleteNothing(h) PROVE CodesAreRedeemed'
    BY <1>12 DEF DeleteNothing, SameRow
  <1>13. ASSUME NEW h \in Requests, Finish(h) PROVE CodesAreRedeemed'
    BY <1>13 DEF Finish
  <1>14. ASSUME NEW h \in Requests, Raise(h) PROVE CodesAreRedeemed'
    BY <1>14 DEF Raise
  <1>15. ASSUME NEW h \in Requests, Commit(h) PROVE CodesAreRedeemed'
    BY <1>15 DEF Commit, Unlock
  <1>16. ASSUME NEW h \in Requests, Rollback(h) PROVE CodesAreRedeemed'
    BY <1>16 DEF Rollback, Unlock
  <1>17. ASSUME NEW h \in Requests, Crash(h) PROVE CodesAreRedeemed'
    BY <1>17 DEF Crash
  <1>18. ASSUME NEW c \in Codes, Spoil(c) PROVE CodesAreRedeemed'
    BY <1>18 DEF Spoil
  <1>19. CASE UNCHANGED vars
    BY <1>19 DEF vars
  <1> QED
    BY <1>1, <1>2, <1>3, <1>4, <1>5, <1>6, <1>7, <1>8, <1>9, <1>10,
       <1>11, <1>12, <1>13, <1>14, <1>15, <1>16, <1>17, <1>18, <1>19,
       <1>20 DEF Next, Step

\* Locks are taken by who goes on to commit, and given back.
LEMMA NextLocked ==
    ASSUME TypeOK, CodesAreRedeemed, Locked, [Next]_vars
    PROVE  Locked'
  <1> USE ConstantsAssumption
      DEF TypeOK, Positions, Tasks, CodesAreRedeemed, Redeeming, Locked, Goto, Tell,
          transactions, locals, provider, history
  <1>1. ASSUME NEW h \in Requests, Begin(h) PROVE Locked'
    BY <1>1 DEF Begin
  <1>2. ASSUME NEW h \in Requests, ReadCode(h) PROVE Locked'
    BY <1>2 DEF ReadCode
  <1>3. ASSUME NEW h \in Requests, DeleteCode(h) PROVE Locked'
    BY <1>3 DEF DeleteCode
  <1>4. ASSUME NEW h \in Requests, JudgeCode(h) PROVE Locked'
    BY <1>4 DEF JudgeCode
  <1>5. ASSUME NEW h \in Requests, ExchangeCode(h) PROVE Locked'
    BY <1>5 DEF ExchangeCode, Issue
  <1>6. ASSUME NEW h \in Requests, ExchangeFails(h) PROVE Locked'
    BY <1>6 DEF ExchangeFails
  <1>7. ASSUME NEW h \in Requests, Refresh(h) PROVE Locked'
    BY <1>7 DEF Refresh, Issue
  <1>8. ASSUME NEW h \in Requests, RefreshFails(h) PROVE Locked'
    BY <1>8 DEF RefreshFails
  <1>9. ASSUME NEW h \in Requests, Select(h) PROVE Locked'
    BY <1>9 DEF Select
  <1>20. ASSUME NEW h \in Requests, Reread(h) PROVE Locked'
    BY <1>20 DEF Reread
  <1>10. ASSUME NEW h \in Requests, Write(h) PROVE Locked'
    BY <1>10 DEF Write, Made, Refreshed, SameRow
  <1>11. ASSUME NEW h \in Requests, Clash(h) PROVE Locked'
    BY <1>11 DEF Clash, SameRow
  <1>12. ASSUME NEW h \in Requests, DeleteNothing(h) PROVE Locked'
    BY <1>12 DEF DeleteNothing, SameRow
  <1>13. ASSUME NEW h \in Requests, Finish(h) PROVE Locked'
    BY <1>13 DEF Finish
  <1>14. ASSUME NEW h \in Requests, Raise(h) PROVE Locked'
    BY <1>14 DEF Raise
  <1>15. ASSUME NEW h \in Requests, Commit(h) PROVE Locked'
    BY <1>15 DEF Commit, Unlock
  <1>16. ASSUME NEW h \in Requests, Rollback(h) PROVE Locked'
    BY <1>16 DEF Rollback, Unlock
  <1>17. ASSUME NEW h \in Requests, Crash(h) PROVE Locked'
    BY <1>17 DEF Crash
  <1>18. ASSUME NEW c \in Codes, Spoil(c) PROVE Locked'
    BY <1>18 DEF Spoil
  <1>19. CASE UNCHANGED vars
    BY <1>19 DEF vars
  <1> QED
    BY <1>1, <1>2, <1>3, <1>4, <1>5, <1>6, <1>7, <1>8, <1>9, <1>10,
       <1>11, <1>12, <1>13, <1>14, <1>15, <1>16, <1>17, <1>18, <1>19,
       <1>20 DEF Next, Step

\* A code that has been deleted or was gone does not come back.
LEMMA NextCodeInHand ==
    ASSUME TypeOK, CodesAreRedeemed, CodeInHand, [Next]_vars
    PROVE  CodeInHand'
  <1> USE DEF TypeOK, Positions, Tasks, CodesAreRedeemed, Redeeming, Linking,
              CodeInHand, Goto, Tell, transactions, locals, provider, history
  <1>1. ASSUME NEW h \in Requests, Begin(h) PROVE CodeInHand'
    BY <1>1 DEF Begin
  <1>2. ASSUME NEW h \in Requests, ReadCode(h) PROVE CodeInHand'
    BY <1>2 DEF ReadCode
  <1>3. ASSUME NEW h \in Requests, DeleteCode(h) PROVE CodeInHand'
    BY <1>3 DEF DeleteCode
  <1>4. ASSUME NEW h \in Requests, JudgeCode(h) PROVE CodeInHand'
    BY <1>4 DEF JudgeCode
  <1>5. ASSUME NEW h \in Requests, ExchangeCode(h) PROVE CodeInHand'
    BY <1>5 DEF ExchangeCode, Issue
  <1>6. ASSUME NEW h \in Requests, ExchangeFails(h) PROVE CodeInHand'
    BY <1>6 DEF ExchangeFails
  <1>7. ASSUME NEW h \in Requests, Refresh(h) PROVE CodeInHand'
    BY <1>7 DEF Refresh, Issue
  <1>8. ASSUME NEW h \in Requests, RefreshFails(h) PROVE CodeInHand'
    BY <1>8 DEF RefreshFails
  <1>9. ASSUME NEW h \in Requests, Select(h) PROVE CodeInHand'
    BY <1>9 DEF Select
  <1>20. ASSUME NEW h \in Requests, Reread(h) PROVE CodeInHand'
    BY <1>20 DEF Reread
  <1>10. ASSUME NEW h \in Requests, Write(h) PROVE CodeInHand'
    BY <1>10 DEF Write, Made, Refreshed, SameRow
  <1>11. ASSUME NEW h \in Requests, Clash(h) PROVE CodeInHand'
    BY <1>11 DEF Clash, SameRow
  <1>12. ASSUME NEW h \in Requests, DeleteNothing(h) PROVE CodeInHand'
    BY <1>12 DEF DeleteNothing, SameRow
  <1>13. ASSUME NEW h \in Requests, Finish(h) PROVE CodeInHand'
    BY <1>13 DEF Finish
  <1>14. ASSUME NEW h \in Requests, Raise(h) PROVE CodeInHand'
    BY <1>14 DEF Raise
  <1>15. ASSUME NEW h \in Requests, Commit(h) PROVE CodeInHand'
    BY <1>15 DEF Commit, Unlock
  <1>16. ASSUME NEW h \in Requests, Rollback(h) PROVE CodeInHand'
    BY <1>16 DEF Rollback, Unlock
  <1>17. ASSUME NEW h \in Requests, Crash(h) PROVE CodeInHand'
    BY <1>17 DEF Crash
  <1>18. ASSUME NEW c \in Codes, Spoil(c) PROVE CodeInHand'
    BY <1>18 DEF Spoil
  <1>19. CASE UNCHANGED vars
    BY <1>19 DEF vars
  <1> QED
    BY <1>1, <1>2, <1>3, <1>4, <1>5, <1>6, <1>7, <1>8, <1>9, <1>10,
       <1>11, <1>12, <1>13, <1>14, <1>15, <1>16, <1>17, <1>18, <1>19,
       <1>20 DEF Next, Step

\* An answer stays true.
LEMMA NextAnswers ==
    ASSUME TypeOK, CodesAreRedeemed, Locked, CodeInHand, Answers, [Next]_vars
    PROVE  Answers'
  <1> USE ConstantsAssumption
      DEF TypeOK, Positions, Tasks, CodesAreRedeemed, Redeeming, Linking, Locked,
          CodeInHand, Answers, Told, Goto, Tell, transactions, locals, provider,
          history
  <1>1. ASSUME NEW h \in Requests, Begin(h) PROVE Answers'
    BY <1>1 DEF Begin
  <1>2. ASSUME NEW h \in Requests, ReadCode(h) PROVE Answers'
    BY <1>2 DEF ReadCode
  <1>3. ASSUME NEW h \in Requests, DeleteCode(h) PROVE Answers'
    BY <1>3 DEF DeleteCode
  <1>4. ASSUME NEW h \in Requests, JudgeCode(h) PROVE Answers'
    BY <1>4 DEF JudgeCode
  <1>5. ASSUME NEW h \in Requests, ExchangeCode(h) PROVE Answers'
    BY <1>5 DEF ExchangeCode, Issue
  <1>6. ASSUME NEW h \in Requests, ExchangeFails(h) PROVE Answers'
    BY <1>6 DEF ExchangeFails
  <1>7. ASSUME NEW h \in Requests, Refresh(h) PROVE Answers'
    BY <1>7 DEF Refresh, Issue
  <1>8. ASSUME NEW h \in Requests, RefreshFails(h) PROVE Answers'
    BY <1>8 DEF RefreshFails
  <1>9. ASSUME NEW h \in Requests, Select(h) PROVE Answers'
    BY <1>9 DEF Select
  <1>20. ASSUME NEW h \in Requests, Reread(h) PROVE Answers'
    BY <1>20 DEF Reread
  <1>10. ASSUME NEW h \in Requests, Write(h) PROVE Answers'
    BY <1>10 DEF Write, Made, Refreshed, SameRow
  <1>11. ASSUME NEW h \in Requests, Clash(h) PROVE Answers'
    BY <1>11 DEF Clash, SameRow
  <1>12. ASSUME NEW h \in Requests, DeleteNothing(h) PROVE Answers'
    BY <1>12 DEF DeleteNothing, SameRow
  <1>13. ASSUME NEW h \in Requests, Finish(h) PROVE Answers'
    BY <1>13 DEF Finish
  <1>14. ASSUME NEW h \in Requests, Raise(h) PROVE Answers'
    BY <1>14 DEF Raise
  <1>15. ASSUME NEW h \in Requests, Commit(h) PROVE Answers'
    BY <1>15 DEF Commit, Unlock
  <1>16. ASSUME NEW h \in Requests, Rollback(h) PROVE Answers'
    BY <1>16 DEF Rollback, Unlock
  <1>17. ASSUME NEW h \in Requests, Crash(h) PROVE Answers'
    BY <1>17 DEF Crash
  <1>18. ASSUME NEW c \in Codes, Spoil(c) PROVE Answers'
    BY <1>18 DEF Spoil
  <1>19. CASE UNCHANGED vars
    BY <1>19 DEF vars
  <1> QED
    BY <1>1, <1>2, <1>3, <1>4, <1>5, <1>6, <1>7, <1>8, <1>9, <1>10,
       <1>11, <1>12, <1>13, <1>14, <1>15, <1>16, <1>17, <1>18, <1>19,
       <1>20 DEF Next, Step

\* A request does not come past the lookup with a code that it knows to be gone.
LEMMA NextLate ==
    ASSUME TypeOK, CodesAreRedeemed, Locked, LateCodes, LinkConsumesCode, [Next]_vars
    PROVE  LateCodes'
  <1> USE ConstantsAssumption
      DEF TypeOK, Positions, Tasks, CodesAreRedeemed, Redeeming, Linking, Locked,
          LateCodes, LinkConsumesCode, Redeemed, Goto, Tell, transactions, locals,
          provider, history
  <1>1. ASSUME NEW h \in Requests, Begin(h) PROVE LateCodes'
    BY <1>1 DEF Begin
  <1>2. ASSUME NEW h \in Requests, ReadCode(h) PROVE LateCodes'
    BY <1>2 DEF ReadCode
  <1>3. ASSUME NEW h \in Requests, DeleteCode(h) PROVE LateCodes'
    BY <1>3 DEF DeleteCode
  <1>4. ASSUME NEW h \in Requests, JudgeCode(h) PROVE LateCodes'
    BY <1>4 DEF JudgeCode
  <1>5. ASSUME NEW h \in Requests, ExchangeCode(h) PROVE LateCodes'
    BY <1>5 DEF ExchangeCode, Issue
  <1>6. ASSUME NEW h \in Requests, ExchangeFails(h) PROVE LateCodes'
    BY <1>6 DEF ExchangeFails
  <1>7. ASSUME NEW h \in Requests, Refresh(h) PROVE LateCodes'
    BY <1>7 DEF Refresh, Issue
  <1>8. ASSUME NEW h \in Requests, RefreshFails(h) PROVE LateCodes'
    BY <1>8 DEF RefreshFails
  <1>9. ASSUME NEW h \in Requests, Select(h) PROVE LateCodes'
    BY <1>9 DEF Select
  <1>20. ASSUME NEW h \in Requests, Reread(h) PROVE LateCodes'
    BY <1>20 DEF Reread
  <1>10. ASSUME NEW h \in Requests, Write(h) PROVE LateCodes'
    BY <1>10 DEF Write, Made, Refreshed, SameRow
  <1>11. ASSUME NEW h \in Requests, Clash(h) PROVE LateCodes'
    BY <1>11 DEF Clash, SameRow
  <1>12. ASSUME NEW h \in Requests, DeleteNothing(h) PROVE LateCodes'
    BY <1>12 DEF DeleteNothing, SameRow
  <1>13. ASSUME NEW h \in Requests, Finish(h) PROVE LateCodes'
    BY <1>13 DEF Finish
  <1>14. ASSUME NEW h \in Requests, Raise(h) PROVE LateCodes'
    BY <1>14 DEF Raise
  <1>15. ASSUME NEW h \in Requests, Commit(h) PROVE LateCodes'
    BY <1>15 DEF Commit, Unlock
  <1>16. ASSUME NEW h \in Requests, Rollback(h) PROVE LateCodes'
    BY <1>16 DEF Rollback, Unlock
  <1>17. ASSUME NEW h \in Requests, Crash(h) PROVE LateCodes'
    BY <1>17 DEF Crash
  <1>18. ASSUME NEW c \in Codes, Spoil(c) PROVE LateCodes'
    BY <1>18 DEF Spoil
  <1>19. CASE UNCHANGED vars
    BY <1>19 DEF vars
  <1> QED
    BY <1>1, <1>2, <1>3, <1>4, <1>5, <1>6, <1>7, <1>8, <1>9, <1>10,
       <1>11, <1>12, <1>13, <1>14, <1>15, <1>16, <1>17, <1>18, <1>19,
       <1>20 DEF Next, Step

\* A link is committed with the deletion of its code.
LEMMA NextLink ==
    ASSUME TypeOK, Locked, CodeInHand, LinkConsumesCode, [Next]_vars
    PROVE  LinkConsumesCode'
  <1> USE ConstantsAssumption
      DEF TypeOK, Positions, Tasks, Linking, Locked, CodeInHand, LinkConsumesCode,
          Redeemed, Goto, Tell, transactions, locals, provider, history
  <1>1. ASSUME NEW h \in Requests, Begin(h) PROVE LinkConsumesCode'
    BY <1>1 DEF Begin
  <1>2. ASSUME NEW h \in Requests, ReadCode(h) PROVE LinkConsumesCode'
    BY <1>2 DEF ReadCode
  <1>3. ASSUME NEW h \in Requests, DeleteCode(h) PROVE LinkConsumesCode'
    BY <1>3 DEF DeleteCode
  <1>4. ASSUME NEW h \in Requests, JudgeCode(h) PROVE LinkConsumesCode'
    BY <1>4 DEF JudgeCode
  <1>5. ASSUME NEW h \in Requests, ExchangeCode(h) PROVE LinkConsumesCode'
    BY <1>5 DEF ExchangeCode, Issue
  <1>6. ASSUME NEW h \in Requests, ExchangeFails(h) PROVE LinkConsumesCode'
    BY <1>6 DEF ExchangeFails
  <1>7. ASSUME NEW h \in Requests, Refresh(h) PROVE LinkConsumesCode'
    BY <1>7 DEF Refresh, Issue
  <1>8. ASSUME NEW h \in Requests, RefreshFails(h) PROVE LinkConsumesCode'
    BY <1>8 DEF RefreshFails
  <1>9. ASSUME NEW h \in Requests, Select(h) PROVE LinkConsumesCode'
    BY <1>9 DEF Select
  <1>20. ASSUME NEW h \in Requests, Reread(h) PROVE LinkConsumesCode'
    BY <1>20 DEF Reread
  <1>10. ASSUME NEW h \in Requests, Write(h) PROVE LinkConsumesCode'
    BY <1>10 DEF Write, Made, Refreshed, SameRow
  <1>11. ASSUME NEW h \in Requests, Clash(h) PROVE LinkConsumesCode'
    BY <1>11 DEF Clash, SameRow
  <1>12. ASSUME NEW h \in Requests, DeleteNothing(h) PROVE LinkConsumesCode'
    BY <1>12 DEF DeleteNothing, SameRow
  <1>13. ASSUME NEW h \in Requests, Finish(h) PROVE LinkConsumesCode'
    BY <1>13 DEF Finish
  <1>14. ASSUME NEW h \in Requests, Raise(h) PROVE LinkConsumesCode'
    BY <1>14 DEF Raise
  <1>15. ASSUME NEW h \in Requests, Commit(h) PROVE LinkConsumesCode'
    BY <1>15 DEF Commit, Unlock
  <1>16. ASSUME NEW h \in Requests, Rollback(h) PROVE LinkConsumesCode'
    BY <1>16 DEF Rollback, Unlock
  <1>17. ASSUME NEW h \in Requests, Crash(h) PROVE LinkConsumesCode'
    BY <1>17 DEF Crash
  <1>18. ASSUME NEW c \in Codes, Spoil(c) PROVE LinkConsumesCode'
    BY <1>18 DEF Spoil
  <1>19. CASE UNCHANGED vars
    BY <1>19 DEF vars
  <1> QED
    BY <1>1, <1>2, <1>3, <1>4, <1>5, <1>6, <1>7, <1>8, <1>9, <1>10,
       <1>11, <1>12, <1>13, <1>14, <1>15, <1>16, <1>17, <1>18, <1>19,
       <1>20 DEF Next, Step

\* Tokens are numbered as they are issued.
LEMMA NextNumbered ==
    ASSUME TypeOK, Holding, Numbered, [Next]_vars
    PROVE  Numbered'
  <1> USE ConstantsAssumption
      DEF TypeOK, Rows, Holding, Numbered, Goto, Tell, transactions, locals,
          provider, history
  <1>1. ASSUME NEW h \in Requests, Begin(h) PROVE Numbered'
    BY <1>1 DEF Begin
  <1>2. ASSUME NEW h \in Requests, ReadCode(h) PROVE Numbered'
    BY <1>2 DEF ReadCode
  <1>3. ASSUME NEW h \in Requests, DeleteCode(h) PROVE Numbered'
    BY <1>3 DEF DeleteCode
  <1>4. ASSUME NEW h \in Requests, JudgeCode(h) PROVE Numbered'
    BY <1>4 DEF JudgeCode
  <1>5. ASSUME NEW h \in Requests, ExchangeCode(h) PROVE Numbered'
    BY <1>5 DEF ExchangeCode, Issue
  <1>6. ASSUME NEW h \in Requests, ExchangeFails(h) PROVE Numbered'
    BY <1>6 DEF ExchangeFails
  <1>7. ASSUME NEW h \in Requests, Refresh(h) PROVE Numbered'
    BY <1>7 DEF Refresh, Issue
  <1>8. ASSUME NEW h \in Requests, RefreshFails(h) PROVE Numbered'
    BY <1>8 DEF RefreshFails
  <1>9. ASSUME NEW h \in Requests, Select(h) PROVE Numbered'
    BY <1>9 DEF Select
  <1>20. ASSUME NEW h \in Requests, Reread(h) PROVE Numbered'
    BY <1>20 DEF Reread
  <1>10. ASSUME NEW h \in Requests, Write(h) PROVE Numbered'
    BY <1>10 DEF Write, Made, Refreshed, SameRow
  <1>11. ASSUME NEW h \in Requests, Clash(h) PROVE Numbered'
    BY <1>11 DEF Clash, SameRow
  <1>12. ASSUME NEW h \in Requests, DeleteNothing(h) PROVE Numbered'
    BY <1>12 DEF DeleteNothing, SameRow
  <1>13. ASSUME NEW h \in Requests, Finish(h) PROVE Numbered'
    BY <1>13 DEF Finish
  <1>14. ASSUME NEW h \in Requests, Raise(h) PROVE Numbered'
    BY <1>14 DEF Raise
  <1>15. ASSUME NEW h \in Requests, Commit(h) PROVE Numbered'
    BY <1>15 DEF Commit, Unlock
  <1>16. ASSUME NEW h \in Requests, Rollback(h) PROVE Numbered'
    BY <1>16 DEF Rollback, Unlock
  <1>17. ASSUME NEW h \in Requests, Crash(h) PROVE Numbered'
    BY <1>17 DEF Crash
  <1>18. ASSUME NEW c \in Codes, Spoil(c) PROVE Numbered'
    BY <1>18 DEF Spoil
  <1>19. CASE UNCHANGED vars
    BY <1>19 DEF vars
  <1> QED
    BY <1>1, <1>2, <1>3, <1>4, <1>5, <1>6, <1>7, <1>8, <1>9, <1>10,
       <1>11, <1>12, <1>13, <1>14, <1>15, <1>16, <1>17, <1>18, <1>19,
       <1>20 DEF Next, Step

\* Who holds the row or a token keeps it to the end.
LEMMA NextHolding ==
    ASSUME TypeOK, CodesAreRedeemed, Locked, Holding, [Next]_vars
    PROVE  Holding'
  <1> USE ConstantsAssumption
      DEF TypeOK, Positions, Tasks, CodesAreRedeemed, Redeeming, Linking, Rows,
          Locked, Holding, Goto, Tell, transactions, locals, provider, history
  <1>1. ASSUME NEW h \in Requests, Begin(h) PROVE Holding'
    BY <1>1 DEF Begin
  <1>2. ASSUME NEW h \in Requests, ReadCode(h) PROVE Holding'
    BY <1>2 DEF ReadCode
  <1>3. ASSUME NEW h \in Requests, DeleteCode(h) PROVE Holding'
    BY <1>3 DEF DeleteCode
  <1>4. ASSUME NEW h \in Requests, JudgeCode(h) PROVE Holding'
    BY <1>4 DEF JudgeCode
  <1>5. ASSUME NEW h \in Requests, ExchangeCode(h) PROVE Holding'
    BY <1>5 DEF ExchangeCode, Issue
  <1>6. ASSUME NEW h \in Requests, ExchangeFails(h) PROVE Holding'
    BY <1>6 DEF ExchangeFails
  <1>7. ASSUME NEW h \in Requests, Refresh(h) PROVE Holding'
    BY <1>7 DEF Refresh, Issue
  <1>8. ASSUME NEW h \in Requests, RefreshFails(h) PROVE Holding'
    BY <1>8 DEF RefreshFails
  <1>9. ASSUME NEW h \in Requests, Select(h) PROVE Holding'
    <2>1. CASE task[h] \in {"redeem", "demo"}
      BY <1>9, <2>1 DEF Select
    <2>2. CASE task[h] = "disconnect"
      BY <1>9, <2>2 DEF Select
    <2>3. CASE task[h] = "use"
      BY <1>9, <2>3 DEF Select
    <2> QED
      BY <2>1, <2>2, <2>3
  <1>20. ASSUME NEW h \in Requests, Reread(h) PROVE Holding'
    BY <1>20 DEF Reread
  <1>10. ASSUME NEW h \in Requests, Write(h) PROVE Holding'
    BY <1>10 DEF Write, Made, Refreshed, SameRow
  <1>11. ASSUME NEW h \in Requests, Clash(h) PROVE Holding'
    BY <1>11 DEF Clash, SameRow
  <1>12. ASSUME NEW h \in Requests, DeleteNothing(h) PROVE Holding'
    BY <1>12 DEF DeleteNothing, SameRow
  <1>13. ASSUME NEW h \in Requests, Finish(h) PROVE Holding'
    BY <1>13 DEF Finish
  <1>14. ASSUME NEW h \in Requests, Raise(h) PROVE Holding'
    BY <1>14 DEF Raise
  <1>15. ASSUME NEW h \in Requests, Commit(h) PROVE Holding'
    BY <1>15 DEF Commit, Unlock
  <1>16. ASSUME NEW h \in Requests, Rollback(h) PROVE Holding'
    BY <1>16 DEF Rollback, Unlock
  <1>17. ASSUME NEW h \in Requests, Crash(h) PROVE Holding'
    BY <1>17 DEF Crash
  <1>18. ASSUME NEW c \in Codes, Spoil(c) PROVE Holding'
    BY <1>18 DEF Spoil
  <1>19. CASE UNCHANGED vars
    BY <1>19 DEF vars
  <1> QED
    BY <1>1, <1>2, <1>3, <1>4, <1>5, <1>6, <1>7, <1>8, <1>9, <1>10,
       <1>11, <1>12, <1>13, <1>14, <1>15, <1>16, <1>17, <1>18, <1>19,
       <1>20 DEF Next, Step

\* A token that is not committed is known to its request alone.
LEMMA NextPrivate ==
    ASSUME TypeOK, CodesAreRedeemed, Locked, Holding, Numbered, Private, [Next]_vars
    PROVE  Private'
  <1> USE ConstantsAssumption
      DEF TypeOK, Positions, Tasks, CodesAreRedeemed, Redeeming, Linking, Rows,
          Locked, Holding, Numbered, Private, Goto, Tell, transactions, locals,
          provider, history
  <1>1. ASSUME NEW h \in Requests, Begin(h) PROVE Private'
    BY <1>1 DEF Begin
  <1>2. ASSUME NEW h \in Requests, ReadCode(h) PROVE Private'
    BY <1>2 DEF ReadCode
  <1>3. ASSUME NEW h \in Requests, DeleteCode(h) PROVE Private'
    BY <1>3 DEF DeleteCode
  <1>4. ASSUME NEW h \in Requests, JudgeCode(h) PROVE Private'
    BY <1>4 DEF JudgeCode
  <1>5. ASSUME NEW h \in Requests, ExchangeCode(h) PROVE Private'
    BY <1>5 DEF ExchangeCode, Issue
  <1>6. ASSUME NEW h \in Requests, ExchangeFails(h) PROVE Private'
    BY <1>6 DEF ExchangeFails
  <1>7. ASSUME NEW h \in Requests, Refresh(h) PROVE Private'
    BY <1>7 DEF Refresh, Issue
  <1>8. ASSUME NEW h \in Requests, RefreshFails(h) PROVE Private'
    BY <1>8 DEF RefreshFails
  <1>9. ASSUME NEW h \in Requests, Select(h) PROVE Private'
    BY <1>9 DEF Select
  <1>20. ASSUME NEW h \in Requests, Reread(h) PROVE Private'
    BY <1>20 DEF Reread
  <1>10. ASSUME NEW h \in Requests, Write(h) PROVE Private'
    BY <1>10 DEF Write, Made, Refreshed, SameRow
  <1>11. ASSUME NEW h \in Requests, Clash(h) PROVE Private'
    BY <1>11 DEF Clash, SameRow
  <1>12. ASSUME NEW h \in Requests, DeleteNothing(h) PROVE Private'
    BY <1>12 DEF DeleteNothing, SameRow
  <1>13. ASSUME NEW h \in Requests, Finish(h) PROVE Private'
    BY <1>13 DEF Finish
  <1>14. ASSUME NEW h \in Requests, Raise(h) PROVE Private'
    BY <1>14 DEF Raise
  <1>15. ASSUME NEW h \in Requests, Commit(h) PROVE Private'
    BY <1>15 DEF Commit, Unlock
  <1>16. ASSUME NEW h \in Requests, Rollback(h) PROVE Private'
    BY <1>16 DEF Rollback, Unlock
  <1>17. ASSUME NEW h \in Requests, Crash(h) PROVE Private'
    BY <1>17 DEF Crash
  <1>18. ASSUME NEW c \in Codes, Spoil(c) PROVE Private'
    BY <1>18 DEF Spoil
  <1>19. CASE UNCHANGED vars
    BY <1>19 DEF vars
  <1> QED
    BY <1>1, <1>2, <1>3, <1>4, <1>5, <1>6, <1>7, <1>8, <1>9, <1>10,
       <1>11, <1>12, <1>13, <1>14, <1>15, <1>16, <1>17, <1>18, <1>19,
       <1>20 DEF Next, Step

\* A refresh token leaves the provider only for one that a request will write.
LEMMA NextKept ==
    ASSUME TypeOK, CodesAreRedeemed, Locked, Holding, Private, RefreshTokenKept, [Next]_vars
    PROVE  RefreshTokenKept'
  <1> USE ConstantsAssumption
      DEF TypeOK, Positions, Tasks, CodesAreRedeemed, Redeeming, Linking, Rows,
          Locked, Holding, Private, RefreshTokenKept, Goto, Tell, transactions,
          locals, provider, history
  <1>1. ASSUME NEW h \in Requests, Begin(h) PROVE RefreshTokenKept'
    BY <1>1 DEF Begin
  <1>2. ASSUME NEW h \in Requests, ReadCode(h) PROVE RefreshTokenKept'
    BY <1>2 DEF ReadCode
  <1>3. ASSUME NEW h \in Requests, DeleteCode(h) PROVE RefreshTokenKept'
    BY <1>3 DEF DeleteCode
  <1>4. ASSUME NEW h \in Requests, JudgeCode(h) PROVE RefreshTokenKept'
    BY <1>4 DEF JudgeCode
  <1>5. ASSUME NEW h \in Requests, ExchangeCode(h) PROVE RefreshTokenKept'
    BY <1>5 DEF ExchangeCode, Issue
  <1>6. ASSUME NEW h \in Requests, ExchangeFails(h) PROVE RefreshTokenKept'
    BY <1>6 DEF ExchangeFails
  <1>7. ASSUME NEW h \in Requests, Refresh(h) PROVE RefreshTokenKept'
    BY <1>7 DEF Refresh, Issue
  <1>8. ASSUME NEW h \in Requests, RefreshFails(h) PROVE RefreshTokenKept'
    BY <1>8 DEF RefreshFails
  <1>9. ASSUME NEW h \in Requests, Select(h) PROVE RefreshTokenKept'
    BY <1>9 DEF Select
  <1>20. ASSUME NEW h \in Requests, Reread(h) PROVE RefreshTokenKept'
    BY <1>20 DEF Reread
  <1>10. ASSUME NEW h \in Requests, Write(h) PROVE RefreshTokenKept'
    BY <1>10 DEF Write, Made, Refreshed, SameRow
  <1>11. ASSUME NEW h \in Requests, Clash(h) PROVE RefreshTokenKept'
    BY <1>11 DEF Clash, SameRow
  <1>12. ASSUME NEW h \in Requests, DeleteNothing(h) PROVE RefreshTokenKept'
    BY <1>12 DEF DeleteNothing, SameRow
  <1>13. ASSUME NEW h \in Requests, Finish(h) PROVE RefreshTokenKept'
    BY <1>13 DEF Finish
  <1>14. ASSUME NEW h \in Requests, Raise(h) PROVE RefreshTokenKept'
    BY <1>14 DEF Raise
  <1>15. ASSUME NEW h \in Requests, Commit(h) PROVE RefreshTokenKept'
    BY <1>15 DEF Commit, Unlock
  <1>16. ASSUME NEW h \in Requests, Rollback(h) PROVE RefreshTokenKept'
    BY <1>16 DEF Rollback, Unlock
  <1>17. ASSUME NEW h \in Requests, Crash(h) PROVE RefreshTokenKept'
    BY <1>17 DEF Crash
  <1>18. ASSUME NEW c \in Codes, Spoil(c) PROVE RefreshTokenKept'
    BY <1>18 DEF Spoil
  <1>19. CASE UNCHANGED vars
    BY <1>19 DEF vars
  <1> QED
    BY <1>1, <1>2, <1>3, <1>4, <1>5, <1>6, <1>7, <1>8, <1>9, <1>10,
       <1>11, <1>12, <1>13, <1>14, <1>15, <1>16, <1>17, <1>18, <1>19,
       <1>20 DEF Next, Step

-----------------------------------------------------------------------------
(* The theorems *)

\* The inductive invariant of codes, links and tokens holds in every reachable
\* state, for any number of requests.
THEOREM Invariance == Spec => []IInv
  <1>1. IInv /\ [Next]_vars => IInv'
    BY NextType, NextCodes, NextLocked, NextCodeInHand, NextAnswers, NextLate, NextLink,
       NextNumbered, NextHolding, NextPrivate, NextKept
       DEF IInv, CodeInv, TokenInv
  <1> QED
    BY InitInvariant, <1>1, PTL DEF Spec

\* A code that has linked is dead, also for who is told that it is no good, and
\* no later request links with it (oauth_state.consume, telegram_link.consume).
THEOREM CodesEndWithLinks == Spec => []Inv
  <1>1. IInv => Inv
    <2> SUFFICES ASSUME IInv PROVE Inv
      OBVIOUS
    <2>1. SpentCodeIsRefused
      BY DEF IInv, CodeInv, LateCodes, TypeOK, SpentCodeIsRefused
    <2>2. RefusedCodeIsDead
      BY DEF IInv, CodeInv, Answers, RefusedCodeIsDead
    <2>3. ToldIsTrue
      BY DEF IInv, CodeInv, Answers, ToldIsTrue
    <2> QED
      BY <2>1, <2>2, <2>3 DEF IInv, CodeInv, Inv
  <1> QED
    BY <1>1, Invariance, PTL

\* The row's refresh token is good or its successor is on its way to the row,
\* unless a request was rolled back after its refresh (token_manager.py).
THEOREM RefreshTokenSafe == Spec => []RefreshTokenKept
  BY Invariance, PTL DEF IInv

=============================================================================
