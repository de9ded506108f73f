------------------------------ MODULE ChatTurns ------------------------------
(***************************************************************************)
(* The chat of one user session of Tiger V2: turns that stream an answer   *)
(* and store it with the question, and requests that clear the history.    *)
(* Each is a transaction at READ COMMITTED over the thread, its messages   *)
(* and the tokens the tenant has used today.                               *)
(***************************************************************************)
EXTENDS Naturals, FiniteSets, FiniteSetsExt

CONSTANTS
    Turns, Clears,  \* requests of the two kinds
    Nobody,         \* no request
    DailyCap,       \* chat_tenant_daily_token_budget, in rounds
    MaxRounds       \* calls of the model in one turn

ASSUME ConstantsAssumption ==
    /\ IsFiniteSet(Turns) /\ Turns \cap Clears = {}
    /\ Nobody \notin Turns \cup Clears
    /\ DailyCap \in Nat \ {0} /\ MaxRounds \in Nat \ {0}

VARIABLES
    exit,       \* when get_session commits: "before" or "after" the stream
    \* committed
    thread,     \* the turn that created the thread there is, or Nobody
    messages,
    recorded,   \* tokens used today
    \* the transactions
    key,        \* the request that has inserted or deleted the thread
    draft,      \* messages each turn has flushed
    usage,      \* tokens each turn has flushed
    dropped,    \* messages each clear has deleted
    \* the requests
    pc,
    mine,       \* the thread a request has found or made
    rounds,     \* calls a turn under way has made
    told,
    \* history
    before,     \* turns that had ended when a request began
    crowd       \* most turns at once between the budget's check and their end

stored == << thread, messages, recorded >>
transactions == << key, draft, usage, dropped >>
history == << before, crowd >>
vars == << exit, thread, messages, recorded, key, draft, usage, dropped, pc, mine,
           rounds, told, before, crowd >>

Requests == Turns \cup Clears
Roles == {"user", "assistant"}
Messages == [turn : Turns, role : Roles, thread : Turns, index : Nat]
Positions == {"new", "finding", "inserting", "asking", "responding", "checking",
              "calling", "answering", "committing", "aborting", "wiping",
              "deleting", "done"}

Init ==
    /\ exit \in {"before", "after"}
    /\ thread = Nobody /\ messages = {} /\ recorded = 0
    /\ key = Nobody
    /\ draft = [t \in Turns |-> {}] /\ usage = [t \in Turns |-> 0]
    /\ dropped = [c \in Clears |-> {}]
    /\ pc = [r \in Requests |-> "new"]
    /\ mine = [r \in Requests |-> Nobody]
    /\ rounds = [t \in Turns |-> 0]
    /\ told = [t \in Turns |-> "nothing"]
    /\ before = [r \in Requests |-> {}] /\ crowd = 0

Goto(r, position) == pc' = [pc EXCEPT ![r] = position]

\* The messages of the thread of a request that its transaction sees.
Visible(t) == {m \in messages \cup draft[t] : m.thread = mine[t]}

\* The highest number so far and one, read without a lock.
NextTurnIndex(t) == IF Visible(t) = {} THEN 0
                    ELSE 1 + Max({m.index : m \in Visible(t)})

Message(t, role) ==
    [turn |-> t, role |-> role, thread |-> mine[t], index |-> NextTurnIndex(t)]

\* Turns whose calls the budget does not know of yet.
Unaccounted == {t \in Turns : pc[t] \in {"calling", "answering", "committing"}}

-----------------------------------------------------------------------------
(* A turn, until it streams *)

Begin(r) ==
    /\ pc[r] = "new"
    /\ Goto(r, "finding")
    /\ before' = [before EXCEPT ![r] = {t \in Turns : pc[t] = "done"}]
    /\ UNCHANGED << exit, stored, transactions, mine, rounds, told, crowd >>

FindThread(t) ==
    /\ t \in Turns /\ pc[t] = "finding"
    /\ mine' = [mine EXCEPT ![t] = thread]
    /\ Goto(t, IF thread = Nobody THEN "inserting" ELSE "asking")
    /\ UNCHANGED << exit, stored, transactions, rounds, told, history >>

\* uq_chat_thread: the insert waits for one that came first.
InsertThread(t) ==
    /\ pc[t] = "inserting" /\ key = Nobody
    /\ IF thread = Nobody
       THEN /\ key' = t
            /\ mine' = [mine EXCEPT ![t] = t]
            /\ Goto(t, "asking")
       ELSE Goto(t, "aborting") /\ UNCHANGED << key, mine >>
    /\ UNCHANGED << exit, stored, draft, usage, dropped, rounds, told, history >>

\* Mutant: the question gets its number when it is committed, and none here.
SaveUnnumbered(t) ==
    /\ pc[t] = "asking"
    /\ draft' = [draft EXCEPT ![t] = {[Message(t, "user") EXCEPT !.index = 0]}]
    /\ Goto(t, "responding")
    /\ UNCHANGED << exit, stored, key, usage, dropped, mine, rounds, told, history >>

SaveUserMessage(t) ==
    /\ pc[t] = "asking"
    /\ draft' = [draft EXCEPT ![t] = {Message(t, "user")}]
    /\ Goto(t, "responding")
    /\ UNCHANGED << exit, stored, key, usage, dropped, mine, rounds, told, history >>

\* What a commit of a turn does to the stores.
Store(t) ==
    /\ messages' = messages \cup draft[t]
    /\ recorded' = recorded + usage[t]
    /\ thread' = IF key = t THEN t ELSE thread
    /\ key' = IF key = t THEN Nobody ELSE key
    /\ draft' = [draft EXCEPT ![t] = {}]
    /\ usage' = [usage EXCEPT ![t] = 0]

\* chat_stream returns; get_session commits now or when the stream is over.
Respond(t) ==
    /\ pc[t] = "responding"
    /\ Goto(t, "checking")
    /\ IF exit = "before" THEN Store(t) ELSE UNCHANGED << stored, key, draft, usage >>
    /\ UNCHANGED << exit, dropped, mine, rounds, told, history >>

-----------------------------------------------------------------------------
(* The stream *)

\* Mutant: one token more.
CheckBudgetLoosely(t) ==
    /\ pc[t] = "checking"
    /\ Goto(t, IF recorded <= DailyCap THEN "calling" ELSE "answering")
    /\ crowd' = LET now == Cardinality(Unaccounted) + 1
                IN IF now > crowd THEN now ELSE crowd
    /\ UNCHANGED << exit, stored, transactions, mine, rounds, told, before >>

\* With the budget used up the answer says so.
CheckBudget(t) ==
    /\ pc[t] = "checking"
    /\ Goto(t, IF recorded < DailyCap THEN "calling" ELSE "answering")
    /\ crowd' = LET now == Cardinality(Unaccounted) + 1
                IN IF now > crowd THEN now ELSE crowd
    /\ UNCHANGED << exit, stored, transactions, mine, rounds, told, before >>

\* A call of the model and the record of its tokens, in the turn's transaction;
\* with tools to run there is another round, up to the "safety cap".
Call(t) ==
    /\ pc[t] = "calling"
    /\ rounds' = [rounds EXCEPT ![t] = @ + 1]
    /\ usage' = [usage EXCEPT ![t] = @ + 1]
    /\ \/ Goto(t, "answering")
       \/ rounds[t] + 1 < MaxRounds /\ Goto(t, "calling")
    /\ UNCHANGED << exit, stored, key, draft, dropped, mine, told, history >>

SaveAssistantMessage(t) ==
    /\ pc[t] = "answering"
    /\ draft' = [draft EXCEPT ![t] = @ \cup {Message(t, "assistant")}]
    /\ Goto(t, "committing")
    /\ UNCHANGED << exit, stored, key, usage, dropped, mine, rounds, told, history >>

Commit(t) ==
    /\ t \in Turns /\ pc[t] = "committing"
    /\ Store(t)
    /\ told' = [told EXCEPT ![t] = "answer"]
    /\ rounds' = [rounds EXCEPT ![t] = 0]
    /\ Goto(t, "done")
    /\ UNCHANGED << exit, dropped, mine, history >>

\* Anything on the way raises; or the client goes away, and with a session that
\* has committed before, or cannot commit now, nobody commits what is flushed.
Raise(t) ==
    /\ pc[t] \in {"asking", "checking", "calling", "answering", "committing"}
    /\ t \in Turns
    /\ Goto(t, "aborting")
    /\ UNCHANGED << exit, stored, transactions, mine, rounds, told, history >>

\* Mutant: the connection goes back to the pool with its locks.
RollbackLocked(t) ==
    /\ t \in Turns /\ pc[t] = "aborting"
    /\ draft' = [draft EXCEPT ![t] = {}] /\ usage' = [usage EXCEPT ![t] = 0]
    /\ told' = [told EXCEPT ![t] = "error"]
    /\ rounds' = [rounds EXCEPT ![t] = 0]
    /\ Goto(t, "done")
    /\ UNCHANGED << exit, stored, key, dropped, mine, history >>

\* The tokens of the calls that were made are forgotten with the messages.
Rollback(t) ==
    /\ t \in Turns /\ pc[t] = "aborting"
    /\ draft' = [draft EXCEPT ![t] = {}] /\ usage' = [usage EXCEPT ![t] = 0]
    /\ key' = IF key = t THEN Nobody ELSE key
    /\ told' = [told EXCEPT ![t] = "error"]
    /\ rounds' = [rounds EXCEPT ![t] = 0]
    /\ Goto(t, "done")
    /\ UNCHANGED << exit, stored, dropped, mine, history >>

\* The client goes away.  No handler of the stream takes the CancelledError, and
\* get_session commits what has been flushed; a commit that was cancelled may
\* have been done.
Leave(t) ==
    /\ t \in Turns
    /\ \/ exit = "after" /\ pc[t] \in {"checking", "calling", "answering"}
       \/ pc[t] = "committing"
    /\ Store(t)
    /\ told' = [told EXCEPT ![t] = "gone"]
    /\ rounds' = [rounds EXCEPT ![t] = 0]
    /\ Goto(t, "done")
    /\ UNCHANGED << exit, dropped, mine, history >>

-----------------------------------------------------------------------------
(* clear_history *)

SelectThread(c) ==
    /\ c \in Clears /\ pc[c] = "finding"
    /\ mine' = [mine EXCEPT ![c] = thread]
    /\ Goto(c, IF thread = Nobody THEN "done" ELSE "wiping")
    /\ UNCHANGED << exit, stored, transactions, rounds, told, history >>

\* Mutant: only the questions.
WipeQuestions(c) ==
    /\ pc[c] = "wiping"
    /\ dropped' = [dropped EXCEPT ![c] = {m \in messages : /\ m.thread = mine[c]
                                                           /\ m.role = "user"}]
    /\ Goto(c, "deleting")
    /\ UNCHANGED << exit, stored, key, draft, usage, mine, rounds, told, history >>

\* Waits for another that deletes the same messages.
Wipe(c) ==
    /\ pc[c] = "wiping"
    /\ \A d \in Clears \ {c} : \A m \in dropped[d] : m.thread # mine[c]
    /\ dropped' = [dropped EXCEPT ![c] = {m \in messages : m.thread = mine[c]}]
    /\ Goto(c, "deleting")
    /\ UNCHANGED << exit, stored, key, draft, usage, mine, rounds, told, history >>

DeleteThread(c) ==
    /\ pc[c] = "deleting" /\ key = Nobody
    /\ key' = IF thread = mine[c] THEN c ELSE key
    /\ Goto(c, "committing")
    /\ UNCHANGED << exit, stored, draft, usage, dropped, mine, rounds, told, history >>

CommitClear(c) ==
    /\ c \in Clears /\ pc[c] = "committing"
    /\ messages' = messages \ dropped[c]
    /\ dropped' = [dropped EXCEPT ![c] = {}]
    /\ thread' = IF key = c THEN Nobody ELSE thread
    /\ key' = IF key = c THEN Nobody ELSE key
    /\ Goto(c, "done")
    /\ UNCHANGED << exit, recorded, draft, usage, mine, rounds, told, history >>

-----------------------------------------------------------------------------

Step(r) ==
    \/ FindThread(r) \/ InsertThread(r) \/ SaveUserMessage(r) \/ Respond(r)
    \/ CheckBudget(r) \/ Call(r) \/ SaveAssistantMessage(r)
    \/ Commit(r) \/ Rollback(r)
    \/ SelectThread(r) \/ Wipe(r) \/ DeleteThread(r) \/ CommitClear(r)

Next == \E r \in Requests : Begin(r) \/ Step(r) \/ Raise(r) \/ Leave(r)

Spec == Init /\ [][Next]_vars

\* The event loop runs every request that can go on.
FairSpec == Spec /\ \A r \in Requests : WF_vars(Step(r))

-----------------------------------------------------------------------------

\* Every variable has its type.
TypeOK ==
    /\ exit \in {"before", "after"}
    /\ thread \in Turns \cup {Nobody} /\ key \in Requests \cup {Nobody}
    /\ messages \in SUBSET Messages
    /\ draft \in [Turns -> SUBSET Messages]
    /\ recorded \in 0 .. MaxRounds * Cardinality(Turns)
    /\ usage \in [Turns -> 0 .. MaxRounds] /\ rounds \in [Turns -> 0 .. MaxRounds]
    /\ dropped \in [Clears -> SUBSET messages]
    /\ pc \in [Requests -> Positions]
    /\ mine \in [Requests -> Turns \cup {Nobody}]
    /\ told \in [Turns -> {"nothing", "answer", "error", "gone"}]
    /\ before \in [Requests -> SUBSET Turns] /\ crowd \in 0 .. Cardinality(Turns)

\* Turns one after the other are numbered in their order, with the answer of
\* each behind its question: what the history is read by, and the admin's list
\* of feedback looks for the question by.  (Turns at once may share numbers.)
TurnsInOrder ==
    \A m, n \in messages :
        m.thread = n.thread =>
            /\ m.turn \in before[n.turn] => m.index < n.index
            /\ m.turn = n.turn /\ m.role = "user" /\ n.role = "assistant" =>
                   m.index < n.index

\* A turn that told of an error has no answer in the history, and no question
\* either when the session commits after the stream.  Then, too, an answer is
\* never without its question, and a question without its answer, half stored
\* or half cleared, is the mark of a client that went away.
TurnIsWhole ==
    LET Kept(t) == {m.role : m \in {n \in messages : n.turn = t}}
    IN \A t \in Turns :
          /\ told[t] = "error" =>
                Kept(t) \subseteq IF exit = "before" THEN {"user"} ELSE {}
          /\ exit = "after" =>
                \/ Kept(t) \in {{}, Roles}
                \/ Kept(t) = {"user"} /\ told[t] = "gone"

\* The invariant of the history: types, order and wholeness of the turns that
\* get_or_create_thread, save_user_message and save_assistant_message store.
Inv == TypeOK /\ TurnsInOrder /\ TurnIsWhole

\* A clear leaves nothing of the turns that had ended when it began, whoever
\* writes to the thread or creates it anew in between.  (A turn under way may
\* leave its messages in a thread that is gone.)
ClearedIsGone ==
    \A c \in Clears : pc[c] = "done" =>
        \A m \in messages : m.turn \in before[c] => m.thread # mine[c]

\* The day's tokens exceed the cap by no more than what the turns under way at
\* once may use: the "small margin" of the check before and the record after.
MarginOfCrowd == recorded <= DailyCap - 1 + MaxRounds * crowd

\* Every request ends: an insert of the thread, or a clear, that waits for
\* another waits for one that goes on.
RequestsEnd == \A r \in Requests : pc[r] = "finding" ~> pc[r] = "done"

=============================================================================
