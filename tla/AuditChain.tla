----------------------------- MODULE AuditChain -----------------------------
(***************************************************************************)
(* The hash chain of audit_logs: AuditChainWriter.write appends a row that *)
(* names the signed_hash of the tenant's latest row, under a per-tenant    *)
(* advisory lock held to the end of the writer's transaction; verify_chain *)
(* reads the committed rows back in the order of created_at and checks the *)
(* links.  HMAC-SHA256 is abstracted to an injective function of the row:  *)
(* a row's id stands for its signed_hash.                                  *)
(***************************************************************************)
EXTENDS Naturals

CONSTANTS
    Writers,    \* transactions that write audit rows
    TenantIds,
    Ids,        \* row ids; the order breaks ties of created_at
    NoWriter,   \* the holder of a free lock
    MaxSkew     \* how far the clocks of the app servers are apart

Genesis == 0

ASSUME WriterAssumption == NoWriter \notin Writers
ASSUME IdAssumption == Ids \subseteq Nat \ {Genesis}
ASSUME SkewAssumption == MaxSkew \in Nat

VARIABLES
    logged,     \* committed rows of a tenant
    holder,     \* holder of pg_advisory_xact_lock(tenant)
    stage,      \* where a writer is
    tenantOf,   \* the tenant it writes for
    unsaved,    \* rows it has inserted and not committed
    lastHash,   \* the prev_hash it has read
    ahead,      \* how far its server's clock is ahead
    clock

chainVars ==
    << logged, holder, stage, tenantOf, unsaved, lastHash, ahead, clock >>

Row == [id : Ids, at : Nat, prev : Ids \cup {Genesis}]

\* ORDER BY created_at, id
Before(x, y) == x.at < y.at \/ (x.at = y.at /\ x.id < y.id)

\* _latest_signed_hash
LatestHash(S) ==
    IF S = {} THEN Genesis
    ELSE (CHOOSE x \in S : \A y \in S \ {x} : Before(y, x)).id

\* verify_chain: the loop's expected_prev at x is the hash of the row before x.
Verifies(S) ==
    \A x \in S : x.prev = LatestHash({y \in S : Before(y, x)})

\* What a transaction sees: committed rows and its own.
Visible(w) == logged[tenantOf[w]] \cup unsaved[w]

UsedIds == {x.id : x \in UNION {logged[t] : t \in TenantIds}
                         \cup UNION {unsaved[w] : w \in Writers}}

-----------------------------------------------------------------------------
ChainInit ==
    /\ logged = [t \in TenantIds |-> {}]
    /\ holder = [t \in TenantIds |-> NoWriter]
    /\ stage = [w \in Writers |-> "idle"]
    /\ tenantOf \in [Writers -> TenantIds]
    /\ unsaved = [w \in Writers |-> {}]
    /\ lastHash = [w \in Writers |-> Genesis]
    /\ ahead \in [Writers -> 0..MaxSkew]
    /\ clock = 0

\* A request for some tenant starts its transaction.
Begin(w) ==
    /\ stage[w] = "idle"
    /\ \E t \in TenantIds : tenantOf' = [tenantOf EXCEPT ![w] = t]
    /\ stage' = [stage EXCEPT ![w] = "waiting"]
    /\ UNCHANGED << logged, holder, unsaved, lastHash, ahead, clock >>

\* Mutant: the lock is not taken.
AcquireNothing(w) ==
    /\ stage[w] = "waiting"
    /\ stage' = [stage EXCEPT ![w] = "locked"]
    /\ UNCHANGED << logged, holder, tenantOf, unsaved, lastHash, ahead, clock >>

\* Acquired again by its holder, the lock is simply still held.
Acquire(w) ==
    /\ stage[w] = "waiting"
    /\ holder[tenantOf[w]] \in {NoWriter, w}
    /\ holder' = [holder EXCEPT ![tenantOf[w]] = w]
    /\ stage' = [stage EXCEPT ![w] = "locked"]
    /\ UNCHANGED << logged, tenantOf, unsaved, lastHash, ahead, clock >>

\* Mutant: the read misses the rows of the transaction itself.
ReadLatestCommitted(w) ==
    /\ stage[w] = "locked"
    /\ lastHash' = [lastHash EXCEPT ![w] = LatestHash(logged[tenantOf[w]])]
    /\ stage' = [stage EXCEPT ![w] = "read"]
    /\ UNCHANGED << logged, holder, tenantOf, unsaved, ahead, clock >>

ReadLatest(w) ==
    /\ stage[w] = "locked"
    /\ lastHash' = [lastHash EXCEPT ![w] = LatestHash(Visible(w))]
    /\ stage' = [stage EXCEPT ![w] = "read"]
    /\ UNCHANGED << logged, holder, tenantOf, unsaved, ahead, clock >>

\* created_at is read from the server's clock after the lock is held; two
\* rows are never stamped in the same microsecond of one clock.
Insert(w) ==
    /\ stage[w] = "read"
    /\ clock' = clock + 1
    /\ \E id \in Ids \ UsedIds :
          unsaved' = [unsaved EXCEPT ![w] =
                       @ \cup {[id |-> id, at |-> clock' + ahead[w],
                                prev |-> lastHash[w]]}]
    /\ stage' = [stage EXCEPT ![w] = "written"]
    /\ UNCHANGED << logged, holder, tenantOf, lastHash, ahead >>

\* The same transaction writes its next row.
WriteAgain(w) ==
    /\ stage[w] = "written"
    /\ stage' = [stage EXCEPT ![w] = "waiting"]
    /\ UNCHANGED << logged, holder, tenantOf, unsaved, lastHash, ahead, clock >>

ReleaseLock(w) ==
    /\ holder' = [t \in TenantIds |->
                    IF holder[t] = w THEN NoWriter ELSE holder[t]]
    /\ unsaved' = [unsaved EXCEPT ![w] = {}]
    /\ lastHash' = [lastHash EXCEPT ![w] = Genesis]
    /\ stage' = [stage EXCEPT ![w] = "idle"]

CommitRows(w) ==
    /\ stage[w] = "written"
    /\ logged' = [logged EXCEPT ![tenantOf[w]] = @ \cup unsaved[w]]
    /\ ReleaseLock(w)
    /\ UNCHANGED << tenantOf, ahead, clock >>

\* An exception, a lost connection or a crash.
Abort(w) ==
    /\ stage[w] # "idle"
    /\ ReleaseLock(w)
    /\ UNCHANGED << logged, tenantOf, ahead, clock >>

ChainNext ==
    \E w \in Writers :
        \/ Begin(w) \/ Acquire(w) \/ ReadLatest(w) \/ Insert(w)
        \/ WriteAgain(w) \/ CommitRows(w) \/ Abort(w)

ChainSpec == ChainInit /\ [][ChainNext]_chainVars

-----------------------------------------------------------------------------
(* Properties *)

\* Every variable of the chain has its type.
ChainTypeOK ==
    /\ logged \in [TenantIds -> SUBSET Row]
    /\ holder \in [TenantIds -> Writers \cup {NoWriter}]
    /\ stage \in [Writers -> {"idle", "waiting", "locked", "read", "written"}]
    /\ tenantOf \in [Writers -> TenantIds]
    /\ unsaved \in [Writers -> SUBSET Row]
    /\ lastHash \in [Writers -> Ids \cup {Genesis}]
    /\ ahead \in [Writers -> 0..MaxSkew]
    /\ clock \in Nat

\* verify_chain accepts what the writers wrote, at every moment it can run:
\* whatever the interleaving of the tenant's transactions, however many rows
\* each writes, and whichever of them are rolled back in between.
ChainVerifies == \A t \in TenantIds : Verifies(logged[t])

\* The chain only grows, and only at its end: in the order verify_chain reads
\* it, a committed row never comes before one that was already there.
ChainGrows ==
    [][\A t \in TenantIds :
          /\ logged[t] \subseteq logged'[t]
          /\ \A x \in logged[t], y \in logged'[t] \ logged[t] : Before(x, y)
      ]_chainVars

=============================================================================
