--------------------------- MODULE PremiumAiLocks ---------------------------
(***************************************************************************)
(* The premium AI database functions taken apart into the row locks they   *)
(* acquire, under PostgreSQL's READ COMMITTED isolation:                   *)
(*                                                                         *)
(*   start     user row FOR UPDATE, then the run row FOR UPDATE            *)
(*   fail      user row FOR UPDATE, then the run row FOR UPDATE            *)
(*   complete  the run row (UPDATE ... WHERE status = 'pending')           *)
(*   sweep     run rows FOR UPDATE SKIP LOCKED, then each run's user row   *)
(*                                                                         *)
(* A transaction holds its locks until it commits, and its writes are seen *)
(* by nobody before, so each one writes in the step that commits it.  What *)
(* a function read earlier (v_balance) is a variable of its own: the write *)
(* of fail and of start uses the value read, not the value stored.         *)
(***************************************************************************)
EXTENDS PremiumAiRuns

CONSTANTS
    Tx,             \* database sessions
    NoTx,           \* the owner of a free lock
    BatchLimit      \* p_limit of refund_stale_premium_ai_runs

ASSUME LocksAssumption ==
    /\ Run # {}
    /\ NoTx \notin Tx
    /\ BatchLimit \in Nat \ {0}

VARIABLES
    balance,    \* committed users.coins_balance
    status,     \* committed premium_ai_runs.status
    old,        \* the pending runs that are past the staleness intervals
    userLock,   \* which session holds each user row
    runLock,    \* which session holds each run row
    tx          \* the transaction of each session

vars == <<balance, status, old, userLock, runLock, tx>>
rows == <<balance, status, old>>
locks == <<userLock, runLock>>

-----------------------------------------------------------------------------
Kind == {"start", "fail", "complete", "sweep"}
Point == {"idle", "lock_user", "lock_run", "select", "commit"}

\* run: the run start, fail and complete are about; read: their v_balance;
\* batch: the runs a sweep refunds; todo: those of them not credited yet.
TxState == [kind : Kind, at : Point, run : Run, read : Nat,
            batch : SUBSET Run, todo : SUBSET Run]

OwnerOf(t) == Owner[tx[t].run]
Stale(r) == status[r] = "pending" /\ r \in old

\* The run row a start or fail looks for is there to be locked.
RowExists(r) == status[r] # "none"

NoRun == CHOOSE r \in Run : TRUE
Idle == [kind |-> "start", at |-> "idle", run |-> NoRun, read |-> 0,
         batch |-> {}, todo |-> {}]

Init ==
    /\ balance = [u \in User |-> StartBalance]
    /\ status = [r \in Run |-> "none"]
    /\ old = {}
    /\ userLock = [u \in User |-> NoTx]
    /\ runLock = [r \in Run |-> NoTx]
    /\ tx = [t \in Tx |-> Idle]

\* End of transaction: its locks are released and the session is idle again.
Release(t) ==
    /\ userLock' = [u \in User |-> IF userLock[u] = t THEN NoTx ELSE userLock[u]]
    /\ runLock' = [r \in Run |-> IF runLock[r] = t THEN NoTx ELSE runLock[r]]
    /\ tx' = [tx EXCEPT ![t] = Idle]

-----------------------------------------------------------------------------
\* Defect variant: fail locks the run first (20260823001000's fail).
AfterRunFirst(kind, point) ==
    CASE point = "idle"      -> IF kind = "start" THEN "lock_user" ELSE "lock_run"
      [] point = "lock_user" -> IF kind = "start" THEN "lock_run" ELSE "commit"
      [] point = "lock_run"  -> IF kind = "fail" THEN "lock_user" ELSE "commit"

\* The order in which start, fail and complete take their locks.
After(kind, point) ==
    CASE point = "idle"      -> IF kind = "complete" THEN "lock_run"
                                                     ELSE "lock_user"
      [] point = "lock_user" -> "lock_run"
      [] point = "lock_run"  -> "commit"

\* A handler calls an RPC about run r.  complete and fail know the run's id,
\* so the row exists.
Begin(t, kind, r) ==
    /\ tx[t].at = "idle"
    /\ kind \in {"fail", "complete"} => RowExists(r)
    /\ tx' = [tx EXCEPT ![t] = [Idle EXCEPT
            !.kind = kind, !.run = r, !.at = After(kind, "idle")]]
    /\ UNCHANGED <<rows, locks>>

\* Defect variant: SELECT without FOR UPDATE.
ReadUser(t) ==
    /\ tx[t].at = "lock_user"
    /\ userLock[OwnerOf(t)] = NoTx
    /\ tx' = [tx EXCEPT ![t].at = After(tx[t].kind, "lock_user"),
                         ![t].read = balance[OwnerOf(t)]]
    /\ UNCHANGED <<rows, locks>>

\* SELECT coins_balance INTO v_balance ... FOR UPDATE (start and fail).
LockUser(t) ==
    /\ tx[t].at = "lock_user"
    /\ userLock[OwnerOf(t)] = NoTx
    /\ userLock' = [userLock EXCEPT ![OwnerOf(t)] = t]
    /\ tx' = [tx EXCEPT ![t].at = After(tx[t].kind, "lock_user"),
                         ![t].read = balance[OwnerOf(t)]]
    /\ UNCHANGED <<rows, runLock>>

\* Defect variant: the run row is read without waiting for its lock.
ReadRun(t) ==
    /\ tx[t].at = "lock_run"
    /\ tx' = [tx EXCEPT ![t].at = After(tx[t].kind, "lock_run")]
    /\ UNCHANGED <<rows, locks>>

\* SELECT ... FROM premium_ai_runs ... FOR UPDATE, or complete's UPDATE.  A
\* start that finds no row locks none.
LockRun(t) ==
    /\ tx[t].at = "lock_run"
    /\ IF RowExists(tx[t].run)
       THEN /\ runLock[tx[t].run] = NoTx
            /\ runLock' = [runLock EXCEPT ![tx[t].run] = t]
       ELSE UNCHANGED runLock
    /\ tx' = [tx EXCEPT ![t].at = After(tx[t].kind, "lock_run")]
    /\ UNCHANGED <<rows, userLock>>

\* The part of start_premium_ai_service after both locks.
CommitStart(t) ==
    LET r == tx[t].run  u == OwnerOf(t) IN
    /\ tx[t].at = "commit" /\ tx[t].kind = "start"
    /\ \/ /\ status[r] = "none" /\ tx[t].read >= Cost
          /\ balance' = [balance EXCEPT ![u] = tx[t].read - Cost]
          /\ status' = [status EXCEPT ![r] = "pending"]
       \/ /\ Stale(r)
          /\ balance' = [balance EXCEPT ![u] = @ + Cost]
          /\ status' = [status EXCEPT ![r] = "failed"]
       \/ /\ ~(status[r] = "none" /\ tx[t].read >= Cost) /\ ~Stale(r)
          /\ UNCHANGED <<balance, status>>
    /\ Release(t)
    /\ UNCHANGED old

\* Defect variant: the price is taken a second time instead of given back.
CommitFailNegated(t) ==
    LET r == tx[t].run  u == OwnerOf(t) IN
    /\ tx[t].at = "commit" /\ tx[t].kind = "fail"
    /\ status[r] = "pending"
    /\ balance' = [balance EXCEPT ![u] = tx[t].read - Cost]
    /\ status' = [status EXCEPT ![r] = "failed"]
    /\ Release(t)
    /\ UNCHANGED old

CommitFail(t) ==
    LET r == tx[t].run  u == OwnerOf(t) IN
    /\ tx[t].at = "commit" /\ tx[t].kind = "fail"
    /\ IF status[r] = "pending"
       THEN /\ balance' = [balance EXCEPT ![u] = tx[t].read + Cost]
            /\ status' = [status EXCEPT ![r] = "failed"]
       ELSE UNCHANGED <<balance, status>>
    /\ Release(t)
    /\ UNCHANGED old

CommitComplete(t) ==
    LET r == tx[t].run IN
    /\ tx[t].at = "commit" /\ tx[t].kind = "complete"
    /\ status' = IF status[r] = "pending"
                 THEN [status EXCEPT ![r] = "completed"] ELSE status
    /\ Release(t)
    /\ UNCHANGED <<balance, old>>

-----------------------------------------------------------------------------
(***************************************************************************)
(* refund_stale_premium_ai_runs                                            *)
(***************************************************************************)

\* SELECT ... FOR UPDATE SKIP LOCKED LIMIT p_limit: up to BatchLimit stale
\* runs that nobody holds.
Select(t, S) ==
    /\ tx[t].at = "idle"
    /\ S # {}
    /\ Cardinality(S) <= BatchLimit
    /\ \A r \in S : Stale(r) /\ runLock[r] = NoTx
    /\ runLock' = [r \in Run |-> IF r \in S THEN t ELSE runLock[r]]
    /\ \E first \in S :
          tx' = [tx EXCEPT ![t] = [Idle EXCEPT
              !.kind = "sweep", !.at = "select", !.run = first,
              !.batch = S, !.todo = S]]
    /\ UNCHANGED <<rows, userLock>>

\* UPDATE users ... of the run at hand; the row lock is kept, and a second
\* run of the same user finds it already held by this transaction.
LockOwner(t) ==
    /\ tx[t].at = "select"
    /\ userLock[OwnerOf(t)] \in {NoTx, t}
    /\ userLock' = [userLock EXCEPT ![OwnerOf(t)] = t]
    /\ LET left == tx[t].todo \ {tx[t].run} IN
       IF left = {}
       THEN tx' = [tx EXCEPT ![t].todo = {}, ![t].at = "commit"]
       ELSE \E next \in left :
              tx' = [tx EXCEPT ![t].todo = left, ![t].run = next]
    /\ UNCHANGED <<rows, runLock>>

\* Defect variant: UPDATE users ... FROM the batch credits each user once.
CommitSweepOncePerUser(t) ==
    /\ tx[t].at = "commit" /\ tx[t].kind = "sweep"
    /\ balance' = [u \in User |->
            IF RunsOf(u, tx[t].batch) = {} THEN balance[u] ELSE balance[u] + Cost]
    /\ status' = [r \in Run |->
            IF r \in tx[t].batch THEN "failed" ELSE status[r]]
    /\ Release(t)
    /\ UNCHANGED old

CommitSweep(t) ==
    /\ tx[t].at = "commit" /\ tx[t].kind = "sweep"
    /\ balance' = [u \in User |->
            balance[u] + Price(RunsOf(u, tx[t].batch))]
    /\ status' = [r \in Run |->
            IF r \in tx[t].batch THEN "failed" ELSE status[r]]
    /\ Release(t)
    /\ UNCHANGED old

-----------------------------------------------------------------------------
\* Defect variant: the sweep tries SELECT ... FOR UPDATE SKIP LOCKED in a loop
\* until it gets the user row, which the deadlock detector does not know of.
QueuesForUserUnlessSweep(t) == tx[t].at = "lock_user"

\* The statement at hand queues for a user row: SELECT ... FOR UPDATE of start
\* and fail, UPDATE users of the sweep.
QueuesForUser(t) == tx[t].at \in {"lock_user", "select"}

\* The session whose lock t is waiting for, or NoTx.
WaitsFor(t) ==
    CASE QueuesForUser(t) /\ userLock[OwnerOf(t)] # t
            -> userLock[OwnerOf(t)]
      [] tx[t].at = "lock_run" /\ RowExists(tx[t].run) -> runLock[tx[t].run]
      [] OTHER -> NoTx

\* The sessions of S wait for one another in a ring.
Ring(S) == S # {} /\ {WaitsFor(t) : t \in S} = S

\* PostgreSQL's deadlock detector rolls one of them back.
BreakDeadlock(t) ==
    /\ \E S \in SUBSET Tx : t \in S /\ Ring(S)
    /\ Release(t)
    /\ UNCHANGED rows

\* The connection is lost before the commit.
Rollback(t) ==
    /\ tx[t].at # "idle"
    /\ Release(t)
    /\ UNCHANGED rows

\* Time passes over a pending run.
Grow(r) ==
    /\ status[r] = "pending"
    /\ r \notin old
    /\ old' = old \cup {r}
    /\ UNCHANGED <<balance, status, locks, tx>>

\* What a session does once its transaction has begun.
Proceed(t) ==
    \/ LockUser(t) \/ LockRun(t) \/ LockOwner(t)
    \/ CommitStart(t) \/ CommitFail(t) \/ CommitComplete(t) \/ CommitSweep(t)

Next ==
    \/ \E t \in Tx :
          \/ \E r \in Run, kind \in {"start", "fail", "complete"} :
                Begin(t, kind, r)
          \/ \E S \in SUBSET Run : Select(t, S)
          \/ Proceed(t)
          \/ BreakDeadlock(t)
          \/ Rollback(t)
    \/ \E r \in Run : Grow(r)

Spec == Init /\ [][Next]_vars

(***************************************************************************)
(* A waiter gets a lock that keeps becoming free (row locks are queued),   *)
(* sessions run, and the deadlock detector fires after deadlock_timeout.   *)
(***************************************************************************)
Fairness ==
    \A t \in Tx : SF_vars(Proceed(t)) /\ WF_vars(BreakDeadlock(t))

FairSpec == Spec /\ Fairness

-----------------------------------------------------------------------------
TypeOK ==
    /\ balance \in [User -> Nat]
    /\ status \in [Run -> Status]
    /\ old \subseteq Run
    /\ userLock \in [User -> Tx \cup {NoTx}]
    /\ runLock \in [Run -> Tx \cup {NoTx}]
    /\ tx \in [Tx -> TxState]

\* What start and fail read of a balance is still the balance when they write
\* it back, whatever else runs: without the user lock this is a lost update.
ReadsAreCurrent ==
    \A t \in Tx :
        tx[t].kind \in {"start", "fail"} /\ tx[t].at \in {"lock_run", "commit"}
            => tx[t].read = balance[OwnerOf(t)]

\* A sweep refunds only runs that are still pending when it commits.
SweepsArePending ==
    \A t \in Tx : \A r \in tx[t].batch : status[r] = "pending"

\* Purchases, refunds and completions by handlers never wait in a ring: each
\* ring has a sweep in it, whose run -> user order is the opposite one.
RingsNeedSweep ==
    \A S \in SUBSET Tx : Ring(S) => \E t \in S : tx[t].kind = "sweep"

\* docs/premium-ai-coin-services.md: "Concurrent purchases and refunds
\* therefore cannot deadlock by taking the same locks in opposite order."
NoLockRing == \A S \in SUBSET Tx : ~Ring(S)

\* Deadlocks included, every transaction commits or is rolled back.
TransactionsEnd ==
    \A t \in Tx : tx[t].at # "idle" ~> tx[t].at = "idle"

Ledger == INSTANCE PremiumAiLedger WITH purchase <- status, wallet <- balance

\* Locking makes each function one atomic step of the abstract purchase.
ImplementsLedger == Ledger!Spec

=============================================================================
