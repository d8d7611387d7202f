------------------------- MODULE PremiumAiLocksProofs -------------------------
(***************************************************************************)
(* Theorems about PremiumAiLocks, for any number of users, runs and        *)
(* database sessions and any batch limit.                                  *)
(*                                                                         *)
(* What a session read or selected stays true because of the locks it      *)
(* holds, so LockInv says of each session how far it has come, which locks *)
(* it therefore holds, and what those locks keep true.                     *)
(***************************************************************************)
EXTENDS PremiumAiLocks, PremiumAiRunsTheorems

Handlers == {"start", "fail"}

\* How far a transaction can have come.
StageOK(t) ==
    /\ tx[t].at = "idle" => tx[t] = Idle
    /\ tx[t].at = "lock_user" => tx[t].kind \in Handlers
    /\ tx[t].at = "lock_run" => tx[t].kind # "sweep"
    /\ tx[t].at = "select" => tx[t].kind = "sweep"
    /\ tx[t].kind \in {"fail", "complete"} => RowExists(tx[t].run)

\* start and fail hold the user row from the second lock on, and the balance
\* they read is the one stored.
UserHeld(t) ==
    tx[t].kind \in Handlers /\ tx[t].at \in {"lock_run", "commit"} =>
        /\ userLock[OwnerOf(t)] = t
        /\ tx[t].read = balance[OwnerOf(t)]

\* start, fail and complete hold the run row when they write it; where a start
\* found none there still is none, since whoever inserts it holds the user row.
RunHeld(t) ==
    tx[t].kind # "sweep" /\ tx[t].at = "commit" =>
        \/ runLock[tx[t].run] = t
        \/ tx[t].kind = "start" /\ ~RowExists(tx[t].run)

\* A sweep holds the runs of its batch, which are pending, and the users of
\* those it has dealt with.
SweepHeld(t) ==
    /\ tx[t].kind # "sweep" => tx[t].batch = {}
    /\ tx[t].todo \subseteq tx[t].batch
    /\ \A r \in tx[t].batch : runLock[r] = t /\ status[r] = "pending"
    /\ \A r \in tx[t].batch \ tx[t].todo : userLock[Owner[r]] = t
    /\ tx[t].kind = "sweep" /\ tx[t].at = "select" => tx[t].run \in tx[t].todo
    /\ tx[t].at = "commit" => tx[t].todo = {}

\* Who holds a run lock is a sweep or has nothing left to wait for; who holds
\* a user lock waits for a run at most.
HoldersOK(t) ==
    /\ \A r \in Run : runLock[r] = t =>
          tx[t].kind = "sweep" \/ tx[t].at = "commit"
    /\ \A u \in User : userLock[u] = t =>
          tx[t].kind = "sweep" \/ tx[t].at \in {"lock_run", "commit"}

SessionOK(t) ==
    StageOK(t) /\ UserHeld(t) /\ RunHeld(t) /\ SweepHeld(t) /\ HoldersOK(t)

LockInv == TypeOK /\ \A t \in Tx : SessionOK(t)

LEMMA InitLockInv == Init => LockInv
  <1> SUFFICES ASSUME Init PROVE LockInv
    OBVIOUS
  <1>1. NoRun \in Run
    BY LocksAssumption DEF NoRun
  <1>2. Idle \in TxState
    BY <1>1 DEF Idle, TxState, Kind, Point
  <1>3. TypeOK
    BY <1>2, RunsAssumption DEF Init, TypeOK, Status
  <1>4. ASSUME NEW t \in Tx PROVE SessionOK(t)
    BY LocksAssumption
    DEF Init, Idle, SessionOK, StageOK, UserHeld, RunHeld, SweepHeld,
        HoldersOK, Handlers
  <1>5. QED
    BY <1>3, <1>4 DEF LockInv

-----------------------------------------------------------------------------
(***************************************************************************)
(* The other sessions.  A step of t takes free locks only, and writes only *)
(* rows it holds: a run's row, or the owner's where the run has no row.    *)
(***************************************************************************)
LeavesLocks(t) ==
    \A s \in Tx \ {t} :
        /\ tx'[s] = tx[s]
        /\ \A r \in Run : runLock'[r] = s <=> runLock[r] = s
        /\ \A u \in User : userLock'[u] = s <=> userLock[u] = s

LeavesRows(t) ==
    /\ \A u \in User : balance'[u] # balance[u] => userLock[u] = t
    /\ \A r \in Run : status'[r] # status[r] =>
          /\ status'[r] # "none"
          /\ IF RowExists(r) THEN runLock[r] = t ELSE userLock[Owner[r]] = t

LEMMA OthersOK ==
    ASSUME LockInv, NEW t \in Tx, LeavesLocks(t), LeavesRows(t),
           NEW s \in Tx \ {t}
    PROVE  SessionOK(s)'
  <1>0. /\ SessionOK(s) /\ TypeOK /\ OwnerOf(s) \in User /\ tx[s].run \in Run
        /\ tx[s].batch \subseteq Run
    BY RunsAssumption DEF LockInv, TypeOK, TxState, OwnerOf
  <1>1. tx'[s] = tx[s] /\ OwnerOf(s)' = OwnerOf(s)
    BY DEF LeavesLocks, OwnerOf
  <1>2. /\ \A r \in Run : runLock'[r] = s <=> runLock[r] = s
        /\ \A u \in User : userLock'[u] = s <=> userLock[u] = s
    BY DEF LeavesLocks
  <1>3. \A r \in Run : RowExists(r) => RowExists(r)'
    BY DEF LeavesRows, RowExists
  <1>4. StageOK(s)'
    BY <1>0, <1>1, <1>3 DEF SessionOK, StageOK
  <1>5. UserHeld(s)'
    BY <1>0, <1>1, <1>2 DEF SessionOK, UserHeld, LeavesRows
  <1>6. RunHeld(s)'
    <2> SUFFICES ASSUME tx[s].kind # "sweep", tx[s].at = "commit"
                 PROVE  \/ runLock'[tx[s].run] = s
                        \/ tx[s].kind = "start" /\ ~RowExists(tx[s].run)'
      BY <1>1 DEF RunHeld
    <2>1. CASE runLock[tx[s].run] = s
      BY <2>1, <1>0, <1>2
    <2>2. CASE runLock[tx[s].run] # s
      <3>1. tx[s].kind = "start" /\ ~RowExists(tx[s].run)
        BY <2>2, <1>0 DEF SessionOK, RunHeld
      <3>2. userLock[OwnerOf(s)] = s
        BY <3>1, <1>0 DEF SessionOK, UserHeld, Handlers
      <3>3. status'[tx[s].run] = status[tx[s].run]
        BY <3>1, <3>2, <1>0 DEF LeavesRows, OwnerOf
      <3>4. QED
        BY <3>1, <3>3, <1>1 DEF RowExists
    <2>3. QED
      BY <2>1, <2>2
  <1>7. SweepHeld(s)'
    <2>1. ASSUME NEW r \in tx[s].batch PROVE status'[r] = "pending"
      BY <2>1, <1>0 DEF SessionOK, SweepHeld, LeavesRows, RowExists
    <2>2. \A r \in Run : Owner[r] \in User
      BY RunsAssumption
    <2>3. QED
      BY <2>1, <2>2, <1>0, <1>1, <1>2 DEF SessionOK, SweepHeld
  <1>8. HoldersOK(s)'
    BY <1>0, <1>1, <1>2 DEF SessionOK, HoldersOK
  <1>9. QED
    BY <1>4, <1>5, <1>6, <1>7, <1>8 DEF SessionOK

\* A session's step keeps the invariant when it keeps it for the session.
LEMMA StepKeeps ==
    ASSUME LockInv, NEW t \in Tx, LeavesLocks(t), LeavesRows(t), TypeOK',
           SessionOK(t)'
    PROVE  LockInv'
  BY OthersOK DEF LockInv

LEMMA SameRows ==
    ASSUME NEW t \in Tx, UNCHANGED <<balance, status>> PROVE LeavesRows(t)
  BY DEF LeavesRows

-----------------------------------------------------------------------------
\* What one step needs to know of the session that takes it.
LEMMA Session ==
    ASSUME LockInv, NEW t \in Tx
    PROVE  /\ TypeOK /\ SessionOK(t)
           /\ OwnerOf(t) \in User /\ tx[t].run \in Run /\ tx[t].read \in Nat
           /\ tx[t] \in TxState
           /\ tx[t].batch \in SUBSET Run /\ tx[t].todo \in SUBSET Run
           /\ t # NoTx
  BY RunsAssumption, LocksAssumption DEF LockInv, TypeOK, TxState, OwnerOf

LEMMA IdleType == Idle \in TxState
  <1>1. NoRun \in Run
    BY LocksAssumption DEF NoRun
  <1>2. QED
    BY <1>1 DEF Idle, TxState, Kind, Point

\* The end of a transaction, committed or not: an idle session holds nothing.
LEMMA ReleaseKeeps ==
    ASSUME LockInv, NEW t \in Tx, Release(t), LeavesRows(t),
           balance' \in [User -> Nat], status' \in [Run -> Status], old' = old
    PROVE  LockInv'
  <1>1. TypeOK'
    BY IdleType DEF LockInv, TypeOK, Release
  <1>2. LeavesLocks(t)
    BY LocksAssumption DEF LockInv, TypeOK, LeavesLocks, Release
  <1>3. SessionOK(t)'
    <2>1. tx'[t] = Idle
      BY DEF LockInv, TypeOK, Release
    <2>2. /\ \A r \in Run : runLock'[r] # t
          /\ \A u \in User : userLock'[u] # t
      BY LocksAssumption DEF Release
    <2>3. QED
      BY <2>1, <2>2
      DEF SessionOK, StageOK, UserHeld, RunHeld, SweepHeld, HoldersOK, Idle,
          Handlers
  <1>4. QED
    BY <1>1, <1>2, <1>3, StepKeeps

LEMMA BeginKeeps ==
    ASSUME LockInv, NEW t \in Tx, NEW r \in Run,
           NEW kind \in {"start", "fail", "complete"}, Begin(t, kind, r)
    PROVE  LockInv'
  <1>1. /\ tx[t] = Idle /\ UNCHANGED <<balance, status, old, userLock, runLock>>
        /\ kind \in {"fail", "complete"} => RowExists(r)
    BY Session DEF Begin, rows, locks, SessionOK, StageOK
  <1> DEFINE point == IF kind = "complete" THEN "lock_run" ELSE "lock_user"
             new == [Idle EXCEPT !.kind = kind, !.run = r, !.at = point]
  <1>2. tx' = [tx EXCEPT ![t] = new]
    BY DEF Begin, After
  <1>3. /\ new \in TxState
        /\ new.kind = kind /\ new.at = point /\ new.run = r
        /\ new.batch = {} /\ new.todo = {}
    BY IdleType DEF Idle, TxState, Kind, Point
  <1> HIDE DEF new
  <1>4. tx'[t] = new
    BY <1>2, Session DEF TypeOK
  <1>5. TypeOK'
    BY <1>1, <1>2, <1>3, Session DEF TypeOK
  <1>6. LeavesLocks(t)
    BY <1>1, <1>2, Session DEF TypeOK, LeavesLocks
  <1>7. SessionOK(t)'
    <2>1. RowExists(tx[t].run)' <=> RowExists(r)
      BY <1>1, <1>3, <1>4 DEF RowExists
    <2>2. HoldersOK(t)'
      BY <1>1, Session DEF SessionOK, HoldersOK, Idle
    <2>3. QED
      BY <1>1, <1>3, <1>4, <2>1, <2>2
      DEF SessionOK, StageOK, UserHeld, RunHeld, SweepHeld, Handlers
  <1>8. QED
    BY <1>1, <1>5, <1>6, <1>7, StepKeeps, SameRows

LEMMA LockUserKeeps ==
    ASSUME LockInv, NEW t \in Tx, LockUser(t) PROVE LockInv'
  <1>1. /\ tx[t].at = "lock_user" /\ tx[t].kind \in Handlers
        /\ userLock[OwnerOf(t)] = NoTx
        /\ userLock' = [userLock EXCEPT ![OwnerOf(t)] = t]
        /\ UNCHANGED <<balance, status, old, runLock>>
    BY Session DEF LockUser, rows, SessionOK, StageOK
  <1>2. tx' = [tx EXCEPT ![t].at = "lock_run", ![t].read = balance[OwnerOf(t)]]
    BY <1>1 DEF LockUser, After, Handlers
  <1>3. balance[OwnerOf(t)] \in Nat
    BY Session DEF TypeOK
  <1>4. /\ tx'[t] = [tx[t] EXCEPT !.at = "lock_run", !.read = balance[OwnerOf(t)]]
        /\ tx' = [tx EXCEPT ![t] = tx'[t]]
    BY <1>2, Session DEF TypeOK, TxState
  <1>5. /\ tx'[t] \in TxState /\ OwnerOf(t)' = OwnerOf(t)
        /\ tx'[t].kind = tx[t].kind /\ tx'[t].run = tx[t].run
        /\ tx'[t].at = "lock_run" /\ tx'[t].read = balance[OwnerOf(t)]
        /\ tx'[t].batch = tx[t].batch /\ tx'[t].todo = tx[t].todo
    BY <1>3, <1>4, Session DEF TxState, Point, OwnerOf
  <1>6. TypeOK'
    BY <1>1, <1>4, <1>5, Session DEF TypeOK
  <1>7. LeavesLocks(t)
    BY <1>1, <1>4, Session, LocksAssumption DEF TypeOK, LeavesLocks
  <1>8. SessionOK(t)'
    <2>1. StageOK(t)' /\ UserHeld(t)' /\ RunHeld(t)'
      BY <1>1, <1>5, Session
      DEF TypeOK, SessionOK, StageOK, UserHeld, RunHeld, Handlers, RowExists
    <2>2. SweepHeld(t)'
      BY <1>1, <1>5, Session DEF SessionOK, SweepHeld, Handlers
    <2>3. HoldersOK(t)'
      BY <1>1, <1>5, Session DEF TypeOK, SessionOK, HoldersOK
    <2>4. QED
      BY <2>1, <2>2, <2>3 DEF SessionOK
  <1>9. QED
    BY <1>1, <1>6, <1>7, <1>8, StepKeeps, SameRows

LEMMA LockRunKeeps ==
    ASSUME LockInv, NEW t \in Tx, LockRun(t) PROVE LockInv'
  <1>1. /\ tx[t].at = "lock_run" /\ tx[t].kind # "sweep"
        /\ UNCHANGED <<balance, status, old, userLock>>
    BY Session DEF LockRun, rows, SessionOK, StageOK
  <1>2. IF RowExists(tx[t].run)
        THEN /\ runLock[tx[t].run] = NoTx
             /\ runLock' = [runLock EXCEPT ![tx[t].run] = t]
        ELSE runLock' = runLock
    BY DEF LockRun
  <1>3. tx' = [tx EXCEPT ![t].at = "commit"]
    BY DEF LockRun, After
  <1>4. /\ tx'[t] = [tx[t] EXCEPT !.at = "commit"]
        /\ tx' = [tx EXCEPT ![t] = tx'[t]]
    BY <1>3, Session DEF TypeOK
  <1>5. /\ tx'[t] \in TxState /\ OwnerOf(t)' = OwnerOf(t)
        /\ tx'[t].kind = tx[t].kind /\ tx'[t].run = tx[t].run
        /\ tx'[t].at = "commit" /\ tx'[t].read = tx[t].read
        /\ tx'[t].batch = tx[t].batch /\ tx'[t].todo = tx[t].todo
    BY <1>4, Session DEF TxState, Point, OwnerOf
  <1>6. TypeOK'
    BY <1>1, <1>2, <1>4, <1>5, Session DEF TypeOK
  <1>7. LeavesLocks(t)
    BY <1>1, <1>2, <1>4, Session, LocksAssumption DEF TypeOK, LeavesLocks
  <1>8. SessionOK(t)'
    <2>1. StageOK(t)' /\ UserHeld(t)'
      BY <1>1, <1>5, Session DEF SessionOK, StageOK, UserHeld, RowExists
    <2>2. RunHeld(t)'
      BY <1>1, <1>2, <1>5, Session
      DEF TypeOK, TxState, Kind, SessionOK, StageOK, RunHeld, RowExists
    <2>3. SweepHeld(t)'
      BY <1>1, <1>5, Session DEF SessionOK, SweepHeld
    <2>4. HoldersOK(t)'
      BY <1>1, <1>5, Session DEF SessionOK, HoldersOK
    <2>5. QED
      BY <2>1, <2>2, <2>3, <2>4 DEF SessionOK
  <1>9. QED
    BY <1>1, <1>6, <1>7, <1>8, StepKeeps, SameRows

LEMMA SelectKeeps ==
    ASSUME LockInv, NEW t \in Tx, NEW S \in SUBSET Run, Select(t, S)
    PROVE  LockInv'
  <1>1. /\ tx[t] = Idle /\ UNCHANGED <<balance, status, old, userLock>>
        /\ \A r \in S : status[r] = "pending" /\ runLock[r] = NoTx
        /\ runLock' = [r \in Run |-> IF r \in S THEN t ELSE runLock[r]]
    BY Session DEF Select, rows, SessionOK, StageOK, Stale
  <1>2. PICK first \in S :
            tx' = [tx EXCEPT ![t] = [Idle EXCEPT
                !.kind = "sweep", !.at = "select", !.run = first,
                !.batch = S, !.todo = S]]
    BY DEF Select
  <1> DEFINE new == [Idle EXCEPT !.kind = "sweep", !.at = "select",
                                 !.run = first, !.batch = S, !.todo = S]
  <1>3. /\ new \in TxState
        /\ new.kind = "sweep" /\ new.at = "select" /\ new.run = first
        /\ new.batch = S /\ new.todo = S
    BY IdleType DEF Idle, TxState, Kind, Point
  <1>4. tx' = [tx EXCEPT ![t] = new]
    BY <1>2
  <1> HIDE DEF new
  <1>5. tx'[t] = new
    BY <1>4, Session DEF TypeOK
  <1>6. TypeOK'
    BY <1>1, <1>3, <1>4, Session DEF TypeOK
  <1>7. LeavesLocks(t)
    BY <1>1, <1>4, Session, LocksAssumption DEF TypeOK, LeavesLocks
  <1>8. SessionOK(t)'
    BY <1>1, <1>3, <1>5, Session
    DEF SessionOK, StageOK, UserHeld, RunHeld, SweepHeld, HoldersOK, Handlers,
        Idle
  <1>9. QED
    BY <1>1, <1>6, <1>7, <1>8, StepKeeps, SameRows

LEMMA LockOwnerKeeps ==
    ASSUME LockInv, NEW t \in Tx, LockOwner(t) PROVE LockInv'
  <1> DEFINE left == tx[t].todo \ {tx[t].run}
  <1>1. /\ tx[t].at = "select" /\ tx[t].kind = "sweep"
        /\ userLock[OwnerOf(t)] \in {NoTx, t}
        /\ userLock' = [userLock EXCEPT ![OwnerOf(t)] = t]
        /\ UNCHANGED <<balance, status, old, runLock>>
    BY Session DEF LockOwner, rows, SessionOK, StageOK
  <1>2. PICK new \in TxState :
            /\ tx' = [tx EXCEPT ![t] = new]
            /\ new.kind = "sweep" /\ new.batch = tx[t].batch
            /\ new.todo = left
            /\ new.at = IF left = {} THEN "commit" ELSE "select"
            /\ new.at = "select" => new.run \in left
    <2>1. CASE left = {}
      <3>1. tx' = [tx EXCEPT ![t].todo = {}, ![t].at = "commit"]
        BY <2>1 DEF LockOwner
      <3> DEFINE n == [tx[t] EXCEPT !.todo = {}, !.at = "commit"]
      <3>2. tx' = [tx EXCEPT ![t] = n]
        BY <3>1, Session DEF TypeOK, TxState
      <3>3. /\ n \in TxState /\ n.kind = "sweep" /\ n.batch = tx[t].batch
            /\ n.todo = {} /\ n.at = "commit"
        BY <1>1, Session DEF TxState, Point
      <3>4. QED
        BY <2>1, <3>2, <3>3
    <2>2. CASE left # {}
      <3>1. PICK next \in left :
                tx' = [tx EXCEPT ![t].todo = left, ![t].run = next]
        BY <2>2 DEF LockOwner
      <3> DEFINE n == [tx[t] EXCEPT !.todo = left, !.run = next]
      <3>2. tx' = [tx EXCEPT ![t] = n]
        BY <3>1, Session DEF TypeOK, TxState
      <3>3. /\ n \in TxState /\ n.kind = "sweep" /\ n.batch = tx[t].batch
            /\ n.todo = left /\ n.at = "select" /\ n.run = next
        BY <1>1, <3>1, Session DEF TxState, Point
      <3>4. QED
        BY <2>2, <3>1, <3>2, <3>3
    <2>3. QED
      BY <2>1, <2>2
  <1>3. tx'[t] = new
    BY <1>2, Session DEF TypeOK
  <1>4. TypeOK'
    BY <1>1, <1>2, Session DEF TypeOK
  <1>5. LeavesLocks(t)
    BY <1>1, <1>2, Session, LocksAssumption DEF TypeOK, LeavesLocks
  <1>6. SessionOK(t)'
    <2>1. StageOK(t)' /\ UserHeld(t)' /\ RunHeld(t)' /\ HoldersOK(t)'
      BY <1>2, <1>3
      DEF StageOK, UserHeld, RunHeld, HoldersOK, Handlers, Idle
    <2>2. SweepHeld(t)'
      <3>1. \A r \in Run : Owner[r] \in User
        BY RunsAssumption
      <3>2. \A r \in tx[t].batch \ left : userLock'[Owner[r]] = t
        BY <1>1, <3>1, Session DEF TypeOK, SessionOK, SweepHeld, OwnerOf
      <3>3. QED
        BY <1>1, <1>2, <1>3, <3>2, Session DEF SessionOK, SweepHeld
    <2>3. QED
      BY <2>1, <2>2 DEF SessionOK
  <1>7. QED
    BY <1>1, <1>4, <1>5, <1>6, StepKeeps, SameRows

-----------------------------------------------------------------------------
(***************************************************************************)
(* The commits.  Effects says what each does to the rows; the refinement   *)
(* below needs no more of them.                                            *)
(***************************************************************************)
Charges(t) ==
    LET r == tx[t].run  u == OwnerOf(t) IN
    /\ status[r] = "none" /\ balance[u] >= Cost /\ userLock[u] = t
    /\ balance' = [balance EXCEPT ![u] = @ - Cost]
    /\ status' = [status EXCEPT ![r] = "pending"]

Delivers(t) ==
    LET r == tx[t].run IN
    /\ status[r] = "pending" /\ runLock[r] = t
    /\ status' = [status EXCEPT ![r] = "completed"]
    /\ balance' = balance

GivesBack(t, S) ==
    /\ \A r \in S : status[r] = "pending" /\ runLock[r] = t
                    /\ userLock[Owner[r]] = t
    /\ balance' = [u \in User |-> balance[u] + Price(RunsOf(u, S))]
    /\ status' = [r \in Run |-> IF r \in S THEN "failed" ELSE status[r]]

Effects(t) ==
    \/ UNCHANGED <<balance, status>>
    \/ Charges(t) \/ Delivers(t)
    \/ \E S \in SUBSET Run : GivesBack(t, S)

\* Giving back one run's price is what a batch of one would do.
LEMMA OneGivenBack ==
    ASSUME LockInv, NEW t \in Tx,
           status[tx[t].run] = "pending", runLock[tx[t].run] = t,
           userLock[OwnerOf(t)] = t,
           balance' = [balance EXCEPT ![OwnerOf(t)] = @ + Cost],
           status' = [status EXCEPT ![tx[t].run] = "failed"]
    PROVE  GivesBack(t, {tx[t].run})
  <1> DEFINE r == tx[t].run
  <1>1. r \in Run /\ OwnerOf(t) = Owner[r] /\ balance \in [User -> Nat]
        /\ status \in [Run -> Status]
    BY Session DEF OwnerOf, TypeOK
  <1>2. ASSUME NEW u \in User
        PROVE  balance'[u] = balance[u] + Price(RunsOf(u, {r}))
    <2>1. CASE u = Owner[r]
      <3>1. RunsOf(u, {r}) = {r}
        BY <2>1 DEF RunsOf
      <3>2. QED
        BY <2>1, <3>1, <1>1, PriceOfOne
    <2>2. CASE u # Owner[r]
      <3>1. RunsOf(u, {r}) = {}
        BY <2>2 DEF RunsOf
      <3>2. Price(RunsOf(u, {r})) = 0
        BY <3>1, PriceOfNone, Zenon
      <3>3. QED
        BY <2>2, <3>2, <1>1
    <2>3. QED
      BY <2>1, <2>2
  <1>3. balance' = [u \in User |-> balance[u] + Price(RunsOf(u, {r}))]
    BY <1>1, <1>2
  <1>4. status' = [x \in Run |-> IF x \in {r} THEN "failed" ELSE status[x]]
    BY <1>1
  <1>5. QED
    BY <1>1, <1>3, <1>4 DEF GivesBack

LEMMA CommitStartEffect ==
    ASSUME LockInv, NEW t \in Tx, CommitStart(t) PROVE Effects(t)
  <1>1. /\ tx[t].at = "commit" /\ tx[t].kind = "start"
        /\ userLock[OwnerOf(t)] = t /\ tx[t].read = balance[OwnerOf(t)]
        /\ runLock[tx[t].run] = t \/ ~RowExists(tx[t].run)
        /\ tx[t].run \in Run
    BY Session DEF CommitStart, SessionOK, UserHeld, RunHeld, Handlers
  <1>2. CASE /\ status[tx[t].run] = "none" /\ tx[t].read >= Cost
             /\ balance' = [balance EXCEPT ![OwnerOf(t)] = tx[t].read - Cost]
             /\ status' = [status EXCEPT ![tx[t].run] = "pending"]
    BY <1>1, <1>2 DEF Effects, Charges
  <1>3. CASE /\ Stale(tx[t].run)
             /\ balance' = [balance EXCEPT ![OwnerOf(t)] = @ + Cost]
             /\ status' = [status EXCEPT ![tx[t].run] = "failed"]
    <2>1. GivesBack(t, {tx[t].run})
      BY <1>1, <1>3, OneGivenBack DEF Stale, RowExists
    <2>2. QED
      BY <1>1, <2>1 DEF Effects
  <1>4. CASE UNCHANGED <<balance, status>>
    BY <1>4 DEF Effects
  <1>5. QED
    BY <1>2, <1>3, <1>4 DEF CommitStart

LEMMA CommitFailEffect ==
    ASSUME LockInv, NEW t \in Tx, CommitFail(t) PROVE Effects(t)
  <1>1. /\ tx[t].at = "commit" /\ tx[t].kind = "fail"
        /\ userLock[OwnerOf(t)] = t /\ tx[t].read = balance[OwnerOf(t)]
        /\ runLock[tx[t].run] = t /\ tx[t].run \in Run
    BY Session DEF CommitFail, SessionOK, UserHeld, RunHeld, Handlers
  <1>2. CASE status[tx[t].run] = "pending"
    <2>1. /\ balance' = [balance EXCEPT ![OwnerOf(t)] = @ + Cost]
          /\ status' = [status EXCEPT ![tx[t].run] = "failed"]
      BY <1>1, <1>2 DEF CommitFail
    <2>2. GivesBack(t, {tx[t].run})
      BY <1>1, <1>2, <2>1, OneGivenBack
    <2>3. QED
      BY <1>1, <2>2 DEF Effects
  <1>3. CASE status[tx[t].run] # "pending"
    BY <1>3 DEF CommitFail, Effects
  <1>4. QED
    BY <1>2, <1>3

LEMMA CommitCompleteEffect ==
    ASSUME LockInv, NEW t \in Tx, CommitComplete(t) PROVE Effects(t)
  <1>1. runLock[tx[t].run] = t
    BY Session DEF CommitComplete, SessionOK, RunHeld
  <1>2. QED
    BY <1>1 DEF CommitComplete, Effects, Delivers

LEMMA CommitSweepEffect ==
    ASSUME LockInv, NEW t \in Tx, CommitSweep(t) PROVE Effects(t)
  <1>1. GivesBack(t, tx[t].batch)
    BY Session DEF CommitSweep, SessionOK, SweepHeld, GivesBack
  <1>2. QED
    BY <1>1, Session DEF Effects

\* What a commit writes it holds, and is of the right type.
LEMMA EffectsLeaveRows ==
    ASSUME LockInv, NEW t \in Tx, Effects(t)
    PROVE  /\ LeavesRows(t)
           /\ balance' \in [User -> Nat] /\ status' \in [Run -> Status]
  <1> USE Session DEF TypeOK
  <1>1. CASE UNCHANGED <<balance, status>>
    BY <1>1, SameRows
  <1>2. CASE Charges(t)
    BY <1>2, RunsAssumption DEF Charges, LeavesRows, RowExists, OwnerOf, Status
  <1>3. CASE Delivers(t)
    BY <1>3 DEF Delivers, LeavesRows, RowExists, Status
  <1>4. ASSUME NEW S \in SUBSET Run, GivesBack(t, S)
        PROVE  /\ LeavesRows(t)
               /\ balance' \in [User -> Nat] /\ status' \in [Run -> Status]
    <2>1. ASSUME NEW u \in User, userLock[u] # t
          PROVE  balance'[u] = balance[u]
      <3>1. RunsOf(u, S) = {}
        BY <1>4, <2>1 DEF GivesBack, RunsOf
      <3>2. Price(RunsOf(u, S)) = 0
        BY <3>1, PriceOfNone, Zenon
      <3>3. QED
        BY <1>4, <3>2 DEF GivesBack
    <2>2. \A u \in User : Price(RunsOf(u, S)) \in Nat
      BY RunsOfType, PriceType
    <2>3. balance' \in [User -> Nat]
      BY <1>4, <2>2 DEF GivesBack
    <2>4. status' \in [Run -> Status]
      BY <1>4 DEF GivesBack, Status
    <2>5. \A r \in Run : status'[r] # status[r] => r \in S
      BY <1>4 DEF GivesBack
    <2>6. LeavesRows(t)
      BY <1>4, <2>1, <2>5 DEF GivesBack, LeavesRows, RowExists
    <2>7. QED
      BY <2>3, <2>4, <2>6
  <1>5. QED
    BY <1>1, <1>2, <1>3, <1>4 DEF Effects

-----------------------------------------------------------------------------
LEMMA CommitKeeps ==
    ASSUME LockInv, NEW t \in Tx, Effects(t), Release(t), old' = old
    PROVE  LockInv'
  BY EffectsLeaveRows, ReleaseKeeps

\* The part of Next that changes rows, and the rest.
LEMMA StepEffects ==
    ASSUME LockInv, [Next]_vars
    PROVE  UNCHANGED <<balance, status>> \/ \E t \in Tx : Effects(t)
  <1>1. ASSUME NEW t \in Tx, Proceed(t)
        PROVE  UNCHANGED <<balance, status>> \/ Effects(t)
    BY <1>1, CommitStartEffect, CommitFailEffect, CommitCompleteEffect,
       CommitSweepEffect
    DEF Proceed, LockUser, LockRun, LockOwner, rows
  <1>2. QED
    BY <1>1 DEF Next, vars, Begin, Select, BreakDeadlock, Rollback, Grow, rows

LEMMA GrowKeeps ==
    ASSUME LockInv, NEW r \in Run, Grow(r) PROVE LockInv'
  <1>1. UNCHANGED <<balance, status, userLock, runLock, tx>>
    BY DEF Grow, locks
  <1>2. TypeOK'
    BY <1>1 DEF LockInv, TypeOK, Grow
  <1>3. ASSUME NEW t \in Tx PROVE SessionOK(t)'
    BY <1>1 DEF LockInv, SessionOK, StageOK, UserHeld, RunHeld, SweepHeld,
                HoldersOK, OwnerOf, RowExists
  <1>4. QED
    BY <1>2, <1>3 DEF LockInv

LEMMA NextLockInv == LockInv /\ [Next]_vars => LockInv'
  <1> SUFFICES ASSUME LockInv, [Next]_vars PROVE LockInv'
    OBVIOUS
  <1>1. ASSUME NEW t \in Tx, NEW r \in Run,
               NEW kind \in {"start", "fail", "complete"}, Begin(t, kind, r)
        PROVE  LockInv'
    BY <1>1, BeginKeeps
  <1>2. ASSUME NEW t \in Tx, NEW S \in SUBSET Run, Select(t, S) PROVE LockInv'
    BY <1>2, SelectKeeps
  <1>3. ASSUME NEW t \in Tx, Proceed(t) PROVE LockInv'
    <2>1. CASE LockUser(t) \/ LockRun(t) \/ LockOwner(t)
      BY <2>1, LockUserKeeps, LockRunKeeps, LockOwnerKeeps
    <2>2. CASE CommitStart(t)
      BY <2>2, CommitStartEffect, CommitKeeps DEF CommitStart
    <2>3. CASE CommitFail(t)
      BY <2>3, CommitFailEffect, CommitKeeps DEF CommitFail
    <2>4. CASE CommitComplete(t)
      BY <2>4, CommitCompleteEffect, CommitKeeps DEF CommitComplete
    <2>5. CASE CommitSweep(t)
      BY <2>5, CommitSweepEffect, CommitKeeps DEF CommitSweep
    <2>6. QED
      BY <1>3, <2>1, <2>2, <2>3, <2>4, <2>5 DEF Proceed
  <1>4. ASSUME NEW t \in Tx, Rollback(t) \/ BreakDeadlock(t) PROVE LockInv'
    BY <1>4, CommitKeeps DEF Rollback, BreakDeadlock, rows, Effects
  <1>5. ASSUME NEW r \in Run, Grow(r) PROVE LockInv'
    BY <1>5, GrowKeeps
  <1>6. CASE UNCHANGED vars
    BY <1>6 DEF vars, LockInv, TypeOK, SessionOK, StageOK, UserHeld, RunHeld,
                SweepHeld, HoldersOK, OwnerOf, RowExists
  <1>7. QED
    BY <1>1, <1>2, <1>3, <1>4, <1>5, <1>6 DEF Next

LEMMA LockInvHolds == Spec => []LockInv
  BY InitLockInv, NextLockInv, PTL DEF Spec

-----------------------------------------------------------------------------
\* Balances stay natural numbers, and every lock has one owner, for any
\* number of sessions running the four database functions at once.
THEOREM LocksTypes == Spec => []TypeOK
  BY LockInvHolds, PTL DEF LockInv

\* No update is lost: the balance start and fail read (v_balance) is still
\* the stored one when they write it back.
THEOREM LocksReads == Spec => []ReadsAreCurrent
  <1>1. LockInv => ReadsAreCurrent
    BY DEF LockInv, SessionOK, UserHeld, ReadsAreCurrent, Handlers
  <1>2. QED
    BY <1>1, LockInvHolds, PTL

\* The runs a sweep has selected with SKIP LOCKED are pending until it
\* commits, so it refunds none twice.
THEOREM LocksSweeps == Spec => []SweepsArePending
  <1>1. LockInv => SweepsArePending
    BY DEF LockInv, SessionOK, SweepHeld, SweepsArePending
  <1>2. QED
    BY <1>1, LockInvHolds, PTL

\* In a ring without a sweep nobody is at its commit, so nobody waits for a
\* run row, so nobody waits for a user row.
LEMMA NoRingOfHandlers ==
    ASSUME LockInv, NEW S \in SUBSET Tx, Ring(S),
           \A t \in S : tx[t].kind # "sweep"
    PROVE  FALSE
  <1>1. \A t \in S : WaitsFor(t) \in S /\ t # NoTx /\ t \in Tx /\ SessionOK(t)
    BY LocksAssumption DEF Ring, LockInv
  <1>2. \A t \in S : tx[t].at # "commit"
    <2> SUFFICES ASSUME NEW t \in S, tx[t].at = "commit" PROVE FALSE
      OBVIOUS
    <2>1. WaitsFor(t) = NoTx
      BY DEF WaitsFor, QueuesForUser
    <2>2. QED
      BY <1>1, <2>1
  <1>3. \A t \in S : tx[t].at # "lock_run"
    <2> SUFFICES ASSUME NEW t \in S, tx[t].at = "lock_run" PROVE FALSE
      OBVIOUS
    <2>1. tx[t].run \in Run
      BY <1>1, Session
    <2>2. WaitsFor(t) \in {NoTx, runLock[tx[t].run]}
      BY DEF WaitsFor, QueuesForUser
    <2>3. PICK s \in S : runLock[tx[t].run] = s
      BY <1>1, <2>2
    <2>4. tx[s].at = "commit"
      BY <1>1, <2>1, <2>3 DEF SessionOK, HoldersOK
    <2>5. QED
      BY <1>2, <2>4
  <1>4. ASSUME NEW t \in S PROVE FALSE
    <2>1. OwnerOf(t) \in User /\ tx[t].at # "select"
      BY <1>1, Session DEF SessionOK, StageOK
    <2>2. WaitsFor(t) \in {NoTx, userLock[OwnerOf(t)]}
      BY <1>3 DEF WaitsFor, QueuesForUser
    <2>3. PICK s \in S : userLock[OwnerOf(t)] = s
      BY <1>1, <2>2
    <2>4. tx[s].at \in {"lock_run", "commit"}
      BY <1>1, <2>1, <2>3 DEF SessionOK, HoldersOK
    <2>5. QED
      BY <1>2, <1>3, <2>4
  <1>5. QED
    BY <1>4 DEF Ring

\* Purchases, refunds and completions by handlers never deadlock among
\* themselves: every ring of waiting sessions has a sweep in it.
THEOREM LocksRings == Spec => []RingsNeedSweep
  <1>1. LockInv => RingsNeedSweep
    BY NoRingOfHandlers DEF RingsNeedSweep
  <1>2. QED
    BY <1>1, LockInvHolds, PTL

-----------------------------------------------------------------------------
\* Every commit is one step of the abstract purchase, every other step none.
LEMMA LockStepImplements ==
    ASSUME LockInv, [Next]_vars
    PROVE  [Ledger!Next]_(Ledger!vars)
  <1>1. CASE UNCHANGED <<balance, status>>
    BY <1>1 DEF Ledger!vars
  <1>2. ASSUME NEW t \in Tx, Charges(t) PROVE Ledger!Next
    <2>1. Ledger!Charge(tx[t].run)
      BY <1>2 DEF Charges, OwnerOf, Ledger!Charge
    <2>2. QED
      BY <2>1, Session DEF Ledger!Next
  <1>3. ASSUME NEW t \in Tx, Delivers(t) PROVE Ledger!Next
    <2>1. Ledger!Deliver(tx[t].run)
      BY <1>3 DEF Delivers, Ledger!Deliver
    <2>2. QED
      BY <2>1, Session DEF Ledger!Next
  <1>4. ASSUME NEW t \in Tx, NEW S \in SUBSET Run, GivesBack(t, S)
        PROVE  Ledger!Next
    <2>1. \A u \in User : Price(RunsOf(u, S)) = Ledger!Price(Ledger!RunsOf(u, S))
      BY Zenon DEF RunsOf, Ledger!RunsOf, Price, Ledger!Price, Cardinality,
                   Ledger!Cardinality
    <2>2. balance' = [u \in User |->
                        balance[u] + Ledger!Price(Ledger!RunsOf(u, S))]
      BY <1>4, <2>1 DEF GivesBack
    <2>3. Ledger!Refund(S)
      BY <1>4, <2>2 DEF GivesBack, Ledger!Refund
    <2>4. QED
      BY <2>3 DEF Ledger!Next
  <1>5. QED
    BY <1>1, <1>2, <1>3, <1>4, StepEffects DEF Effects

\* With its row locks each database function is one atomic step of the
\* abstract purchase, as PremiumAi takes it to be.
THEOREM LocksImplementLedger == Spec => ImplementsLedger
  <1>1. Init => Ledger!Init
    BY DEF Init, Ledger!Init
  <1>2. LockInv /\ [Next]_vars => [Ledger!Next]_(Ledger!vars)
    BY LockStepImplements
  <1>3. QED
    BY <1>1, <1>2, LockInvHolds, PTL DEF Spec, ImplementsLedger, Ledger!Spec

-----------------------------------------------------------------------------
\* The runs a user has paid for and not been given the price back of.
PaidRuns(u) == {r \in RunsOf(u, Run) : status[r] \in {"pending", "completed"}}

StoredBalances == \A u \in User : balance[u] = StartBalance - Price(PaidRuns(u))

LEMMA StepBalances ==
    ASSUME LockInv, StoredBalances, [Next]_vars
    PROVE  StoredBalances'
  <1> SUFFICES ASSUME NEW u \in User
               PROVE  balance'[u] = StartBalance - Price(PaidRuns(u)')
    BY DEF StoredBalances
  <1>1. /\ balance[u] = StartBalance - Price(PaidRuns(u))
        /\ PaidRuns(u) \in SUBSET Run /\ Price(PaidRuns(u)) \in Nat
        /\ balance \in [User -> Nat] /\ status \in [Run -> Status]
    BY PriceType DEF StoredBalances, PaidRuns, RunsOf, LockInv, TypeOK
  <1>2. CASE UNCHANGED <<balance, status>>
    BY <1>1, <1>2 DEF PaidRuns
  <1>3. ASSUME NEW t \in Tx, Charges(t)
        PROVE  balance'[u] = StartBalance - Price(PaidRuns(u)')
    <2> DEFINE r == tx[t].run
    <2>1. r \in Run /\ OwnerOf(t) = Owner[r]
      BY Session DEF OwnerOf
    <2>2. CASE Owner[r] = u
      <3>1. PaidRuns(u)' = PaidRuns(u) \cup {r} /\ r \notin PaidRuns(u)
        BY <1>1, <1>3, <2>1, <2>2 DEF Charges, PaidRuns, RunsOf, Status
      <3>2. Price(PaidRuns(u)') = Price(PaidRuns(u)) + Cost
        BY <1>1, <2>1, <3>1, PriceAdds
      <3>3. balance'[u] = balance[u] - Cost
        BY <1>1, <1>3, <2>1, <2>2 DEF Charges
      <3>4. QED
        BY <1>1, <3>2, <3>3, RunsAssumption
    <2>3. CASE Owner[r] # u
      <3>1. PaidRuns(u)' = PaidRuns(u) /\ balance'[u] = balance[u]
        BY <1>1, <1>3, <2>1, <2>3 DEF Charges, PaidRuns, RunsOf
      <3>2. QED
        BY <1>1, <3>1
    <2>4. QED
      BY <2>2, <2>3
  <1>4. ASSUME NEW t \in Tx, Delivers(t)
        PROVE  balance'[u] = StartBalance - Price(PaidRuns(u)')
    <2>1. PaidRuns(u)' = PaidRuns(u) /\ balance' = balance
      BY <1>1, <1>4, Session DEF Delivers, PaidRuns, RunsOf
    <2>2. QED
      BY <1>1, <2>1
  <1>5. ASSUME NEW t \in Tx, NEW S \in SUBSET Run, GivesBack(t, S)
        PROVE  balance'[u] = StartBalance - Price(PaidRuns(u)')
    <2>1. /\ PaidRuns(u)' = PaidRuns(u) \ RunsOf(u, S)
          /\ RunsOf(u, S) \in SUBSET PaidRuns(u)
      BY <1>1, <1>5 DEF GivesBack, PaidRuns, RunsOf
    <2>2. Price(PaidRuns(u)') = Price(PaidRuns(u)) - Price(RunsOf(u, S))
      BY <1>1, <2>1, PriceSubtracts
    <2>3. balance'[u] = balance[u] + Price(RunsOf(u, S))
      BY <1>5 DEF GivesBack
    <2>4. Price(RunsOf(u, S)) \in Nat
      BY RunsOfType, PriceType
    <2>5. QED
      BY <1>1, <2>2, <2>3, <2>4, RunsAssumption
  <1>6. QED
    BY <1>2, <1>3, <1>4, <1>5, StepEffects DEF Effects

\* Under any interleaving of queries, waits, deadlocks and rollbacks a stored
\* balance is the opening balance less the price of the user's runs that are
\* pending or completed: no update of a balance is ever lost.
THEOREM LocksWallet == Spec => []StoredBalances
  <1>1. Init => StoredBalances
    <2>1. Init => \A u : PaidRuns(u) = {}
      BY DEF Init, PaidRuns, RunsOf
    <2>2. QED
      BY <2>1, PriceOfNone, RunsAssumption DEF Init, StoredBalances
  <1>2. QED
    BY <1>1, StepBalances, LockInvHolds, PTL DEF Spec

\* A row of premium_ai_runs is inserted as pending and settled once.
RunsSettleOnce ==
    \A r \in Run : status'[r] # status[r] =>
        \/ status[r] = "none" /\ status'[r] = "pending"
        \/ status[r] = "pending" /\ status'[r] \in {"completed", "failed"}

\* Whatever a handler, a retry and several sweeps do about one run at the same
\* time, the first to settle it is the last to change it.
THEOREM LocksSettleOnce == Spec => [][RunsSettleOnce]_vars
  <1>1. LockInv /\ [Next]_vars => [RunsSettleOnce]_vars
    <2> SUFFICES ASSUME LockInv, Next, NEW r \in Run, status'[r] # status[r]
                 PROVE  \/ status[r] = "none" /\ status'[r] = "pending"
                        \/ /\ status[r] = "pending"
                           /\ status'[r] \in {"completed", "failed"}
      BY DEF RunsSettleOnce
    <2>1. PICK t \in Tx : Effects(t)
      BY StepEffects
    <2>2. status \in [Run -> Status] /\ tx[t].run \in Run
      BY Session DEF TypeOK
    <2>3. QED
      BY <2>1, <2>2 DEF Effects, Charges, Delivers, GivesBack
  <1>2. QED
    BY <1>1, LockInvHolds, PTL DEF Spec

=============================================================================
