------------------------------- MODULE Escrow -------------------------------
(***************************************************************************)
(* Coin escrow between two users (EscrowService and the stale sweep of     *)
(* EscrowQueueWorker).                                                     *)
(*                                                                         *)
(* No operation runs in a database transaction: it reads the row, reads a  *)
(* balance, writes that balance back plus or minus the amount, and writes  *)
(* the row's new status without looking at the old one.  Each of these is  *)
(* a round trip of its own, so operations of several requests, of several  *)
(* replicas and of the sweep interleave between any two.  A write may also *)
(* fail, with or without having been applied, and a replica may stop.      *)
(*                                                                         *)
(* The history variable disturbed collects the escrows and users for whom  *)
(* one of these hazards did happen.  The properties say that the books are *)
(* right for all others: they are the exact conditions under which this    *)
(* unprotected code keeps its promise.                                     *)
(***************************************************************************)
EXTENDS Integers, FiniteSets

CONSTANTS
    User,           \* rows of public.users
    EscrowId,       \* rows escrow_transactions can come to hold
    Payer, Payee,   \* the parties of each row
    Amount,         \* its amount_coins
    StartBalance,   \* coins_balance of every user at first
    Request,        \* request slots: API calls that can be in flight at once
    Worker,         \* replicas, each with its stale sweep
    StaleLimit,     \* .limit(100) of the sweep's query
    FaultBound      \* bound: failed calls and crashes in a behaviour

ASSUME EscrowAssumption ==
    /\ EscrowId # {} /\ IsFiniteSet(EscrowId)
    /\ Payer \in [EscrowId -> User]
    /\ Payee \in [EscrowId -> User]
    /\ \A e \in EscrowId : Payer[e] # Payee[e]
    /\ Amount \in [EscrowId -> Nat \ {0}]
    /\ StartBalance \in Nat
    /\ Request \cap Worker = {}
    /\ User \cap EscrowId = {}
    /\ StaleLimit \in Nat \ {0}
    /\ FaultBound \in Nat

VARIABLES
    balance,    \* users.coins_balance
    status,     \* escrow_transactions.status, "none" while there is no row
    old,        \* created_at is more than 30 days ago
    op,         \* the operation a process executes
    at,         \* the round trip it makes next
    escrow,     \* the escrow it works on
    todo,       \* a sweep's rows after the current one
    seen,       \* the balance it read
    moved,      \* it has written a balance
    released,   \* how often an escrow was credited to its payee
    returned,   \* how often it was credited back to its payer
    disturbed,  \* escrows and users hit by an overlap or a partial failure
    faults      \* failed calls and crashes so far

table == <<balance, status, old>>
process == <<op, at, escrow, todo, seen, moved>>
history == <<released, returned, disturbed, faults>>
vars == <<table, process, history>>

Process == Request \cup Worker

-----------------------------------------------------------------------------
\* The CHECK of the table: "disputed" is not among them.
Storable == {"pending", "held", "released", "refunded", "cancelled", "failed"}

Operation ==
    {"none", "hold", "release", "refund", "cancel", "dispute", "sweep"}

Step == {"idle", "row", "balance", "write", "mark", "undo"}

Idle(p) == at[p] = "idle"

\* The status an operation writes in the end.
Outcome(k) ==
    CASE k = "hold" -> "held"
      [] k = "release" -> "released"
      [] k \in {"refund", "sweep"} -> "refunded"
      [] k = "cancel" -> "cancelled"
      [] k = "dispute" -> "disputed"

\* Whose balance an operation changes, and to what.
Target(k, e) == IF k = "release" THEN Payee[e] ELSE Payer[e]

TargetOf(p) == Target(op[p], escrow[p])

NewBalance(p) ==
    IF op[p] = "hold" THEN seen[p] - Amount[escrow[p]]
                      ELSE seen[p] + Amount[escrow[p]]

Parties(S) == UNION {{Payer[e], Payee[e]} : e \in S}

\* The escrows whose status a process has read and not yet written.
Window(p) ==
    todo[p] \cup
    (IF at[p] \in {"balance", "write", "mark", "undo"} THEN {escrow[p]} ELSE {})

\* It has read the balance of u and may still write it.
Writing(p, u) ==
    /\ TargetOf(p) = u
    /\ at[p] = "write" \/ (op[p] = "hold" /\ at[p] \in {"mark", "undo"})

\* p takes up the escrows of S: they overlap with another's window.
Overlaps(p, S) == S \cap UNION {Window(q) : q \in Process \ {p}}

Harm(S) == disturbed' = disturbed \cup S \cup Parties(S)

-----------------------------------------------------------------------------
\* What an idle process works on; never read.
NoEscrow == CHOOSE e \in EscrowId : TRUE

Init ==
    /\ balance = [u \in User |-> StartBalance]
    /\ status = [e \in EscrowId |-> "none"]
    /\ old = [e \in EscrowId |-> FALSE]
    /\ op = [p \in Process |-> "none"]
    /\ at = [p \in Process |-> "idle"]
    /\ escrow = [p \in Process |-> NoEscrow]
    /\ todo = [p \in Process |-> {}]
    /\ seen = [p \in Process |-> 0]
    /\ moved = [p \in Process |-> FALSE]
    /\ released = [e \in EscrowId |-> 0]
    /\ returned = [e \in EscrowId |-> 0]
    /\ disturbed = {}
    /\ faults = 0

Goto(p, step) ==
    /\ at' = [at EXCEPT ![p] = step]
    /\ UNCHANGED <<op, escrow, todo, seen, moved>>

\* A request answers; a process stops.
Leave(p) ==
    /\ op' = [op EXCEPT ![p] = "none"]
    /\ at' = [at EXCEPT ![p] = "idle"]
    /\ escrow' = [escrow EXCEPT ![p] = NoEscrow]
    /\ todo' = [todo EXCEPT ![p] = {}]
    /\ seen' = [seen EXCEPT ![p] = 0]
    /\ moved' = [moved EXCEPT ![p] = FALSE]

\* A sweep takes up a row, and leaves the others of S for later.
TakeUp(p, S) ==
    \E e \in S :
        /\ op' = [op EXCEPT ![p] = "sweep"]
        /\ at' = [at EXCEPT ![p] = "balance"]
        /\ escrow' = [escrow EXCEPT ![p] = e]
        /\ todo' = [todo EXCEPT ![p] = S \ {e}]
        /\ seen' = [seen EXCEPT ![p] = 0]
        /\ moved' = [moved EXCEPT ![p] = FALSE]

\* The work on an escrow is over, well or badly.
Finish(p) == IF todo[p] = {} THEN Leave(p) ELSE TakeUp(p, todo[p])

\* A call that fails uses up a fault.
Fault ==
    /\ faults < FaultBound
    /\ faults' = faults + 1

-----------------------------------------------------------------------------
Begin(p, k, e, step) ==
    /\ Idle(p)
    /\ op' = [op EXCEPT ![p] = k]
    /\ at' = [at EXCEPT ![p] = step]
    /\ escrow' = [escrow EXCEPT ![p] = e]
    /\ UNCHANGED <<table, todo, seen, moved, history>>

\* POST /escrow/hold, or the degraded queue's retry of one: e is the row it
\* will insert.
BeginHold(p, e) ==
    /\ p \in Request
    /\ status[e] = "none"
    /\ \A q \in Process : ~(op[q] = "hold" /\ ~Idle(q) /\ escrow[q] = e)
    /\ Begin(p, "hold", e, "balance")

\* A request about an escrow that exists; the breaker lets it pass.
BeginOnRow(p, k, e) ==
    /\ p \in Request
    /\ k \in {"release", "refund", "cancel", "dispute"}
    /\ status[e] # "none"
    /\ Begin(p, k, e, "row")

\* Defect variant: a cancelled escrow can still be released or refunded.
AllowsCancelled(k, s) == s \in {"held", "cancelled"}

\* The checks that an operation makes on the row it read.
Allows(k, s) ==
    \/ k \in {"release", "refund", "dispute"} /\ s = "held"
    \/ k = "refund" /\ s = "pending"
    \/ k = "cancel" /\ s # "released"

\* A cancelled escrow is paid back only if it was held; a dispute moves no
\* coins.
MovesNothing(p) ==
    \/ op[p] = "dispute"
    \/ op[p] = "cancel" /\ status[escrow[p]] # "held"

\* Reads the row and goes on.
ReadRow(p) ==
    /\ at[p] = "row"
    /\ Allows(op[p], status[escrow[p]])
    /\ Goto(p, IF MovesNothing(p) THEN "mark" ELSE "balance")
    /\ Harm(Overlaps(p, {escrow[p]}))
    /\ UNCHANGED <<table, released, returned, faults>>

\* 400, 404, 409 or a failed read: nothing was changed.
Refuse(p) ==
    /\ at[p] = "row"
    /\ Finish(p)
    /\ UNCHANGED <<table, history>>

\* Defect variant: a hold is not compared with the balance.
ReadBalanceUnchecked(p) ==
    /\ at[p] = "balance"
    /\ seen' = [seen EXCEPT ![p] = balance[TargetOf(p)]]
    /\ at' = [at EXCEPT ![p] = "write"]
    /\ UNCHANGED <<table, op, escrow, todo, moved, history>>

\* Reads the balance it is going to write.
ReadBalance(p) ==
    /\ at[p] = "balance"
    /\ op[p] = "hold" => balance[TargetOf(p)] >= Amount[escrow[p]]
    /\ seen' = [seen EXCEPT ![p] = balance[TargetOf(p)]]
    /\ at' = [at EXCEPT ![p] = "write"]
    /\ disturbed' = disturbed \cup
          {u \in {TargetOf(p)} : \E q \in Process \ {p} : Writing(q, u)}
    /\ UNCHANGED <<table, op, escrow, todo, moved, released, returned, faults>>

\* The payer of a hold cannot afford it.
Insufficient(p) ==
    /\ at[p] = "balance"
    /\ op[p] = "hold"
    /\ balance[TargetOf(p)] < Amount[escrow[p]]
    /\ Finish(p)
    /\ UNCHANGED <<table, history>>

\* Cancel and sweep do not give up when the refund fails.
GoesOn(p) == op[p] \in {"cancel", "sweep"}

\* The balance cannot be read: cancel and sweep go on without a refund.
ReadBalanceFails(p) ==
    /\ at[p] = "balance"
    /\ Fault
    /\ IF GoesOn(p)
       THEN Goto(p, "mark") /\ Harm({escrow[p]})
       ELSE Finish(p) /\ UNCHANGED disturbed
    /\ UNCHANGED <<table, released, returned>>

-----------------------------------------------------------------------------
\* The coins arrive; the histories count it.
Apply(p) ==
    /\ balance' = [balance EXCEPT ![TargetOf(p)] = NewBalance(p)]
    /\ released' = [released EXCEPT ![escrow[p]] =
                       IF op[p] = "release" THEN @ + 1 ELSE @]
    /\ returned' = [returned EXCEPT ![escrow[p]] =
                       IF op[p] \in {"refund", "cancel", "sweep"}
                       THEN @ + 1 ELSE @]
    /\ UNCHANGED <<status, old>>

GoOnPaid(p) ==
    /\ at' = [at EXCEPT ![p] = "mark"]
    /\ moved' = [moved EXCEPT ![p] = TRUE]
    /\ UNCHANGED <<op, escrow, todo, seen>>

\* Writes the balance: seen, plus or minus the amount.
WriteBalance(p) ==
    /\ at[p] = "write"
    /\ Apply(p)
    /\ GoOnPaid(p)
    /\ UNCHANGED <<disturbed, faults>>

\* The balance is written but the answer is an error: hold, release and
\* refund give up, with the coins moved.
WriteUnheard(p) ==
    /\ at[p] = "write"
    /\ Fault
    /\ Apply(p)
    /\ IF GoesOn(p)
       THEN GoOnPaid(p) /\ UNCHANGED disturbed
       ELSE Finish(p) /\ Harm({escrow[p]})

\* The balance is not written: cancel and sweep go on without it.
WriteRejected(p) ==
    /\ at[p] = "write"
    /\ Fault
    /\ IF GoesOn(p)
       THEN Goto(p, "mark") /\ Harm({escrow[p]})
       ELSE Finish(p) /\ UNCHANGED disturbed
    /\ UNCHANGED <<table, released, returned>>

-----------------------------------------------------------------------------
SetStatus(p) == status' = [status EXCEPT ![escrow[p]] = Outcome(op[p])]

\* Inserts the row of a hold, or writes the row's last status.
Mark(p) ==
    /\ at[p] = "mark"
    /\ Outcome(op[p]) \in Storable
    /\ SetStatus(p)
    /\ Finish(p)
    /\ UNCHANGED <<balance, old, history>>

\* The status is written but the answer is an error: a hold then takes its
\* deduction back although the row stands.
MarkUnheard(p) ==
    /\ at[p] = "mark"
    /\ Outcome(op[p]) \in Storable
    /\ Fault
    /\ SetStatus(p)
    /\ IF op[p] = "hold"
       THEN Goto(p, "undo") /\ Harm({escrow[p]})
       ELSE Finish(p) /\ UNCHANGED disturbed
    /\ UNCHANGED <<balance, old, released, returned>>

\* Nothing is written: a hold takes its deduction back, the others leave the
\* coins they have moved where they are.
MarkRejected(p) ==
    /\ IF op[p] = "hold" THEN Goto(p, "undo") ELSE Finish(p)
    /\ IF moved[p] /\ op[p] # "hold"
       THEN Harm({escrow[p]})
       ELSE UNCHANGED disturbed
    /\ UNCHANGED <<table, released, returned>>

MarkFails(p) ==
    /\ at[p] = "mark"
    /\ \/ Outcome(op[p]) \notin Storable /\ UNCHANGED faults
       \/ Fault
    /\ MarkRejected(p)

\* Defect variant: a hold whose row could not be inserted keeps the coins.
UndoForgotten(p) ==
    /\ at[p] = "undo"
    /\ Finish(p)
    /\ UNCHANGED <<table, history>>

\* The rollback of a hold writes the balance it had read.
Undo(p) ==
    /\ at[p] = "undo"
    /\ balance' = [balance EXCEPT ![TargetOf(p)] = seen[p]]
    /\ Finish(p)
    /\ UNCHANGED <<status, old, history>>

\* supabase-js returns an error and throws none: the catch that reports a
\* failed rollback is not reached, the coins are gone.
UndoFails(p) ==
    /\ at[p] = "undo"
    /\ Fault
    /\ Finish(p)
    /\ Harm({escrow[p]})
    /\ UNCHANGED <<table, released, returned>>

-----------------------------------------------------------------------------
\* Defect variant: looks for rows that were never held.
StaleRowsPending == {e \in EscrowId : status[e] = "pending" /\ old[e]}

StaleRows == {e \in EscrowId : status[e] = "held" /\ old[e]}

\* processStaleEscrows takes the rows held for more than 30 days, and then
\* one after the other refunds them without reading them again.
Sweep(p, S) ==
    /\ p \in Worker
    /\ Idle(p)
    /\ S # {} /\ S \subseteq StaleRows
    /\ S = StaleRows \/ Cardinality(S) = StaleLimit
    /\ Cardinality(S) <= StaleLimit
    /\ TakeUp(p, S)
    /\ Harm(Overlaps(p, S))
    /\ UNCHANGED <<table, released, returned, faults>>

\* The replica stops; coins already moved stay moved.
Crash(p) ==
    /\ ~Idle(p)
    /\ Fault
    /\ Leave(p)
    /\ IF moved[p] THEN Harm({escrow[p]}) ELSE UNCHANGED disturbed
    /\ UNCHANGED <<table, released, returned>>

\* Thirty days pass over a held escrow.
Grow(e) ==
    /\ status[e] = "held"
    /\ ~old[e]
    /\ old' = [old EXCEPT ![e] = TRUE]
    /\ UNCHANGED <<balance, status, process, history>>

RoundTrip(p) ==
    \/ ReadRow(p) \/ Refuse(p)
    \/ ReadBalance(p) \/ Insufficient(p) \/ ReadBalanceFails(p)
    \/ WriteBalance(p) \/ WriteUnheard(p) \/ WriteRejected(p)
    \/ Mark(p) \/ MarkUnheard(p) \/ MarkFails(p)
    \/ Undo(p) \/ UndoFails(p)

Next ==
    \/ \E p \in Process, e \in EscrowId :
          BeginHold(p, e) \/ \E k \in Operation : BeginOnRow(p, k, e)
    \/ \E p \in Process : RoundTrip(p) \/ Crash(p)
    \/ \E p \in Process, S \in SUBSET EscrowId : Sweep(p, S)
    \/ \E e \in EscrowId : Grow(e)

Spec == Init /\ [][Next]_vars

\* Calls return, time passes, and every replica's timer starts a sweep every
\* five minutes.  Nothing is assumed of users.
Fairness ==
    /\ \A p \in Process : WF_vars(RoundTrip(p))
    /\ \A p \in Worker : WF_vars(\E S \in SUBSET EscrowId : Sweep(p, S))
    /\ \A e \in EscrowId : WF_vars(Grow(e))

FairSpec == Spec /\ Fairness

-----------------------------------------------------------------------------
(***************************************************************************)
(* Properties                                                              *)
(***************************************************************************)

\* Types; no interleaving overdraws a balance, since every balance written is
\* one that was read, less an amount it was checked against.
TypeOK ==
    /\ balance \in [User -> Nat]
    /\ status \in [EscrowId -> Storable \cup {"none"}]
    /\ old \in [EscrowId -> BOOLEAN]
    /\ op \in [Process -> Operation]
    /\ at \in [Process -> Step]
    /\ escrow \in [Process -> EscrowId]
    /\ todo \in [Process -> SUBSET EscrowId]
    /\ seen \in [Process -> Nat]
    /\ moved \in [Process -> BOOLEAN]
    /\ released \in [EscrowId -> Nat]
    /\ returned \in [EscrowId -> Nat]
    /\ disturbed \subseteq User \cup EscrowId
    /\ faults \in 0..FaultBound

Count(b) == IF b THEN 1 ELSE 0

\* No process is between reading and writing the status of e.
AtRest(e) == \A p \in Process : e \notin Window(p)

\* An escrow on which no two operations overlapped and no call failed halfway
\* was paid out exactly as its status says: to the payee once if released, to
\* the payer once if refunded or cancelled, to nobody while it is held.
PaidAsMarked ==
    \A e \in EscrowId \ disturbed :
        AtRest(e) =>
            /\ released[e] = Count(status[e] = "released")
            /\ returned[e] = Count(status[e] \in {"refunded", "cancelled"})

\* The coins of the escrows of S, counted one by one.
SumOf(S) == Cardinality(UNION {{e} \X (1..Amount[e]) : e \in S})

\* The books of a user whose reads and writes never overlapped: the opening
\* balance, less what is held or released, plus what was received.
BooksBalance ==
    \A u \in User \ disturbed :
        (\A e \in EscrowId : u \in Parties({e}) => AtRest(e)) =>
            balance[u] = StartBalance
                - SumOf({e \in EscrowId : Payer[e] = u
                            /\ status[e] \in {"held", "released"}})
                + SumOf({e \in EscrowId : Payee[e] = u
                            /\ status[e] = "released"})

\* No coins stay locked: a held escrow is released, refunded or cancelled.
HeldEnds ==
    \A e \in EscrowId : status[e] = "held" ~> status[e] # "held"

\* "The escrow must be in held status" (escrow.controller.ts): an escrow is
\* paid out at most once.
PaidOnce == \A e \in EscrowId : released[e] + returned[e] <= 1

=============================================================================
