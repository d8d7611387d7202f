---------------------------- MODULE EscrowProofs ----------------------------
(***************************************************************************)
(* Theorems about Escrow, the circuit breaker in front of it and the queue *)
(* behind that, for every value of their constants.                        *)
(*                                                                         *)
(* Base strengthens the type invariant by what each process knows of its   *)
(* work.  EscrowInv adds, for each undisturbed escrow, that at most one    *)
(* process is between reading and writing its status, and that the         *)
(* counters of payments agree with how far that process has come.          *)
(* BooksInv adds, for each undisturbed user, that at most one process is   *)
(* going to write the balance, that what it read is still there, and that  *)
(* the balance is what those payments make it.                             *)
(***************************************************************************)
EXTENDS Escrow, EscrowQueue, FiniteSetTheorems, TLAPS

\* What the table can hold in the end.
Marked == {"none", "held", "released", "refunded", "cancelled"}

\* A process knows what it works on, has checked what it will deduct, and
\* works on rows that exist unless it is inserting one.
ProcessOK(p) ==
    /\ op[p] = "hold" /\ at[p] = "write" => seen[p] >= Amount[escrow[p]]
    /\ op[p] = "none" => Idle(p)
    /\ Idle(p) => todo[p] = {}
    /\ escrow[p] \notin todo[p]
    /\ op[p] # "hold" /\ ~Idle(p) => status[escrow[p]] # "none"
    /\ \A e \in todo[p] : status[e] # "none"

Base ==
    /\ TypeOK
    /\ status \in [EscrowId -> Marked]
    /\ \A p \in Process : ProcessOK(p)

ProcessTypeOK ==
    /\ op \in [Process -> Operation]
    /\ at \in [Process -> Step]
    /\ escrow \in [Process -> EscrowId]
    /\ todo \in [Process -> SUBSET EscrowId]
    /\ seen \in [Process -> Nat]
    /\ moved \in [Process -> BOOLEAN]

LEMMA InitBase == Init => Base
  <1> SUFFICES ASSUME Init PROVE Base
    OBVIOUS
  <1>1. NoEscrow \in EscrowId
    BY EscrowAssumption DEF NoEscrow
  <1>2. TypeOK
    BY <1>1, EscrowAssumption DEF Init, TypeOK, Operation, Step
  <1>3. status \in [EscrowId -> Marked] /\ \A p \in Process : ProcessOK(p)
    BY <1>1 DEF Init, Marked, ProcessOK, Idle
  <1>4. QED
    BY <1>2, <1>3 DEF Base

\* Rows are never deleted.
RowsStay == \A e \in EscrowId : status[e] # "none" => status'[e] # "none"

LEMMA TakeUpKeeps ==
    ASSUME Base, RowsStay, NEW p \in Process, NEW S \in SUBSET EscrowId,
           TakeUp(p, S), \A e \in S : status[e] # "none"
    PROVE  ProcessTypeOK' /\ \A q \in Process : ProcessOK(q)'
  <1>1. PICK e \in S :
            /\ op' = [op EXCEPT ![p] = "sweep"]
            /\ at' = [at EXCEPT ![p] = "balance"]
            /\ escrow' = [escrow EXCEPT ![p] = e]
            /\ todo' = [todo EXCEPT ![p] = S \ {e}]
            /\ seen' = [seen EXCEPT ![p] = 0]
            /\ moved' = [moved EXCEPT ![p] = FALSE]
    BY DEF TakeUp
  <1>2. ProcessTypeOK'
    BY <1>1 DEF Base, TypeOK, ProcessTypeOK, Operation, Step
  <1>3. ASSUME NEW q \in Process PROVE ProcessOK(q)'
    <2>1. CASE q = p
      BY <2>1, <1>1 DEF Base, TypeOK, ProcessOK, Idle, RowsStay
    <2>2. CASE q # p
      BY <2>2, <1>1 DEF Base, TypeOK, ProcessOK, Idle, RowsStay
    <2>3. QED
      BY <2>1, <2>2
  <1>4. QED
    BY <1>2, <1>3

LEMMA LeaveKeeps ==
    ASSUME Base, RowsStay, NEW p \in Process, Leave(p)
    PROVE  ProcessTypeOK' /\ \A q \in Process : ProcessOK(q)'
  <1>1. NoEscrow \in EscrowId
    BY EscrowAssumption DEF NoEscrow
  <1>2. ProcessTypeOK'
    BY <1>1 DEF Base, TypeOK, ProcessTypeOK, Operation, Step, Leave
  <1>3. ASSUME NEW q \in Process PROVE ProcessOK(q)'
    <2>1. CASE q = p
      BY <2>1, <1>1 DEF Base, TypeOK, ProcessOK, Idle, Leave
    <2>2. CASE q # p
      BY <2>2, <1>1 DEF Base, TypeOK, ProcessOK, Idle, RowsStay, Leave
    <2>3. QED
      BY <2>1, <2>2
  <1>4. QED
    BY <1>2, <1>3

LEMMA FinishKeeps ==
    ASSUME Base, RowsStay, NEW p \in Process, Finish(p)
    PROVE  ProcessTypeOK' /\ \A q \in Process : ProcessOK(q)'
  <1>1. todo[p] \in SUBSET EscrowId /\ \A e \in todo[p] : status[e] # "none"
    BY DEF Base, TypeOK, ProcessOK
  <1>2. QED
    BY <1>1, LeaveKeeps, TakeUpKeeps DEF Finish

LEMMA GotoKeeps ==
    ASSUME Base, RowsStay, NEW p \in Process, NEW step \in Step \ {"idle", "write"},
           Goto(p, step), ~Idle(p)
    PROVE  ProcessTypeOK' /\ \A q \in Process : ProcessOK(q)'
  <1>1. ProcessTypeOK'
    BY DEF Base, TypeOK, ProcessTypeOK, Step, Goto
  <1>2. ASSUME NEW q \in Process PROVE ProcessOK(q)'
    BY DEF Base, TypeOK, ProcessOK, Idle, RowsStay, Goto, Step
  <1>3. QED
    BY <1>1, <1>2

-----------------------------------------------------------------------------
LEMMA HarmType ==
    ASSUME TypeOK, NEW S \in SUBSET EscrowId, Harm(S)
    PROVE  disturbed' \subseteq User \cup EscrowId
  <1>1. Parties(S) \subseteq User
    BY EscrowAssumption DEF Parties
  <1>2. QED
    BY <1>1 DEF TypeOK, Harm

LEMMA Targets ==
    ASSUME Base, NEW p \in Process
    PROVE  /\ TargetOf(p) \in User
           /\ escrow[p] \in EscrowId /\ {escrow[p]} \in SUBSET EscrowId
           /\ \A S \in SUBSET EscrowId : Overlaps(p, S) \in SUBSET EscrowId
           /\ at[p] = "write" => NewBalance(p) \in Nat
  <1>1. escrow[p] \in EscrowId /\ seen[p] \in Nat
    BY DEF Base, TypeOK
  <1>2. Amount[escrow[p]] \in Nat
    BY <1>1, EscrowAssumption
  <1>3. ASSUME at[p] = "write" PROVE NewBalance(p) \in Nat
    <2>1. CASE op[p] = "hold"
      BY <2>1, <1>1, <1>2, <1>3 DEF Base, ProcessOK, NewBalance
    <2>2. CASE op[p] # "hold"
      BY <2>2, <1>1, <1>2 DEF NewBalance
    <2>3. QED
      BY <2>1, <2>2
  <1>4. QED
    BY <1>1, <1>3, EscrowAssumption DEF TargetOf, Target, Overlaps

\* The part of the type invariant that is not about processes.
StoreTypeOK ==
    /\ balance \in [User -> Nat]
    /\ status \in [EscrowId -> Marked]
    /\ old \in [EscrowId -> BOOLEAN]
    /\ released \in [EscrowId -> Nat]
    /\ returned \in [EscrowId -> Nat]
    /\ disturbed \subseteq User \cup EscrowId
    /\ faults \in 0..FaultBound

LEMMA BaseParts ==
    ASSUME StoreTypeOK', ProcessTypeOK', \A p \in Process : ProcessOK(p)'
    PROVE  Base'
  BY DEF StoreTypeOK, ProcessTypeOK, Base, TypeOK, Marked, Storable

LEMMA StoreType == ASSUME Base PROVE StoreTypeOK
  BY DEF Base, TypeOK, StoreTypeOK

LEMMA FaultType == ASSUME Base, Fault PROVE faults' \in 0..FaultBound
  BY EscrowAssumption DEF Base, TypeOK, Fault

LEMMA ApplyType ==
    ASSUME Base, NEW p \in Process, at[p] = "write", Apply(p)
    PROVE  /\ balance' \in [User -> Nat]
           /\ status' = status /\ old' = old
           /\ released' \in [EscrowId -> Nat]
           /\ returned' \in [EscrowId -> Nat]
  BY Targets DEF Base, TypeOK, Apply

LEMMA SetStatusType ==
    ASSUME Base, NEW p \in Process, at[p] = "mark",
           Outcome(op[p]) \in Storable, SetStatus(p)
    PROVE  status' \in [EscrowId -> Marked] /\ RowsStay
  <1>1. op[p] \in Operation \ {"none"} /\ escrow[p] \in EscrowId
    BY DEF Base, TypeOK, ProcessOK, Idle
  <1>2. Outcome(op[p]) \in Marked \ {"none"}
    BY <1>1 DEF Outcome, Operation, Storable, Marked
  <1>3. QED
    BY <1>1, <1>2 DEF Base, SetStatus, RowsStay

\* One lemma per action.
LEMMA BeginHoldBase ==
    ASSUME Base, NEW p \in Process, NEW e \in EscrowId, BeginHold(p, e)
    PROVE  Base'
  BY DEF Base, TypeOK, ProcessOK, BeginHold, Begin, Idle, Operation, Step,
         table, history, Marked

LEMMA BeginOnRowBase ==
    ASSUME Base, NEW p \in Process, NEW e \in EscrowId, NEW k \in Operation,
           BeginOnRow(p, k, e)
    PROVE  Base'
  BY DEF Base, TypeOK, ProcessOK, BeginOnRow, Begin, Idle, Operation, Step,
         table, history, Marked

LEMMA ReadRowBase ==
    ASSUME Base, NEW p \in Process, ReadRow(p) PROVE Base'
  <1>1. StoreTypeOK'
    BY StoreType, Targets, HarmType DEF Base, ReadRow, table, StoreTypeOK
  <1>2. RowsStay /\ ~Idle(p)
    BY DEF ReadRow, table, RowsStay, Idle
  <1>3. \E step \in {"mark", "balance"} : Goto(p, step)
    BY DEF ReadRow
  <1>4. QED
    BY <1>1, <1>2, <1>3, GotoKeeps, BaseParts DEF Step

LEMMA RefuseBase ==
    ASSUME Base, NEW p \in Process, Refuse(p) \/ Insufficient(p) PROVE Base'
  <1>1. StoreTypeOK' /\ RowsStay /\ Finish(p)
    BY StoreType
    DEF Refuse, Insufficient, table, history, StoreTypeOK, RowsStay
  <1>2. QED
    BY <1>1, FinishKeeps, BaseParts

LEMMA ReadBalanceBase ==
    ASSUME Base, NEW p \in Process, ReadBalance(p) PROVE Base'
  <1>1. StoreTypeOK'
    BY StoreType, Targets DEF ReadBalance, table, StoreTypeOK
  <1>2. ProcessTypeOK'
    BY Targets DEF ReadBalance, Base, TypeOK, ProcessTypeOK, Step
  <1>3. ASSUME NEW q \in Process PROVE ProcessOK(q)'
    <2>1. CASE q = p
      BY <2>1, Targets DEF ReadBalance, Base, TypeOK, ProcessOK, Idle, table
    <2>2. CASE q # p
      BY <2>2 DEF ReadBalance, Base, TypeOK, ProcessOK, Idle, table
    <2>3. QED
      BY <2>1, <2>2
  <1>4. QED
    BY <1>1, <1>2, <1>3, BaseParts

LEMMA ReadBalanceFailsBase ==
    ASSUME Base, NEW p \in Process, ReadBalanceFails(p) PROVE Base'
  <1>1. StoreTypeOK'
    BY StoreType, Targets, HarmType, FaultType
    DEF Base, ReadBalanceFails, table, StoreTypeOK
  <1>2. RowsStay /\ ~Idle(p)
    BY DEF ReadBalanceFails, table, RowsStay, Idle
  <1>3. Goto(p, "mark") \/ Finish(p)
    BY DEF ReadBalanceFails
  <1>4. QED
    BY <1>1, <1>2, <1>3, GotoKeeps, FinishKeeps, BaseParts DEF Step

LEMMA GoOnPaidKeeps ==
    ASSUME Base, RowsStay, NEW p \in Process, at[p] = "write", GoOnPaid(p)
    PROVE  ProcessTypeOK' /\ \A q \in Process : ProcessOK(q)'
  <1>1. ProcessTypeOK'
    BY DEF GoOnPaid, Base, TypeOK, ProcessTypeOK, Step
  <1>2. ASSUME NEW q \in Process PROVE ProcessOK(q)'
    BY DEF GoOnPaid, Base, TypeOK, ProcessOK, Idle, RowsStay
  <1>3. QED
    BY <1>1, <1>2

LEMMA WriteBalanceBase ==
    ASSUME Base, NEW p \in Process, WriteBalance(p) PROVE Base'
  <1>1. StoreTypeOK' /\ RowsStay
    BY StoreType, ApplyType DEF WriteBalance, StoreTypeOK, RowsStay
  <1>2. QED
    BY <1>1, GoOnPaidKeeps, BaseParts DEF WriteBalance

LEMMA WriteUnheardBase ==
    ASSUME Base, NEW p \in Process, WriteUnheard(p) PROVE Base'
  <1>1. StoreTypeOK' /\ RowsStay
    BY StoreType, ApplyType, FaultType, Targets, HarmType
    DEF Base, WriteUnheard, StoreTypeOK, RowsStay
  <1>2. QED
    BY <1>1, GoOnPaidKeeps, FinishKeeps, BaseParts DEF WriteUnheard

LEMMA WriteRejectedBase ==
    ASSUME Base, NEW p \in Process, WriteRejected(p) PROVE Base'
  <1>1. StoreTypeOK' /\ RowsStay
    BY StoreType, FaultType, Targets, HarmType
    DEF Base, WriteRejected, StoreTypeOK, table, RowsStay
  <1>2. ~Idle(p) /\ (Goto(p, "mark") \/ Finish(p))
    BY DEF WriteRejected, Idle
  <1>3. QED
    BY <1>1, <1>2, GotoKeeps, FinishKeeps, BaseParts DEF Step

LEMMA MarkBase ==
    ASSUME Base, NEW p \in Process, Mark(p) PROVE Base'
  <1>1. StoreTypeOK' /\ RowsStay /\ Finish(p)
    BY StoreType, SetStatusType DEF Mark, StoreTypeOK, history
  <1>2. QED
    BY <1>1, FinishKeeps, BaseParts

LEMMA MarkUnheardBase ==
    ASSUME Base, NEW p \in Process, MarkUnheard(p) PROVE Base'
  <1>1. StoreTypeOK' /\ RowsStay
    BY StoreType, SetStatusType, FaultType, Targets, HarmType
    DEF Base, MarkUnheard, StoreTypeOK
  <1>2. ~Idle(p) /\ (Goto(p, "undo") \/ Finish(p))
    BY DEF MarkUnheard, Idle
  <1>3. QED
    BY <1>1, <1>2, GotoKeeps, FinishKeeps, BaseParts DEF Step

LEMMA MarkFailsBase ==
    ASSUME Base, NEW p \in Process, MarkFails(p) PROVE Base'
  <1>1. StoreTypeOK' /\ RowsStay
    BY StoreType, FaultType, Targets, HarmType
    DEF Base, MarkFails, MarkRejected, StoreTypeOK, table, RowsStay
  <1>2. ~Idle(p) /\ (Goto(p, "undo") \/ Finish(p))
    BY DEF MarkFails, MarkRejected, Idle
  <1>3. QED
    BY <1>1, <1>2, GotoKeeps, FinishKeeps, BaseParts DEF Step

LEMMA UndoBase ==
    ASSUME Base, NEW p \in Process, Undo(p) PROVE Base'
  <1>1. balance' \in [User -> Nat]
    BY Targets DEF Base, TypeOK, Undo
  <1>2. StoreTypeOK' /\ RowsStay /\ Finish(p)
    BY <1>1, StoreType DEF Undo, StoreTypeOK, history, RowsStay
  <1>3. QED
    BY <1>2, FinishKeeps, BaseParts

LEMMA UndoFailsBase ==
    ASSUME Base, NEW p \in Process, UndoFails(p) PROVE Base'
  <1>1. StoreTypeOK' /\ RowsStay /\ Finish(p)
    BY StoreType, FaultType, Targets, HarmType
    DEF Base, UndoFails, StoreTypeOK, table, RowsStay
  <1>2. QED
    BY <1>1, FinishKeeps, BaseParts

LEMMA SweepBase ==
    ASSUME Base, NEW p \in Process, NEW S \in SUBSET EscrowId, Sweep(p, S)
    PROVE  Base'
  <1>1. StoreTypeOK' /\ RowsStay /\ TakeUp(p, S)
    BY StoreType, Targets, HarmType
    DEF Base, Sweep, StoreTypeOK, table, RowsStay
  <1>2. \A e \in S : status[e] # "none"
    BY DEF Sweep, StaleRows
  <1>3. QED
    BY <1>1, <1>2, TakeUpKeeps, BaseParts

LEMMA CrashBase ==
    ASSUME Base, NEW p \in Process, Crash(p) PROVE Base'
  <1>1. StoreTypeOK' /\ RowsStay /\ Leave(p)
    BY StoreType, FaultType, Targets, HarmType
    DEF Base, Crash, StoreTypeOK, table, RowsStay
  <1>2. QED
    BY <1>1, LeaveKeeps, BaseParts

LEMMA GrowBase ==
    ASSUME Base, NEW e \in EscrowId, Grow(e) PROVE Base'
  BY DEF Base, TypeOK, ProcessOK, Idle, Grow, process, history

LEMMA NextBase == Base /\ [Next]_vars => Base'
  <1> SUFFICES ASSUME Base, [Next]_vars PROVE Base'
    OBVIOUS
  <1>1. ASSUME NEW p \in Process, RoundTrip(p) PROVE Base'
    BY <1>1, ReadRowBase, RefuseBase, ReadBalanceBase, ReadBalanceFailsBase,
       WriteBalanceBase, WriteUnheardBase, WriteRejectedBase, MarkBase, MarkUnheardBase,
       MarkFailsBase, UndoBase, UndoFailsBase DEF RoundTrip
  <1>2. CASE UNCHANGED vars
    BY <1>2 DEF Base, TypeOK, ProcessOK, Idle, vars, table, process, history
  <1>3. QED
    BY <1>1, <1>2, BeginHoldBase, BeginOnRowBase, SweepBase, CrashBase, GrowBase
    DEF Next

\* No interleaving, failed call or crash overdraws a balance: TypeOK, for any
\* users, escrows, requests and replicas.
THEOREM EscrowTypeOK == Spec => []TypeOK
  <1>1. Base => TypeOK
    BY DEF Base
  <1>2. QED
    BY <1>1, InitBase, NextBase, PTL DEF Spec

-----------------------------------------------------------------------------
(***************************************************************************)
(* PaidAsMarked.  While an operation is between reading and writing the    *)
(* status of an undisturbed escrow, no other one is, and the counters show *)
(* how far it has come: nothing has been paid before its write, and after  *)
(* it just what it is going to mark.                                       *)
(***************************************************************************)
Counted(e) ==
    /\ released[e] = Count(status[e] = "released")
    /\ returned[e] = Count(status[e] \in {"refunded", "cancelled"})

Unpaid(e) ==
    /\ status[e] \notin {"released", "refunded", "cancelled"}
    /\ released[e] = 0
    /\ returned[e] = 0

Paying(p) ==
    /\ at[p] = "mark"
    /\ op[p] \in {"release", "refund", "cancel", "sweep"}

\* It has paid, or it cancels what had already been paid back.
Due(p, e) ==
    /\ released[e] = Count(op[p] = "release")
    /\ returned[e] = Count(op[p] # "release")
    /\ moved[p] \/ (op[p] = "cancel" /\ status[e] \in {"refunded", "cancelled"})

Progress(p, e) ==
    IF Paying(p) /\ escrow[p] = e THEN Due(p, e) ELSE Unpaid(e)

EscrowOK(e) ==
    /\ \A p, q \in Process : e \in Window(p) /\ e \in Window(q) => p = q
    /\ \A p \in Process : e \in Window(p) => Progress(p, e)
    /\ AtRest(e) => Counted(e)

EscrowInv == Base /\ \A e \in EscrowId \ disturbed : EscrowOK(e)

LEMMA InitEscrowInv == Init => EscrowInv
  <1> SUFFICES ASSUME Init, NEW e \in EscrowId PROVE EscrowOK(e)
    BY InitBase DEF EscrowInv
  <1>1. \A p \in Process : Window(p) = {}
    BY DEF Init, Window
  <1>2. Counted(e)
    BY DEF Init, Counted, Count
  <1>3. QED
    BY <1>1, <1>2 DEF EscrowOK

LEMMA UnpaidCounted == ASSUME NEW e, Unpaid(e) PROVE Counted(e)
  BY DEF Unpaid, Counted, Count

\* A step moves one process.
OthersKeep(p) ==
    \A q \in Process \ {p} :
        /\ op'[q] = op[q] /\ at'[q] = at[q]
        /\ escrow'[q] = escrow[q] /\ todo'[q] = todo[q]
        /\ moved'[q] = moved[q]

SameRow(e) ==
    /\ status'[e] = status[e]
    /\ released'[e] = released[e]
    /\ returned'[e] = returned[e]

Others(p, e) == \E q \in Process \ {p} : e \in Window(q)

\* What is to be shown of a step by p for an escrow: nothing happens to it
\* if another process is at work on it, and otherwise p keeps to its part.
LEMMA OneStep ==
    ASSUME NEW p \in Process, NEW e \in EscrowId, EscrowOK(e), OthersKeep(p),
           Others(p, e) => e \notin Window(p)' /\ SameRow(e),
           ~Others(p, e) => IF e \in Window(p)' THEN Progress(p, e)'
                                                ELSE Counted(e)'
    PROVE  EscrowOK(e)'
  <1>1. \A q \in Process \ {p} : Window(q)' = Window(q)
    BY DEF OthersKeep, Window
  <1>2. CASE Others(p, e)
    <2>1. \A q \in Process : e \in Window(q)' => q # p /\ e \in Window(q)
      BY <1>1, <1>2
    <2>2. \A q \in Process : e \in Window(q)' => Progress(q, e)'
      BY <2>1, <1>2
      DEF EscrowOK, OthersKeep, SameRow, Progress, Paying, Due, Unpaid
    <2>3. ~AtRest(e)'
      BY <1>1, <1>2 DEF Others, AtRest
    <2>4. QED
      BY <2>1, <2>2, <2>3 DEF EscrowOK
  <1>3. CASE ~Others(p, e)
    <2>1. \A q \in Process : e \in Window(q)' => q = p
      BY <1>1, <1>3 DEF Others
    <2>2. AtRest(e)' => e \notin Window(p)'
      BY DEF AtRest
    <2>3. QED
      BY <2>1, <2>2, <1>3 DEF EscrowOK
  <1>4. QED
    BY <1>2, <1>3

Working(p) == at[p] \in {"balance", "write", "mark", "undo"}

\* The same, for a step that works on escrow[p] only.
LEMMA WorkStep ==
    ASSUME Base, NEW p \in Process, NEW e \in EscrowId, EscrowOK(e),
           OthersKeep(p), Working(p),
           Window(p)' \subseteq Window(p),
           e # escrow[p] => SameRow(e) /\ ~(Paying(p)' /\ escrow'[p] = e),
           e = escrow[p] => IF e \in Window(p)' THEN Progress(p, e)'
                                                ELSE Counted(e)'
    PROVE  EscrowOK(e)'
  <1>1. CASE e = escrow[p]
    <2>1. ~Others(p, e)
      BY <1>1 DEF Others, EscrowOK, Window, Working
    <2>2. QED
      BY <1>1, <2>1, OneStep
  <1>2. CASE e # escrow[p]
    <2>1. ASSUME Others(p, e) PROVE e \notin Window(p)'
      BY <2>1 DEF Others, EscrowOK
    <2>2. ASSUME e \in Window(p) PROVE Unpaid(e)'
      BY <1>2, <2>2 DEF EscrowOK, Progress, Unpaid, SameRow
    <2>3. ASSUME ~Others(p, e), e \in Window(p)' PROVE Progress(p, e)'
      BY <1>2, <2>2, <2>3 DEF Progress
    <2>4. ASSUME ~Others(p, e), e \notin Window(p)' PROVE Counted(e)'
      <3>1. CASE e \in Window(p)
        BY <2>2, <3>1 DEF Unpaid, Counted, Count
      <3>2. CASE e \notin Window(p)
        BY <1>2, <2>4, <3>2 DEF Others, EscrowOK, AtRest, SameRow, Counted, Count
      <3>3. QED
        BY <3>1, <3>2
    <2>5. QED
      BY <1>2, <2>1, <2>3, <2>4, OneStep
  <1>3. QED
    BY <1>1, <1>2

\* The ways in which a working process moves on.
LEMMA FinishFacts ==
    ASSUME Base, NEW p \in Process, Finish(p)
    PROVE  /\ OthersKeep(p)
           /\ Window(p)' = todo[p] /\ Window(p)' \subseteq Window(p)
           /\ escrow[p] \notin Window(p)'
           /\ ~Paying(p)'
  <1>1. escrow[p] \notin todo[p]
    BY DEF Base, ProcessOK
  <1>2. CASE Leave(p)
    BY <1>1, <1>2 DEF Leave, Base, TypeOK, OthersKeep, Window, Paying, Finish,
       TakeUp
  <1>3. CASE TakeUp(p, todo[p])
    <2>1. OthersKeep(p) /\ at'[p] = "balance"
          /\ todo'[p] \cup {escrow'[p]} = todo[p]
      BY <1>3 DEF TakeUp, Base, TypeOK, OthersKeep
    <2>2. QED
      BY <1>1, <2>1 DEF Window, Paying
  <1>4. QED
    BY <1>2, <1>3 DEF Finish

LEMMA GotoFacts ==
    ASSUME Base, NEW p \in Process, Working(p),
           NEW step \in {"balance", "write", "mark", "undo"},
           at' = [at EXCEPT ![p] = step], UNCHANGED <<op, escrow, todo>>,
           \A q \in Process \ {p} : moved'[q] = moved[q]
    PROVE  /\ OthersKeep(p)
           /\ Window(p)' = Window(p)
           /\ escrow'[p] = escrow[p] /\ at'[p] = step /\ op'[p] = op[p]
  BY DEF Base, TypeOK, OthersKeep, Window, Working

\* An operation that ends without marking its row, and without having paid.
LEMMA GivesUp ==
    ASSUME Base, NEW p \in Process, NEW e \in EscrowId, EscrowOK(e),
           Working(p), Finish(p), SameRow(e),
           e = escrow[p] => ~(Paying(p) /\ moved[p])
    PROVE  EscrowOK(e)'
  <1>1. ASSUME e = escrow[p] PROVE Counted(e)'
    <2>1. Progress(p, e)
      BY <1>1 DEF EscrowOK, Window, Working
    <2>2. CASE Paying(p)
      BY <1>1, <2>1, <2>2 DEF Progress, Due, Paying, SameRow, Counted, Count
    <2>3. CASE ~Paying(p)
      BY <2>1, <2>3 DEF Progress, Unpaid, SameRow, Counted, Count
    <2>4. QED
      BY <2>2, <2>3
  <1>2. QED
    BY <1>1, FinishFacts, WorkStep

\* An operation that goes on as before.
LEMMA GoesOnUnpaid ==
    ASSUME Base, NEW p \in Process, NEW e \in EscrowId, EscrowOK(e),
           Working(p), ~Paying(p), SameRow(e),
           NEW step \in {"balance", "write", "mark", "undo"},
           at' = [at EXCEPT ![p] = step], UNCHANGED <<op, escrow, todo>>,
           \A q \in Process \ {p} : moved'[q] = moved[q],
           e = escrow[p] => ~Paying(p)'
    PROVE  EscrowOK(e)'
  <1>1. ASSUME e = escrow[p] PROVE Progress(p, e)'
    <2>1. Unpaid(e)
      BY <1>1 DEF EscrowOK, Window, Working, Progress
    <2>2. QED
      BY <1>1, <2>1 DEF Progress, Unpaid, SameRow
  <1>2. OthersKeep(p) /\ Window(p)' = Window(p) /\ escrow'[p] = escrow[p]
    BY GotoFacts
  <1>3. e = escrow[p] => e \in Window(p)
    BY DEF Window, Working
  <1>4. QED
    BY <1>1, <1>2, <1>3, WorkStep

\* One lemma per action again.  A step leaves its escrow disturbed, or
\* EscrowOK.
LEMMA ReadBalancePaid ==
    ASSUME Base, NEW p \in Process, NEW e \in EscrowId \ disturbed',
           EscrowOK(e), ReadBalance(p)
    PROVE  EscrowOK(e)'
  <1>1. SameRow(e) /\ Working(p) /\ ~Paying(p) /\ ~Paying(p)'
    BY DEF ReadBalance, table, SameRow, Working, Paying, Base, TypeOK
  <1>2. QED
    BY <1>1, GoesOnUnpaid DEF ReadBalance

LEMMA InsufficientPaid ==
    ASSUME Base, NEW p \in Process, NEW e \in EscrowId \ disturbed',
           EscrowOK(e), Insufficient(p)
    PROVE  EscrowOK(e)'
  <1>1. SameRow(e) /\ Working(p) /\ ~Paying(p) /\ Finish(p)
    BY DEF Insufficient, table, history, SameRow, Working, Paying
  <1>2. QED
    BY <1>1, GivesUp

\* Harm reaches the escrow that it is told of.
LEMMA Harmed ==
    ASSUME NEW S, NEW e, e \notin disturbed', Harm(S)
    PROVE  e \notin S
  BY DEF Harm

LEMMA NotPaid ==
    ASSUME Base, NEW p \in Process, NEW e \in EscrowId \ disturbed',
           EscrowOK(e), at[p] \in {"balance", "write"}, SameRow(e),
           \/ Finish(p)
           \/ Goto(p, "mark") /\ Harm({escrow[p]})
    PROVE  EscrowOK(e)'
  <1>1. Working(p) /\ ~Paying(p)
    BY DEF Working, Paying
  <1>2. CASE Finish(p)
    BY <1>1, <1>2, GivesUp
  <1>3. CASE Goto(p, "mark") /\ Harm({escrow[p]})
    <2>1. e # escrow[p]
      BY <1>3, Harmed
    <2>2. QED
      BY <1>1, <1>3, <2>1, GoesOnUnpaid DEF Goto
  <1>4. QED
    BY <1>2, <1>3

LEMMA ReadBalanceFailsPaid ==
    ASSUME Base, NEW p \in Process, NEW e \in EscrowId \ disturbed',
           EscrowOK(e), ReadBalanceFails(p)
    PROVE  EscrowOK(e)'
  BY NotPaid DEF ReadBalanceFails, table, SameRow

LEMMA WriteRejectedPaid ==
    ASSUME Base, NEW p \in Process, NEW e \in EscrowId \ disturbed',
           EscrowOK(e), WriteRejected(p)
    PROVE  EscrowOK(e)'
  BY NotPaid DEF WriteRejected, table, SameRow

LEMMA MarkFailsPaid ==
    ASSUME Base, NEW p \in Process, NEW e \in EscrowId \ disturbed',
           EscrowOK(e), MarkFails(p)
    PROVE  EscrowOK(e)'
  <1>1. SameRow(e) /\ Working(p)
    BY DEF MarkFails, MarkRejected, table, SameRow, Working
  <1>2. CASE op[p] = "hold"
    <2>1. ~Paying(p) /\ ~Paying(p)'
      BY <1>2 DEF Paying, MarkFails, MarkRejected, Goto
    <2>2. QED
      BY <1>1, <1>2, <2>1, GoesOnUnpaid DEF MarkFails, MarkRejected, Goto
  <1>3. CASE op[p] # "hold"
    <2>1. e = escrow[p] => ~moved[p]
      BY <1>3, Harmed DEF MarkFails, MarkRejected
    <2>2. QED
      BY <1>1, <1>3, <2>1, GivesUp DEF MarkFails, MarkRejected
  <1>4. QED
    BY <1>2, <1>3

LEMMA UndoPaid ==
    ASSUME Base, NEW p \in Process, NEW e \in EscrowId \ disturbed',
           EscrowOK(e), Undo(p) \/ UndoFails(p)
    PROVE  EscrowOK(e)'
  <1>1. SameRow(e) /\ Working(p) /\ ~Paying(p) /\ Finish(p)
    BY DEF Undo, UndoFails, table, history, SameRow, Working, Paying
  <1>2. QED
    BY <1>1, GivesUp

\* The coins are written: what was unpaid is due to be marked.
LEMMA PaysOnce ==
    ASSUME Base, NEW p \in Process, NEW e \in EscrowId \ disturbed',
           EscrowOK(e), at[p] = "write", Apply(p), GoOnPaid(p)
    PROVE  EscrowOK(e)'
  <1>1. Working(p) /\ ~Paying(p) /\ escrow[p] \in EscrowId
    BY DEF Working, Paying, Base, TypeOK
  <1>2. /\ OthersKeep(p) /\ Window(p)' = Window(p)
        /\ escrow'[p] = escrow[p] /\ op'[p] = op[p]
        /\ at'[p] = "mark" /\ moved'[p] = TRUE
    <2>1. moved'[p] = TRUE /\ \A q \in Process \ {p} : moved'[q] = moved[q]
      BY DEF GoOnPaid, Base, TypeOK
    <2>2. /\ at' = [at EXCEPT ![p] = "mark"]
          /\ UNCHANGED <<op, escrow, todo>>
      BY DEF GoOnPaid
    <2>3. QED
      BY <1>1, <2>1, <2>2, GotoFacts
  <1>3. e # escrow[p] => SameRow(e)
    BY DEF Apply, SameRow, Base, TypeOK
  <1>4. ASSUME e = escrow[p] PROVE Progress(p, e)'
    <2>1. Unpaid(e)
      BY <1>1, <1>4 DEF EscrowOK, Progress, Window, Working
    <2>2. /\ status'[e] = status[e]
          /\ released'[e] = IF op[p] = "release" THEN 1 ELSE 0
          /\ returned'[e] = IF op[p] \in {"refund", "cancel", "sweep"}
                            THEN 1 ELSE 0
      BY <1>4, <2>1 DEF Apply, Unpaid, Base, TypeOK
    <2>3. CASE op[p] \in {"release", "refund", "cancel", "sweep"}
      BY <1>2, <1>4, <2>2, <2>3 DEF Progress, Paying, Due, Count
    <2>4. CASE op[p] \notin {"release", "refund", "cancel", "sweep"}
      BY <1>2, <1>4, <2>1, <2>2, <2>4 DEF Progress, Paying, Unpaid
    <2>5. QED
      BY <2>3, <2>4
  <1>5. e = escrow[p] => e \in Window(p)
    BY <1>1 DEF Window, Working
  <1>6. QED
    BY <1>1, <1>2, <1>3, <1>4, <1>5, WorkStep

LEMMA WriteBalancePaid ==
    ASSUME Base, NEW p \in Process, NEW e \in EscrowId \ disturbed',
           EscrowOK(e), WriteBalance(p) \/ WriteUnheard(p)
    PROVE  EscrowOK(e)'
  <1>1. CASE GoOnPaid(p)
    BY <1>1, PaysOnce DEF WriteBalance, WriteUnheard
  <1>2. CASE ~GoOnPaid(p)
    <2>1. Finish(p) /\ Harm({escrow[p]}) /\ at[p] = "write" /\ Apply(p)
      BY <1>2 DEF WriteBalance, WriteUnheard
    <2>2. e # escrow[p]
      BY <2>1, Harmed
    <2>3. SameRow(e)
      BY <2>1, <2>2 DEF Apply, SameRow, Base, TypeOK
    <2>4. QED
      BY <2>1, <2>2, <2>3, GivesUp DEF Working
  <1>3. QED
    BY <1>1, <1>2

\* The status is written: what was due is counted.
LEMMA MarksPaid ==
    ASSUME Base, NEW p \in Process, NEW e \in EscrowId,
           EscrowOK(e), at[p] = "mark", Outcome(op[p]) \in Storable,
           SetStatus(p), UNCHANGED <<released, returned>>, Finish(p)
    PROVE  EscrowOK(e)'
  <1>1. Working(p) /\ op[p] \in Operation \ {"none"}
    BY DEF Working, Base, TypeOK, ProcessOK, Idle
  <1>2. op[p] \in {"hold", "release", "refund", "cancel", "sweep"}
    BY <1>1 DEF Operation, Outcome, Storable
  <1>3. e # escrow[p] => SameRow(e)
    BY DEF SetStatus, SameRow, Base, TypeOK
  <1>4. ASSUME e = escrow[p] PROVE Counted(e)'
    <2>1. status'[e] = Outcome(op[p]) /\ Progress(p, e)
      BY <1>1, <1>4 DEF SetStatus, Base, TypeOK, EscrowOK, Window, Working
    <2>2. CASE op[p] = "hold"
      BY <2>1, <2>2 DEF Progress, Paying, Unpaid, Outcome, Counted, Count
    <2>3. CASE op[p] # "hold"
      <3>1. Due(p, e)
        BY <1>2, <1>4, <2>1, <2>3 DEF Progress, Paying
      <3>2. QED
        BY <1>2, <2>1, <2>3, <3>1 DEF Due, Outcome, Counted, Count
    <2>4. QED
      BY <2>2, <2>3
  <1>5. QED
    BY <1>1, <1>3, <1>4, FinishFacts, WorkStep

LEMMA MarkPaid ==
    ASSUME Base, NEW p \in Process, NEW e \in EscrowId \ disturbed',
           EscrowOK(e), Mark(p) \/ MarkUnheard(p)
    PROVE  EscrowOK(e)'
  <1>1. /\ at[p] = "mark" /\ Outcome(op[p]) \in Storable /\ SetStatus(p)
        /\ UNCHANGED <<released, returned>>
    BY DEF Mark, MarkUnheard, history
  <1>2. CASE Finish(p)
    BY <1>1, <1>2, MarksPaid
  <1>3. CASE ~Finish(p)
    <2>1. op[p] = "hold" /\ Goto(p, "undo") /\ Harm({escrow[p]})
      BY <1>3 DEF Mark, MarkUnheard
    <2>2. e # escrow[p]
      BY <2>1, Harmed
    <2>3. SameRow(e) /\ Working(p) /\ ~Paying(p)
      BY <1>1, <2>1, <2>2 DEF SetStatus, SameRow, Base, TypeOK, Working, Paying
    <2>4. QED
      BY <2>1, <2>2, <2>3, GoesOnUnpaid DEF Goto
  <1>4. QED
    BY <1>2, <1>3

\* A step that neither enters nor leaves the window of e.
LEMMA Elsewhere ==
    ASSUME Base, NEW p \in Process, NEW e \in EscrowId, EscrowOK(e),
           OthersKeep(p), SameRow(e),
           e \in Window(p)' <=> e \in Window(p),
           ~(Paying(p) /\ escrow[p] = e), ~(Paying(p)' /\ escrow'[p] = e)
    PROVE  EscrowOK(e)'
  <1>1. ASSUME e \in Window(p) PROVE ~Others(p, e) /\ Progress(p, e)'
    BY <1>1 DEF Others, EscrowOK, Progress, Unpaid, SameRow
  <1>2. ASSUME e \notin Window(p), ~Others(p, e) PROVE Counted(e)'
    BY <1>2 DEF Others, EscrowOK, AtRest, SameRow, Counted, Count
  <1>3. QED
    BY <1>1, <1>2, OneStep

\* A step that takes e up while nobody else is at work on it.
LEMMA Enters ==
    ASSUME Base, NEW p \in Process, NEW e \in EscrowId, EscrowOK(e),
           OthersKeep(p), SameRow(e), e \notin Window(p), e \in Window(p)',
           ~Others(p, e), Counted(e) => Progress(p, e)'
    PROVE  EscrowOK(e)'
  <1>1. Counted(e)
    BY DEF EscrowOK, AtRest, Others
  <1>2. QED
    BY <1>1, OneStep

LEMMA IdleFacts ==
    ASSUME Base, NEW p \in Process, Idle(p)
    PROVE  Window(p) = {} /\ ~Paying(p)
  BY DEF Base, ProcessOK, Idle, Window, Paying

LEMMA BeginHoldPaid ==
    ASSUME Base, NEW p \in Process, NEW h \in EscrowId, BeginHold(p, h),
           NEW e \in EscrowId, EscrowOK(e)
    PROVE  EscrowOK(e)'
  <1>1. /\ OthersKeep(p) /\ SameRow(e)
        /\ at'[p] = "balance" /\ escrow'[p] = h /\ todo'[p] = todo[p]
    BY DEF BeginHold, Begin, Base, TypeOK, OthersKeep, SameRow, table, history
  <1>2. Window(p) = {} /\ ~Paying(p) /\ todo[p] = {}
    BY IdleFacts DEF BeginHold, Begin, Base, ProcessOK
  <1>3. Window(p)' = {h} /\ ~Paying(p)'
    BY <1>1, <1>2 DEF Window, Paying
  <1>4. CASE e = h
    <2>1. ASSUME NEW q \in Process, e \in Window(q) PROVE FALSE
      <3>1. e \notin todo[q] /\ status[e] = "none"
        BY <1>4 DEF BeginHold, Base, ProcessOK
      <3>2. escrow[q] = e /\ ~Idle(q)
        BY <2>1, <3>1 DEF Window, Idle
      <3>3. QED
        BY <1>4, <3>1, <3>2 DEF BeginHold, Base, ProcessOK
    <2>2. Counted(e) => Progress(p, e)'
      BY <1>1, <1>3, <1>4
      DEF BeginHold, Counted, Count, Progress, Unpaid, SameRow
    <2>3. QED
      BY <1>1, <1>2, <1>3, <1>4, <2>1, <2>2, Enters DEF Others
  <1>5. CASE e # h
    BY <1>1, <1>2, <1>3, <1>5, Elsewhere
  <1>6. QED
    BY <1>4, <1>5

LEMMA BeginOnRowPaid ==
    ASSUME Base, NEW p \in Process, NEW h \in EscrowId, NEW k \in Operation,
           BeginOnRow(p, k, h), NEW e \in EscrowId, EscrowOK(e)
    PROVE  EscrowOK(e)'
  <1>1. /\ OthersKeep(p) /\ SameRow(e)
        /\ at'[p] = "row" /\ todo'[p] = todo[p]
    BY DEF BeginOnRow, Begin, Base, TypeOK, OthersKeep, SameRow, table, history
  <1>2. Window(p) = {} /\ ~Paying(p) /\ todo[p] = {}
    BY IdleFacts DEF BeginOnRow, Begin, Base, ProcessOK
  <1>3. Window(p)' = {} /\ ~Paying(p)'
    BY <1>1, <1>2 DEF Window, Paying
  <1>4. QED
    BY <1>1, <1>2, <1>3, Elsewhere

LEMMA RefusePaid ==
    ASSUME Base, NEW p \in Process, NEW e \in EscrowId, Refuse(p), EscrowOK(e)
    PROVE  EscrowOK(e)'
  <1>1. SameRow(e) /\ Finish(p) /\ Window(p) = todo[p] /\ ~Paying(p)
    BY DEF Refuse, table, history, SameRow, Window, Paying
  <1>2. QED
    BY <1>1, FinishFacts, Elsewhere

LEMMA ReadRowPaid ==
    ASSUME Base, NEW p \in Process, NEW e \in EscrowId \ disturbed',
           EscrowOK(e), ReadRow(p)
    PROVE  EscrowOK(e)'
  <1>1. /\ OthersKeep(p) /\ SameRow(e)
        /\ at'[p] = (IF MovesNothing(p) THEN "mark" ELSE "balance")
        /\ escrow'[p] = escrow[p] /\ todo'[p] = todo[p] /\ op'[p] = op[p]
    BY DEF ReadRow, Goto, Base, TypeOK, OthersKeep, SameRow, table
  <1>2. Window(p) = todo[p] /\ ~Paying(p) /\ escrow[p] \notin todo[p]
    BY DEF ReadRow, Window, Paying, Base, ProcessOK
  <1>3. Window(p)' = todo[p] \cup {escrow[p]}
    BY <1>1 DEF Window
  <1>4. CASE e = escrow[p]
    <2>1. ~Others(p, e)
      <3>1. e \notin Overlaps(p, {escrow[p]})
        BY Harmed DEF ReadRow
      <3>2. QED
        BY <1>4, <3>1 DEF Overlaps, Others
    <2>2. ASSUME Counted(e) PROVE Progress(p, e)'
      <3>1. Allows(op[p], status[e]) /\ status[e] \in Marked
        BY <1>4 DEF ReadRow, Base
      <3>2. CASE ~MovesNothing(p)
        <4>1. status[e] \in {"held", "pending"}
          BY <1>4, <3>1, <3>2 DEF MovesNothing, Allows
        <4>2. QED
          BY <1>1, <2>2, <3>2, <4>1
          DEF Progress, Paying, Unpaid, Counted, Count, SameRow
      <3>3. CASE op[p] = "dispute"
        BY <1>1, <2>2, <3>1, <3>3
        DEF Allows, Progress, Paying, Unpaid, Counted, Count, SameRow
      <3>4. CASE op[p] = "cancel" /\ status[e] # "held"
        <4>1. status[e] \in {"refunded", "cancelled"}
          BY <1>4, <3>1, <3>4
          DEF Allows, Marked, ReadRow, Base, ProcessOK, Idle
        <4>2. Paying(p)' /\ escrow'[p] = e
          BY <1>1, <1>4, <3>4 DEF MovesNothing, Paying
        <4>3. QED
          BY <1>1, <2>2, <3>4, <4>1, <4>2
          DEF Progress, Due, Counted, Count, SameRow
      <3>5. QED
        BY <1>4, <3>2, <3>3, <3>4 DEF MovesNothing
    <2>3. QED
      BY <1>1, <1>2, <1>3, <1>4, <2>1, <2>2, Enters
  <1>5. CASE e # escrow[p]
    BY <1>1, <1>2, <1>3, <1>5, Elsewhere
  <1>6. QED
    BY <1>4, <1>5

LEMMA SweepPaid ==
    ASSUME Base, NEW p \in Process, NEW S \in SUBSET EscrowId, Sweep(p, S),
           NEW e \in EscrowId \ disturbed', EscrowOK(e)
    PROVE  EscrowOK(e)'
  <1>1. Window(p) = {} /\ ~Paying(p)
    BY IdleFacts DEF Sweep
  <1>2. OthersKeep(p) /\ Window(p)' = S /\ ~Paying(p)'
    <2>1. /\ OthersKeep(p) /\ at'[p] = "balance"
          /\ todo'[p] \cup {escrow'[p]} = S
      BY DEF Sweep, TakeUp, Base, TypeOK, OthersKeep
    <2>2. QED
      BY <2>1 DEF Window, Paying
  <1>3. SameRow(e)
    BY DEF Sweep, table, SameRow
  <1>4. CASE e \in S
    <2>1. ~Others(p, e)
      <3>1. e \notin Overlaps(p, S)
        BY Harmed DEF Sweep
      <3>2. QED
        BY <1>4, <3>1 DEF Overlaps, Others
    <2>2. Counted(e) => Progress(p, e)'
      BY <1>2, <1>3, <1>4
      DEF Sweep, StaleRows, Counted, Count, Progress, Unpaid, SameRow
    <2>3. QED
      BY <1>1, <1>2, <1>3, <1>4, <2>1, <2>2, Enters
  <1>5. CASE e \notin S
    BY <1>1, <1>2, <1>3, <1>5, Elsewhere
  <1>6. QED
    BY <1>4, <1>5

LEMMA CrashPaid ==
    ASSUME Base, NEW p \in Process, NEW e \in EscrowId \ disturbed',
           EscrowOK(e), Crash(p)
    PROVE  EscrowOK(e)'
  <1>1. OthersKeep(p) /\ SameRow(e) /\ Window(p)' = {}
    BY DEF Crash, Leave, Base, TypeOK, OthersKeep, table, SameRow, Window
  <1>2. e = escrow[p] => ~moved[p]
    BY Harmed DEF Crash
  <1>3. ASSUME e \in Window(p) PROVE Counted(e)
    BY <1>2, <1>3 DEF EscrowOK, Progress, Due, Unpaid, Paying, Counted, Count
  <1>4. ASSUME e \notin Window(p), ~Others(p, e) PROVE Counted(e)
    BY <1>4 DEF EscrowOK, AtRest, Others
  <1>5. ~Others(p, e) => Counted(e)'
    BY <1>1, <1>3, <1>4 DEF SameRow, Counted, Count
  <1>6. QED
    BY <1>1, <1>5, OneStep

\* Time passes, or nothing happens.
LEMMA StillPaid ==
    ASSUME NEW e \in EscrowId, EscrowOK(e),
           UNCHANGED <<status, process, released, returned>>
    PROVE  EscrowOK(e)'
  BY DEF EscrowOK, process, AtRest, Window, Progress, Paying, Due, Unpaid, Counted

LEMMA DisturbedStays == [Next]_vars => disturbed \subseteq disturbed'
  <1> SUFFICES ASSUME [Next]_vars PROVE disturbed \subseteq disturbed'
    OBVIOUS
  <1>1. ASSUME NEW p \in Process, RoundTrip(p)
        PROVE  disturbed \subseteq disturbed'
    BY <1>1 DEF RoundTrip, ReadRow, Refuse, ReadBalance, Insufficient,
       ReadBalanceFails, WriteBalance, WriteUnheard, WriteRejected, Mark,
       MarkUnheard, MarkFails, MarkRejected, Undo, UndoFails, Harm, history
  <1>2. CASE UNCHANGED vars
    BY <1>2 DEF vars, history
  <1>3. QED
    BY <1>1, <1>2 DEF Next, BeginHold, BeginOnRow, Begin, Crash, Sweep, Grow,
       Harm, history

LEMMA NextEscrowInv == EscrowInv /\ [Next]_vars => EscrowInv'
  <1> SUFFICES ASSUME EscrowInv, [Next]_vars,
                      NEW e \in EscrowId \ disturbed'
               PROVE  EscrowOK(e)'
    BY NextBase DEF EscrowInv
  <1>1. Base /\ EscrowOK(e)
    BY DisturbedStays DEF EscrowInv
  <1>2. ASSUME NEW p \in Process, RoundTrip(p) PROVE EscrowOK(e)'
    BY <1>1, <1>2, ReadRowPaid, RefusePaid, ReadBalancePaid, InsufficientPaid,
       ReadBalanceFailsPaid, WriteBalancePaid, WriteRejectedPaid, MarkPaid,
       MarkFailsPaid, UndoPaid DEF RoundTrip
  <1>3. ASSUME NEW h \in EscrowId, Grow(h) PROVE EscrowOK(e)'
    BY <1>1, <1>3, StillPaid DEF Grow, history
  <1>4. CASE UNCHANGED vars
    BY <1>1, <1>4, StillPaid DEF vars, table, history
  <1>5. QED
    BY <1>1, <1>2, <1>3, <1>4, BeginHoldPaid, BeginOnRowPaid, SweepPaid,
       CrashPaid DEF Next

\* Whatever interleaves, fails or crashes, an escrow that no overlap and no
\* half-done operation touched was paid as its status says: PaidAsMarked, for
\* any users, escrows, requests, replicas and number of faults.
THEOREM EscrowPaidAsMarked == Spec => []PaidAsMarked
  <1>1. EscrowInv => PaidAsMarked
    BY DEF EscrowInv, EscrowOK, Counted, PaidAsMarked
  <1>2. QED
    BY <1>1, InitEscrowInv, NextEscrowInv, PTL DEF Spec

-----------------------------------------------------------------------------
(***************************************************************************)
(* BooksBalance.  While the reads and writes of a user's balance have not  *)
(* overlapped, one process at most is going to write it, what that process *)
(* read is still there but for its own deduction, and the balance is what  *)
(* the escrows have taken and given, told by the payments made so far.     *)
(***************************************************************************)

\* What an operation comes past and has done so far.
ShapeOK(p) ==
    /\ op[p] = "hold" => at[p] # "row"
    /\ op[p] = "dispute" => at[p] \notin {"balance", "write"}
    /\ op[p] = "hold" /\ at[p] \in {"mark", "undo"} => moved[p]
    /\ at[p] = "undo" => op[p] = "hold"

\* It has deducted the coins of e and not yet inserted its row.
Holding(p, e) ==
    /\ op[p] = "hold" /\ at[p] \in {"mark", "undo"}
    /\ escrow[p] = e

Taken(e) == status[e] # "none" \/ \E p \in Process : Holding(p, e)

\* No row yet while a hold is at work on it; the harm of an escrow reaches
\* both parties.
RowOK(e) ==
    IF e \in disturbed
    THEN Payer[e] \in disturbed /\ Payee[e] \in disturbed
    ELSE \A p \in Process :
            op[p] = "hold" /\ ~Idle(p) /\ escrow[p] = e => status[e] = "none"

PaidOut(u) == {e \in EscrowId : Payer[e] = u /\ Taken(e) /\ returned[e] = 0}
PaidIn(u) == {e \in EscrowId : Payee[e] = u /\ released[e] # 0}

OneWriter(u) ==
    \A p, q \in Process : Writing(p, u) /\ Writing(q, u) => p = q

\* What p read of u's balance, which it may have lowered since.
Lowered(p) == IF at[p] = "write" THEN 0 ELSE Amount[escrow[p]]
SeenCurrent(u) ==
    \A p \in Process : Writing(p, u) => seen[p] = balance[u] + Lowered(p)

Books(u) == balance[u] = StartBalance - SumOf(PaidOut(u)) + SumOf(PaidIn(u))

UserOK(u) == OneWriter(u) /\ SeenCurrent(u) /\ Books(u)

BooksKept ==
    /\ \A p \in Process : ShapeOK(p)
    /\ \A e \in EscrowId : RowOK(e)
    /\ \A u \in User \ disturbed : UserOK(u)

BooksInv == EscrowInv /\ BooksKept

\* SumOf adds up amounts.
Coins(e) == {e} \X (1..Amount[e])

LEMMA CoinsType ==
    ASSUME NEW e \in EscrowId
    PROVE  IsFiniteSet(Coins(e)) /\ Cardinality(Coins(e)) = Amount[e]
  <1>1. Amount[e] \in Nat \ {0}
    BY EscrowAssumption
  <1>2. IsFiniteSet(1..Amount[e]) /\ Cardinality(1..Amount[e]) = Amount[e]
    BY <1>1, FS_Interval
  <1>3. IsFiniteSet({e}) /\ Cardinality({e}) = 1
    BY FS_Singleton
  <1>4. /\ IsFiniteSet({e} \X (1..Amount[e]))
        /\ Cardinality({e} \X (1..Amount[e])) = 1 * Amount[e]
    <2> DEFINE S == {e}
               T == 1..Amount[e]
    <2>1. /\ IsFiniteSet(S) /\ Cardinality(S) = 1
          /\ IsFiniteSet(T) /\ Cardinality(T) = Amount[e]
      BY <1>2, <1>3
    <2> HIDE DEF S, T
    <2>2. IsFiniteSet(S \X T) /\ Cardinality(S \X T) = Cardinality(S) * Cardinality(T)
      BY <2>1, FS_Product
    <2>3. Cardinality(S \X T) = 1 * Amount[e]
      BY <2>1, <2>2
    <2>4. QED
      BY <2>2, <2>3 DEF S, T
  <1>5. QED
    BY <1>1, <1>4 DEF Coins

AllCoins(S) == UNION {{e} \X (1..Amount[e]) : e \in S}

LEMMA SumType ==
    ASSUME NEW S \in SUBSET EscrowId
    PROVE  IsFiniteSet(AllCoins(S)) /\ SumOf(S) \in Nat
  <1> DEFINE T == {Coins(e) : e \in S}
             f == [e \in S |-> Coins(e)]
  <1>1. IsFiniteSet(S)
    BY EscrowAssumption, FS_Subset
  <1>2. f \in Surjection(S, T)
    BY DEF Surjection
  <1>3. IsFiniteSet(T)
    BY <1>1, <1>2, FS_Surjection
  <1>4. \A c \in T : IsFiniteSet(c)
    BY CoinsType
  <1>5. IsFiniteSet(UNION T)
    BY <1>3, <1>4, FS_UNION
  <1>6. UNION T = AllCoins(S)
    BY DEF AllCoins, Coins
  <1>7. IsFiniteSet(AllCoins(S))
    BY <1>5, <1>6
  <1>8. Cardinality(AllCoins(S)) \in Nat
    BY <1>7, FS_CardinalityType
  <1>9. QED
    BY <1>7, <1>8 DEF SumOf, AllCoins

LEMMA SumOfNone == SumOf({}) = 0
  <1>1. UNION {{e} \X (1..Amount[e]) : e \in {}} = {}
    OBVIOUS
  <1>2. QED
    BY <1>1, FS_EmptySet DEF SumOf

\* One more escrow adds its amount.
LEMMA SumAdds ==
    ASSUME NEW S \in SUBSET EscrowId, NEW e \in EscrowId \ S
    PROVE  SumOf(S \cup {e}) = SumOf(S) + Amount[e]
  <1>1. AllCoins(S \cup {e}) = AllCoins(S) \cup Coins(e)
    BY DEF AllCoins, Coins
  <1>2. AllCoins(S) \cap Coins(e) = {}
    <2> SUFFICES ASSUME NEW c \in AllCoins(S), c \in Coins(e) PROVE FALSE
      OBVIOUS
    <2>1. PICK d \in S : c \in {d} \X (1..Amount[d])
      BY DEF AllCoins
    <2>2. c[1] = d /\ c[1] = e
      BY <2>1 DEF Coins
    <2>3. QED
      BY <2>2
  <1>3. Cardinality(AllCoins(S) \cap Coins(e)) = 0
    BY <1>2, FS_EmptySet
  <1>4. /\ IsFiniteSet(AllCoins(S)) /\ Cardinality(AllCoins(S)) \in Nat
        /\ IsFiniteSet(Coins(e)) /\ Cardinality(Coins(e)) = Amount[e]
    BY SumType, CoinsType, FS_CardinalityType
  <1>5. Cardinality(AllCoins(S) \cup Coins(e))
            = Cardinality(AllCoins(S)) + Cardinality(Coins(e))
                - Cardinality(AllCoins(S) \cap Coins(e))
    BY <1>4, FS_Union
  <1>6. Amount[e] \in Nat
    BY EscrowAssumption
  <1>7. Cardinality(AllCoins(S \cup {e}))
            = Cardinality(AllCoins(S) \cup Coins(e))
    BY <1>1, Zenon
  <1>8. Cardinality(AllCoins(S \cup {e})) = Cardinality(AllCoins(S)) + Amount[e]
    BY <1>3, <1>4, <1>5, <1>6, <1>7
  <1>9. QED
    BY <1>8 DEF SumOf, AllCoins

\* One escrow less takes its amount away.
LEMMA SumRemoves ==
    ASSUME NEW S \in SUBSET EscrowId, NEW e \in S
    PROVE  SumOf(S \ {e}) = SumOf(S) - Amount[e]
  <1>1. (S \ {e}) \cup {e} = S /\ e \in EscrowId \ (S \ {e})
    OBVIOUS
  <1>2. SumOf((S \ {e}) \cup {e}) = SumOf(S \ {e}) + Amount[e]
    BY <1>1, SumAdds
  <1>4. SumOf((S \ {e}) \cup {e}) = SumOf(S)
    BY <1>1, Zenon
  <1>3. SumOf(S \ {e}) \in Nat /\ Amount[e] \in Nat
    BY SumType, EscrowAssumption
  <1>5. QED
    BY <1>2, <1>3, <1>4

-----------------------------------------------------------------------------
LEMMA InitBooksInv == Init => BooksInv
  <1> SUFFICES ASSUME Init PROVE BooksInv
    OBVIOUS
  <1>1. \A p \in Process : op[p] = "none" /\ at[p] = "idle"
    BY DEF Init
  <1>2. \A e \in EscrowId : RowOK(e)
    BY DEF Init, RowOK
  <1>3. ASSUME NEW u \in User PROVE UserOK(u)
    <2>1. PaidOut(u) = {} /\ PaidIn(u) = {}
      BY <1>1 DEF Init, PaidOut, PaidIn, Taken, Holding
    <2>2. \A p \in Process : ~Writing(p, u)
      BY DEF Init, Writing
    <2>3. SumOf(PaidOut(u)) = 0 /\ SumOf(PaidIn(u)) = 0
      BY <2>1, SumOfNone, Zenon
    <2>4. Books(u)
      BY <2>3, EscrowAssumption DEF Init, Books
    <2>5. QED
      BY <2>2, <2>4 DEF UserOK, OneWriter, SeenCurrent
  <1>4. QED
    BY <1>1, <1>2, <1>3, InitEscrowInv DEF BooksInv, BooksKept, ShapeOK

-----------------------------------------------------------------------------
\* What every step of p has in common, for its process and for the table.
ProcessMoves(p) ==
    /\ OthersKeep(p) /\ \A q \in Process \ {p} : seen'[q] = seen[q]
    /\ at'[p] \in {"write", "mark", "undo"} =>
          Working(p) \/ at[p] = "row"
    /\ at'[p] \in {"write", "mark", "undo"} =>
          op'[p] = op[p] /\ escrow'[p] = escrow[p]
    /\ ShapeOK(p)'

HarmSpreads ==
    /\ disturbed \subseteq disturbed'
    /\ \A e \in EscrowId : e \in disturbed' =>
          e \in disturbed \/ (Payer[e] \in disturbed' /\ Payee[e] \in disturbed')

LEMMA FinishMoves ==
    ASSUME BooksInv, NEW p \in Process, Finish(p) \/ Leave(p)
    PROVE  /\ ProcessMoves(p)
           /\ at'[p] \in {"idle", "balance"} /\ op'[p] # "hold"
  <1>1. TypeOK
    BY DEF BooksInv, BooksKept, EscrowInv, Base
  <1>2. CASE Leave(p)
    BY <1>1, <1>2 DEF Leave, TypeOK, ProcessMoves, OthersKeep, ShapeOK
  <1>3. CASE Finish(p) /\ ~Leave(p)
    <2>1. PICK e \in todo[p] :
            /\ op' = [op EXCEPT ![p] = "sweep"]
            /\ at' = [at EXCEPT ![p] = "balance"]
            /\ escrow' = [escrow EXCEPT ![p] = e]
            /\ todo' = [todo EXCEPT ![p] = todo[p] \ {e}]
            /\ seen' = [seen EXCEPT ![p] = 0]
            /\ moved' = [moved EXCEPT ![p] = FALSE]
      BY <1>3 DEF Finish, TakeUp
    <2>2. QED
      BY <1>1, <2>1 DEF TypeOK, ProcessMoves, OthersKeep, ShapeOK
  <1>4. QED
    BY <1>2, <1>3

LEMMA GotoMoves ==
    ASSUME BooksInv, NEW p \in Process, NEW step \in {"balance", "mark", "undo"},
           Goto(p, step),
           Working(p) \/ at[p] = "row",
           step = "balance" => op[p] # "dispute",
           step = "mark" => op[p] # "hold",
           step = "undo" => op[p] = "hold" /\ at[p] = "mark"
    PROVE  /\ ProcessMoves(p)
           /\ at'[p] = step /\ op'[p] = op[p] /\ escrow'[p] = escrow[p]
           /\ seen'[p] = seen[p]
  BY DEF BooksInv, BooksKept, EscrowInv, Base, TypeOK, Goto, ProcessMoves, OthersKeep,
         ShapeOK

LEMMA HarmSpreadsOver ==
    ASSUME BooksInv, NEW S \in SUBSET EscrowId, Harm(S) PROVE HarmSpreads
  <1>1. \A e \in EscrowId : Payer[e] \in User /\ Payee[e] \in User
    BY EscrowAssumption
  <1>2. \A e \in S : Payer[e] \in Parties(S) /\ Payee[e] \in Parties(S)
    BY DEF Parties
  <1>3. Parties(S) \cap EscrowId = {}
    BY <1>1, EscrowAssumption DEF Parties
  <1>4. QED
    BY <1>2, <1>3 DEF Harm, HarmSpreads

LEMMA NoHarm == ASSUME disturbed' = disturbed PROVE HarmSpreads
  BY DEF HarmSpreads

\* A party of an escrow that is harmed is disturbed.
LEMMA PartiesHarmed ==
    ASSUME NEW e \in EscrowId, Harm({e})
    PROVE  e \in disturbed' /\ Payer[e] \in disturbed' /\ Payee[e] \in disturbed'
  BY DEF Harm, Parties

TableMoves(p) ==
    /\ \A e \in EscrowId \ {escrow[p]} : SameRow(e)
    /\ \A u \in User \ {TargetOf(p)} : balance'[u] = balance[u]
    /\ RowsStay
    /\ at[p] # "mark" => status'[escrow[p]] = status[escrow[p]]

LEMMA RowsKept ==
    ASSUME BooksInv, NEW p \in Process,
           ProcessMoves(p), TableMoves(p), HarmSpreads,
           op'[p] = "hold" /\ ~Idle(p)' =>
               escrow'[p] \in disturbed' \/ status'[escrow'[p]] = "none"
    PROVE  \A e \in EscrowId : RowOK(e)'
  <1> SUFFICES ASSUME NEW e \in EscrowId PROVE RowOK(e)'
    OBVIOUS
  <1>0. RowOK(e)
    BY DEF BooksInv, BooksKept
  <1>1. CASE e \in disturbed'
    BY <1>0, <1>1 DEF RowOK, HarmSpreads
  <1>2. CASE e \notin disturbed'
    <2>1. e \notin disturbed
      BY <1>2 DEF HarmSpreads
    <2> SUFFICES ASSUME NEW q \in Process,
                        op'[q] = "hold", ~Idle(q)', escrow'[q] = e
                 PROVE  status'[e] = "none"
      BY <1>2 DEF RowOK
    <2>2. CASE q = p
      BY <1>2, <2>2
    <2>3. CASE q # p
      <3>1. op[q] = "hold" /\ ~Idle(q) /\ escrow[q] = e /\ at[q] \in Step
        BY <2>3 DEF ProcessMoves, OthersKeep, Idle, BooksInv, BooksKept, EscrowInv, Base,
                    TypeOK
      <3>2. status[e] = "none"
        BY <1>0, <2>1, <3>1 DEF RowOK
      <3>3. e \in Window(q)
        BY <3>1 DEF BooksInv, BooksKept, ShapeOK, Window, Step, Idle
      <3>4. ~(escrow[p] = e /\ at[p] = "mark")
        <4> SUFFICES ASSUME escrow[p] = e, at[p] = "mark" PROVE FALSE
          OBVIOUS
        <4>1. e \in Window(p)
          BY DEF Window
        <4>2. QED
          BY <2>1, <2>3, <3>3, <4>1 DEF BooksInv, BooksKept, EscrowInv, EscrowOK
      <3>5. status'[e] = status[e]
        BY <3>4 DEF TableMoves, SameRow
      <3>6. QED
        BY <3>2, <3>5
    <2>4. QED
      BY <2>2, <2>3
  <1>3. QED
    BY <1>1, <1>2

\* A user for whom the step changes nothing.
LEMMA Untouched ==
    ASSUME BooksInv, NEW p \in Process, ProcessMoves(p), HarmSpreads,
           NEW u \in User \ disturbed', balance'[u] = balance[u],
           \A e \in EscrowId :
               /\ Payer[e] = u => /\ returned'[e] = returned[e]
                                  /\ Taken(e)' <=> Taken(e)
               /\ Payee[e] = u => released'[e] = released[e],
           Writing(p, u)' => /\ Writing(p, u) /\ seen'[p] = seen[p]
                             /\ Lowered(p)' = Lowered(p)
    PROVE  UserOK(u)'
  <1>1. UserOK(u)
    BY DEF BooksInv, BooksKept, HarmSpreads
  <1>2. ASSUME NEW q \in Process, Writing(q, u)'
        PROVE  /\ Writing(q, u) /\ seen'[q] = seen[q]
               /\ Lowered(q)' = Lowered(q)
    <2>1. CASE q # p
      BY <1>2, <2>1
      DEF ProcessMoves, OthersKeep, Writing, TargetOf, Lowered
    <2>2. QED
      BY <1>2, <2>1
  <1>3. PaidOut(u)' = PaidOut(u) /\ PaidIn(u)' = PaidIn(u)
    BY DEF PaidOut, PaidIn
  <1>4. OneWriter(u)' /\ SeenCurrent(u)'
    BY <1>1, <1>2 DEF UserOK, OneWriter, SeenCurrent
  <1>5. SumOf(PaidOut(u)') = SumOf(PaidOut(u))
        /\ SumOf(PaidIn(u)') = SumOf(PaidIn(u))
    BY <1>3, Zenon
  <1>6. Books(u)'
    BY <1>1, <1>5 DEF UserOK, Books
  <1>7. QED
    BY <1>4, <1>6 DEF UserOK

\* What others hold stays held.
LEMMA TakenBy ==
    ASSUME NEW p \in Process, ProcessMoves(p), NEW e \in EscrowId
    PROVE  Taken(e)' <=> \/ status'[e] # "none" \/ Holding(p, e)'
                         \/ \E q \in Process \ {p} : Holding(q, e)
  BY DEF Taken, Holding, ProcessMoves, OthersKeep

\* A user who is no party of the escrow that p works on.
LEMMA Unconcerned ==
    ASSUME BooksInv, NEW p \in Process,
           ProcessMoves(p), TableMoves(p), HarmSpreads,
           NEW u \in User \ disturbed', u \notin {Payer[escrow[p]], Payee[escrow[p]]}
    PROVE  UserOK(u)'
  <1>1. TargetOf(p) # u /\ ~Writing(p, u)
    BY DEF TargetOf, Target, Writing
  <1>2. ~Writing(p, u)'
    BY <1>1 DEF ProcessMoves, Writing, TargetOf, Target
  <1>3. ASSUME NEW e \in EscrowId, u \in {Payer[e], Payee[e]}
        PROVE  /\ released'[e] = released[e] /\ returned'[e] = returned[e]
               /\ Taken(e)' <=> Taken(e)
    <2>1. escrow[p] # e /\ ~Holding(p, e)
      BY <1>3 DEF Holding
    <2>2. ~Holding(p, e)'
      BY <2>1 DEF Holding, ProcessMoves
    <2>3. SameRow(e)
      BY <2>1 DEF TableMoves
    <2>4. Taken(e)' <=> Taken(e)
      BY <2>1, <2>2, <2>3, TakenBy DEF Taken, SameRow
    <2>5. QED
      BY <2>3, <2>4 DEF SameRow
  <1>4. balance'[u] = balance[u]
    BY <1>1 DEF TableMoves
  <1>5. QED
    BY <1>2, <1>3, <1>4, Untouched

\* A step without effect on balances and on what is taken.
LEMMA Quiet ==
    ASSUME BooksInv, NEW p \in Process, ProcessMoves(p), TableMoves(p), HarmSpreads,
           UNCHANGED <<balance, released, returned>>,
           \A e \in EscrowId : RowOK(e)',
           NEW h \in EscrowId, h = escrow[p],
           h \in disturbed' \/ (Taken(h)' <=> Taken(h)),
           NEW u \in User \ disturbed',
           Writing(p, u)' => /\ Writing(p, u) /\ seen'[p] = seen[p]
                             /\ Lowered(p)' = Lowered(p)
    PROVE  UserOK(u)'
  <1>1. CASE u \in {Payer[escrow[p]], Payee[escrow[p]]}
    <2>1. h \notin disturbed'
      BY <1>1 DEF RowOK
    <2>2. ASSUME NEW e \in EscrowId PROVE Taken(e)' <=> Taken(e)
      <3>1. CASE e = h
        BY <2>1, <3>1
      <3>2. CASE e # h
        <4>1. ~Holding(p, e) /\ ~Holding(p, e)' /\ status'[e] = status[e]
          BY <3>2 DEF Holding, ProcessMoves, TableMoves, SameRow
        <4>2. QED
          BY <4>1, TakenBy DEF Taken
      <3>3. QED
        BY <3>1, <3>2
    <2>3. QED
      BY <2>2, Untouched
  <1>2. CASE u \notin {Payer[escrow[p]], Payee[escrow[p]]}
    BY <1>2, Unconcerned
  <1>3. QED
    BY <1>1, <1>2

\* A quiet step that leaves p with no balance to write.
LEMMA QuietEnds ==
    ASSUME BooksInv, NEW p \in Process, ProcessMoves(p), TableMoves(p), HarmSpreads,
           UNCHANGED <<balance, released, returned>>,
           at'[p] \notin {"write", "undo"},
           at'[p] = "mark" => op'[p] # "hold",
           op'[p] = "hold" => status'[escrow'[p]] = "none",
           \/ escrow[p] \in disturbed'
           \/ /\ status'[escrow[p]] = status[escrow[p]]
              /\ ~(op[p] = "hold" /\ at[p] \in {"mark", "undo"})
           \/ at[p] = "mark" /\ status'[escrow[p]] # "none"
    PROVE  BooksKept'
  <1>1. \A q \in Process : ShapeOK(q)'
    BY DEF BooksInv, BooksKept, ProcessMoves, OthersKeep, ShapeOK
  <1>2. \A e \in EscrowId : RowOK(e)'
    BY RowsKept
  <1>3. PICK h \in EscrowId : h = escrow[p]
    BY DEF BooksInv, EscrowInv, Base, TypeOK
  <1>4. h \in disturbed' \/ (Taken(h)' <=> Taken(h))
    <2>1. ~Holding(p, h)'
      BY DEF Holding
    <2>2. CASE status'[h] = status[h] /\ ~Holding(p, h)
      BY <2>1, <2>2, TakenBy DEF Taken
    <2>3. CASE at[p] = "mark" /\ status'[h] # "none"
      <3>1. Holding(p, h) \/ status[h] # "none"
        BY <1>3, <2>3
        DEF Holding, BooksInv, EscrowInv, Base, ProcessOK, Idle
      <3>2. QED
        BY <2>3, <3>1, TakenBy DEF Taken
    <2>4. QED
      BY <1>3, <2>2, <2>3 DEF Holding
  <1>5. \A u : ~Writing(p, u)'
    BY DEF Writing
  <1>6. \A u \in User \ disturbed' : UserOK(u)'
    BY <1>2, <1>3, <1>4, <1>5, Quiet
  <1>7. QED
    BY <1>1, <1>2, <1>6 DEF BooksKept

LEMMA SameTable ==
    ASSUME NEW p \in Process, UNCHANGED <<balance, status, released, returned>>
    PROVE  TableMoves(p)
  BY DEF TableMoves, SameRow, RowsStay

LEMMA BeginHoldBooks ==
    ASSUME BooksInv, NEW p \in Process, NEW e \in EscrowId, BeginHold(p, e)
    PROVE  BooksKept'
  <1>1. /\ ProcessMoves(p) /\ at'[p] = "balance" /\ escrow'[p] = e
        /\ at[p] = "idle" /\ status[e] = "none"
    BY DEF BeginHold, Begin, BooksInv, EscrowInv, Base, TypeOK, ProcessMoves,
           OthersKeep, ShapeOK, Idle
  <1>2. UNCHANGED <<balance, status, released, returned, disturbed>>
    BY DEF BeginHold, Begin, table, history
  <1>3. QED
    BY <1>1, <1>2, SameTable, NoHarm, QuietEnds

LEMMA BeginOnRowBooks ==
    ASSUME BooksInv, NEW p \in Process, NEW e \in EscrowId, NEW k \in Operation,
           BeginOnRow(p, k, e)
    PROVE  BooksKept'
  <1>1. /\ ProcessMoves(p) /\ at'[p] = "row" /\ op'[p] # "hold"
        /\ at[p] = "idle"
    BY DEF BeginOnRow, Begin, BooksInv, EscrowInv, Base, TypeOK, ProcessMoves,
           OthersKeep, ShapeOK, Idle
  <1>2. UNCHANGED <<balance, status, released, returned, disturbed>>
    BY DEF BeginOnRow, Begin, table, history
  <1>3. QED
    BY <1>1, <1>2, SameTable, NoHarm, QuietEnds

LEMMA Harms ==
    ASSUME BooksInv, NEW p \in Process,
           \/ disturbed' = disturbed
           \/ Harm({escrow[p]})
           \/ \E S \in SUBSET EscrowId : Harm(Overlaps(p, S))
    PROVE  HarmSpreads
  <1>1. {escrow[p]} \in SUBSET EscrowId
        /\ \A S \in SUBSET EscrowId : Overlaps(p, S) \in SUBSET EscrowId
    BY Targets DEF BooksInv, EscrowInv
  <1>2. QED
    BY <1>1, NoHarm, HarmSpreadsOver

LEMMA SweepBooks ==
    ASSUME BooksInv, NEW p \in Process, NEW S \in SUBSET EscrowId, Sweep(p, S)
    PROVE  BooksKept'
  <1>1. PICK e \in S :
            /\ op' = [op EXCEPT ![p] = "sweep"]
            /\ at' = [at EXCEPT ![p] = "balance"]
            /\ escrow' = [escrow EXCEPT ![p] = e]
            /\ todo' = [todo EXCEPT ![p] = S \ {e}]
            /\ seen' = [seen EXCEPT ![p] = 0]
            /\ moved' = [moved EXCEPT ![p] = FALSE]
    BY DEF Sweep, TakeUp
  <1>2. ProcessMoves(p) /\ at'[p] = "balance" /\ op'[p] = "sweep"
    BY <1>1 DEF BooksInv, EscrowInv, Base, TypeOK, ProcessMoves,
                OthersKeep, ShapeOK
  <1>3. /\ UNCHANGED <<balance, status, released, returned>>
        /\ HarmSpreads /\ at[p] = "idle"
    BY Harms DEF Sweep, table, Idle
  <1>4. QED
    BY <1>2, <1>3, SameTable, QuietEnds

LEMMA ReadRowBooks ==
    ASSUME BooksInv, NEW p \in Process, ReadRow(p) PROVE BooksKept'
  <1>1. at[p] = "row" /\ op[p] # "hold"
    BY DEF ReadRow, BooksInv, BooksKept, ShapeOK
  <1>2. /\ ProcessMoves(p) /\ at'[p] \in {"mark", "balance"}
        /\ op'[p] = op[p]
    <2>1. CASE MovesNothing(p)
      BY <1>1, <2>1, GotoMoves DEF ReadRow
    <2>2. CASE ~MovesNothing(p)
      BY <1>1, <2>2, GotoMoves DEF ReadRow, MovesNothing
    <2>3. QED
      BY <2>1, <2>2
  <1>3. UNCHANGED <<balance, status, released, returned>> /\ HarmSpreads
    <2>1. {escrow[p]} \in SUBSET EscrowId
      BY Targets DEF BooksInv, EscrowInv
    <2>2. QED
      BY <2>1, Harms DEF ReadRow, table
  <1>4. QED
    BY <1>1, <1>2, <1>3, SameTable, QuietEnds

LEMMA GivesUpBooks ==
    ASSUME BooksInv, NEW p \in Process,
           Refuse(p) \/ Insufficient(p) \/ ReadBalanceFails(p) \/ WriteRejected(p)
    PROVE  BooksKept'
  <1>1. /\ at[p] \in {"row", "balance", "write"}
        /\ UNCHANGED <<balance, status, released, returned>>
    BY DEF Refuse, Insufficient, ReadBalanceFails, WriteRejected, table, history
  <1>2. HarmSpreads
    BY Harms
    DEF Refuse, Insufficient, ReadBalanceFails, WriteRejected, table, history
  <1>3. CASE Finish(p)
    BY <1>1, <1>2, <1>3, FinishMoves, SameTable, QuietEnds
  <1>4. CASE GoesOn(p) /\ Goto(p, "mark") /\ at[p] # "row"
    <2>1. op[p] # "hold" /\ Working(p)
      BY <1>1, <1>4 DEF GoesOn, Working
    <2>2. ProcessMoves(p) /\ at'[p] = "mark" /\ op'[p] = op[p]
      BY <1>4, <2>1, GotoMoves
    <2>3. QED
      BY <1>1, <1>2, <2>1, <2>2, SameTable, QuietEnds
  <1>5. QED
    BY <1>3, <1>4 DEF Refuse, Insufficient, ReadBalanceFails, WriteRejected

LEMMA CrashBooks ==
    ASSUME BooksInv, NEW p \in Process, Crash(p) PROVE BooksKept'
  <1>1. UNCHANGED <<balance, status, released, returned>> /\ HarmSpreads
    BY Harms DEF Crash, table
  <1>2. CASE moved[p]
    <2>1. escrow[p] \in disturbed'
      BY <1>2 DEF Crash, Harm
    <2>2. QED
      BY <1>1, <2>1, FinishMoves, SameTable, QuietEnds DEF Crash
  <1>3. CASE ~moved[p]
    <2>1. ~(op[p] = "hold" /\ at[p] \in {"mark", "undo"})
      BY <1>3 DEF BooksInv, BooksKept, ShapeOK
    <2>2. QED
      BY <1>1, <2>1, FinishMoves, SameTable, QuietEnds DEF Crash
  <1>4. QED
    BY <1>2, <1>3

LEMMA UndoFailsBooks ==
    ASSUME BooksInv, NEW p \in Process, UndoFails(p) PROVE BooksKept'
  <1>1. UNCHANGED <<balance, status, released, returned>> /\ HarmSpreads
    BY Harms DEF UndoFails, table
  <1>2. escrow[p] \in disturbed' /\ Finish(p)
    BY DEF UndoFails, Harm
  <1>3. QED
    BY <1>1, <1>2, FinishMoves, SameTable, QuietEnds

\* A hold whose row was not inserted, or may have been, turns back.
LEMMA TurnsBack ==
    ASSUME BooksInv, NEW p \in Process, at[p] = "mark", op[p] = "hold",
           Goto(p, "undo"), HarmSpreads, TableMoves(p),
           UNCHANGED <<balance, released, returned>>,
           escrow[p] \in disturbed' \/ status'[escrow[p]] = status[escrow[p]]
    PROVE  BooksKept'
  <1>1. /\ ProcessMoves(p)
        /\ at'[p] = "undo" /\ op'[p] = op[p] /\ escrow'[p] = escrow[p]
        /\ seen'[p] = seen[p]
    BY GotoMoves DEF Working
  <1>2. \A q \in Process : ShapeOK(q)'
    BY <1>1 DEF BooksInv, BooksKept, ProcessMoves, OthersKeep, ShapeOK
  <1>3. PICK h \in EscrowId : h = escrow[p]
    BY DEF BooksInv, EscrowInv, Base, TypeOK
  <1>4. h \in disturbed' \/ status'[h] = "none"
    <2>1. h \notin disturbed => status[h] = "none"
      BY <1>3 DEF BooksInv, BooksKept, RowOK, Idle
    <2>2. QED
      BY <1>3, <2>1 DEF HarmSpreads
  <1>5. \A e \in EscrowId : RowOK(e)'
    BY <1>1, <1>3, <1>4, RowsKept
  <1>6. Taken(h)' <=> Taken(h)
    BY <1>1, <1>3 DEF Taken, Holding
  <1>7. ASSUME NEW u \in User \ disturbed' PROVE UserOK(u)'
    <2>1. Writing(p, u)' => /\ Writing(p, u) /\ seen'[p] = seen[p]
                            /\ Lowered(p)' = Lowered(p)
      BY <1>1 DEF Writing, TargetOf, Lowered
    <2>2. QED
      BY <1>1, <1>3, <1>5, <1>6, <2>1, Quiet
  <1>8. QED
    BY <1>2, <1>5, <1>7 DEF BooksKept

LEMMA SetStatusMoves ==
    ASSUME BooksInv, NEW p \in Process, at[p] = "mark",
           Outcome(op[p]) \in Storable, SetStatus(p), balance' = balance,
           UNCHANGED <<released, returned>>
    PROVE  TableMoves(p) /\ status'[escrow[p]] # "none"
  <1>1. Base /\ op[p] \in Operation \ {"none"} /\ escrow[p] \in EscrowId
    BY DEF BooksInv, EscrowInv, Base, TypeOK, ProcessOK, Idle
  <1>2. Outcome(op[p]) # "none"
    BY <1>1 DEF Outcome, Operation
  <1>3. RowsStay
    BY <1>1, SetStatusType
  <1>4. QED
    BY <1>1, <1>2, <1>3 DEF SetStatus, TableMoves, SameRow, Base, TypeOK

LEMMA MarkBooks ==
    ASSUME BooksInv, NEW p \in Process, Mark(p) \/ MarkUnheard(p)
    PROVE  BooksKept'
  <1>1. /\ at[p] = "mark" /\ Outcome(op[p]) \in Storable /\ SetStatus(p)
        /\ UNCHANGED <<balance, released, returned>>
    BY DEF Mark, MarkUnheard, history
  <1>2. TableMoves(p) /\ status'[escrow[p]] # "none"
    BY <1>1, SetStatusMoves
  <1>3. HarmSpreads
    BY Harms DEF Mark, MarkUnheard, history
  <1>4. CASE Finish(p)
    BY <1>1, <1>2, <1>3, <1>4, FinishMoves, QuietEnds
  <1>5. CASE op[p] = "hold" /\ Goto(p, "undo") /\ Harm({escrow[p]})
    <2>1. escrow[p] \in disturbed'
      BY <1>5 DEF Harm
    <2>2. QED
      BY <1>1, <1>2, <1>3, <1>5, <2>1, TurnsBack
  <1>6. QED
    BY <1>4, <1>5 DEF Mark, MarkUnheard

LEMMA MarkFailsBooks ==
    ASSUME BooksInv, NEW p \in Process, MarkFails(p) PROVE BooksKept'
  <1>1. at[p] = "mark" /\ UNCHANGED <<balance, status, released, returned>>
    BY DEF MarkFails, MarkRejected, table
  <1>2. HarmSpreads /\ TableMoves(p)
    BY <1>1, Harms, SameTable DEF MarkFails, MarkRejected
  <1>3. CASE op[p] = "hold"
    BY <1>1, <1>2, <1>3, TurnsBack DEF MarkFails, MarkRejected
  <1>4. CASE op[p] # "hold"
    BY <1>1, <1>2, <1>4, FinishMoves, QuietEnds DEF MarkFails, MarkRejected
  <1>5. QED
    BY <1>3, <1>4

-----------------------------------------------------------------------------
\* From here on p is the one writer of an undisturbed user.
LEMMA ReadBalanceBooks ==
    ASSUME BooksInv, NEW p \in Process, ReadBalance(p) PROVE BooksKept'
  <1>1. /\ at[p] = "balance" /\ ShapeOK(p)
        /\ UNCHANGED <<balance, status, released, returned>>
    BY DEF ReadBalance, table, BooksInv, BooksKept
  <1>2. /\ ProcessMoves(p) /\ at'[p] = "write"
        /\ op'[p] = op[p] /\ escrow'[p] = escrow[p]
        /\ seen'[p] = balance[TargetOf(p)]
    BY <1>1 DEF ReadBalance, BooksInv, EscrowInv, Base, TypeOK, ProcessMoves,
                OthersKeep, ShapeOK, Working
  <1>3. HarmSpreads
    <2>1. TargetOf(p) \in User
      BY Targets DEF BooksInv, EscrowInv
    <2>2. disturbed \subseteq disturbed'
          /\ \A x \in disturbed' \ disturbed : x \in User
      BY <2>1 DEF ReadBalance
    <2>3. QED
      BY <2>2, EscrowAssumption DEF HarmSpreads
  <1>4. TableMoves(p)
    BY <1>1, SameTable
  <1>5. PICK h \in EscrowId : h = escrow[p]
    BY DEF BooksInv, EscrowInv, Base, TypeOK
  <1>6. op[p] = "hold" => h \in disturbed' \/ status'[h] = "none"
    BY <1>1, <1>3, <1>5
    DEF BooksInv, BooksKept, RowOK, Idle, HarmSpreads
  <1>7. \A e \in EscrowId : RowOK(e)'
    BY <1>2, <1>3, <1>4, <1>5, <1>6, RowsKept
  <1>8. \A q \in Process : ShapeOK(q)'
    BY <1>2 DEF BooksInv, BooksKept, ProcessMoves, OthersKeep, ShapeOK
  <1>9. \A e \in EscrowId : Taken(e)' <=> Taken(e)
    <2> SUFFICES ASSUME NEW e \in EscrowId PROVE Taken(e)' <=> Taken(e)
      OBVIOUS
    <2>1. ~Holding(p, e) /\ ~Holding(p, e)'
      BY <1>1, <1>2 DEF Holding
    <2>2. QED
      BY <1>1, <1>2, <2>1, TakenBy DEF Taken
  <1>10. ASSUME NEW u \in User \ disturbed' PROVE UserOK(u)'
    <2>1. CASE u # TargetOf(p)
      <3>1. ~Writing(p, u)'
        BY <1>2, <2>1 DEF Writing, TargetOf
      <3>2. QED
        BY <1>1, <1>2, <1>3, <1>9, <3>1, Untouched
    <2>2. CASE u = TargetOf(p)
      <3>1. \A q \in Process \ {p} : ~Writing(q, u)
        BY <2>2 DEF ReadBalance
      <3>2. \A q \in Process \ {p} : ~Writing(q, u)'
        BY <1>2, <3>1 DEF ProcessMoves, OthersKeep, Writing, TargetOf
      <3>3. SeenCurrent(u)' /\ OneWriter(u)'
        <4>1. balance[u] \in Nat
          BY DEF BooksInv, EscrowInv, Base, TypeOK
        <4>2. seen'[p] = balance'[u] + Lowered(p)'
          BY <1>1, <1>2, <2>2, <4>1 DEF Lowered
        <4>3. QED
          BY <3>2, <4>2 DEF SeenCurrent, OneWriter
      <3>4. UserOK(u)
        BY <1>3 DEF HarmSpreads, BooksInv, BooksKept
      <3>5. PaidOut(u)' = PaidOut(u) /\ PaidIn(u)' = PaidIn(u)
        BY <1>1, <1>9 DEF PaidOut, PaidIn
      <3>6. SumOf(PaidOut(u)') = SumOf(PaidOut(u))
            /\ SumOf(PaidIn(u)') = SumOf(PaidIn(u))
        BY <3>5, Zenon
      <3>7. Books(u)'
        BY <1>1, <3>4, <3>6 DEF UserOK, Books
      <3>8. QED
        BY <3>3, <3>7 DEF UserOK
    <2>3. QED
      BY <2>1, <2>2
  <1>11. QED
    BY <1>7, <1>8, <1>10 DEF BooksKept

\* The one writer of u writes, and says why the books still balance.
LEMMA WriterKeeps ==
    ASSUME BooksInv, NEW p \in Process, ProcessMoves(p), HarmSpreads,
           NEW u \in User \ disturbed', Writing(p, u), Books(u)',
           Writing(p, u)' => seen'[p] = balance'[u] + Lowered(p)'
    PROVE  UserOK(u)'
  <1>1. UserOK(u)
    BY DEF BooksInv, BooksKept, HarmSpreads
  <1>2. \A q \in Process \ {p} : ~Writing(q, u)
    BY <1>1 DEF UserOK, OneWriter
  <1>3. \A q \in Process \ {p} : ~Writing(q, u)'
    BY <1>2 DEF ProcessMoves, OthersKeep, Writing, TargetOf
  <1>4. QED
    BY <1>3 DEF UserOK, OneWriter, SeenCurrent

\* The books with one escrow more or less on either side.
LEMMA BooksChange ==
    ASSUME NEW u \in User, Books(u), balance[u] \in Nat, NEW e \in EscrowId,
           \/ /\ balance'[u] = balance[u] - Amount[e]
              /\ e \notin PaidOut(u) /\ PaidOut(u)' = PaidOut(u) \cup {e}
              /\ PaidIn(u)' = PaidIn(u)
           \/ /\ balance'[u] = balance[u] + Amount[e]
              /\ e \in PaidOut(u) /\ PaidOut(u)' = PaidOut(u) \ {e}
              /\ PaidIn(u)' = PaidIn(u)
           \/ /\ balance'[u] = balance[u] + Amount[e]
              /\ e \notin PaidIn(u) /\ PaidIn(u)' = PaidIn(u) \cup {e}
              /\ PaidOut(u)' = PaidOut(u)
    PROVE  Books(u)'
  <1>1. PaidOut(u) \in SUBSET EscrowId /\ PaidIn(u) \in SUBSET EscrowId
    BY DEF PaidOut, PaidIn
  <1>2. /\ SumOf(PaidOut(u)) \in Nat /\ SumOf(PaidIn(u)) \in Nat
        /\ Amount[e] \in Nat /\ StartBalance \in Nat
    BY <1>1, SumType, EscrowAssumption
  <1>3. CASE /\ balance'[u] = balance[u] - Amount[e]
             /\ e \notin PaidOut(u) /\ PaidOut(u)' = PaidOut(u) \cup {e}
             /\ PaidIn(u)' = PaidIn(u)
    <2>1. SumOf(PaidOut(u) \cup {e}) = SumOf(PaidOut(u)) + Amount[e]
      BY <1>1, <1>3, SumAdds
    <2>2. SumOf(PaidOut(u)') = SumOf(PaidOut(u) \cup {e})
          /\ SumOf(PaidIn(u)') = SumOf(PaidIn(u))
      BY <1>3, Zenon
    <2>3. balance'[u] = balance[u] - Amount[e]
      BY <1>3
    <2>4. QED
      BY <1>2, <2>1, <2>2, <2>3 DEF Books
  <1>4. CASE /\ balance'[u] = balance[u] + Amount[e]
             /\ e \in PaidOut(u) /\ PaidOut(u)' = PaidOut(u) \ {e}
             /\ PaidIn(u)' = PaidIn(u)
    <2>1. SumOf(PaidOut(u) \ {e}) = SumOf(PaidOut(u)) - Amount[e]
      BY <1>1, <1>4, SumRemoves
    <2>2. SumOf(PaidOut(u)') = SumOf(PaidOut(u) \ {e})
          /\ SumOf(PaidIn(u)') = SumOf(PaidIn(u))
      BY <1>4, Zenon
    <2>3. balance'[u] = balance[u] + Amount[e]
      BY <1>4
    <2>4. QED
      BY <1>2, <2>1, <2>2, <2>3 DEF Books
  <1>5. CASE /\ balance'[u] = balance[u] + Amount[e]
             /\ e \notin PaidIn(u) /\ PaidIn(u)' = PaidIn(u) \cup {e}
             /\ PaidOut(u)' = PaidOut(u)
    <2>1. SumOf(PaidIn(u) \cup {e}) = SumOf(PaidIn(u)) + Amount[e]
      BY <1>1, <1>5, SumAdds
    <2>2. SumOf(PaidIn(u)') = SumOf(PaidIn(u) \cup {e})
          /\ SumOf(PaidOut(u)') = SumOf(PaidOut(u))
      BY <1>5, Zenon
    <2>3. balance'[u] = balance[u] + Amount[e]
      BY <1>5
    <2>4. QED
      BY <1>2, <2>1, <2>2, <2>3 DEF Books
  <1>6. QED
    BY <1>3, <1>4, <1>5

\* What is known of an undisturbed escrow that p is at work on.
LEMMA AtWork ==
    ASSUME BooksInv, NEW p \in Process, NEW e \in EscrowId \ disturbed,
           e = escrow[p], Working(p), ~Paying(p)
    PROVE  /\ Unpaid(e)
           /\ op[p] = "hold" => status[e] = "none"
           /\ op[p] # "hold" => status[e] # "none"
           /\ \A q \in Process \ {p} : ~Holding(q, e)
  <1>1. EscrowOK(e) /\ RowOK(e) /\ ProcessOK(p)
    BY DEF BooksInv, BooksKept, EscrowInv, Base
  <1>2. e \in Window(p)
    BY DEF Working, Window
  <1>3. Unpaid(e) /\ \A q \in Process \ {p} : e \notin Window(q)
    BY <1>1, <1>2 DEF EscrowOK, Progress
  <1>4. \A q \in Process \ {p} : ~Holding(q, e)
    BY <1>3 DEF Holding, Window
  <1>5. QED
    BY <1>1, <1>3, <1>4 DEF RowOK, ProcessOK, Working, Idle

LEMMA PaysBooks ==
    ASSUME BooksInv, NEW p \in Process, at[p] = "write", Apply(p), GoOnPaid(p),
           disturbed' = disturbed
    PROVE  BooksKept'
  <1>0. TypeOK /\ ShapeOK(p) /\ ProcessOK(p)
    BY DEF BooksInv, BooksKept, EscrowInv, Base
  <1>1. PICK e \in EscrowId : e = escrow[p]
    BY <1>0 DEF TypeOK
  <1>2. /\ ProcessMoves(p) /\ at'[p] = "mark"
        /\ op'[p] = op[p] /\ escrow'[p] = escrow[p] /\ seen'[p] = seen[p]
    BY <1>0 DEF GoOnPaid, TypeOK, ProcessMoves, OthersKeep, ShapeOK, Working
  <1>3. /\ HarmSpreads /\ status' = status /\ TableMoves(p)
    BY <1>0, NoHarm DEF Apply, TableMoves, SameRow, RowsStay, TypeOK
  <1>4. op[p] = "hold" => e \in disturbed' \/ status'[e] = "none"
    BY <1>1, <1>3 DEF BooksInv, BooksKept, RowOK, Idle
  <1>5. \A d \in EscrowId : RowOK(d)'
    BY <1>1, <1>2, <1>3, <1>4, RowsKept
  <1>6. \A q \in Process : ShapeOK(q)'
    BY <1>2 DEF BooksInv, BooksKept, ProcessMoves, OthersKeep, ShapeOK
  <1>7. op[p] \in {"hold", "release", "refund", "cancel", "sweep"}
    BY <1>0 DEF TypeOK, Operation, ShapeOK, ProcessOK, Idle
  <1>8. \A d \in EscrowId : d # e => (Taken(d)' <=> Taken(d))
    BY <1>1, <1>2, <1>3, TakenBy DEF Taken, Holding
  <1>9. ASSUME NEW u \in User \ disturbed', u \in {Payer[e], Payee[e]}
        PROVE  UserOK(u)'
    <2>1. e \notin disturbed /\ Payer[e] # Payee[e]
      BY <1>9, EscrowAssumption DEF BooksInv, BooksKept, RowOK
    <2>2. /\ Unpaid(e)
          /\ op[p] = "hold" => status[e] = "none"
          /\ op[p] # "hold" => status[e] # "none"
          /\ \A q \in Process \ {p} : ~Holding(q, e)
      BY <1>1, <2>1, AtWork DEF Working, Paying
    <2>3. /\ ~Holding(p, e)
          /\ Taken(e)' <=> (op[p] = "hold" \/ Taken(e))
          /\ Taken(e) <=> op[p] # "hold"
      BY <1>1, <1>2, <1>3, <2>2, TakenBy DEF Holding, Taken
    <2>4. /\ \A d \in EscrowId : d # e =>
                released'[d] = released[d] /\ returned'[d] = returned[d]
          /\ released'[e] = (IF op[p] = "release" THEN 1 ELSE 0)
          /\ returned'[e] = (IF op[p] \in {"refund", "cancel", "sweep"}
                             THEN 1 ELSE 0)
      BY <1>0, <1>1, <2>2 DEF Apply, TypeOK, Unpaid
    <2>5. CASE u # TargetOf(p)
      <3>1. ~Writing(p, u)' /\ balance'[u] = balance[u]
        BY <1>2, <1>3, <2>5 DEF Writing, TargetOf, TableMoves
      <3>2. ASSUME NEW d \in EscrowId
            PROVE  /\ Payer[d] = u => /\ returned'[d] = returned[d]
                                      /\ Taken(d)' <=> Taken(d)
                   /\ Payee[d] = u => released'[d] = released[d]
        <4>1. CASE d # e
          BY <1>8, <2>4, <4>1
        <4>2. CASE d = e
          BY <1>1, <1>7, <2>2, <2>3, <2>4, <2>5, <4>2 DEF TargetOf, Target, Unpaid
        <4>3. QED
          BY <4>1, <4>2
      <3>3. QED
        BY <1>2, <1>3, <3>1, <3>2, Untouched
    <2>6. CASE u = TargetOf(p)
      <3>1. Writing(p, u) /\ UserOK(u) /\ balance[u] \in Nat
        BY <1>0, <1>3, <2>6
        DEF Writing, BooksInv, BooksKept, HarmSpreads, TypeOK
      <3>2. Amount[e] \in Nat
        BY EscrowAssumption
      <3>3. seen[p] = balance[u]
        BY <3>1 DEF UserOK, SeenCurrent, Lowered
      <3>4. balance'[u] = IF op[p] = "hold" THEN balance[u] - Amount[e]
                                            ELSE balance[u] + Amount[e]
        BY <1>0, <1>1, <2>6, <3>3 DEF Apply, NewBalance, TypeOK
      <3>5. Books(u)'
        <4>1. CASE op[p] = "hold"
          <5>1. Payer[e] = u
            BY <1>1, <2>6, <4>1 DEF TargetOf, Target
          <5>2. e \notin PaidOut(u) /\ PaidOut(u)' = PaidOut(u) \cup {e}
            BY <1>8, <2>2, <2>3, <2>4, <4>1, <5>1 DEF PaidOut, Unpaid
          <5>3. PaidIn(u)' = PaidIn(u)
            BY <2>2, <2>4, <4>1 DEF PaidIn, Unpaid
          <5>4. QED
            BY <3>1, <3>4, <4>1, <5>2, <5>3, BooksChange DEF UserOK
        <4>2. CASE op[p] = "release"
          <5>1. Payee[e] = u
            BY <1>1, <2>6, <4>2 DEF TargetOf, Target
          <5>2. e \notin PaidIn(u) /\ PaidIn(u)' = PaidIn(u) \cup {e}
            BY <2>2, <2>4, <4>2, <5>1 DEF PaidIn, Unpaid
          <5>3. PaidOut(u)' = PaidOut(u)
            BY <1>8, <2>2, <2>3, <2>4, <4>2 DEF PaidOut, Unpaid
          <5>4. QED
            BY <3>1, <3>4, <4>2, <5>2, <5>3, BooksChange DEF UserOK
        <4>3. CASE op[p] \in {"refund", "cancel", "sweep"}
          <5>1. Payer[e] = u
            BY <1>1, <2>6, <4>3 DEF TargetOf, Target
          <5>2. e \in PaidOut(u) /\ PaidOut(u)' = PaidOut(u) \ {e}
            BY <1>8, <2>2, <2>3, <2>4, <4>3, <5>1 DEF PaidOut, Unpaid
          <5>3. PaidIn(u)' = PaidIn(u)
            BY <2>2, <2>4, <4>3 DEF PaidIn, Unpaid
          <5>4. QED
            BY <3>1, <3>4, <4>3, <5>2, <5>3, BooksChange DEF UserOK
        <4>4. QED
          BY <1>7, <4>1, <4>2, <4>3
      <3>6. Writing(p, u)' => seen'[p] = balance'[u] + Lowered(p)'
        BY <1>1, <1>2, <3>1, <3>2, <3>3, <3>4 DEF Writing, Lowered
      <3>7. QED
        BY <1>2, <1>3, <3>1, <3>5, <3>6, WriterKeeps
    <2>7. QED
      BY <2>5, <2>6
  <1>10. \A u \in User \ disturbed' : UserOK(u)'
    BY <1>1, <1>2, <1>3, <1>9, Unconcerned
  <1>11. QED
    BY <1>5, <1>6, <1>10 DEF BooksKept

LEMMA WriteBooks ==
    ASSUME BooksInv, NEW p \in Process, WriteBalance(p) \/ WriteUnheard(p)
    PROVE  BooksKept'
  <1>1. CASE GoOnPaid(p) /\ UNCHANGED disturbed
    BY <1>1, PaysBooks DEF WriteBalance, WriteUnheard
  <1>2. CASE Finish(p) /\ Harm({escrow[p]}) /\ at[p] = "write" /\ Apply(p)
    <2>1. /\ ProcessMoves(p) /\ at'[p] \in {"idle", "balance"}
          /\ op'[p] # "hold"
      BY <1>2, FinishMoves
    <2>2. HarmSpreads
      BY <1>2, Harms
    <2>3. TableMoves(p) /\ escrow[p] \in EscrowId
      BY <1>2 DEF BooksInv, EscrowInv, Base, TypeOK, Apply, TableMoves, SameRow,
                  RowsStay
    <2>4. \A d \in EscrowId : RowOK(d)'
      BY <2>1, <2>2, <2>3, RowsKept
    <2>5. \A q \in Process : ShapeOK(q)'
      BY <2>1 DEF BooksInv, BooksKept, ProcessMoves, OthersKeep, ShapeOK
    <2>6. \A u \in User \ disturbed' : u \notin {Payer[escrow[p]], Payee[escrow[p]]}
      BY <1>2, <2>3, PartiesHarmed
    <2>7. \A u \in User \ disturbed' : UserOK(u)'
      BY <2>1, <2>2, <2>3, <2>6, Unconcerned
    <2>8. QED
      BY <2>4, <2>5, <2>7 DEF BooksKept
  <1>3. QED
    BY <1>1, <1>2 DEF WriteBalance, WriteUnheard

LEMMA UndoBooks ==
    ASSUME BooksInv, NEW p \in Process, Undo(p) PROVE BooksKept'
  <1>0. TypeOK /\ ShapeOK(p) /\ at[p] = "undo" /\ op[p] = "hold"
    BY DEF BooksInv, BooksKept, EscrowInv, Base, Undo, ShapeOK
  <1>1. PICK e \in EscrowId : e = escrow[p]
    BY <1>0 DEF TypeOK
  <1>2. /\ ProcessMoves(p) /\ at'[p] \in {"idle", "balance"}
        /\ op'[p] # "hold"
    BY FinishMoves DEF Undo
  <1>3. /\ HarmSpreads /\ UNCHANGED <<status, released, returned>>
        /\ TableMoves(p)
    BY <1>0, NoHarm DEF Undo, TableMoves, SameRow, RowsStay, TypeOK, history
  <1>4. \A d \in EscrowId : RowOK(d)'
    BY <1>2, <1>3, RowsKept
  <1>5. \A q \in Process : ShapeOK(q)'
    BY <1>2 DEF BooksInv, BooksKept, ProcessMoves, OthersKeep, ShapeOK
  <1>6. \A d \in EscrowId : ~Holding(p, d)' /\ (Holding(p, d) => d = e)
    BY <1>1, <1>2 DEF Holding
  <1>7. \A d \in EscrowId : d # e => (Taken(d)' <=> Taken(d))
    BY <1>2, <1>3, <1>6, TakenBy DEF Taken
  <1>8. ASSUME NEW u \in User \ disturbed', u = TargetOf(p)
        PROVE  UserOK(u)'
    <2>1. Payer[e] = u /\ e \notin disturbed
      BY <1>0, <1>1, <1>8 DEF TargetOf, Target, BooksInv, BooksKept, RowOK, Undo,
                              history
    <2>2. /\ Unpaid(e) /\ status[e] = "none"
          /\ \A q \in Process \ {p} : ~Holding(q, e)
      BY <1>0, <1>1, <2>1, AtWork DEF Working, Paying
    <2>3. Taken(e) /\ ~Taken(e)'
      BY <1>0, <1>1, <1>2, <1>3, <1>6, <2>2, TakenBy DEF Taken, Holding
    <2>4. /\ Writing(p, u) /\ UserOK(u) /\ balance[u] \in Nat
          /\ Amount[e] \in Nat
      BY <1>0, <1>3, <1>8, EscrowAssumption
      DEF Writing, BooksInv, BooksKept, HarmSpreads, TypeOK
    <2>5. balance'[u] = balance[u] + Amount[e]
      BY <1>0, <1>1, <1>8, <2>4 DEF Undo, UserOK, SeenCurrent, Lowered, TypeOK
    <2>6. e \in PaidOut(u) /\ PaidOut(u)' = PaidOut(u) \ {e}
      BY <1>3, <1>7, <2>1, <2>2, <2>3 DEF PaidOut, Unpaid
    <2>7. PaidIn(u)' = PaidIn(u)
      BY <1>3 DEF PaidIn
    <2>8. Books(u)'
      BY <2>4, <2>5, <2>6, <2>7, BooksChange DEF UserOK
    <2>9. ~Writing(p, u)'
      BY <1>2 DEF Writing
    <2>10. QED
      BY <1>2, <1>3, <2>4, <2>8, <2>9, WriterKeeps
  <1>9. ASSUME NEW u \in User \ disturbed', u # TargetOf(p)
        PROVE  UserOK(u)'
    <2>1. Payer[e] # u
      BY <1>0, <1>1, <1>9 DEF TargetOf, Target
    <2>2. balance'[u] = balance[u] /\ ~Writing(p, u)'
      BY <1>2, <1>3, <1>9 DEF TableMoves, Writing
    <2>3. QED
      BY <1>2, <1>3, <1>7, <2>1, <2>2, Untouched
  <1>10. QED
    BY <1>4, <1>5, <1>8, <1>9 DEF BooksKept

LEMMA SameBooks ==
    ASSUME BooksInv,
           UNCHANGED <<balance, status, op, at, escrow, todo, seen, moved,
                       released, returned, disturbed>>
    PROVE  BooksKept'
  <1>1. \A p \in Process : ShapeOK(p)'
    BY DEF BooksInv, BooksKept, ShapeOK
  <1>2. \A e \in EscrowId : RowOK(e)'
    BY DEF BooksInv, BooksKept, RowOK, Idle
  <1>3. ASSUME NEW u \in User \ disturbed' PROVE UserOK(u)'
    <2>1. UserOK(u)
      BY DEF BooksInv, BooksKept
    <2>2. OneWriter(u)' /\ SeenCurrent(u)'
      BY <2>1 DEF UserOK, OneWriter, SeenCurrent, Writing, TargetOf, Lowered
    <2>3. PaidOut(u)' = PaidOut(u) /\ PaidIn(u)' = PaidIn(u)
      BY DEF PaidOut, PaidIn, Taken, Holding
    <2>4. SumOf(PaidOut(u)') = SumOf(PaidOut(u))
          /\ SumOf(PaidIn(u)') = SumOf(PaidIn(u))
      BY <2>3, Zenon
    <2>5. QED
      BY <2>1, <2>2, <2>4 DEF UserOK, Books
  <1>4. QED
    BY <1>1, <1>2, <1>3 DEF BooksKept

LEMMA NextBooksInv == BooksInv /\ [Next]_vars => BooksInv'
  <1> SUFFICES ASSUME BooksInv, [Next]_vars PROVE BooksInv'
    OBVIOUS
  <1>1. EscrowInv'
    BY NextEscrowInv DEF BooksInv
  <1>2. ASSUME NEW p \in Process, RoundTrip(p) PROVE BooksKept'
    BY <1>2, ReadRowBooks, GivesUpBooks, ReadBalanceBooks, WriteBooks,
       MarkBooks, MarkFailsBooks, UndoBooks, UndoFailsBooks DEF RoundTrip
  <1>3. ASSUME NEW h \in EscrowId, Grow(h) PROVE BooksKept'
    BY <1>3, SameBooks DEF Grow, process, history
  <1>4. ASSUME UNCHANGED vars PROVE BooksKept'
    <2>1. /\ UNCHANGED <<balance, status, op, at, escrow, todo, seen, moved>>
          /\ UNCHANGED <<released, returned, disturbed>>
      BY <1>4 DEF vars, table, process, history
    <2>2. QED
      BY <2>1, SameBooks
  <1>5. ASSUME NEW p \in Process, NEW e \in EscrowId,
               BeginHold(p, e) \/ \E k \in Operation : BeginOnRow(p, k, e)
        PROVE  BooksKept'
    BY <1>5, BeginHoldBooks, BeginOnRowBooks
  <1>6. ASSUME NEW p \in Process, NEW S \in SUBSET EscrowId, Sweep(p, S)
        PROVE  BooksKept'
    BY <1>6, SweepBooks
  <1>7. ASSUME NEW p \in Process, Crash(p) PROVE BooksKept'
    BY <1>7, CrashBooks
  <1>8. ASSUME Next PROVE BooksKept'
    BY <1>2, <1>3, <1>5, <1>6, <1>7, <1>8 DEF Next
  <1>9. QED
    BY <1>1, <1>4, <1>8 DEF BooksInv

\* At rest the payments made are what the statuses say.
LEMMA BooksAtRest ==
    ASSUME BooksInv, NEW u \in User \ disturbed,
           \A e \in EscrowId : u \in Parties({e}) => AtRest(e)
    PROVE  balance[u] = StartBalance
                - SumOf({e \in EscrowId : Payer[e] = u
                            /\ status[e] \in {"held", "released"}})
                + SumOf({e \in EscrowId : Payee[e] = u
                            /\ status[e] = "released"})
  <1>1. ASSUME NEW e \in EscrowId, u \in {Payer[e], Payee[e]}
        PROVE  Counted(e) /\ (Taken(e) <=> status[e] # "none")
    <2>1. AtRest(e) /\ e \notin disturbed
      BY <1>1 DEF Parties, BooksInv, BooksKept, RowOK
    <2>2. \A p \in Process : ~Holding(p, e)
      BY <2>1 DEF AtRest, Holding, Window
    <2>3. QED
      BY <2>1, <2>2 DEF BooksInv, EscrowInv, EscrowOK, Taken
  <1>2. \A e \in EscrowId : status[e] \in Marked
    BY DEF BooksInv, EscrowInv, Base
  <1>3. PaidOut(u) = {e \in EscrowId : Payer[e] = u
                            /\ status[e] \in {"held", "released"}}
    BY <1>1, <1>2 DEF PaidOut, Counted, Count, Marked
  <1>4. PaidIn(u) = {e \in EscrowId : Payee[e] = u /\ status[e] = "released"}
    BY <1>1 DEF PaidIn, Counted, Count
  <1>5. Books(u)
    BY DEF BooksInv, BooksKept, UserOK
  <1>6. QED
    BY <1>3, <1>4, <1>5, Zenon DEF Books

\* A user's balance is the opening one less what is held or released plus
\* what was received, unless two operations overlapped or one failed halfway:
\* BooksBalance, for any users, escrows, amounts, requests and replicas.
THEOREM EscrowBooksBalance == Spec => []BooksBalance
  <1>1. BooksInv => BooksBalance
    BY BooksAtRest DEF BooksBalance
  <1>2. QED
    BY <1>1, InitBooksInv, NextBooksInv, PTL DEF Spec

-----------------------------------------------------------------------------
(***************************************************************************)
(* The life of an escrow.  No update looks at the status it replaces, yet  *)
(* the status of an undisturbed escrow only moves along: what an operation *)
(* has read of it stands until that operation writes it.                   *)
(***************************************************************************)
ReadHolds(p, e) ==
    /\ e \in todo[p] => status[e] = "held"
    /\ escrow[p] = e /\ Working(p) /\ op[p] # "hold" =>
          \/ status[e] = "held"
          \/ /\ op[p] = "cancel" /\ at[p] = "mark"
             /\ status[e] \in {"refunded", "cancelled"}

ReadsStand == \A e \in EscrowId \ disturbed : \A p \in Process : ReadHolds(p, e)

LEMMA StandsStep ==
    ASSUME NEW p \in Process, NEW e \in EscrowId, EscrowOK(e),
           \A q \in Process : ReadHolds(q, e), OthersKeep(p),
           status'[e] = status[e] \/ e \in Window(p),
           ReadHolds(p, e)'
    PROVE  \A q \in Process : ReadHolds(q, e)'
  <1> SUFFICES ASSUME NEW q \in Process \ {p} PROVE ReadHolds(q, e)'
    OBVIOUS
  <1>1. CASE status'[e] = status[e]
    BY <1>1 DEF ReadHolds, OthersKeep, Working
  <1>2. CASE e \in Window(p)
    <2>1. e \notin Window(q)
      BY <1>2 DEF EscrowOK
    <2>2. QED
      BY <2>1 DEF ReadHolds, OthersKeep, Working, Window
  <1>3. QED
    BY <1>1, <1>2

LEMMA FinishStands ==
    ASSUME Base, NEW p \in Process, NEW e \in EscrowId, Finish(p),
           ReadHolds(p, e), status'[e] = status[e] \/ e = escrow[p]
    PROVE  ReadHolds(p, e)'
  <1>1. e \in todo[p] => status'[e] = "held"
    BY DEF ReadHolds, Base, ProcessOK
  <1>2. CASE Leave(p)
    BY <1>2 DEF Leave, Base, TypeOK, ReadHolds, Working
  <1>3. CASE TakeUp(p, todo[p])
    <2>1. todo'[p] \cup {escrow'[p]} = todo[p]
      BY <1>3 DEF TakeUp, Base, TypeOK
    <2>2. QED
      BY <1>1, <2>1 DEF ReadHolds
  <1>4. QED
    BY <1>2, <1>3 DEF Finish

LEMMA GoingOnStands ==
    ASSUME Base, NEW p \in Process, NEW e \in EscrowId,
           at[p] \in {"balance", "write"}, status'[e] = status[e], ReadHolds(p, e),
           UNCHANGED <<op, escrow, todo>>
    PROVE  ReadHolds(p, e)'
  BY DEF ReadHolds, Working

LEMMA ReadRowStands ==
    ASSUME Base, NEW p \in Process, NEW e \in EscrowId, ReadRow(p), ReadHolds(p, e)
    PROVE  ReadHolds(p, e)'
  <1>1. /\ status' = status /\ op' = op /\ escrow' = escrow /\ todo' = todo
        /\ at'[p] = (IF MovesNothing(p) THEN "mark" ELSE "balance")
    BY DEF ReadRow, Goto, table, Base, TypeOK
  <1>2. CASE e = escrow[p] /\ op[p] # "hold"
    <2>1. Allows(op[p], status[e]) /\ status[e] \in Marked \ {"none"}
      BY <1>2 DEF ReadRow, Base, ProcessOK, Idle
    <2>2. \/ status[e] = "held"
          \/ op[p] = "cancel" /\ status[e] \in {"refunded", "cancelled"}
      BY <2>1 DEF Allows, Marked
    <2>3. op[p] = "cancel" /\ status[e] # "held" => at'[p] = "mark"
      BY <1>1, <1>2 DEF MovesNothing
    <2>4. QED
      BY <1>1, <2>2, <2>3 DEF ReadHolds
  <1>3. CASE e # escrow[p] \/ op[p] = "hold"
    BY <1>1, <1>3 DEF ReadHolds
  <1>4. QED
    BY <1>2, <1>3

LEMMA RoundTripStands ==
    ASSUME BooksInv, NEW p \in Process, NEW e \in EscrowId \ disturbed',
           e \notin disturbed, RoundTrip(p), \A q \in Process : ReadHolds(q, e)
    PROVE  \A q \in Process : ReadHolds(q, e)'
  <1>1. Base /\ EscrowOK(e) /\ escrow[p] \in EscrowId
    BY DEF BooksInv, EscrowInv, Base, TypeOK
  <1>2. CASE ReadRow(p)
    <2>1. OthersKeep(p) /\ status'[e] = status[e]
      BY <1>1, <1>2 DEF ReadRow, Goto, OthersKeep, table, Base, TypeOK
    <2>2. QED
      BY <1>1, <1>2, <2>1, ReadRowStands, StandsStep
  <1>3. ASSUME at[p] \in {"balance", "write"}, status' = status, OthersKeep(p),
               UNCHANGED <<op, escrow, todo>>
        PROVE  \A q \in Process : ReadHolds(q, e)'
    <2>1. ReadHolds(p, e)'
      BY <1>1, <1>3, GoingOnStands
    <2>2. QED
      BY <1>1, <1>3, <2>1, StandsStep
  <1>4. ASSUME Finish(p), status' = status \/ (SetStatus(p) /\ at[p] = "mark")
        PROVE  \A q \in Process : ReadHolds(q, e)'
    <2>1. \/ status'[e] = status[e]
          \/ e = escrow[p] /\ e \in Window(p)
      BY <1>1, <1>4 DEF SetStatus, Base, TypeOK, Window
    <2>2. ReadHolds(p, e)'
      BY <1>1, <1>4, <2>1, FinishStands
    <2>3. QED
      BY <1>1, <1>4, <2>1, <2>2, FinishFacts, StandsStep
  <1>5. ASSUME op[p] = "hold", at[p] = "mark", Goto(p, "undo"),
               status' = status \/ (SetStatus(p) /\ Harm({escrow[p]}))
        PROVE  \A q \in Process : ReadHolds(q, e)'
    <2>1. status'[e] = status[e]
      <3>1. CASE SetStatus(p) /\ Harm({escrow[p]})
        <4>1. e # escrow[p]
          BY <3>1, Harmed
        <4>2. QED
          BY <1>1, <3>1, <4>1 DEF SetStatus, Base, TypeOK
      <3>2. QED
        BY <1>5, <3>1
    <2>2. OthersKeep(p) /\ UNCHANGED <<op, escrow, todo>>
      BY <1>1, <1>5 DEF Goto, OthersKeep, Base, TypeOK
    <2>3. ReadHolds(p, e)'
      BY <1>5, <2>1, <2>2 DEF ReadHolds
    <2>4. QED
      BY <1>1, <2>1, <2>2, <2>3, StandsStep
  <1>6. CASE ReadBalance(p) \/ WriteBalance(p)
    <2>1. /\ at[p] \in {"balance", "write"} /\ status' = status
          /\ UNCHANGED <<op, escrow, todo>>
      BY <1>6 DEF ReadBalance, WriteBalance, Apply, GoOnPaid, table
    <2>2. OthersKeep(p)
      BY <1>1, <1>6
      DEF ReadBalance, WriteBalance, GoOnPaid, OthersKeep, Base, TypeOK
    <2>3. QED
      BY <1>3, <2>1, <2>2
  <1>7. CASE ReadBalanceFails(p) \/ WriteRejected(p) \/ WriteUnheard(p)
    <2>1. at[p] \in {"balance", "write"} /\ status' = status
      BY <1>7 DEF ReadBalanceFails, WriteRejected, WriteUnheard, Apply, table
    <2>2. Finish(p) \/ Goto(p, "mark") \/ GoOnPaid(p)
      BY <1>7 DEF ReadBalanceFails, WriteRejected, WriteUnheard
    <2>3. CASE Goto(p, "mark") \/ GoOnPaid(p)
      <3>1. OthersKeep(p) /\ UNCHANGED <<op, escrow, todo>>
        BY <1>1, <2>3 DEF Goto, GoOnPaid, OthersKeep, Base, TypeOK
      <3>2. QED
        BY <1>3, <2>1, <3>1
    <2>4. QED
      BY <1>4, <2>1, <2>2, <2>3
  <1>8. CASE Refuse(p) \/ Insufficient(p) \/ Undo(p) \/ UndoFails(p)
    <2>1. Finish(p) /\ status' = status
      BY <1>8 DEF Refuse, Insufficient, Undo, UndoFails, table
    <2>2. QED
      BY <1>4, <2>1
  <1>9. CASE Mark(p) \/ MarkUnheard(p)
    <2>1. SetStatus(p) /\ at[p] = "mark"
      BY <1>9 DEF Mark, MarkUnheard
    <2>2. \/ Finish(p)
          \/ op[p] = "hold" /\ Goto(p, "undo") /\ Harm({escrow[p]})
      BY <1>9 DEF Mark, MarkUnheard
    <2>3. QED
      BY <1>4, <1>5, <2>1, <2>2
  <1>10. CASE MarkFails(p)
    <2>1. at[p] = "mark" /\ status' = status
      BY <1>10 DEF MarkFails, MarkRejected, table
    <2>2. Finish(p) \/ (op[p] = "hold" /\ Goto(p, "undo"))
      BY <1>10 DEF MarkFails, MarkRejected
    <2>3. QED
      BY <1>4, <1>5, <2>1, <2>2
  <1>11. QED
    BY <1>2, <1>6, <1>7, <1>8, <1>9, <1>10 DEF RoundTrip

LEMMA NextStands ==
    ASSUME BooksInv, ReadsStand, [Next]_vars
    PROVE  ReadsStand'
  <1> SUFFICES ASSUME NEW e \in EscrowId \ disturbed'
               PROVE  \A q \in Process : ReadHolds(q, e)'
    BY DEF ReadsStand
  <1>1. /\ Base /\ EscrowOK(e) /\ e \notin disturbed
        /\ \A q \in Process : ReadHolds(q, e)
    BY DisturbedStays DEF BooksInv, EscrowInv, ReadsStand
  <1>2. ASSUME NEW p \in Process, RoundTrip(p)
        PROVE  \A q \in Process : ReadHolds(q, e)'
    BY <1>1, <1>2, RoundTripStands
  <1>3. ASSUME NEW p \in Process, NEW h \in EscrowId,
               BeginHold(p, h) \/ \E k \in Operation : BeginOnRow(p, k, h)
        PROVE  \A q \in Process : ReadHolds(q, e)'
    <2>1. PICK k, step : Begin(p, k, h, step) /\ (k = "hold" \/ step = "row")
      BY <1>3 DEF BeginHold, BeginOnRow
    <2>2. /\ OthersKeep(p) /\ status' = status /\ todo'[p] = {}
          /\ op'[p] = k /\ at'[p] = step
      BY <1>1, <2>1 DEF Begin, Base, TypeOK, ProcessOK, OthersKeep, table
    <2>3. ReadHolds(p, e)'
      BY <2>1, <2>2 DEF ReadHolds, Working
    <2>4. QED
      BY <1>1, <2>2, <2>3, StandsStep
  <1>4. ASSUME NEW p \in Process, NEW S \in SUBSET EscrowId, Sweep(p, S)
        PROVE  \A q \in Process : ReadHolds(q, e)'
    <2>1. /\ OthersKeep(p) /\ status' = status /\ todo'[p] \cup {escrow'[p]} = S
      BY <1>1, <1>4 DEF Sweep, TakeUp, Base, TypeOK, OthersKeep, table
    <2>2. e \in S => status[e] = "held"
      BY <1>4 DEF Sweep, StaleRows
    <2>3. ReadHolds(p, e)'
      BY <2>1, <2>2 DEF ReadHolds
    <2>4. QED
      BY <1>1, <2>1, <2>3, StandsStep
  <1>5. ASSUME NEW p \in Process, Crash(p)
        PROVE  \A q \in Process : ReadHolds(q, e)'
    <2>1. /\ OthersKeep(p) /\ status' = status /\ todo'[p] = {} /\ at'[p] = "idle"
      BY <1>1, <1>5 DEF Crash, Leave, Base, TypeOK, OthersKeep, table
    <2>2. ReadHolds(p, e)'
      BY <2>1 DEF ReadHolds, Working
    <2>3. QED
      BY <1>1, <2>1, <2>2, StandsStep
  <1>6. CASE (\E h \in EscrowId : Grow(h)) \/ UNCHANGED vars
    BY <1>1, <1>6 DEF Grow, vars, table, process, ReadHolds, Working
  <1>7. QED
    BY <1>2, <1>3, <1>4, <1>5, <1>6 DEF Next

\* An undisturbed escrow is held, and then released, refunded or cancelled;
\* only a refunded one can still be called cancelled.
LegalMove(s, t) ==
    \/ s = t
    \/ s = "none" /\ t = "held"
    \/ s = "held" /\ t \in {"released", "refunded", "cancelled"}
    \/ s = "refunded" /\ t = "cancelled"

StatusMoves == \A e \in EscrowId \ disturbed' : LegalMove(status[e], status'[e])

LEMMA MarkMoves ==
    ASSUME BooksInv, NEW p \in Process, NEW e \in EscrowId \ disturbed,
           ReadHolds(p, e), at[p] = "mark", Outcome(op[p]) \in Storable, SetStatus(p)
    PROVE  LegalMove(status[e], status'[e])
  <1>1. /\ Base
        /\ op[p] = "hold" /\ escrow[p] = e => status[e] = "none"
    BY DEF BooksInv, EscrowInv, BooksKept, RowOK, Idle
  <1>2. op[p] \in {"hold", "release", "refund", "cancel", "sweep"}
    BY <1>1 DEF Base, TypeOK, ProcessOK, Idle, Operation, Outcome, Storable
  <1>3. CASE e = escrow[p]
    <2>1. status'[e] = Outcome(op[p])
      BY <1>1, <1>3 DEF SetStatus, Base, TypeOK
    <2>2. CASE op[p] = "hold"
      BY <1>1, <1>3, <2>1, <2>2 DEF Outcome, LegalMove
    <2>3. CASE op[p] # "hold"
      <3>1. \/ status[e] = "held"
            \/ op[p] = "cancel" /\ status[e] \in {"refunded", "cancelled"}
        BY <1>3, <2>3 DEF ReadHolds, Working
      <3>2. Outcome(op[p]) \in {"released", "refunded", "cancelled"}
            /\ (op[p] = "cancel" => Outcome(op[p]) = "cancelled")
        BY <1>2, <2>3 DEF Outcome
      <3>3. QED
        BY <2>1, <3>1, <3>2 DEF LegalMove
    <2>4. QED
      BY <2>2, <2>3
  <1>4. CASE e # escrow[p]
    BY <1>1, <1>4 DEF SetStatus, Base, TypeOK, LegalMove
  <1>5. QED
    BY <1>3, <1>4

\* Whatever interleaves, fails or crashes, the status of an undisturbed escrow
\* takes legal steps only, although no update compares what it replaces.
THEOREM EscrowStatusMoves == Spec => [][StatusMoves]_vars
  <1> DEFINE Inv == BooksInv /\ ReadsStand
  <1>1. Init => Inv
    BY InitBooksInv DEF Init, ReadsStand, ReadHolds, Working
  <1>2. Inv /\ [Next]_vars => Inv'
    BY NextBooksInv, NextStands
  <1>3. Inv /\ [Next]_vars => [StatusMoves]_vars
    <2> SUFFICES ASSUME BooksInv, ReadsStand, Next, NEW e \in EscrowId \ disturbed'
                 PROVE  LegalMove(status[e], status'[e])
      BY DEF StatusMoves
    <2>1. e \notin disturbed /\ \A q \in Process : ReadHolds(q, e)
      BY DisturbedStays DEF ReadsStand
    <2>2. ASSUME status' = status PROVE LegalMove(status[e], status'[e])
      BY <2>2 DEF LegalMove
    <2>3. ASSUME NEW p \in Process, Mark(p) \/ MarkUnheard(p)
          PROVE  LegalMove(status[e], status'[e])
      BY <2>1, <2>3, MarkMoves DEF Mark, MarkUnheard
    <2>4. ASSUME NEW p \in Process, RoundTrip(p)
          PROVE  Mark(p) \/ MarkUnheard(p) \/ status' = status
      BY <2>4 DEF RoundTrip, ReadRow, Refuse, ReadBalance, Insufficient,
         ReadBalanceFails, WriteBalance, WriteUnheard, WriteRejected, MarkFails,
         MarkRejected, Undo, UndoFails, Apply, table
    <2>5. QED
      BY <2>2, <2>3, <2>4
      DEF Next, BeginHold, BeginOnRow, Begin, Sweep, Crash, Grow, table
  <1>4. QED
    BY <1>1, <1>2, <1>3, PTL DEF Spec

-----------------------------------------------------------------------------
(***************************************************************************)
(* What disturbed excuses: overlaps and failed calls, and nothing else.    *)
(* While operations take turns and no call fails nobody is ever disturbed, *)
(* so the properties above then speak of all escrows and users, and an     *)
(* escrow is paid once.                                                    *)
(***************************************************************************)
InTurn ==
    /\ faults = 0
    /\ \A p, q \in Process : Idle(p) \/ Idle(q) \/ p = q

\* Whoever starts, or disputes, has moved nothing.
Unmoved == \A p \in Process : Idle(p) \/ op[p] = "dispute" => ~moved[p]

LEMMA FinishUnmoved ==
    ASSUME Base, Unmoved, NEW p \in Process, Finish(p)
    PROVE  Unmoved'
  BY DEF Finish, Leave, TakeUp, Base, TypeOK, Unmoved, Idle

LEMMA GotoUnmoved ==
    ASSUME Base, Unmoved, NEW p \in Process, NEW step \in Step \ {"idle"},
           Goto(p, step), ~Idle(p)
    PROVE  Unmoved'
  BY DEF Goto, Base, TypeOK, Unmoved, Idle

LEMMA RoundTripUnmoved ==
    ASSUME BooksInv, Unmoved, NEW p \in Process, RoundTrip(p)
    PROVE  Unmoved'
  <1>1. Base /\ ShapeOK(p)
    BY DEF BooksInv, EscrowInv, BooksKept
  <1>2. CASE \/ Finish(p)
             \/ ~Idle(p) /\ \E step \in Step \ {"idle"} : Goto(p, step)
    BY <1>1, <1>2, FinishUnmoved, GotoUnmoved
  <1>3. CASE ReadBalance(p)
    BY <1>1, <1>3 DEF ReadBalance, Base, TypeOK, Unmoved, Idle
  <1>4. CASE at[p] = "write" /\ GoOnPaid(p)
    BY <1>1, <1>4 DEF GoOnPaid, ShapeOK, Base, TypeOK, Unmoved, Idle
  <1>5. QED
    BY <1>2, <1>3, <1>4
    DEF RoundTrip, ReadRow, Refuse, Insufficient, ReadBalanceFails, WriteBalance,
        WriteUnheard, WriteRejected, Mark, MarkUnheard, MarkFails, MarkRejected,
        Undo, UndoFails, Idle, Step

LEMMA NextUnmoved ==
    ASSUME BooksInv, Unmoved, [Next]_vars
    PROVE  Unmoved'
  <1>1. Base
    BY DEF BooksInv, EscrowInv
  <1>2. ASSUME NEW p \in Process, NEW k, NEW e, NEW step, Begin(p, k, e, step)
        PROVE  Unmoved'
    BY <1>1, <1>2 DEF Begin, Base, TypeOK, Unmoved, Idle
  <1>3. ASSUME NEW p \in Process, Crash(p) \/ \E S \in SUBSET EscrowId : Sweep(p, S)
        PROVE  Unmoved'
    BY <1>1, <1>3 DEF Crash, Leave, Sweep, TakeUp, Base, TypeOK, Unmoved, Idle
  <1>4. CASE (\E e \in EscrowId : Grow(e)) \/ UNCHANGED vars
    BY <1>4 DEF Grow, vars, process, Unmoved, Idle
  <1>5. QED
    BY <1>2, <1>3, <1>4, RoundTripUnmoved DEF Next, BeginHold, BeginOnRow

\* Nobody else has read anything it is going to write.
LEMMA NobodyElse ==
    ASSUME Base, NEW p \in Process, \A q \in Process \ {p} : Idle(q)
    PROVE  /\ \A S : Overlaps(p, S) = {}
           /\ \A q \in Process \ {p} : \A u : ~Writing(q, u)
  <1>1. \A q \in Process \ {p} : Window(q) = {}
    BY DEF Base, ProcessOK, Window, Idle
  <1>2. QED
    BY <1>1 DEF Overlaps, Writing, Idle

LEMMA NoneHarmed == ASSUME Harm({}) PROVE disturbed' = disturbed
  BY DEF Harm, Parties

LEMMA InTurnStep ==
    ASSUME BooksInv, Unmoved, InTurn, InTurn', [Next]_vars
    PROVE  disturbed' = disturbed
  <1>1. Base /\ ~Fault
    BY DEF BooksInv, EscrowInv, InTurn, Fault
  <1>2. ASSUME NEW p \in Process, RoundTrip(p)
        PROVE  disturbed' = disturbed
    <2>1. \A q \in Process \ {p} : Idle(q)
      BY <1>2 DEF InTurn, RoundTrip, ReadRow, Refuse, ReadBalance, Insufficient,
         ReadBalanceFails, WriteBalance, WriteUnheard, WriteRejected, Mark,
         MarkUnheard, MarkFails, Undo, UndoFails, Idle
    <2>2. CASE ReadRow(p)
      BY <2>1, <2>2, <1>1, NobodyElse, NoneHarmed DEF ReadRow
    <2>3. CASE ReadBalance(p)
      BY <2>1, <2>3, <1>1, NobodyElse DEF ReadBalance
    <2>4. CASE MarkFails(p)
      <3>1. at[p] = "mark" /\ Outcome(op[p]) \notin Storable /\ MarkRejected(p)
        BY <2>4, <1>1 DEF MarkFails
      <3>2. op[p] \in Operation \ {"none"}
        BY <3>1, <1>1 DEF Base, TypeOK, ProcessOK, Idle
      <3>3. op[p] = "dispute"
        BY <3>1, <3>2 DEF Outcome, Operation, Storable
      <3>4. QED
        BY <3>1, <3>3 DEF MarkRejected, Unmoved
    <2>5. QED
      BY <1>1, <1>2, <2>2, <2>3, <2>4
      DEF RoundTrip, Refuse, Insufficient, ReadBalanceFails, WriteBalance,
          WriteUnheard, WriteRejected, Mark, MarkUnheard, Undo, UndoFails, history
  <1>3. ASSUME NEW p \in Process, NEW S \in SUBSET EscrowId, Sweep(p, S)
        PROVE  disturbed' = disturbed
    <2>1. at' = [at EXCEPT ![p] = "balance"]
      BY <1>3 DEF Sweep, TakeUp
    <2>2. \A q \in Process \ {p} : Idle(q)
      BY <2>1, <1>1 DEF InTurn, Idle, Base, TypeOK
    <2>3. QED
      BY <1>1, <1>3, <2>2, NobodyElse, NoneHarmed DEF Sweep
  <1>4. QED
    BY <1>1, <1>2, <1>3
    DEF Next, BeginHold, BeginOnRow, Begin, Crash, Grow, history, vars

\* An undisturbed escrow is paid at most once, at every moment.
LEMMA UndisturbedOnce ==
    ASSUME EscrowInv, NEW e \in EscrowId \ disturbed
    PROVE  released[e] + returned[e] <= 1
  <1>1. EscrowOK(e)
    BY DEF EscrowInv
  <1>2. CASE AtRest(e)
    BY <1>1, <1>2 DEF EscrowOK, Counted, Count
  <1>3. ASSUME NEW p \in Process, e \in Window(p)
        PROVE  released[e] + returned[e] <= 1
    BY <1>1, <1>3 DEF EscrowOK, Progress, Due, Unpaid, Count
  <1>4. QED
    BY <1>2, <1>3 DEF AtRest

\* While no call fails and operations take turns, whoever makes them, every
\* escrow is paid at most once, as its status says, and every balance is right:
\* no more than overlaps and failures is excused by disturbed.
THEOREM EscrowTurns ==
    Spec /\ []InTurn => [](disturbed = {} /\ PaidOnce /\ PaidAsMarked /\ BooksBalance)
  <1> DEFINE Inv == BooksInv /\ Unmoved /\ disturbed = {}
  <1>1. Init => Inv
    BY InitBooksInv DEF Init, Unmoved
  <1>2. Inv /\ InTurn /\ InTurn' /\ [Next]_vars => Inv'
    BY NextBooksInv, NextUnmoved, InTurnStep
  <1>3. Inv => disturbed = {} /\ PaidOnce
    BY UndisturbedOnce DEF BooksInv, PaidOnce
  <1>4. QED
    BY <1>1, <1>2, <1>3, EscrowPaidAsMarked, EscrowBooksBalance, PTL DEF Spec

-----------------------------------------------------------------------------
(***************************************************************************)
(* The circuit breaker in front of holdCoins, for any number of concurrent *)
(* calls and any configuration.                                            *)
(*                                                                         *)
(* Neither property is inductive: what a call may do next depends on       *)
(* attempts and failureCount, what the properties speak of are the         *)
(* histories probes and streak.  BreakerInv ties the two together.         *)
(***************************************************************************)
BreakerInv ==
    /\ BreakerTypeOK
    /\ streak = failureCount
    /\ isOpen => failureCount = FailureThreshold /\ probes = attempts
    /\ ~isOpen => attempts = 0
    /\ ProbesBounded

LEMMA InitBreakerInv == BreakerInit => BreakerInv
  BY BreakerAssumption
  DEF BreakerInit, BreakerInv, BreakerTypeOK, ProbesBounded, Stage, isOpen

LEMMA OneMoreType ==
    ASSUME NEW n \in 0..FailureThreshold
    PROVE  /\ OneMore(n) \in 0..FailureThreshold
           /\ n = FailureThreshold => OneMore(n) = n
           /\ OneMore(n) >= FailureThreshold => OneMore(n) = FailureThreshold
  BY BreakerAssumption DEF OneMore

LEMMA FailureKeepsBreaker ==
    ASSUME BreakerInv, NEW c \in Call, OperationFails(c)
    PROVE  BreakerInv'
  <1> USE BreakerAssumption
      DEF isOpen, BreakerInv, BreakerTypeOK, ProbesBounded, Stage, breaker, counted
  <1>1. CASE isOpen
    BY <1>1, OneMoreType DEF OperationFails, RecordFailure
  <1>2. CASE ~isOpen
    BY <1>2, OneMoreType DEF OperationFails, RecordFailure
  <1>3. QED
    BY <1>1, <1>2

LEMMA NextBreakerInv == BreakerInv /\ [BreakerNext]_breakerVars => BreakerInv'
  <1> SUFFICES ASSUME BreakerInv, [BreakerNext]_breakerVars PROVE BreakerInv'
    OBVIOUS
  <1> USE BreakerAssumption
      DEF isOpen, BreakerInv, BreakerTypeOK, ProbesBounded, Stage, breaker, counted
  <1>1. ASSUME NEW c \in Call, Ask(c) PROVE BreakerInv'
    <2>1. CASE AskClosed(c) \/ AskCooling(c)
      BY <2>1 DEF AskClosed, AskCooling, Enter
    <2>2. CASE AskHalfOpen(c)
      BY <2>2 DEF AskHalfOpen, Enter
    <2>3. CASE AskExhausted(c)
      BY <2>3 DEF AskExhausted, Enter
    <2>4. QED
      BY <1>1, <2>1, <2>2, <2>3 DEF Ask
  <1>2. ASSUME NEW c \in Call, OperationSucceeds(c) PROVE BreakerInv'
    BY <1>2 DEF OperationSucceeds, RecordSuccess
  <1>3. ASSUME NEW c \in Call, OperationFails(c) PROVE BreakerInv'
    BY <1>3, FailureKeepsBreaker
  <1>4. ASSUME NEW c \in Call, FallbackReturns(c) PROVE BreakerInv'
    BY <1>4 DEF FallbackReturns
  <1>5. CASE Reset
    BY <1>5 DEF Reset
  <1>6. CASE Tick
    BY <1>6 DEF Tick
  <1>7. CASE UNCHANGED breakerVars
    BY <1>7 DEF breakerVars
  <1>8. QED
    BY <1>1, <1>2, <1>3, <1>4, <1>5, <1>6, <1>7
    DEF BreakerNext, Returns

LEMMA BreakerInvHolds == BreakerSpec => []BreakerInv
  BY InitBreakerInv, NextBreakerInv, PTL DEF BreakerSpec

\* Counters stay within the configured limits, whatever results arrive late.
THEOREM BreakerTypes == BreakerSpec => []BreakerTypeOK
  BY BreakerInvHolds, PTL DEF BreakerInv

\* The circuit is open only on an unbroken run of FailureThreshold failures.
THEOREM BreakerOpensOnStreak == BreakerSpec => []OpenMeansStreak
  <1>1. BreakerInv => OpenMeansStreak
    BY DEF BreakerInv, OpenMeansStreak
  <1>2. QED
    BY <1>1, BreakerInvHolds, PTL

\* A struggling service is probed at most HalfOpenMax times a cooldown.
THEOREM BreakerProbes == BreakerSpec => []ProbesBounded
  BY BreakerInvHolds, PTL DEF BreakerInv


-----------------------------------------------------------------------------
(***************************************************************************)
(* The degraded queue behind the breaker.  Its calls of the breaker are    *)
(* steps of the breaker, so what is proved of it above holds here too.     *)
(***************************************************************************)
LEMMA QueueStepsBreaker ==
    ASSUME BreakerInv, [QueueNext]_queueVars
    PROVE  BreakerInv'
  <1>1. [BreakerNext]_breakerVars
    BY DEF QueueNext, queueVars, BreakerNext, Returns, SendHold, HoldSucceeds,
           HoldFails, DegradedHold, StartPass, TryItem, FinishPass
  <1>2. QED
    BY <1>1, NextBreakerInv

\* The breaker keeps its promises in front of the holds, whose refusals count
\* as failures of the service and whose fallback only queues.
THEOREM QueueKeepsBreaker ==
    QueueSpec => [](BreakerTypeOK /\ OpenMeansStreak /\ ProbesBounded)
  <1>1. QueueInit => BreakerInv
    BY InitBreakerInv DEF QueueInit
  <1>2. BreakerInv => BreakerTypeOK /\ OpenMeansStreak /\ ProbesBounded
    BY DEF BreakerInv, OpenMeansStreak
  <1>3. QED
    BY <1>1, <1>2, QueueStepsBreaker, PTL DEF QueueSpec

-----------------------------------------------------------------------------
\* Lists of requests without repetition.
InList(c, s) == \E i \in 1..Len(s) : s[i] = c

Distinct(s) == \A i, j \in 1..Len(s) : s[i] = s[j] => i = j

LEMMA PushedList ==
    ASSUME NEW S, NEW s \in Seq(S), NEW c \in S
    PROVE  /\ <<c>> \o s \in Seq(S)
           /\ \A d : InList(d, <<c>> \o s) <=> d = c \/ InList(d, s)
           /\ Distinct(s) /\ ~InList(c, s) => Distinct(<<c>> \o s)
  <1> DEFINE t == <<c>> \o s
  <1>1. t \in Seq(S) /\ Len(t) = Len(s) + 1 /\ Len(s) \in Nat
    OBVIOUS
  <1>2. \A i \in 1..Len(t) : t[i] = IF i = 1 THEN c ELSE s[i - 1]
    OBVIOUS
  <1>3. \A i \in 1..Len(s) : t[i + 1] = s[i] /\ i + 1 \in 1..Len(t)
    BY <1>1, <1>2
  <1>4. ASSUME NEW d PROVE InList(d, t) <=> d = c \/ InList(d, s)
    <2>1. ASSUME NEW i \in 1..Len(t), t[i] = d PROVE d = c \/ InList(d, s)
      <3>1. CASE i = 1
        BY <1>2, <2>1, <3>1
      <3>2. CASE i # 1
        BY <1>1, <1>2, <2>1, <3>2, i - 1 \in 1..Len(s) DEF InList
      <3>3. QED
        BY <3>1, <3>2
    <2>2. InList(c, t)
      BY <1>1, <1>2, 1 \in 1..Len(t) DEF InList
    <2>3. InList(d, s) => InList(d, t)
      BY <1>3 DEF InList
    <2>4. QED
      BY <2>1, <2>2, <2>3 DEF InList
  <1>5. ASSUME Distinct(s), ~InList(c, s) PROVE Distinct(t)
    <2> SUFFICES ASSUME NEW i \in 1..Len(t), NEW j \in 1..Len(t), t[i] = t[j]
                 PROVE  i = j
      BY DEF Distinct
    <2>1. CASE i = 1 \/ j = 1
      BY <1>1, <1>2, <1>5, <2>1 DEF InList
    <2>2. CASE i # 1 /\ j # 1
      <3>1. i - 1 \in 1..Len(s) /\ j - 1 \in 1..Len(s)
        BY <1>1, <2>2
      <3>2. s[i - 1] = s[j - 1]
        BY <1>2, <2>2
      <3>3. QED
        BY <1>5, <3>1, <3>2 DEF Distinct
    <2>3. QED
      BY <2>1, <2>2
  <1>6. QED
    BY <1>1, <1>4, <1>5

LEMMA TailOfList ==
    ASSUME NEW S, NEW s \in Seq(S), s # <<>>
    PROVE  /\ Head(s) \in S /\ InList(Head(s), s)
           /\ Tail(s) \in Seq(S)
           /\ \A d : InList(d, Tail(s)) => InList(d, s)
           /\ Distinct(s) => Distinct(Tail(s)) /\ ~InList(Head(s), Tail(s))
  <1>1. /\ Len(s) \in Nat \ {0} /\ Tail(s) \in Seq(S) /\ Len(Tail(s)) = Len(s) - 1
        /\ Head(s) = s[1] /\ s[1] \in S
    OBVIOUS
  <1>2. \A i \in 1..Len(Tail(s)) : Tail(s)[i] = s[i + 1] /\ i + 1 \in 1..Len(s)
    BY <1>1
  <1>3. QED
    BY <1>1, <1>2 DEF InList, Distinct

LEMMA SuffixOfList ==
    ASSUME NEW S, NEW s \in Seq(S), NEW n \in Nat
    PROVE  /\ SubSeq(s, n + 1, Len(s)) \in Seq(S)
           /\ \A d : InList(d, SubSeq(s, n + 1, Len(s))) => InList(d, s)
           /\ Distinct(s) => Distinct(SubSeq(s, n + 1, Len(s)))
  <1> DEFINE t == SubSeq(s, n + 1, Len(s))
  <1>1. Len(s) \in Nat /\ \A i \in 1..Len(s) : s[i] \in S
    OBVIOUS
  <1>2. /\ t \in Seq(S)
        /\ Len(t) = IF n + 1 <= Len(s) THEN Len(s) - n ELSE 0
        /\ \A i \in 1..Len(t) : t[i] = s[n + i]
    BY <1>1
  <1>3. \A i \in 1..Len(t) : n + i \in 1..Len(s)
    BY <1>1, <1>2
  <1>4. QED
    BY <1>2, <1>3 DEF InList, Distinct

LEMMA LongerSeq ==
    ASSUME NEW S, NEW T, S \subseteq T, NEW s \in Seq(S)
    PROVE  s \in Seq(T)
  <1>1. s \in [1..Len(s) -> S] /\ Len(s) \in Nat
    OBVIOUS
  <1>2. QED
    BY <1>1

\* A coin for every row there is.
HeldCoins == UNION {{c} \X (1..rows[c]) : c \in Call}

PayerPays == IsFiniteSet(HeldCoins) /\ coins + Cardinality(HeldCoins) = StartCoins

\* While a request's call is under way it has no row and is not in the queue;
\* nobody is in the queue twice, or unasked.
QueueOK ==
    /\ sent \subseteq Call /\ rows \in [Call -> Nat] /\ coins \in Nat
    /\ queue \in Seq(sent) /\ Distinct(queue)
    /\ batch \in Seq(sent) /\ Distinct(batch)
    /\ processed \in Nat /\ failed \in Nat
    /\ \A c \in Call \ sent : rows[c] = 0
    /\ \A c \in Call : stage[c] # "idle" =>
          c \in sent /\ rows[c] = 0 /\ ~InList(c, queue) /\ ~InList(c, batch)

QueueInv == BreakerInv /\ QueueOK /\ PayerPays

LEMMA ListedInSet ==
    ASSUME NEW S, NEW s \in Seq(S), NEW c, InList(c, s)
    PROVE  c \in S
  BY DEF InList

LEMMA HoldPays ==
    ASSUME QueueOK, PayerPays, NEW c \in Call, Hold(c)
    PROVE  /\ PayerPays' /\ coins' \in Nat /\ rows' \in [Call -> Nat]
           /\ \A d \in Call : rows'[d] = IF d = c THEN rows[c] + 1 ELSE rows[d]
  <1>1. /\ coins > 0 /\ coins' = coins - 1 /\ rows \in [Call -> Nat] /\ coins \in Nat
        /\ rows' = [rows EXCEPT ![c] = @ + 1]
    BY DEF Hold, QueueOK
  <1>2. \A d \in Call : rows'[d] = IF d = c THEN rows[c] + 1 ELSE rows[d]
    BY <1>1
  <1> DEFINE new == <<c, rows[c] + 1>>
  <1>3. new \notin HeldCoins
    BY <1>1 DEF HeldCoins
  <1>4. HeldCoins' = HeldCoins \cup {new}
    <2>1. ASSUME NEW d \in Call, NEW n PROVE n \in 1..rows'[d] <=>
                   n \in 1..rows[d] \/ (d = c /\ n = rows[c] + 1)
      BY <1>1, <1>2
    <2>2. QED
      BY <2>1 DEF HeldCoins
  <1>5. IsFiniteSet(HeldCoins') /\ Cardinality(HeldCoins') = Cardinality(HeldCoins) + 1
    BY <1>3, <1>4, FS_AddElement DEF PayerPays
  <1>6. Cardinality(HeldCoins) \in Nat
    BY FS_CardinalityType DEF PayerPays
  <1>7. StartCoins = coins' + Cardinality(HeldCoins')
    BY <1>1, <1>5, <1>6 DEF PayerPays
  <1>8. QED
    BY <1>1, <1>2, <1>5, <1>7 DEF PayerPays

LEMMA PayerStays ==
    ASSUME PayerPays, UNCHANGED <<coins, rows>>
    PROVE  PayerPays'
  <1>1. HeldCoins' = HeldCoins
    BY DEF HeldCoins
  <1>2. QED
    BY <1>1 DEF PayerPays

\* A request comes to a call and leaves it, unheld.
LEMMA StageMoves ==
    ASSUME BreakerInv, NEW c \in Call,
           \/ Ask(c) \/ OperationSucceeds(c) \/ OperationFails(c) \/ FallbackReturns(c)
    PROVE  /\ \A d \in Call \ {c} : stage'[d] = stage[d]
           /\ ~Ask(c) => stage[c] # "idle"
           /\ OperationSucceeds(c) \/ FallbackReturns(c) => stage'[c] = "idle"
  BY DEF BreakerInv, BreakerTypeOK, Ask, AskClosed, AskCooling, AskHalfOpen,
         AskExhausted, Enter, OperationSucceeds, OperationFails, FallbackReturns

LEMMA SendKeepsQueue ==
    ASSUME QueueInv, NEW c \in Call, SendHold(c)
    PROVE  QueueOK' /\ PayerPays'
  <1>1. /\ sent' = sent \cup {c} /\ c \notin sent
        /\ UNCHANGED <<coins, rows, queue, batch, processed, failed>>
    BY DEF SendHold, worker
  <1>2. \A d \in Call \ {c} : stage'[d] = stage[d]
    BY StageMoves DEF SendHold, QueueInv
  <1>3. ~InList(c, queue) /\ ~InList(c, batch)
    BY <1>1, ListedInSet DEF QueueInv, QueueOK
  <1>4. queue \in Seq(sent') /\ batch \in Seq(sent')
    BY <1>1, LongerSeq DEF QueueInv, QueueOK
  <1>5. PayerPays'
    BY <1>1, PayerStays DEF QueueInv
  <1>6. QED
    BY <1>1, <1>2, <1>3, <1>4, <1>5 DEF QueueInv, QueueOK

LEMMA HoldKeepsQueue ==
    ASSUME QueueInv, NEW c \in Call, HoldSucceeds(c) \/ HoldFails(c)
    PROVE  QueueOK' /\ PayerPays'
  <1>1. /\ UNCHANGED <<sent, queue, batch, processed, failed>>
        /\ Hold(c) \/ UNCHANGED <<coins, rows>>
    BY DEF HoldSucceeds, HoldFails, Hold, worker, payer
  <1>2. /\ \A d \in Call \ {c} : stage'[d] = stage[d]
        /\ stage[c] # "idle"
        /\ HoldSucceeds(c) => stage'[c] = "idle"
    BY StageMoves DEF HoldSucceeds, HoldFails, QueueInv, OperationSucceeds, OperationFails
  <1>3. PayerPays' /\ coins' \in Nat /\ rows' \in [Call -> Nat]
        /\ \A d \in Call \ {c} : rows'[d] = rows[d]
    <2>1. CASE Hold(c)
      BY <2>1, HoldPays DEF QueueInv
    <2>2. CASE UNCHANGED <<coins, rows>>
      BY <2>2, PayerStays DEF QueueInv, QueueOK
    <2>3. QED
      BY <1>1, <2>1, <2>2
  <1>4. HoldFails(c) => rows' = rows
    BY DEF HoldFails, payer
  <1>5. QED
    BY <1>1, <1>2, <1>3, <1>4 DEF QueueInv, QueueOK

LEMMA QueuedKeepsQueue ==
    ASSUME QueueInv, NEW c \in Call, DegradedHold(c)
    PROVE  QueueOK' /\ PayerPays'
  <1>1. UNCHANGED <<sent, coins, rows, batch, processed, failed>>
    BY DEF DegradedHold, worker, payer
  <1>2. /\ \A d \in Call \ {c} : stage'[d] = stage[d]
        /\ stage[c] # "idle" /\ stage'[c] = "idle"
    BY StageMoves DEF DegradedHold, FallbackReturns, QueueInv
  <1>3. /\ queue' \in Seq(sent) /\ Distinct(queue')
        /\ \A d : InList(d, queue') => d = c \/ InList(d, queue)
    <2>1. /\ queue \in Seq(sent) /\ Distinct(queue)
          /\ c \in sent /\ ~InList(c, queue)
      BY <1>2 DEF QueueInv, QueueOK
    <2>2. queue' = <<c>> \o queue \/ queue' = queue
      BY DEF DegradedHold
    <2>3. /\ <<c>> \o queue \in Seq(sent) /\ Distinct(<<c>> \o queue)
          /\ \A d : InList(d, <<c>> \o queue) => d = c \/ InList(d, queue)
      BY <2>1, PushedList
    <2>4. CASE queue' = <<c>> \o queue
      BY <2>3, <2>4, Zenon
    <2>5. CASE queue' = queue
      BY <2>1, <2>5
    <2>6. QED
      BY <2>2, <2>4, <2>5
  <1>4. QED
    BY <1>1, <1>2, <1>3, PayerStays DEF QueueInv, QueueOK

LEMMA PassKeepsQueue ==
    ASSUME QueueInv, StartPass \/ TryItem \/ FinishPass
    PROVE  QueueOK' /\ PayerPays'
  <1>1. sent' = sent /\ stage' = stage
    BY DEF StartPass, TryItem, FinishPass, Hold, payer, breakerVars
  <1>2. CASE StartPass
    BY <1>1, <1>2, PayerStays DEF StartPass, payer, QueueInv, QueueOK
  <1>3. CASE TryItem
    <2>1. /\ Head(batch) \in sent /\ InList(Head(batch), batch)
          /\ batch' \in Seq(sent) /\ Distinct(batch')
          /\ \A d : InList(d, batch') => InList(d, batch)
      BY <1>3, TailOfList DEF TryItem, QueueInv, QueueOK
    <2>2. /\ PayerPays' /\ coins' \in Nat /\ rows' \in [Call -> Nat]
          /\ \A d \in Call : d # Head(batch) => rows'[d] = rows[d]
      <3>1. CASE Hold(Head(batch))
        BY <2>1, <3>1, HoldPays DEF QueueInv, QueueOK
      <3>2. CASE UNCHANGED payer
        BY <3>2, PayerStays DEF payer, QueueInv, QueueOK
      <3>3. QED
        BY <1>3, <3>1, <3>2 DEF TryItem
    <2>3. queue' = queue /\ processed' \in Nat /\ failed' \in Nat
      BY <1>3 DEF TryItem, QueueInv, QueueOK
    <2>4. QED
      BY <1>1, <2>1, <2>2, <2>3 DEF QueueInv, QueueOK
  <1>4. CASE FinishPass
    <2>1. UNCHANGED <<coins, rows, batch, processed, failed>>
      BY <1>4 DEF FinishPass, payer
    <2>2. /\ queue' \in Seq(sent) /\ Distinct(queue')
          /\ \A d : InList(d, queue') => InList(d, queue)
      BY <1>4, SuffixOfList DEF FinishPass, QueueInv, QueueOK
    <2>3. QED
      BY <1>1, <2>1, <2>2, PayerStays DEF QueueInv, QueueOK
  <1>5. QED
    BY <1>2, <1>3, <1>4

LEMMA NextQueueInv == QueueInv /\ [QueueNext]_queueVars => QueueInv'
  <1> SUFFICES ASSUME QueueInv, [QueueNext]_queueVars PROVE QueueOK' /\ PayerPays'
    BY QueueStepsBreaker DEF QueueInv
  <1>1. CASE UNCHANGED <<stage, payer, queue, worker>>
    BY <1>1, PayerStays DEF payer, worker, QueueInv, QueueOK
  <1>2. (Tick \/ Reset) => stage' = stage
    BY DEF Tick, Reset
  <1>3. QED
    BY <1>1, <1>2, SendKeepsQueue, HoldKeepsQueue, QueuedKeepsQueue, PassKeepsQueue
    DEF QueueNext, queueVars, breakerVars

LEMMA InitQueueInv == StartCoins \in Nat /\ QueueInit => QueueInv
  <1> SUFFICES ASSUME StartCoins \in Nat, QueueInit PROVE QueueInv
    OBVIOUS
  <1>1. HeldCoins = {}
    BY DEF QueueInit, HeldCoins
  <1>2. PayerPays
    BY <1>1, FS_EmptySet DEF QueueInit, PayerPays
  <1>3. QueueOK
    BY DEF QueueInit, BreakerInit, QueueOK, Distinct
  <1>4. QED
    BY <1>2, <1>3, InitBreakerInv DEF QueueInit, QueueInv

\* Every coin the payer is charged stands in a row, nobody is charged unasked,
\* and no request is charged by its own call and by the worker: a call under
\* way has no row and is not in the list, which names each request once.
THEOREM QueueBooks == StartCoins \in Nat /\ QueueSpec => [](QueueOK /\ PayerPays)
  BY InitQueueInv, NextQueueInv, PTL DEF QueueSpec, QueueInv

-----------------------------------------------------------------------------
\* What "clear processed items" would mean: the LTRIM at the end of a pass
\* leaves no request in the list that has its row.
TrimClears ==
    FinishPass => \A c \in Call : InList(c, queue') => rows[c] = 0

\* What a pass still has to try is not held yet, and outside a pass nothing in
\* the list is.
Unheld ==
    /\ HeldOnce
    /\ \A c \in Call : InList(c, batch) => rows[c] = 0
    /\ ~passing => \A c \in Call : InList(c, queue) => rows[c] = 0

LEMMA TrimmedUnheld ==
    ASSUME QueueInv, Unheld, [QueueNext]_queueVars, [TrimClears]_queueVars
    PROVE  Unheld'
  <1> USE DEF Unheld, HeldOnce
  <1>1. rows \in [Call -> Nat]
    BY DEF QueueInv, QueueOK
  <1>2. CASE UNCHANGED <<rows, queue, batch, passing>>
    BY <1>2 DEF InList
  <1>3. ASSUME NEW c \in Call, HoldSucceeds(c) PROVE Unheld'
    <2>1. rows[c] = 0 /\ ~InList(c, queue) /\ ~InList(c, batch)
      BY <1>3 DEF HoldSucceeds, OperationSucceeds, QueueInv, QueueOK
    <2>2. rows' = [rows EXCEPT ![c] = @ + 1] /\ UNCHANGED <<queue, batch, passing>>
      BY <1>3 DEF HoldSucceeds, Hold, worker
    <2>3. QED
      BY <1>1, <2>1, <2>2 DEF InList
  <1>4. ASSUME NEW c \in Call, DegradedHold(c) PROVE Unheld'
    <2>1. rows[c] = 0 /\ c \in sent /\ queue \in Seq(sent)
      BY <1>4 DEF DegradedHold, FallbackReturns, QueueInv, QueueOK
    <2>2. UNCHANGED <<rows, batch, passing>>
      BY <1>4 DEF DegradedHold, payer, worker
    <2>3. \A d : InList(d, queue') => d = c \/ InList(d, queue)
      BY <1>4, <2>1, PushedList DEF DegradedHold
    <2>4. QED
      BY <2>1, <2>2, <2>3 DEF InList
  <1>5. CASE StartPass
    BY <1>5 DEF StartPass, payer, InList
  <1>6. CASE TryItem
    <2> DEFINE c == Head(batch)
    <2>1. /\ c \in Call /\ InList(c, batch) /\ ~InList(c, batch')
          /\ \A d : InList(d, batch') => InList(d, batch)
      BY <1>6, TailOfList DEF TryItem, QueueInv, QueueOK
    <2>2. /\ rows' = [rows EXCEPT ![c] = @ + 1] \/ rows' = rows
          /\ passing /\ passing' = passing
      BY <1>6 DEF TryItem, Hold, payer
    <2>3. QED
      BY <1>1, <2>1, <2>2
  <1>7. CASE FinishPass
    <2>1. UNCHANGED <<rows, batch>> /\ passing' # passing
      BY <1>7 DEF FinishPass, payer
    <2>2. \A c \in Call : InList(c, queue') => rows[c] = 0
      BY <1>7, <2>1 DEF TrimClears, queueVars, worker
    <2>3. QED
      BY <2>1, <2>2 DEF InList
  <1>8. QED
    BY <1>2, <1>3, <1>4, <1>5, <1>6, <1>7
    DEF QueueNext, queueVars, payer, worker, SendHold, HoldFails

\* The LTRIM is the only way to be charged twice: where it clears what was
\* processed, no request is, however calls, failures and passes interleave.
THEOREM QueueHeldOnce ==
    StartCoins \in Nat /\ QueueSpec /\ [][TrimClears]_queueVars => []HeldOnce
  <1>1. StartCoins \in Nat /\ QueueInit => QueueInv /\ Unheld
    BY InitQueueInv DEF QueueInit, Unheld, HeldOnce, InList
  <1>2. Unheld => HeldOnce
    BY DEF Unheld
  <1>3. QED
    BY <1>1, <1>2, NextQueueInv, TrimmedUnheld, PTL DEF QueueSpec

=============================================================================
