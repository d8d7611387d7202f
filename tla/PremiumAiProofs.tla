--------------------------- MODULE PremiumAiProofs ---------------------------
(***************************************************************************)
(* Proofs about PremiumAi for any number of users, rooms, runs and         *)
(* handlers, any price, opening balance and batch size.                    *)
(*                                                                         *)
(* Every step either leaves money and runs alone or is one of three money  *)
(* movements (lemma Movements); conservation, the audit trail and the      *)
(* refinement of PremiumAiLedger follow from the movements.  What answers  *)
(* say follows from HandlerInv, which ties a handler to its run.           *)
(***************************************************************************)
EXTENDS PremiumAi, PremiumAiRunsTheorems

LEMMA PaidType == \A u : Paid(u) \in SUBSET Run
  BY DEF Paid, RunsOf

LEMMA InitTypeOK == Init => TypeOK
  <1>1. NoRoom \in Room /\ NoRun \in Run
    BY PremiumAiAssumption DEF NoRoom, NoRun
  <1>2. QED
    BY <1>1, RunsAssumption DEF Init, TypeOK, Status, Age, Step, Answer

\* What a handler step leaves behind in the handler's variables.
HandlerTypeOK ==
    /\ at \in [Handler -> Step]
    /\ run \in [Handler -> Run]
    /\ room \in [Handler -> Room]
    /\ charged \in [Handler -> BOOLEAN]
    /\ answer \in [Handler -> Answer]

\* Moving a handler on, or answering its request, keeps its types.
LEMMA HandlerStep ==
    ASSUME TypeOK, NEW h \in Handler
    PROVE  /\ \A step \in Step : Goto(h, step) => HandlerTypeOK'
           /\ \A what \in Answer : Reply(h, what) => HandlerTypeOK'
  BY DEF TypeOK, HandlerTypeOK, Goto, Reply, Step

LEMMA RefundRunsType ==
    ASSUME TypeOK, NEW S \in SUBSET Run, RefundRuns(S)
    PROVE  /\ balance' \in [User -> Nat]
           /\ status' \in [Run -> Status]
           /\ refunds' \in [Run -> Nat]
           /\ UNCHANGED <<member, subject, age, spends>>
  <1>1. \A u \in User : balance[u] + Price(RunsOf(u, S)) \in Nat
    BY RunsOfType, PriceType DEF TypeOK
  <1>2. balance' \in [User -> Nat]
    BY <1>1 DEF RefundRuns
  <1>3. QED
    BY <1>2 DEF RefundRuns, TypeOK, Status

LEMMA StartChargesType ==
    ASSUME TypeOK, NEW h \in Handler, StartCharges(h)
    PROVE  TypeOK'
  <1> DEFINE u == OwnerOf(h)
  <1>0. u \in User /\ balance[u] \in Nat /\ balance[u] >= Cost
    BY RunsAssumption DEF TypeOK, StartCharges, OwnerOf
  <1>1. balance' \in [User -> Nat]
    <2>1. balance[u] - Cost \in Nat
      BY <1>0, RunsAssumption
    <2>2. balance' = [balance EXCEPT ![u] = balance[u] - Cost]
      BY DEF StartCharges, Charge
    <2> HIDE DEF u
    <2>3. QED
      BY <1>0, <2>1, <2>2 DEF TypeOK
  <1>2. /\ status' \in [Run -> Status] /\ subject' \in [Run -> Room]
        /\ spends' \in [Run -> Nat]
    BY DEF TypeOK, StartCharges, Charge, Status
  <1>3. at' \in [Handler -> Step] /\ answer' \in [Handler -> Answer]
    BY DEF TypeOK, StartCharges, Charge, Step, Answer
  <1>4. QED
    BY <1>1, <1>2, <1>3 DEF TypeOK, StartCharges, Charge

LEMMA NextTypeOK == TypeOK /\ [Next]_vars => TypeOK'
  <1> SUFFICES ASSUME TypeOK, [Next]_vars PROVE TypeOK'
    OBVIOUS
  <1>1. ASSUME NEW h \in Handler, Handle(h) PROVE TypeOK'
    <2> USE DEF Answer, Step
    <2>0. {run[h]} \in SUBSET Run
      BY DEF TypeOK
    <2>1. CASE \E r \in Run, m \in Room : Receive(h, r, m)
      BY <2>1 DEF Receive, TypeOK, db
    <2>2. CASE Authorize(h)
      BY <2>2, HandlerStep DEF Authorize, TypeOK, HandlerTypeOK, db
    <2>3. CASE \/ StartDenied(h) \/ StartMismatch(h) \/ StartInsufficient(h)
               \/ StartError(h)
      BY <2>3, HandlerStep
      DEF StartDenied, StartMismatch, StartInsufficient, StartError, TypeOK,
          HandlerTypeOK, db
    <2>4. CASE StartFindsRun(h)
      BY <2>4, HandlerStep DEF StartFindsRun, TypeOK, HandlerTypeOK, db
    <2>5. CASE StartRecovers(h)
      BY <2>5, <2>0, HandlerStep, RefundRunsType
      DEF StartRecovers, TypeOK, HandlerTypeOK
    <2>6. CASE StartCharges(h)
      BY <2>6, StartChargesType
    <2>7. CASE Provider(h) \/ CompleteFails(h) \/ RefundFails(h) \/ Crash(h)
      BY <2>7, HandlerStep
      DEF Provider, CompleteFails, RefundFails, Crash, TypeOK, HandlerTypeOK, db
    <2>8. CASE Completes(h)
      BY <2>8, HandlerStep DEF Completes, TypeOK, HandlerTypeOK, Status
    <2>9. CASE Refunds(h)
      BY <2>9, <2>0, HandlerStep, RefundRunsType
      DEF Refunds, TypeOK, HandlerTypeOK
    <2>10. QED
      BY <1>1, <2>1, <2>2, <2>3, <2>4, <2>5, <2>6, <2>7, <2>8, <2>9
      DEF Handle, StartRpc
  <1>2. ASSUME NEW u \in User, NEW m \in Room, LeaveRoom(u, m) PROVE TypeOK'
    BY <1>2 DEF LeaveRoom, TypeOK, handler
  <1>3. ASSUME NEW r \in Run, Grow(r) PROVE TypeOK'
    BY <1>3 DEF Grow, TypeOK, handler, Age
  <1>4. ASSUME NEW S \in SUBSET Run, Reconcile(S) PROVE TypeOK'
    BY <1>4, RefundRunsType DEF Reconcile, TypeOK, handler
  <1>5. CASE UNCHANGED vars
    BY <1>5 DEF vars, db, handler, TypeOK
  <1>6. QED
    BY <1>1, <1>2, <1>3, <1>4, <1>5 DEF Next

\* Types are kept, and no interleaving of requests and cron jobs overdraws a
\* wallet.
THEOREM PremiumAiTypeOK == Spec => []TypeOK
  BY InitTypeOK, NextTypeOK, PTL DEF Spec

-----------------------------------------------------------------------------
\* The three money movements, and the steps that move none.
Settled(S) == (\A r \in S : status[r] = "pending") /\ RefundRuns(S)

LEMMA Movements ==
    ASSUME TypeOK, [Next]_vars
    PROVE  \/ UNCHANGED <<balance, status, subject, spends, refunds>>
           \/ \E h \in Handler : StartCharges(h)
           \/ \E h \in Handler : Completes(h)
           \/ \E S \in SUBSET Run : Settled(S)
  <1>1. ASSUME NEW h \in Handler, Handle(h)
        PROVE  \/ UNCHANGED <<balance, status, subject, spends, refunds>>
               \/ StartCharges(h)
               \/ Completes(h)
               \/ \E S \in SUBSET Run : Settled(S)
    <2>0. {run[h]} \in SUBSET Run
      BY DEF TypeOK
    <2>1. CASE StartRecovers(h) \/ Refunds(h)
      <3>1. Settled({run[h]})
        BY <2>1 DEF StartRecovers, Refunds, Recoverable, StatusOf, Settled
      <3>2. QED
        BY <3>1, <2>0
    <2>2. CASE StartCharges(h) \/ Completes(h)
      BY <2>2
    <2>3. CASE ~(\/ StartRecovers(h) \/ Refunds(h) \/ StartCharges(h)
                 \/ Completes(h))
      BY <1>1, <2>3
      DEF Handle, StartRpc, Receive, Authorize, StartDenied, StartMismatch,
          StartFindsRun, StartInsufficient, StartError, Provider,
          CompleteFails, RefundFails, Crash, db
    <2>4. QED
      BY <2>1, <2>2, <2>3
  <1>2. ASSUME NEW u \in User, NEW m \in Room, LeaveRoom(u, m)
        PROVE  UNCHANGED <<balance, status, subject, spends, refunds>>
    BY <1>2 DEF LeaveRoom
  <1>3. ASSUME NEW r \in Run, Grow(r)
        PROVE  UNCHANGED <<balance, status, subject, spends, refunds>>
    BY <1>3 DEF Grow
  <1>4. ASSUME NEW S \in SUBSET Run, Reconcile(S) PROVE Settled(S)
    BY <1>4 DEF Reconcile, StaleRuns, Settled
  <1>5. CASE UNCHANGED vars
    BY <1>5 DEF vars, db
  <1>6. QED
    BY <1>1, <1>2, <1>3, <1>4, <1>5 DEF Next

-----------------------------------------------------------------------------
\* Conservation of coins: whatever interleaves, a balance is the opening
\* balance less the price of each run that is pending or completed.
THEOREM PremiumAiWallet == Spec => []WalletMatchesRuns
  <1>1. Init => WalletMatchesRuns
    <2> SUFFICES ASSUME Init, NEW u \in User
                 PROVE  balance[u] = StartBalance - Price(Paid(u))
      BY DEF WalletMatchesRuns
    <2>1. Paid(u) = {}
      BY DEF Init, Paid, RunsOf
    <2>2. Price(Paid(u)) = 0
      BY <2>1, PriceOfNone
    <2>3. balance[u] = StartBalance
      BY DEF Init
    <2>4. QED
      BY <2>2, <2>3, RunsAssumption
  <1>2. TypeOK /\ WalletMatchesRuns /\ [Next]_vars => WalletMatchesRuns'
    <2> SUFFICES ASSUME TypeOK, WalletMatchesRuns, [Next]_vars, NEW u \in User
                 PROVE  balance'[u] = StartBalance - Price(Paid(u))'
      BY DEF WalletMatchesRuns
    <2>0. /\ balance[u] = StartBalance - Price(Paid(u))
          /\ Price(Paid(u)) \in Nat
          /\ balance[u] \in Nat
      BY PaidType, PriceType DEF WalletMatchesRuns, TypeOK
    <2> USE RunsAssumption DEF TypeOK, Status
    <2>1. CASE UNCHANGED <<balance, status, subject, spends, refunds>>
      <3>1. Paid(u)' = Paid(u)
        BY <2>1 DEF Paid, RunsOf
      <3>2. QED
        BY <2>0, <2>1, <3>1
    <2>2. ASSUME NEW h \in Handler, StartCharges(h)
          PROVE  balance'[u] = StartBalance - Price(Paid(u))'
      <3>0. run[h] \in Run
        OBVIOUS
      <3>1. CASE OwnerOf(h) = u
        <4>1. Paid(u)' = Paid(u) \cup {run[h]} /\ run[h] \notin Paid(u)
          BY <2>2, <3>0, <3>1
          DEF StartCharges, Charge, Paid, RunsOf, OwnerOf, StatusOf
        <4>2. Price(Paid(u)') = Price(Paid(u)) + Cost
          BY <4>1, <3>0, PaidType, PriceAdds
        <4>3. balance'[u] = balance[u] - Cost
          BY <2>2, <3>1 DEF StartCharges, Charge
        <4>4. QED
          BY <2>0, <4>2, <4>3
      <3>2. CASE OwnerOf(h) # u
        <4>1. Paid(u)' = Paid(u)
          BY <2>2, <3>0, <3>2 DEF StartCharges, Charge, Paid, RunsOf, OwnerOf
        <4>2. balance'[u] = balance[u]
          BY <2>2, <3>2 DEF StartCharges, Charge
        <4>3. QED
          BY <2>0, <4>1, <4>2
      <3>3. QED
        BY <3>1, <3>2
    <2>3. ASSUME NEW h \in Handler, Completes(h)
          PROVE  balance'[u] = StartBalance - Price(Paid(u))'
      <3>1. Paid(u)' = Paid(u)
        BY <2>3 DEF Completes, Paid, RunsOf, StatusOf
      <3>2. QED
        BY <2>0, <2>3, <3>1 DEF Completes
    <2>4. ASSUME NEW S \in SUBSET Run, Settled(S)
          PROVE  balance'[u] = StartBalance - Price(Paid(u))'
      <3>1. /\ Paid(u)' = Paid(u) \ RunsOf(u, S)
            /\ RunsOf(u, S) \in SUBSET Paid(u)
        BY <2>4 DEF Settled, RefundRuns, Paid, RunsOf
      <3>2. Price(Paid(u)') = Price(Paid(u)) - Price(RunsOf(u, S))
        BY <3>1, PaidType, PriceSubtracts
      <3>3. balance'[u] = balance[u] + Price(RunsOf(u, S))
        BY <2>4 DEF Settled, RefundRuns
      <3>4. Price(RunsOf(u, S)) \in Nat
        BY RunsOfType, PriceType
      <3>5. QED
        BY <2>0, <3>2, <3>3, <3>4
    <2>5. QED
      BY <2>1, <2>2, <2>3, <2>4, Movements
  <1>3. QED
    BY <1>1, <1>2, PremiumAiTypeOK, PTL DEF Spec

\* The audit trail: one spend row per charged run, and a refund row exactly
\* for the failed ones, so no run is refunded twice or both delivered and
\* refunded.
THEOREM PremiumAiAudit == Spec => []LedgerMatchesRuns
  <1>1. Init => LedgerMatchesRuns
    BY DEF Init, LedgerMatchesRuns
  <1>2. TypeOK /\ LedgerMatchesRuns /\ [Next]_vars => LedgerMatchesRuns'
    <2> SUFFICES ASSUME TypeOK, LedgerMatchesRuns, [Next]_vars
                 PROVE  LedgerMatchesRuns'
      OBVIOUS
    <2> USE DEF TypeOK, LedgerMatchesRuns
    <2>1. CASE UNCHANGED <<balance, status, subject, spends, refunds>>
      BY <2>1
    <2>2. ASSUME NEW h \in Handler, StartCharges(h) PROVE LedgerMatchesRuns'
      BY <2>2 DEF StartCharges, Charge, StatusOf
    <2>3. ASSUME NEW h \in Handler, Completes(h) PROVE LedgerMatchesRuns'
      BY <2>3 DEF Completes, StatusOf
    <2>4. ASSUME NEW S \in SUBSET Run, Settled(S) PROVE LedgerMatchesRuns'
      BY <2>4 DEF Settled, RefundRuns
    <2>5. QED
      BY <2>1, <2>2, <2>3, <2>4, Movements
  <1>3. QED
    BY <1>1, <1>2, PremiumAiTypeOK, PTL DEF Spec

-----------------------------------------------------------------------------
\* Every step of the service is one step of the abstract purchase or none.
LEMMA StepImplements ==
    ASSUME TypeOK, [Next]_vars
    PROVE  [Ledger!Next]_(Ledger!vars)
  <1>1. CASE UNCHANGED <<balance, status, subject, spends, refunds>>
    BY <1>1 DEF Ledger!vars
  <1>2. ASSUME NEW h \in Handler, StartCharges(h) PROVE Ledger!Next
    <2>1. run[h] \in Run
      BY DEF TypeOK
    <2>2. Ledger!Charge(run[h])
      BY <1>2 DEF StartCharges, Charge, StatusOf, OwnerOf, Ledger!Charge
    <2>3. QED
      BY <2>1, <2>2 DEF Ledger!Next
  <1>3. ASSUME NEW h \in Handler, Completes(h) PROVE Ledger!Next
    <2>1. run[h] \in Run
      BY DEF TypeOK
    <2>2. Ledger!Deliver(run[h])
      BY <1>3 DEF Completes, StatusOf, Ledger!Deliver
    <2>3. QED
      BY <2>1, <2>2 DEF Ledger!Next
  <1>4. ASSUME NEW S \in SUBSET Run, Settled(S) PROVE Ledger!Next
    <2>1. \A u \in User : Price(RunsOf(u, S)) = Ledger!Price(Ledger!RunsOf(u, S))
      BY Zenon DEF RunsOf, Ledger!RunsOf, Price, Ledger!Price, Cardinality,
                   Ledger!Cardinality
    <2>2. balance' = [u \in User |->
                        balance[u] + Ledger!Price(Ledger!RunsOf(u, S))]
      BY <1>4, <2>1 DEF Settled, RefundRuns
    <2>3. Ledger!Refund(S)
      BY <1>4, <2>2 DEF Settled, RefundRuns, Ledger!Refund
    <2>4. QED
      BY <2>3 DEF Ledger!Next
  <1>5. QED
    BY <1>1, <1>2, <1>3, <1>4, Movements

\* The service with its retries, crashes, lost replies and cron job charges
\* at most once per key and ends every charge in one way only.
THEOREM PremiumAiImplementsLedger == Spec => ImplementsLedger
  <1>1. Init => Ledger!Init
    BY DEF Init, Ledger!Init
  <1>2. TypeOK /\ [Next]_vars => [Ledger!Next]_(Ledger!vars)
    BY StepImplements
  <1>3. QED
    BY <1>1, <1>2, PremiumAiTypeOK, PTL DEF Spec, ImplementsLedger, Ledger!Spec

-----------------------------------------------------------------------------
\* What a handler relies on after start_premium_ai_service, and what its
\* answer claims, about the row of its run.
Claims(h) ==
    /\ at[h] \in {"provider", "complete", "refund"} =>
          StatusOf(h) # "none" /\ subject[run[h]] = room[h]
    /\ answer[h] = "report" =>
          StatusOf(h) = "completed" /\ subject[run[h]] = room[h]
    /\ answer[h] = "refunded" => StatusOf(h) = "failed"
    /\ answer[h] = "gone_410" =>
          /\ StatusOf(h) # "none"
          /\ StatusOf(h) = "failed" \/ subject[run[h]] # room[h]

HandlerInv == \A h \in Handler : Claims(h)

\* A row keeps its conversation, and a settled run stays as it is.
LEMMA RowsKeep ==
    ASSUME TypeOK, [Next]_vars, NEW r \in Run, status[r] # "none"
    PROVE  /\ subject'[r] = subject[r]
           /\ status'[r] # "none"
           /\ status[r] \in {"completed", "failed"} => status'[r] = status[r]
  <1> USE DEF TypeOK, Status
  <1>1. CASE UNCHANGED <<balance, status, subject, spends, refunds>>
    BY <1>1
  <1>2. ASSUME NEW h \in Handler, StartCharges(h)
        PROVE  subject'[r] = subject[r] /\ status'[r] = status[r]
    BY <1>2 DEF StartCharges, Charge, StatusOf
  <1>3. CASE \E h \in Handler : Completes(h)
    BY <1>3 DEF Completes, StatusOf
  <1>4. CASE \E S \in SUBSET Run : Settled(S)
    BY <1>4 DEF Settled, RefundRuns
  <1>5. QED
    BY <1>1, <1>2, <1>3, <1>4, Movements

\* The claims of a handler that does not move stay true.
LEMMA ClaimsKeep ==
    ASSUME TypeOK, [Next]_vars, NEW h \in Handler, Claims(h),
           at'[h] = at[h], run'[h] = run[h], room'[h] = room[h],
           answer'[h] = answer[h]
    PROVE  Claims(h)'
  <1>1. run[h] \in Run
    BY DEF TypeOK
  <1>2. QED
    BY <1>1, RowsKeep DEF Claims, StatusOf

\* Moving on within a run, and answering without a claim, are harmless.
LEMMA StepClaims ==
    ASSUME TypeOK, [Next]_vars, NEW h \in Handler, Claims(h)
    PROVE  /\ \A step \in {"start", "done"} : Goto(h, step) => Claims(h)'
           /\ \A step \in {"complete", "refund"} :
                 Goto(h, step)
                 /\ at[h] \in {"provider", "complete"} => Claims(h)'
           /\ \A what \in Answer \ {"report", "refunded", "gone_410"} :
                 Reply(h, what) => Claims(h)'
  <1>1. run[h] \in Run
    BY DEF TypeOK
  <1>2. QED
    BY <1>1, RowsKeep DEF TypeOK, Claims, StatusOf, Goto, Reply, Answer

LEMMA HandlerInvStep == TypeOK /\ HandlerInv /\ [Next]_vars => HandlerInv'
  <1> SUFFICES ASSUME TypeOK, HandlerInv, [Next]_vars, NEW g \in Handler
               PROVE  Claims(g)'
    BY DEF HandlerInv
  <1>0. Claims(g) /\ run[g] \in Run
    BY DEF HandlerInv, TypeOK
  <1>1. ASSUME NEW h \in Handler, Handle(h) PROVE Claims(g)'
    <2>1. CASE g # h
      <3>1. /\ at'[g] = at[g] /\ run'[g] = run[g] /\ room'[g] = room[g]
            /\ answer'[g] = answer[g]
        BY <1>1, <2>1
        DEF TypeOK, Handle, StartRpc, Receive, Authorize, StartDenied,
            StartMismatch, StartFindsRun, StartRecovers, StartInsufficient,
            StartCharges, Charge, StartError, Provider, Completes,
            CompleteFails, Refunds, RefundFails, Crash, Goto, Reply
      <3>2. QED
        BY <1>0, <3>1, ClaimsKeep
    <2>2. CASE g = h
      <3> USE <1>0, <2>2 DEF TypeOK, StatusOf
      <3>1. CASE \E r \in Run, m \in Room : Receive(h, r, m)
        BY <3>1 DEF Receive, Claims
      <3>2. CASE \/ Authorize(h) \/ StartDenied(h) \/ StartInsufficient(h)
                 \/ StartError(h) \/ Provider(h) \/ RefundFails(h) \/ Crash(h)
        BY <3>2, StepClaims
        DEF Authorize, StartDenied, StartInsufficient, StartError, Provider,
            RefundFails, Crash, Answer
      <3>3. CASE StartMismatch(h)
        BY <3>3
        DEF StartMismatch, Starting, SubjectMatches, Reply, db, Claims
      <3>4. CASE StartFindsRun(h)
        BY <3>4
        DEF StartFindsRun, Starting, SubjectMatches, Reply, db, Claims
      <3>5. CASE StartRecovers(h)
        BY <3>5
        DEF StartRecovers, Starting, SubjectMatches, RefundRuns, Reply, Claims
      <3>6. CASE StartCharges(h)
        BY <3>6 DEF StartCharges, Starting, Charge, Claims
      <3>7. CASE Completes(h)
        BY <3>7 DEF Completes, Reply, Goto, Claims
      <3>8. CASE CompleteFails(h)
        BY <3>8 DEF CompleteFails, Reply, Goto, db, Claims
      <3>9. CASE Refunds(h)
        BY <3>9 DEF Refunds, RefundRuns, Reply, Claims
      <3>10. QED
        BY <1>1, <3>1, <3>2, <3>3, <3>4, <3>5, <3>6, <3>7, <3>8, <3>9
        DEF Handle, StartRpc
    <2>3. QED
      BY <2>1, <2>2
  <1>2. ASSUME UNCHANGED handler PROVE Claims(g)'
    BY <1>0, <1>2, ClaimsKeep DEF handler
  <1>3. QED
    BY <1>1, <1>2
    DEF Next, LeaveRoom, Grow, Reconcile, vars

LEMMA HandlerInvHolds == Spec => []HandlerInv
  <1>1. Init => HandlerInv
    BY DEF Init, HandlerInv, Claims
  <1>2. QED
    BY <1>1, HandlerInvStep, PremiumAiTypeOK, PTL DEF Spec

\* What a learner is told is so and stays so: a report is paid for and never
\* refunded, "your coins have been refunded" is true, a dead key is dead.
THEOREM PremiumAiAnswers == Spec => []AnswersMatchRuns
  <1>1. HandlerInv => AnswersMatchRuns
    BY DEF HandlerInv, Claims, AnswersMatchRuns
  <1>2. QED
    BY <1>1, HandlerInvHolds, PTL

\* No key reused for another room brings out the report of the first one.
THEOREM PremiumAiRooms == Spec => []ReportStaysInRoom
  <1>1. HandlerInv => ReportStaysInRoom
    BY DEF HandlerInv, Claims, ReportStaysInRoom
  <1>2. QED
    BY <1>1, HandlerInvHolds, PTL

=============================================================================
