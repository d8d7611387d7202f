----------------------- MODULE PremiumAiLedgerProofs -----------------------
(***************************************************************************)
(* Conservation of coins for the abstract purchase, for every set of users *)
(* and purchases, every price and every opening balance.                   *)
(***************************************************************************)
EXTENDS PremiumAiLedger, PremiumAiRunsTheorems

LEMMA PaidType == \A u : Paid(u) \in SUBSET Run
  BY DEF Paid, RunsOf

\* Wallets and statuses keep their types: no wallet ever goes below zero.
THEOREM LedgerTypeOK == Spec => []TypeOK
  <1>1. Init => TypeOK
    BY RunsAssumption DEF Init, TypeOK, Status
  <1>2. TypeOK /\ [Next]_vars => TypeOK'
    <2> SUFFICES ASSUME TypeOK, [Next]_vars PROVE TypeOK'
      OBVIOUS
    <2> USE RunsAssumption DEF TypeOK, Status
    <2>1. ASSUME NEW r \in Run, Charge(r) PROVE TypeOK'
      BY <2>1 DEF Charge
    <2>2. ASSUME NEW r \in Run, Deliver(r) PROVE TypeOK'
      BY <2>2 DEF Deliver
    <2>3. ASSUME NEW S \in SUBSET Run, Refund(S) PROVE TypeOK'
      <3>1. \A u \in User : wallet[u] + Price(RunsOf(u, S)) \in Nat
        BY PriceType, RunsOfType
      <3>2. QED
        BY <2>3, <3>1 DEF Refund
    <2>4. CASE UNCHANGED vars
      BY <2>4 DEF vars
    <2>5. QED
      BY <2>1, <2>2, <2>3, <2>4 DEF Next
  <1>3. QED
    BY <1>1, <1>2, PTL DEF Spec

\* Conservation of coins: a wallet is the opening balance less the price of
\* every purchase that is pending or delivered.
THEOREM LedgerWallet == Spec => []WalletMatchesPurchases
  <1>1. Init => WalletMatchesPurchases
    <2>1. Init => \A u : Paid(u) = {}
      BY DEF Init, Paid, RunsOf
    <2>2. QED
      BY <2>1, PriceOfNone, RunsAssumption DEF Init, WalletMatchesPurchases
  <1>2. TypeOK /\ WalletMatchesPurchases /\ [Next]_vars => WalletMatchesPurchases'
    <2> SUFFICES ASSUME TypeOK, WalletMatchesPurchases, [Next]_vars, NEW u \in User
                 PROVE  wallet'[u] = StartBalance - Price(Paid(u))'
      BY DEF WalletMatchesPurchases
    <2>0. /\ wallet[u] = StartBalance - Price(Paid(u))
          /\ Price(Paid(u)) \in Nat
          /\ wallet[u] \in Nat
      BY PaidType, PriceType DEF WalletMatchesPurchases, TypeOK
    <2> USE RunsAssumption DEF TypeOK, Status
    <2>1. ASSUME NEW r \in Run, Charge(r), Owner[r] = u
          PROVE  wallet'[u] = StartBalance - Price(Paid(u))'
      <3>1. Paid(u)' = Paid(u) \cup {r} /\ r \notin Paid(u)
        BY <2>1 DEF Charge, Paid, RunsOf
      <3>2. Price(Paid(u)') = Price(Paid(u)) + Cost
        BY <3>1, PaidType, PriceAdds
      <3>3. wallet'[u] = wallet[u] - Cost
        BY <2>1 DEF Charge
      <3>4. QED
        BY <2>0, <3>2, <3>3
    <2>2. ASSUME NEW r \in Run, Charge(r), Owner[r] # u
          PROVE  wallet'[u] = StartBalance - Price(Paid(u))'
      <3>1. Paid(u)' = Paid(u) /\ wallet'[u] = wallet[u]
        BY <2>2 DEF Charge, Paid, RunsOf
      <3>2. QED
        BY <2>0, <3>1
    <2>3. ASSUME NEW r \in Run, Deliver(r)
          PROVE  wallet'[u] = StartBalance - Price(Paid(u))'
      <3>1. Paid(u)' = Paid(u) /\ wallet'[u] = wallet[u]
        BY <2>3 DEF Deliver, Paid, RunsOf
      <3>2. QED
        BY <2>0, <3>1
    <2>4. ASSUME NEW S \in SUBSET Run, Refund(S)
          PROVE  wallet'[u] = StartBalance - Price(Paid(u))'
      <3>1. /\ Paid(u)' = Paid(u) \ RunsOf(u, S)
            /\ RunsOf(u, S) \in SUBSET Paid(u)
        BY <2>4 DEF Refund, Paid, RunsOf
      <3>2. Price(Paid(u)') = Price(Paid(u)) - Price(RunsOf(u, S))
        BY <3>1, PaidType, PriceSubtracts
      <3>3. wallet'[u] = wallet[u] + Price(RunsOf(u, S))
        BY <2>4 DEF Refund
      <3>4. Price(RunsOf(u, S)) \in Nat
        BY RunsOfType, PriceType
      <3>5. QED
        BY <2>0, <3>2, <3>3, <3>4
    <2>5. CASE UNCHANGED vars
      <3>1. Paid(u)' = Paid(u) /\ wallet'[u] = wallet[u]
        BY <2>5 DEF vars, Paid, RunsOf
      <3>2. QED
        BY <2>0, <3>1
    <2>6. QED
      BY <2>1, <2>2, <2>3, <2>4, <2>5 DEF Next
  <1>3. QED
    BY <1>1, <1>2, LedgerTypeOK, PTL DEF Spec

=============================================================================
