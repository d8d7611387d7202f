-------------------------- MODULE PremiumAiLedger --------------------------
(***************************************************************************)
(* What the coin-funded AI services promise a learner, with no handler, no *)
(* cron job, no lock and no lost reply in sight.  A purchase is identified *)
(* by one row of premium_ai_runs, that is one (user, service, idempotency  *)
(* key) triple.  It is charged at most once, and the charge ends in one of *)
(* two ways: the report is delivered, or the exact price comes back.       *)
(*                                                                         *)
(* PremiumAi (service and database functions) and PremiumAiLocks (row      *)
(* locks under the same functions) both implement this module.             *)
(***************************************************************************)
EXTENDS PremiumAiRuns

VARIABLES
    purchase,       \* status of each purchase
    wallet          \* coins of each user

vars == <<purchase, wallet>>

\* The coins of user u that are spent or set aside.
Paid(u) == {r \in RunsOf(u, Run) : purchase[r] \in {"pending", "completed"}}

-----------------------------------------------------------------------------
Init ==
    /\ purchase = [r \in Run |-> "none"]
    /\ wallet = [u \in User |-> StartBalance]

Charge(r) ==
    /\ purchase[r] = "none"
    /\ wallet[Owner[r]] >= Cost
    /\ purchase' = [purchase EXCEPT ![r] = "pending"]
    /\ wallet' = [wallet EXCEPT ![Owner[r]] = @ - Cost]

Deliver(r) ==
    /\ purchase[r] = "pending"
    /\ purchase' = [purchase EXCEPT ![r] = "completed"]
    /\ UNCHANGED wallet

\* Several abandoned purchases can be refunded in one database transaction.
Refund(S) ==
    /\ \A r \in S : purchase[r] = "pending"
    /\ purchase' = [r \in Run |-> IF r \in S THEN "failed" ELSE purchase[r]]
    /\ wallet' = [u \in User |-> wallet[u] + Price(RunsOf(u, S))]

Next ==
    \/ \E r \in Run : Charge(r) \/ Deliver(r)
    \/ \E S \in SUBSET Run : Refund(S)

Spec == Init /\ [][Next]_vars

-----------------------------------------------------------------------------
TypeOK ==
    /\ purchase \in [Run -> Status]
    /\ wallet \in [User -> Nat]

\* No coin is minted or lost: a wallet is the opening balance less the price
\* of every purchase that is pending or delivered.
WalletMatchesPurchases ==
    \A u \in User : wallet[u] = StartBalance - Price(Paid(u))

=============================================================================
