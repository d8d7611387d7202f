---------------------------- MODULE PremiumAiRuns ----------------------------
(***************************************************************************)
(* What the premium AI modules share: the rows of users and                *)
(* premium_ai_runs, the price, and the statuses of a run.                  *)
(***************************************************************************)
EXTENDS Integers, FiniteSets

CONSTANTS
    User,           \* rows of public.users
    Run,            \* (user, service_key, idempotency_key) triples, the
                    \* unique key of premium_ai_runs
    Owner,          \* the user of each triple
    Cost,           \* the server-owned price, 30 coins in the code
    StartBalance    \* coins_balance of every user before any purchase

\* A user has finitely many keys in use, and the price is positive
\* (CHECK (cost_coins > 0)).
ASSUME RunsAssumption ==
    /\ IsFiniteSet(Run)
    /\ Owner \in [Run -> User]
    /\ Cost \in Nat \ {0}
    /\ StartBalance \in Nat

\* premium_ai_runs.status; "none" while there is no row for the triple.
Status == {"none", "pending", "completed", "failed"}

RunsOf(u, S) == {r \in S : Owner[r] = u}

\* What the runs of S cost together.
Price(S) == Cost * Cardinality(S)

=============================================================================
