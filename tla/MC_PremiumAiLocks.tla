------------------------- MODULE MC_PremiumAiLocks -------------------------
(***************************************************************************)
(* Instances of PremiumAiLocks for TLC: u1 owns two runs, u2 one.          *)
(***************************************************************************)
EXTENDS PremiumAiLocks

CONSTANTS u1, u2, r1, r2, r3

OwnerOfThree == [r \in {r1, r2, r3} |-> IF r = r3 THEN u2 ELSE u1]
TwoRuns == [r \in {r1, r2} |-> u1]

=============================================================================
