---------------------------- MODULE MC_PremiumAi ----------------------------
(***************************************************************************)
(* Instances of PremiumAi for TLC.                                         *)
(***************************************************************************)
EXTENDS PremiumAi

CONSTANTS u1, r1, r2

OneOwner == [r \in {r1, r2} |-> u1]

=============================================================================
