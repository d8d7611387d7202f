--------------------------- MODULE MC_EscrowQueue ---------------------------
(* Two requests of a payer who can afford three holds.                     *)
EXTENDS EscrowQueue

=============================================================================
