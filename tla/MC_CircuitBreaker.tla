------------------------- MODULE MC_CircuitBreaker -------------------------
(* The code's own configuration: five failures open, three probes.         *)
EXTENDS CircuitBreaker

=============================================================================
