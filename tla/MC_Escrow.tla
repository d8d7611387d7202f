----------------------------- MODULE MC_Escrow -----------------------------
(* Two users, two escrows in opposite directions, small amounts.           *)
EXTENDS Escrow

CONSTANTS ann, bob, e1, e2

FromAnnOrBob == [e \in EscrowId |-> IF e = e1 THEN ann ELSE bob]
ToBobOrAnn == [e \in EscrowId |-> IF e = e1 THEN bob ELSE ann]
OneAndTwo == [e \in EscrowId |-> IF e = e1 THEN 1 ELSE 2]

\* Once both users are disturbed nothing more is asked of their books.
SomeoneUndisturbed == ~(User \subseteq disturbed)

=============================================================================
