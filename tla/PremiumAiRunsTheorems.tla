------------------------ MODULE PremiumAiRunsTheorems ------------------------
(***************************************************************************)
(* The price of a set of runs, as the sets of paid runs grow and shrink.   *)
(***************************************************************************)
EXTENDS PremiumAiRuns, FiniteSetTheorems, TLAPS

LEMMA RunsOfType == \A u, S : S \subseteq Run => RunsOf(u, S) \in SUBSET Run
  BY DEF RunsOf

LEMMA PriceType ==
    ASSUME NEW S \in SUBSET Run
    PROVE  IsFiniteSet(S) /\ Cardinality(S) \in Nat /\ Price(S) \in Nat
  <1>1. IsFiniteSet(S)
    BY FS_Subset, RunsAssumption
  <1>2. Cardinality(S) \in Nat
    BY <1>1, FS_CardinalityType
  <1>3. QED
    BY <1>1, <1>2, RunsAssumption DEF Price

LEMMA PriceOfNone == Price({}) = 0
  BY FS_EmptySet, RunsAssumption DEF Price

\* One more run costs one price more.
LEMMA PriceAdds ==
    ASSUME NEW S \in SUBSET Run, NEW r \in Run \ S
    PROVE  Price(S \cup {r}) = Price(S) + Cost
  <1>1. Cardinality(S \cup {r}) = Cardinality(S) + 1
    BY PriceType, FS_AddElement
  <1> DEFINE n == Cardinality(S)
  <1>2. n \in Nat
    BY PriceType
  <1> HIDE DEF n
  <1>3. Cost * (n + 1) = Cost * n + Cost
    BY <1>2, RunsAssumption
  <1>4. QED
    BY <1>1, <1>3 DEF Price, n

\* The runs taken out cost what the price goes down by.
LEMMA PriceSubtracts ==
    ASSUME NEW S \in SUBSET Run, NEW T \in SUBSET S
    PROVE  Price(S \ T) = Price(S) - Price(T)
  <1> DEFINE n == Cardinality(S)
             m == Cardinality(T)
  <1>1. S \cap T = T
    OBVIOUS
  <1>2. Cardinality(S \ T) = n - m
    BY <1>1, PriceType, FS_Difference
  <1>3. n \in Nat /\ m \in Nat
    BY PriceType
  <1> HIDE DEF n, m
  <1>4. Cost * (n - m) = Cost * n - Cost * m
    BY <1>3, RunsAssumption
  <1>5. QED
    BY <1>2, <1>4 DEF Price, n, m

LEMMA PriceOfOne == ASSUME NEW r \in Run PROVE Price({r}) = Cost
  <1>1. Price({} \cup {r}) = Price({}) + Cost
    BY PriceAdds
  <1>2. {} \cup {r} = {r}
    OBVIOUS
  <1>3. QED
    BY <1>1, <1>2, PriceOfNone, RunsAssumption

=============================================================================
