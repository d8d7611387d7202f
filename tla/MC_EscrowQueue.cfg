SPECIFICATION QueueSpec
CONSTANTS
    Call = {h1, h2}
    FailureThreshold = 2
    HalfOpenMax = 1
    StartCoins = 3
INVARIANTS
    HeldOnce
