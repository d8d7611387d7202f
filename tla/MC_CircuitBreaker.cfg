SPECIFICATION BreakerSpec
CONSTANTS
    Call = {c1, c2, c3, c4, c5}
    FailureThreshold = 5
    HalfOpenMax = 3
INVARIANTS
    BreakerTypeOK
    OpenMeansStreak
    ProbesBounded
PROPERTIES
    Recovers
