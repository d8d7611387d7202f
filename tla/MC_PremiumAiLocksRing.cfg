SPECIFICATION Spec
CONSTANTS
    u1 = u1
    u2 = u2
    r1 = r1
    r2 = r2
    r3 = r3
    User = {u1}
    Run = {r1, r2}
    Owner <- TwoRuns
    Cost = 3
    StartBalance = 6
    Tx = {t1, t2, t3}
    NoTx = NoTx
    BatchLimit = 2
INVARIANTS
    NoLockRing
