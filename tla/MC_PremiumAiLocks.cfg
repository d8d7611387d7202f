SPECIFICATION FairSpec
CONSTANTS
    u1 = u1
    u2 = u2
    r1 = r1
    r2 = r2
    r3 = r3
    User = {u1, u2}
    Run = {r1, r2, r3}
    Owner <- OwnerOfThree
    Cost = 3
    StartBalance = 6
    Tx = {t1, t2}
    NoTx = NoTx
    BatchLimit = 2
INVARIANTS
    TypeOK
    ReadsAreCurrent
    SweepsArePending
    RingsNeedSweep
PROPERTIES
    ImplementsLedger
    TransactionsEnd
