SPECIFICATION FairSpec
CONSTANTS
    u1 = u1
    r1 = r1
    r2 = r2
    User = {u1}
    Room = {m1}
    Run = {r1, r2}
    Owner <- OneOwner
    Handler = {h1, h2}
    Cost = 3
    StartBalance = 6
    BatchLimit = 2
PROPERTIES
    ImplementsLedger
    EveryChargeSettles
