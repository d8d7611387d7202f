SPECIFICATION Spec
CONSTANTS
    u1 = u1
    r1 = r1
    r2 = r2
    User = {u1}
    Room = {m1, m2}
    Run = {r1, r2}
    Owner <- OneOwner
    Handler = {h1, h2}
    Cost = 3
    StartBalance = 5
    BatchLimit = 1
INVARIANTS
    TypeOK
    WalletMatchesRuns
    LedgerMatchesRuns
    AnswersMatchRuns
    ReportStaysInRoom
