SPECIFICATION Spec
CONSTANTS
    ann = ann
    bob = bob
    e1 = e1
    e2 = e2
    User = {ann, bob}
    EscrowId = {e1, e2}
    Payer <- FromAnnOrBob
    Payee <- ToBobOrAnn
    Amount <- OneAndTwo
    StartBalance = 2
    Request = {p1, p2}
    Worker = {}
    StaleLimit = 2
    FaultBound = 0
INVARIANTS
    PaidOnce
