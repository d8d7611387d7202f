SPECIFICATION LiveSpec
CONSTANTS
    r1 = r1
    r2 = r2
    m1 = m1
    m2 = m2
    ann = ann
    bob = bob
    cat = cat
    web = web
    store = store
    k1 = k1
    p1 = p1
    p2 = p2
    v1 = v1
    v2 = v2
    v3 = v3
    Focus = {"summaries", "reminders", "party"}
    Room = {m1}
    Replica = {r1, r2}
    MaxAttempts = 2
    QueueBatch = 1
    RetryBound = 1
    LossBound = 2
    Attendee = {ann, bob, cat}
    Tick = {t1}
    Capacity = 2
    ReminderBatch = 2
    nobody = nobody
    FaultBound = 2
    owner = owner
    Member = {ann, bob}
    Call = {c1, c2}
    none = none
    PartyEvent = {v1, v2, v3}
    DateTime <- LastV3
    CatchUp = 1
    PartyBatch = 2
    Server = {r1, r2}
    TroubleBound = 2
    User = {ann, bob}
    Order = {q1, q2}
    Receipt = {web, store}
    Buyer <- BuyerAnn
    WebReceipt = {web}
    TipKey = {k1}
    Tipper <- FromAnn
    Host <- ToBob
    StartCoins = 1
    Pack = 1
    Cost = 1
    TipCoins = 1
    FallbackCoins = 2
    nil = nil
    OrderBound = 2
    MishapBound = 1
    Account = {ann, bob}
    Token = {p1, p2}
    Handler = {h1, h2}
    Payer <- NamesAnn
    unclaimed = unclaimed
PROPERTIES
    JobsSettle
    RemindersArrive
    PartyOpens
CHECK_DEADLOCK FALSE
