--------------------------------- MODULE Wallet ---------------------------------
(***************************************************************************)
(* The coins of users: gifts (EconomyService.sendGift), purchases          *)
(* (purchaseCoins), spending and earning elsewhere (deductCoins, addCoins  *)
(* of MonetisationService) and tips in audio rooms (tipHost).  A tip is    *)
(* one transaction of the database; everything else reads users.coins_     *)
(* balance in one round trip and writes a value computed from it in a      *)
(* later one.  Every call can fail, applied or not, and a replica can      *)
(* stop between two of them.                                               *)
(***************************************************************************)
EXTENDS Integers, FiniteSets

CONSTANTS
    User,
    Order,          \* requests that can be under way at once
    Receipt,        \* payments, each for one pack of coins
    Buyer,          \* user_id of a receipt
    WebReceipt,     \* receipts of Stripe; the others are of an app store
    TipKey,         \* idempotency keys of tips, each bound to its subject
    Tipper, Host,   \* sender and receiver of a key's tip
    StartCoins, Pack, Cost, TipCoins,   \* amounts
    FallbackCoins,  \* getBalance: the balance of a user it cannot read, 50
    nil,            \* no user, no receipt
    OrderBound,     \* bound: requests
    MishapBound     \* bound: failed calls, lost answers, crashes

ASSUME WalletAssumption ==
    /\ {StartCoins, Pack, Cost, TipCoins, FallbackCoins} \subseteq Nat
    /\ {OrderBound, MishapBound} \subseteq Nat
    /\ Buyer \in [Receipt -> User]
    /\ WebReceipt \subseteq Receipt
    /\ Tipper \in [TipKey -> User]
    /\ Host \in [TipKey -> User]
    /\ \A k \in TipKey : Tipper[k] # Host[k]
    /\ nil \notin User \cup Receipt
    /\ IsFiniteSet(Order)

VARIABLES
    coins,      \* users.coins_balance
    owed,       \* history: what the recorded operations come to
    order,      \* a request: what it does, for whom, where it stands
    row,        \* coin_purchases.status of a receipt
    credited,   \* history: how often a receipt was credited
    unsure,     \* history: receipts completed twice, or credited unheard
    tip,        \* audio_room_tips: moved coins; the client's last answer
    live,       \* audio_rooms.is_active
    disturbed,  \* history: users hit by an overlap or a partial failure
    opened, mishaps

purchases == <<row, credited, unsure>>
tips == <<tip, live>>
walletVars == <<coins, owed, order, purchases, tips, disturbed, opened, mishaps>>

\* seen and seenOther: the balances read; made: whose balance is made up.
NoOrder == [op |-> "none", user |-> nil, other |-> nil,
            receipt |-> nil, at |-> "idle",
            seen |-> 0, seenOther |-> 0, made |-> {}]

WalletInit ==
    /\ coins = [u \in User |-> StartCoins]
    /\ owed = coins
    /\ order = [q \in Order |-> NoOrder]
    /\ row = [x \in Receipt |-> "none"]
    /\ credited = [x \in Receipt |-> 0]
    /\ unsure = {}
    /\ tip = [k \in TipKey |-> [moved |-> 0, answer |-> "none"]]
    /\ live = TRUE
    /\ disturbed = {}
    /\ opened = 0
    /\ mishaps = 0

-----------------------------------------------------------------------------
At(q, op, at) == order[q].op = op /\ order[q].at = at

Goes(q, at) == order' = [order EXCEPT ![q].at = at]

Ends(q) == order' = [order EXCEPT ![q] = NoOrder]

Mishap ==
    /\ mishaps < MishapBound
    /\ mishaps' = mishaps + 1

\* q has read u's balance and may still write it.
Holds(q, u) ==
    \/ order[q].user = u
       /\ order[q].at \in {"readOther", "write", "credit", "record",
                           "giveBack", "undo", "undoOther"}
    \/ order[q].other = u
       /\ order[q].at \in {"write", "credit", "record", "undo", "undoOther"}

Overlapped(q, u) == \E p \in Order \ {q} : Holds(p, u)

\* UPDATE users SET coins_balance = n WHERE id = u, in request q.
PutCoins(q, u, n) ==
    /\ coins' = [coins EXCEPT ![u] = n]
    /\ disturbed' = IF Overlapped(q, u) \/ u \in order[q].made
                    THEN disturbed \cup {u} ELSE disturbed

\* The same, and q is told that it failed.
PutUnheard(u, n) ==
    /\ coins' = [coins EXCEPT ![u] = n]
    /\ disturbed' = disturbed \cup {u}

Open(q, new) ==
    /\ order[q].op = "none"
    /\ opened < OrderBound
    /\ opened' = opened + 1
    /\ order' = [order EXCEPT ![q] = new]
    /\ UNCHANGED <<coins, owed, purchases, tips, disturbed, mishaps>>

-----------------------------------------------------------------------------
(***************************************************************************)
(* Spending (deductCoins) and earning (addCoins)                           *)
(***************************************************************************)

Delta(op) == IF op = "spend" THEN -Cost ELSE Pack

BeginChange(q, op, u) ==
    Open(q, [NoOrder EXCEPT !.op = op, !.user = u, !.at = "read"])

ReadToChange(q) ==
    /\ order[q].op \in {"spend", "earn"} /\ order[q].at = "read"
    /\ LET n == coins[order[q].user] IN
          IF n + Delta(order[q].op) >= 0
          THEN order' = [order EXCEPT ![q].at = "write", ![q].seen = n]
          ELSE Ends(q)
    /\ UNCHANGED <<coins, owed, purchases, tips, disturbed, opened, mishaps>>

Change(q) ==
    LET u == order[q].user
        d == Delta(order[q].op)
    IN
    /\ order[q].op \in {"spend", "earn"} /\ order[q].at = "write"
    /\ \/ /\ PutCoins(q, u, order[q].seen + d)
          /\ owed' = [owed EXCEPT ![u] = @ + d]
          /\ UNCHANGED mishaps
       \/ /\ Mishap
          /\ PutUnheard(u, order[q].seen + d)
          /\ UNCHANGED owed
    /\ Ends(q)
    /\ UNCHANGED <<purchases, tips, opened>>

-----------------------------------------------------------------------------
(***************************************************************************)
(* sendGift                                                                *)
(***************************************************************************)

BeginGift(q, s, r) ==
    Open(q, [NoOrder EXCEPT !.op = "gift", !.user = s, !.other = r,
                            !.at = "read"])

\* Defect variant: the price is not compared with the balance.
ReadSenderUnchecked(q) ==
    /\ At(q, "gift", "read")
    /\ order' = [order EXCEPT ![q].at = "readOther",
                              ![q].seen = coins[order[q].user]]
    /\ UNCHANGED <<coins, owed, purchases, tips, disturbed, opened, mishaps>>

\* getBalance: the balance, or FallbackCoins where it cannot be read.
ReadSender(q) ==
    LET s == order[q].user
        Sees(n, made) ==
            IF n >= Cost
            THEN order' = [order EXCEPT ![q].at = "readOther", ![q].seen = n,
                                        ![q].made = made]
            ELSE Ends(q)
    IN
    /\ At(q, "gift", "read")
    /\ \/ Sees(coins[s], {}) /\ UNCHANGED mishaps
       \/ Sees(FallbackCoins, {s}) /\ Mishap
    /\ UNCHANGED <<coins, owed, purchases, tips, disturbed, opened>>

ReadReceiver(q) ==
    LET r == order[q].other
        Sees(n, made) ==
            order' = [order EXCEPT ![q].at = "write", ![q].seenOther = n,
                                   ![q].made = @ \cup made]
    IN
    /\ At(q, "gift", "readOther")
    /\ \/ Sees(coins[r], {}) /\ UNCHANGED mishaps
       \/ Sees(FallbackCoins, {r}) /\ Mishap
    /\ UNCHANGED <<coins, owed, purchases, tips, disturbed, opened>>

Debit(q) ==
    LET n == order[q].seen - Cost IN
    /\ At(q, "gift", "write")
    /\ \/ /\ PutCoins(q, order[q].user, n)
          /\ Goes(q, "credit")
          /\ UNCHANGED mishaps
       \/ /\ Mishap
          /\ PutUnheard(order[q].user, n)
          /\ Ends(q)
    /\ UNCHANGED <<owed, purchases, tips, opened>>

Credit(q) ==
    LET n == order[q].seenOther + Cost IN
    /\ At(q, "gift", "credit")
    /\ \/ /\ PutCoins(q, order[q].other, n)
          /\ Goes(q, "record")
          /\ UNCHANGED mishaps
       \/ /\ Mishap
          /\ \/ PutUnheard(order[q].other, n)
             \/ UNCHANGED <<coins, disturbed>>
          /\ Goes(q, "giveBack")
    /\ UNCHANGED <<owed, purchases, tips, opened>>

\* INSERT INTO gift_transactions.
Record(q) ==
    LET s == order[q].user
        r == order[q].other
        Recorded == owed' = [owed EXCEPT ![s] = @ - Cost, ![r] = @ + Cost]
    IN
    /\ At(q, "gift", "record")
    /\ \/ /\ Recorded
          /\ Ends(q)
          /\ UNCHANGED <<disturbed, mishaps>>
       \/ /\ Mishap
          /\ Recorded
          /\ disturbed' = disturbed \cup {s, r}
          /\ Goes(q, "undo")
       \/ /\ Mishap
          /\ Goes(q, "undo")
          /\ UNCHANGED <<owed, disturbed>>
    /\ UNCHANGED <<coins, purchases, tips, opened>>

\* Defect variant: after a credit that failed nothing is given back.
UndoRecordOnly(q) ==
    LET s == order[q].user IN
    /\ order[q].op = "gift" /\ order[q].at \in {"giveBack", "undo"}
    /\ IF order[q].at = "undo"
       THEN PutCoins(q, s, order[q].seen) /\ Goes(q, "undoOther")
       ELSE Ends(q) /\ UNCHANGED <<coins, disturbed>>
    /\ UNCHANGED <<owed, purchases, tips, opened, mishaps>>

\* The rollbacks write the balances read at the beginning; their own errors
\* are not looked at.
Undo(q) ==
    LET s == order[q].user IN
    /\ order[q].op = "gift" /\ order[q].at \in {"giveBack", "undo"}
    /\ \/ PutCoins(q, s, order[q].seen) /\ UNCHANGED mishaps
       \/ /\ Mishap
          /\ disturbed' = disturbed \cup {s}
          /\ UNCHANGED coins
    /\ IF order[q].at = "undo" THEN Goes(q, "undoOther") ELSE Ends(q)
    /\ UNCHANGED <<owed, purchases, tips, opened>>

UndoOther(q) ==
    LET r == order[q].other IN
    /\ At(q, "gift", "undoOther")
    /\ \/ PutCoins(q, r, order[q].seenOther) /\ UNCHANGED mishaps
       \/ /\ Mishap
          /\ disturbed' = disturbed \cup {r}
          /\ UNCHANGED coins
    /\ Ends(q)
    /\ UNCHANGED <<owed, purchases, tips, opened>>

-----------------------------------------------------------------------------
(***************************************************************************)
(* purchaseCoins                                                           *)
(***************************************************************************)

\* createCheckoutSession records a payment by Stripe as pending.
Checkout(x) ==
    /\ x \in WebReceipt
    /\ row[x] = "none"
    /\ row' = [row EXCEPT ![x] = "pending"]
    /\ UNCHANGED <<coins, owed, order, credited, unsure, tips, disturbed,
                   opened, mishaps>>

BeginPurchase(q, x) ==
    Open(q, [NoOrder EXCEPT !.op = "buy", !.user = Buyer[x], !.receipt = x,
                            !.at = "look"])

\* The lookup before the write; the earlier one of a web receipt asks the same.
LookUp(q) ==
    LET x == order[q].receipt IN
    /\ At(q, "buy", "look")
    /\ IF row[x] = IF x \in WebReceipt THEN "pending" ELSE "none"
       THEN Goes(q, "complete")
       ELSE Ends(q)
    /\ UNCHANGED <<coins, owed, purchases, tips, disturbed, opened, mishaps>>

\* Defect variant: no unique index.
ReceiptRefusedNever(x) == FALSE

\* INSERT of a store's receipt, whose transaction_id is unique.
ReceiptRefused(x) == x \notin WebReceipt /\ row[x] = "completed"

\* The insert, or the update of a web receipt, whatever its status is by now.
Complete(q) ==
    LET x == order[q].receipt
        u == order[q].user
        Completed ==
            /\ row' = [row EXCEPT ![x] = "completed"]
            /\ owed' = IF row[x] = "completed" THEN owed
                       ELSE [owed EXCEPT ![u] = @ + Pack]
            /\ unsure' = IF row[x] = "completed" /\ x \in WebReceipt
                         THEN unsure \cup {x} ELSE unsure
    IN
    /\ At(q, "buy", "complete")
    /\ \/ /\ ReceiptRefused(x)
          /\ Ends(q)
          /\ UNCHANGED <<owed, row, unsure, disturbed, mishaps>>
       \/ /\ ~ReceiptRefused(x)
          /\ Completed
          /\ Goes(q, "read")
          /\ disturbed' = IF row[x] = "completed" THEN disturbed \cup {u}
                                                  ELSE disturbed
          /\ UNCHANGED mishaps
       \/ /\ ~ReceiptRefused(x)
          /\ Mishap
          /\ Completed
          /\ disturbed' = disturbed \cup {u}
          /\ Ends(q)
    /\ UNCHANGED <<coins, credited, tips, opened>>

\* After an error a store's receipt is deleted again; a web receipt stays.
FailedPurchase(q) ==
    IF order[q].receipt \in WebReceipt THEN Ends(q) ELSE Goes(q, "delete")

Short(q) ==
    IF order[q].receipt \in WebReceipt THEN {order[q].user} ELSE {}

ReadToCredit(q) ==
    /\ At(q, "buy", "read")
    /\ \/ /\ order' = [order EXCEPT ![q].at = "write",
                                    ![q].seen = coins[order[q].user]]
          /\ UNCHANGED <<disturbed, mishaps>>
       \/ /\ Mishap
          /\ FailedPurchase(q)
          /\ disturbed' = disturbed \cup Short(q)
    /\ UNCHANGED <<coins, owed, purchases, tips, opened>>

CreditPack(q) ==
    LET x == order[q].receipt
        u == order[q].user
        n == order[q].seen + Pack
    IN
    /\ At(q, "buy", "write")
    /\ \/ /\ PutCoins(q, u, n)
          /\ credited' = [credited EXCEPT ![x] = @ + 1]
          /\ Ends(q)
          /\ UNCHANGED <<unsure, mishaps>>
       \/ /\ Mishap
          /\ PutUnheard(u, n)
          /\ credited' = [credited EXCEPT ![x] = @ + 1]
          /\ unsure' = unsure \cup {x}
          /\ FailedPurchase(q)
       \/ /\ Mishap
          /\ disturbed' = disturbed \cup Short(q)
          /\ FailedPurchase(q)
          /\ UNCHANGED <<coins, credited, unsure>>
    /\ UNCHANGED <<owed, row, tips, opened>>

\* The rollback of a store's receipt; its error is not looked at.
DeleteRow(q) ==
    LET x == order[q].receipt
        u == order[q].user
    IN
    /\ At(q, "buy", "delete")
    /\ \/ /\ row' = [row EXCEPT ![x] = "none"]
          /\ owed' = [owed EXCEPT ![u] = @ - Pack]
          /\ UNCHANGED <<disturbed, mishaps>>
       \/ /\ Mishap
          /\ disturbed' = disturbed \cup {u}
          /\ UNCHANGED <<row, owed>>
    /\ Ends(q)
    /\ UNCHANGED <<coins, credited, unsure, tips, opened>>

\* A request ends between two calls, without harm before its first write, with
\* its users' coins in the air after it.  Calls that are rejected before they
\* change anything end like the former.
StopOrder(q) ==
    /\ order[q].op # "none"
    /\ Mishap
    /\ disturbed' = disturbed \cup
          (IF order[q].op = "gift" /\ order[q].at \in
                 {"credit", "record", "giveBack", "undo", "undoOther"}
           THEN {order[q].user, order[q].other}
           ELSE IF order[q].op = "buy" /\ order[q].at \in {"read", "write", "delete"}
           THEN {order[q].user}
           ELSE {})
    /\ Ends(q)
    /\ UNCHANGED <<coins, owed, purchases, tips, opened>>

-----------------------------------------------------------------------------
(***************************************************************************)
(* tipHost: transfer_audio_room_tip, then a publication                    *)
(***************************************************************************)

Touched(k) == {u \in {Tipper[k], Host[k]} : \E p \in Order : Holds(p, u)}

\* A new tip; the order of the function's checks: replay, room, funds.
TipAllowed(k) == live /\ coins[Tipper[k]] >= TipCoins

\* Defect variant: only tips to a live room are looked up.
ReplaysLive(k) == live /\ tip[k].moved > 0

Replays(k) == tip[k].moved > 0

TipRefused(k) ==
    /\ tip[k].answer \in {"none", "unknown"}
    /\ ~Replays(k)
    /\ ~TipAllowed(k)
    /\ tip' = [tip EXCEPT ![k].answer = "refused"]
    /\ UNCHANGED <<coins, owed, order, purchases, live, disturbed, opened,
                   mishaps>>

TipAnswered(k, moved) ==
    \/ /\ tip' = [tip EXCEPT ![k] = [moved |-> moved, answer |-> "paid"]]
       /\ UNCHANGED mishaps
    \/ /\ tip' = [tip EXCEPT ![k] = [moved |-> moved, answer |-> "unknown"]]
       /\ Mishap

TipReplayed(k) ==
    /\ tip[k].answer \in {"none", "unknown"}
    /\ Replays(k)
    /\ TipAnswered(k, tip[k].moved)
    /\ UNCHANGED <<coins, owed, order, purchases, live, disturbed, opened>>

TipMoves(k) ==
    /\ tip[k].answer \in {"none", "unknown"}
    /\ ~Replays(k)
    /\ TipAllowed(k)
    /\ coins' = [coins EXCEPT ![Tipper[k]] = @ - TipCoins, ![Host[k]] = @ + TipCoins]
    /\ owed' = [owed EXCEPT ![Tipper[k]] = @ - TipCoins, ![Host[k]] = @ + TipCoins]
    /\ disturbed' = disturbed \cup Touched(k)
    /\ TipAnswered(k, tip[k].moved + 1)
    /\ UNCHANGED <<order, purchases, live, opened>>

\* The host ends the room.
EndRoom ==
    /\ live
    /\ live' = FALSE
    /\ UNCHANGED <<coins, owed, order, purchases, tip, disturbed, opened, mishaps>>

-----------------------------------------------------------------------------
OrderStep(q) ==
    \/ ReadToChange(q) \/ Change(q)
    \/ ReadSender(q) \/ ReadReceiver(q) \/ Debit(q) \/ Credit(q) \/ Record(q)
    \/ Undo(q) \/ UndoOther(q)
    \/ LookUp(q) \/ Complete(q) \/ ReadToCredit(q) \/ CreditPack(q) \/ DeleteRow(q)
    \/ StopOrder(q)

WalletNext ==
    \/ \E q \in Order :
          \/ \E u \in User, op \in {"spend", "earn"} : BeginChange(q, op, u)
          \/ \E s \in User : \E r \in User \ {s} : BeginGift(q, s, r)
          \/ \E x \in Receipt : BeginPurchase(q, x)
          \/ OrderStep(q)
    \/ \E x \in Receipt : Checkout(x)
    \/ \E k \in TipKey : TipRefused(k) \/ TipReplayed(k) \/ TipMoves(k)
    \/ EndRoom

WalletSpec == WalletInit /\ [][WalletNext]_walletVars

-----------------------------------------------------------------------------
(***************************************************************************)
(* Properties                                                              *)
(***************************************************************************)

\* Types; no interleaving, failure or rollback makes a balance negative.
WalletTypeOK ==
    /\ coins \in [User -> Nat]
    /\ owed \in [User -> Int]
    /\ order \in [Order ->
          [op : {"none", "spend", "earn", "gift", "buy"},
           user : User \cup {nil}, other : User \cup {nil},
           receipt : Receipt \cup {nil},
           at : {"idle", "read", "readOther", "write", "credit", "record",
                 "giveBack", "undo", "undoOther", "look", "complete", "delete"},
           seen : Nat, seenOther : Nat, made : SUBSET User]]
    /\ row \in [Receipt -> {"none", "pending", "completed"}]
    /\ credited \in [Receipt -> Nat]
    /\ unsure \subseteq Receipt
    /\ tip \in [TipKey -> [moved : Nat, answer : {"none", "unknown", "paid", "refused"}]]
    /\ live \in BOOLEAN
    /\ disturbed \subseteq User
    /\ opened \in 0..OrderBound
    /\ mishaps \in 0..MishapBound

Involved(q, u) == order[q].op # "none" /\ u \in {order[q].user, order[q].other}

\* A user's coins are what the recorded operations come to, once no request
\* deals with the user, unless a write hit between another request's read and
\* write of that user's balance, or an operation failed halfway: the rollbacks
\* of gifts and purchases restore the books wherever a call is rejected.
CoinsMatchRecords ==
    \A u \in User \ disturbed :
        (\A q \in Order : ~Involved(q, u)) => coins[u] = owed[u]

\* A receipt is credited once, however often it is presented ("This
\* transaction has already been processed"), unless two requests completed the
\* same web receipt, or a credit that was told to have failed was applied.
ReceiptCreditedOnce == \A x \in Receipt : credited[x] > 1 => x \in unsure

\* "Make audio-room tips atomic and safe to retry": a key moves coins once, a
\* tip the client was told is paid has moved, and one that moved is never
\* refused, though its answer was lost, the room ended or the money is gone.
TipAnswersTrue ==
    \A k \in TipKey :
        /\ tip[k].moved <= 1
        /\ tip[k].answer = "paid" => tip[k].moved = 1
        /\ tip[k].answer = "refused" => tip[k].moved = 0

=============================================================================
