---------------------------- MODULE WalletProofs ----------------------------
(***************************************************************************)
(* Theorems about Wallet and PlayPurchases, for any users, requests,       *)
(* receipts, tips, amounts, bounds, purchases and handlers.                *)
(***************************************************************************)
EXTENDS Wallet, PlayPurchases, FiniteSetTheorems, TLAPS

-----------------------------------------------------------------------------
(***************************************************************************)
(* Types.  A request that will take coins away has read a balance that     *)
(* covers them, and writes that balance less the price: no overlap makes   *)
(* the result negative, although it may be the wrong one.                  *)
(***************************************************************************)
Stage == {"idle", "read", "readOther", "write", "credit", "record",
          "giveBack", "undo", "undoOther", "look", "complete", "delete"}

OrderType == [op : {"none", "spend", "earn", "gift", "buy"},
              user : User \cup {nil}, other : User \cup {nil},
              receipt : Receipt \cup {nil}, at : Stage,
              seen : Nat, seenOther : Nat, made : SUBSET User]

Affordable(r) ==
    \/ r.op \notin {"spend", "gift"}
    \/ r.at \in {"idle", "read"}
    \/ r.seen >= Cost

OrderOK(r) ==
    /\ r \in OrderType
    /\ r.op # "none" => r.user \in User
    /\ r.op = "gift" => r.other \in User
    /\ r.op = "buy" => r.receipt \in Receipt
    /\ Affordable(r)

OrdersOK ==
    /\ order \in [Order -> OrderType]
    /\ \A q \in Order : OrderOK(order[q])

CoinsOK == coins \in [User -> Nat] /\ disturbed \subseteq User

LEMMA AmountsType ==
    /\ StartCoins \in Nat /\ Pack \in Nat /\ Cost \in Nat /\ TipCoins \in Nat
    /\ FallbackCoins \in Nat
  BY WalletAssumption

LEMMA NoOrderOK == OrderOK(NoOrder)
  BY DEF OrderOK, OrderType, NoOrder, Affordable, Stage

LEMMA OrdersKeep ==
    ASSUME OrdersOK, NEW q \in Order, NEW r, OrderOK(r),
           order' = [order EXCEPT ![q] = r]
    PROVE  OrdersOK'
  BY DEF OrdersOK, OrderOK

LEMMA EndsKeeps ==
    ASSUME OrdersOK, NEW q \in Order, Ends(q)
    PROVE  OrdersOK'
  BY OrdersKeep, NoOrderOK DEF Ends

LEMMA GoesKeeps ==
    ASSUME OrdersOK, NEW q \in Order, NEW at \in Stage, Goes(q, at),
           order[q].op \in {"spend", "gift"} => order[q].seen >= Cost
    PROVE  OrdersOK'
  <1> DEFINE r == [order[q] EXCEPT !.at = at]
  <1>1. OrderOK(order[q])
    BY DEF OrdersOK
  <1>2. OrderOK(r)
    BY <1>1 DEF OrderOK, OrderType, Affordable
  <1>3. order' = [order EXCEPT ![q] = r]
    BY DEF Goes
  <1>4. QED
    <2> HIDE DEF r
    <2> QED
      BY <1>2, <1>3, OrdersKeep

LEMMA PutKeeps ==
    ASSUME CoinsOK, NEW q \in Order, NEW u \in User, NEW n \in Nat,
           PutCoins(q, u, n) \/ PutUnheard(u, n)
    PROVE  CoinsOK'
  BY DEF CoinsOK, PutCoins, PutUnheard

\* What a request knows of itself while it is served.
LEMMA Parties ==
    ASSUME OrdersOK, NEW q \in Order
    PROVE  /\ order[q] \in OrderType
           /\ order[q].seen \in Nat /\ order[q].seenOther \in Nat
           /\ order[q].op # "none" => order[q].user \in User
           /\ order[q].op = "gift" => order[q].other \in User
           /\ order[q].op = "buy" => order[q].receipt \in Receipt
           /\ Affordable(order[q])
  BY DEF OrdersOK, OrderOK, OrderType

LEMMA ChangeKeeps ==
    ASSUME OrdersOK, CoinsOK, NEW q \in Order, ReadToChange(q) \/ Change(q)
    PROVE  OrdersOK' /\ CoinsOK'
  <1>1. /\ order[q] \in OrderType
        /\ order[q].op \in {"spend", "earn"}
        /\ order[q].user \in User /\ order[q].seen \in Nat
        /\ Affordable(order[q])
    BY Parties DEF ReadToChange, Change
  <1>2. CASE ReadToChange(q)
    <2> DEFINE n == coins[order[q].user]
               r == [order[q] EXCEPT !.at = "write", !.seen = n]
    <2>1. CoinsOK'
      BY <1>2 DEF ReadToChange, CoinsOK
    <2>2. CASE Ends(q)
      BY <2>1, <2>2, EndsKeeps
    <2>3. CASE ~Ends(q)
      <3>1. n \in Nat /\ n + Delta(order[q].op) >= 0
        BY <1>1, <1>2, <2>3 DEF ReadToChange, CoinsOK
      <3>2. order[q].op = "spend" => n >= Cost
        BY <3>1, AmountsType DEF Delta
      <3>3. order' = [order EXCEPT ![q] = r]
        BY <1>2, <2>3 DEF ReadToChange
      <3>4. OrderOK(r)
        BY <1>1, <3>1, <3>2 DEF OrderOK, OrderType, Affordable, Stage
      <3>5. QED
        <4> HIDE DEF r
        <4> QED
          BY <2>1, <3>3, <3>4, OrdersKeep
    <2>4. QED
      BY <2>2, <2>3
  <1>3. CASE Change(q)
    <2> DEFINE n == order[q].seen + Delta(order[q].op)
    <2>1. n \in Nat
      BY <1>1, <1>3, AmountsType DEF Change, Affordable, Delta
    <2>2. PutCoins(q, order[q].user, n) \/ PutUnheard(order[q].user, n)
      BY <1>3 DEF Change
    <2>3. CoinsOK'
      <3> HIDE DEF n
      <3> QED
        BY <1>1, <2>1, <2>2, PutKeeps
    <2>4. OrdersOK'
      BY <1>3, EndsKeeps DEF Change
    <2>5. QED
      BY <2>3, <2>4
  <1>4. QED
    BY <1>2, <1>3

LEMMA GiftReads ==
    ASSUME OrdersOK, CoinsOK, NEW q \in Order, ReadSender(q) \/ ReadReceiver(q)
    PROVE  OrdersOK' /\ CoinsOK'
  <1>1. /\ order[q] \in OrderType
        /\ order[q].op = "gift"
        /\ order[q].user \in User /\ order[q].other \in User
        /\ Affordable(order[q])
    BY Parties DEF ReadSender, ReadReceiver, At
  <1>2. CoinsOK'
    BY DEF ReadSender, ReadReceiver, CoinsOK
  <1>3. ASSUME NEW n \in Nat, NEW made \in SUBSET User, n >= Cost,
               order' = [order EXCEPT ![q].at = "readOther", ![q].seen = n,
                                      ![q].made = made]
        PROVE  OrdersOK'
    <2> DEFINE r == [order[q] EXCEPT !.at = "readOther", !.seen = n, !.made = made]
    <2>1. OrderOK(r)
      BY <1>1, <1>3 DEF OrderOK, OrderType, Affordable, Stage
    <2>2. order' = [order EXCEPT ![q] = r]
      BY <1>3
    <2>3. QED
      <3> HIDE DEF r
      <3> QED
        BY <2>1, <2>2, OrdersKeep
  <1>4. CASE ReadSender(q)
    <2>1. coins[order[q].user] \in Nat /\ FallbackCoins \in Nat
      BY <1>1, AmountsType DEF CoinsOK
    <2>2. {} \in SUBSET User /\ {order[q].user} \in SUBSET User
      BY <1>1
    <2>3. CASE Ends(q)
      BY <1>2, <2>3, EndsKeeps
    <2>4. CASE ~Ends(q)
      <3>1. \/ /\ coins[order[q].user] >= Cost
               /\ order' = [order EXCEPT ![q].at = "readOther",
                                ![q].seen = coins[order[q].user], ![q].made = {}]
            \/ /\ FallbackCoins >= Cost
               /\ order' = [order EXCEPT ![q].at = "readOther",
                                ![q].seen = FallbackCoins,
                                ![q].made = {order[q].user}]
        BY <1>4, <2>4 DEF ReadSender
      <3>2. QED
        BY <3>1, <2>1, <2>2, <1>2, <1>3
    <2>5. QED
      BY <2>3, <2>4
  <1>5. CASE ReadReceiver(q)
    <2>1. order[q].seen >= Cost
      BY <1>1, <1>5 DEF ReadReceiver, At, Affordable
    <2>2. ASSUME NEW n \in Nat, NEW made \in SUBSET User,
                 order' = [order EXCEPT ![q].at = "write", ![q].seenOther = n,
                                        ![q].made = @ \cup made]
          PROVE  OrdersOK'
      <3> DEFINE r == [order[q] EXCEPT !.at = "write", !.seenOther = n,
                                       !.made = @ \cup made]
      <3>1. OrderOK(r)
        BY <1>1, <2>1 DEF OrderOK, OrderType, Affordable, Stage
      <3>2. order' = [order EXCEPT ![q] = r]
        BY <2>2
      <3>3. QED
        <4> HIDE DEF r
        <4> QED
          BY <3>1, <3>2, OrdersKeep
    <2>3. /\ coins[order[q].other] \in Nat /\ FallbackCoins \in Nat
          /\ {} \in SUBSET User /\ {order[q].other} \in SUBSET User
      BY <1>1, AmountsType DEF CoinsOK
    <2>4. \/ order' = [order EXCEPT ![q].at = "write",
                          ![q].seenOther = coins[order[q].other],
                          ![q].made = @ \cup {}]
          \/ order' = [order EXCEPT ![q].at = "write",
                          ![q].seenOther = FallbackCoins,
                          ![q].made = @ \cup {order[q].other}]
      BY <1>5 DEF ReadReceiver
    <2>5. QED
      BY <1>2, <2>2, <2>3, <2>4
  <1>6. QED
    BY <1>4, <1>5

LEMMA GiftWrites ==
    ASSUME OrdersOK, CoinsOK, NEW q \in Order,
           Debit(q) \/ Credit(q) \/ Record(q) \/ Undo(q) \/ UndoOther(q)
    PROVE  OrdersOK' /\ CoinsOK'
  <1>1. /\ order[q].op = "gift"
        /\ order[q].user \in User /\ order[q].other \in User
        /\ order[q].seen \in Nat /\ order[q].seenOther \in Nat
        /\ order[q].seen >= Cost
    BY Parties DEF Debit, Credit, Record, Undo, UndoOther, At, Affordable
  <1> DEFINE debited == order[q].seen - Cost
             paid == order[q].seenOther + Cost
  <1>2. debited \in Nat /\ paid \in Nat
    BY <1>1, AmountsType
  <1>3. \/ Ends(q)
        \/ \E at \in Stage : Goes(q, at)
    BY DEF Debit, Credit, Record, Undo, UndoOther, Stage
  <1>4. OrdersOK'
    BY <1>1, <1>3, EndsKeeps, GoesKeeps
  <1>5. \/ PutCoins(q, order[q].user, debited) \/ PutUnheard(order[q].user, debited)
        \/ PutCoins(q, order[q].other, paid) \/ PutUnheard(order[q].other, paid)
        \/ PutCoins(q, order[q].user, order[q].seen)
        \/ PutCoins(q, order[q].other, order[q].seenOther)
        \/ /\ coins' = coins
           /\ disturbed' \in {disturbed, disturbed \cup {order[q].user},
                              disturbed \cup {order[q].other},
                              disturbed \cup {order[q].user, order[q].other}}
    BY DEF Debit, Credit, Record, Undo, UndoOther
  <1>6. CoinsOK'
    <2> HIDE DEF debited, paid
    <2>1. CASE coins' = coins
      BY <1>1, <1>5, <2>1, <1>2, PutKeeps DEF CoinsOK
    <2>2. CASE coins' # coins
      BY <1>1, <1>2, <1>5, <2>2, PutKeeps
    <2>3. QED
      BY <2>1, <2>2
  <1>7. QED
    BY <1>4, <1>6

LEMMA PurchaseKeeps ==
    ASSUME OrdersOK, CoinsOK, NEW q \in Order,
           \/ LookUp(q) \/ Complete(q) \/ ReadToCredit(q) \/ CreditPack(q)
           \/ DeleteRow(q)
    PROVE  OrdersOK' /\ CoinsOK'
  <1>1. /\ order[q] \in OrderType
        /\ order[q].op = "buy"
        /\ order[q].user \in User /\ order[q].receipt \in Receipt
        /\ order[q].seen \in Nat
    BY Parties DEF LookUp, Complete, ReadToCredit, CreditPack, DeleteRow, At
  <1> DEFINE r == [order[q] EXCEPT !.at = "write", !.seen = coins[order[q].user]]
             n == order[q].seen + Pack
  <1>2. n \in Nat
    BY <1>1, AmountsType
  <1>3. OrderOK(r)
    BY <1>1 DEF OrderOK, OrderType, Affordable, Stage, CoinsOK
  <1>4. \/ Ends(q) \/ (\E at \in Stage : Goes(q, at))
        \/ order' = [order EXCEPT ![q] = r]
    BY DEF LookUp, Complete, ReadToCredit, CreditPack, DeleteRow, FailedPurchase, Stage
  <1>5. OrdersOK'
    <2> HIDE DEF r
    <2> QED
      BY <1>1, <1>3, <1>4, EndsKeeps, GoesKeeps, OrdersKeep
  <1>6. \/ PutCoins(q, order[q].user, n) \/ PutUnheard(order[q].user, n)
        \/ coins' = coins /\ disturbed' \in {disturbed, disturbed \cup {order[q].user}}
    BY DEF LookUp, Complete, ReadToCredit, CreditPack, DeleteRow, Short
  <1>7. CoinsOK'
    <2> HIDE DEF n
    <2>1. CASE coins' = coins
      BY <1>1, <1>2, <1>6, <2>1, PutKeeps DEF CoinsOK
    <2>2. CASE coins' # coins
      BY <1>1, <1>2, <1>6, <2>2, PutKeeps
    <2>3. QED
      BY <2>1, <2>2
  <1>8. QED
    BY <1>5, <1>7

LEMMA StopKeeps ==
    ASSUME OrdersOK, CoinsOK, NEW q \in Order, StopOrder(q)
    PROVE  OrdersOK' /\ CoinsOK'
  <1>1. OrdersOK'
    BY EndsKeeps DEF StopOrder
  <1>2. /\ order[q].user \in User
        /\ order[q].op = "gift" => order[q].other \in User
    BY Parties DEF StopOrder
  <1>3. CoinsOK'
    BY <1>2 DEF StopOrder, CoinsOK
  <1>4. QED
    BY <1>1, <1>3

\* A tip moves what the sender has.
LEMMA TipKeeps ==
    ASSUME OrdersOK, CoinsOK, NEW k \in TipKey,
           TipRefused(k) \/ TipReplayed(k) \/ TipMoves(k)
    PROVE  OrdersOK' /\ CoinsOK'
  <1>1. OrdersOK'
    BY DEF TipRefused, TipReplayed, TipMoves, OrdersOK
  <1>2. /\ Tipper[k] \in User /\ Host[k] \in User /\ Tipper[k] # Host[k]
    BY WalletAssumption
  <1>3. CoinsOK'
    <2>1. CASE TipRefused(k) \/ TipReplayed(k)
      BY <2>1 DEF TipRefused, TipReplayed, CoinsOK
    <2>2. CASE TipMoves(k)
      <3>1. coins[Tipper[k]] >= TipCoins
        BY <2>2 DEF TipMoves, TipAllowed
      <3>2. /\ coins' = [coins EXCEPT ![Tipper[k]] = @ - TipCoins,
                                      ![Host[k]] = @ + TipCoins]
            /\ disturbed' \subseteq User
        BY <2>2, <1>2 DEF TipMoves, Touched, CoinsOK
      <3>3. /\ coins[Tipper[k]] - TipCoins \in Nat
            /\ coins[Host[k]] + TipCoins \in Nat
        BY <3>1, <1>2, AmountsType DEF CoinsOK
      <3>4. QED
        BY <3>2, <3>3, <1>2 DEF CoinsOK
    <2>3. QED
      BY <2>1, <2>2
  <1>4. QED
    BY <1>1, <1>3

MoneyInv == OrdersOK /\ CoinsOK

LEMMA NextMoneyInv == MoneyInv /\ [WalletNext]_walletVars => MoneyInv'
  <1> SUFFICES ASSUME OrdersOK, CoinsOK, [WalletNext]_walletVars
               PROVE  OrdersOK' /\ CoinsOK'
    BY DEF MoneyInv
  <1>1. ASSUME NEW q \in Order, NEW u \in User, NEW op \in {"spend", "earn"},
               BeginChange(q, op, u)
        PROVE  OrdersOK' /\ CoinsOK'
    <2>1. OrderOK([NoOrder EXCEPT !.op = op, !.user = u, !.at = "read"])
      BY NoOrderOK DEF OrderOK, OrderType, NoOrder, Affordable, Stage
    <2>2. QED
      BY <1>1, <2>1, OrdersKeep DEF BeginChange, Open, CoinsOK
  <1>2. ASSUME NEW q \in Order, NEW u \in User, NEW v \in User, BeginGift(q, u, v)
        PROVE  OrdersOK' /\ CoinsOK'
    <2>1. OrderOK([NoOrder EXCEPT !.op = "gift", !.user = u, !.other = v,
                                  !.at = "read"])
      BY NoOrderOK DEF OrderOK, OrderType, NoOrder, Affordable, Stage
    <2>2. QED
      BY <1>2, <2>1, OrdersKeep DEF BeginGift, Open, CoinsOK
  <1>3. ASSUME NEW q \in Order, NEW x \in Receipt, BeginPurchase(q, x)
        PROVE  OrdersOK' /\ CoinsOK'
    <2>1. Buyer[x] \in User
      BY WalletAssumption
    <2>2. OrderOK([NoOrder EXCEPT !.op = "buy", !.user = Buyer[x], !.receipt = x,
                                  !.at = "look"])
      BY <2>1, NoOrderOK DEF OrderOK, OrderType, NoOrder, Affordable, Stage
    <2>3. QED
      BY <1>3, <2>2, OrdersKeep DEF BeginPurchase, Open, CoinsOK
  <1>4. ASSUME NEW q \in Order, OrderStep(q) PROVE OrdersOK' /\ CoinsOK'
    BY <1>4, ChangeKeeps, GiftReads, GiftWrites, PurchaseKeeps, StopKeeps
    DEF OrderStep
  <1>5. ASSUME NEW x \in Receipt, Checkout(x) PROVE OrdersOK' /\ CoinsOK'
    BY <1>5 DEF Checkout, OrdersOK, CoinsOK
  <1>6. ASSUME NEW k \in TipKey, TipRefused(k) \/ TipReplayed(k) \/ TipMoves(k)
        PROVE  OrdersOK' /\ CoinsOK'
    BY <1>6, TipKeeps
  <1>7. CASE EndRoom
    BY <1>7 DEF EndRoom, OrdersOK, CoinsOK
  <1>8. CASE UNCHANGED walletVars
    BY <1>8 DEF walletVars, OrdersOK, CoinsOK
  <1>9. QED
    BY <1>1, <1>2, <1>3, <1>4, <1>5, <1>6, <1>7, <1>8 DEF WalletNext

-----------------------------------------------------------------------------
(***************************************************************************)
(* The records, and tips: a key's tip is one transaction, and what the     *)
(* client is told comes from it.                                           *)
(***************************************************************************)
BooksOK ==
    /\ owed \in [User -> Int]
    /\ row \in [Receipt -> {"none", "pending", "completed"}]
    /\ credited \in [Receipt -> Nat]
    /\ unsure \subseteq Receipt
    /\ live \in BOOLEAN
    /\ opened \in 0..OrderBound
    /\ mishaps \in 0..MishapBound

TipInv ==
    /\ tip \in [TipKey -> [moved : {0, 1},
                           answer : {"none", "unknown", "paid", "refused"}]]
    /\ TipAnswersTrue

LEMMA TipSteps ==
    ASSUME TipInv, BooksOK, NEW k \in TipKey,
           TipRefused(k) \/ TipReplayed(k) \/ TipMoves(k)
    PROVE  TipInv' /\ BooksOK'
  <1>1. tip[k].moved \in {0, 1} /\ (Replays(k) <=> tip[k].moved = 1)
    BY DEF TipInv, Replays
  <1>2. CASE TipRefused(k)
    BY <1>1, <1>2 DEF TipRefused, TipInv, TipAnswersTrue, BooksOK, purchases
  <1>3. ASSUME TipReplayed(k) \/ TipMoves(k)
        PROVE  /\ TipInv'
               /\ mishaps' \in 0..MishapBound
    <2>1. TipAnswered(k, 1)
      BY <1>1, <1>3 DEF TipReplayed, TipMoves
    <2>2. /\ \/ tip' = [tip EXCEPT ![k] = [moved |-> 1, answer |-> "paid"]]
             \/ tip' = [tip EXCEPT ![k] = [moved |-> 1, answer |-> "unknown"]]
          /\ mishaps' \in 0..MishapBound
      BY <2>1, WalletAssumption DEF TipAnswered, Mishap, BooksOK
    <2>3. QED
      BY <2>2 DEF TipInv, TipAnswersTrue
  <1>4. CASE TipReplayed(k)
    BY <1>3, <1>4 DEF TipReplayed, BooksOK, purchases
  <1>5. CASE TipMoves(k)
    <2>1. owed' \in [User -> Int]
      <3>1. Tipper[k] \in User /\ Host[k] \in User
        BY WalletAssumption
      <3>2. /\ owed[Tipper[k]] - TipCoins \in Int
            /\ \A i \in Int : i + TipCoins \in Int
        BY <3>1, AmountsType DEF BooksOK
      <3>3. [owed EXCEPT ![Tipper[k]] = @ - TipCoins] \in [User -> Int]
        BY <3>1, <3>2 DEF BooksOK
      <3>4. QED
        BY <1>5, <3>1, <3>2, <3>3 DEF TipMoves
    <2>2. QED
      BY <1>3, <1>5, <2>1 DEF TipMoves, BooksOK, purchases
  <1>6. QED
    BY <1>2, <1>4, <1>5

LEMMA OrderBooks ==
    ASSUME TipInv, BooksOK, OrdersOK, NEW q \in Order, OrderStep(q)
    PROVE  TipInv' /\ BooksOK'
  <1>1. TipInv'
    <2>1. tip' = tip
      BY DEF OrderStep, ReadToChange, Change, ReadSender, ReadReceiver, Debit,
             Credit, Record, Undo, UndoOther, LookUp, Complete, ReadToCredit,
             CreditPack, DeleteRow, StopOrder, tips
    <2>2. QED
      BY <2>1 DEF TipInv, TipAnswersTrue
  <1>2. live' = live /\ opened' = opened
    BY DEF OrderStep, ReadToChange, Change, ReadSender, ReadReceiver, Debit,
           Credit, Record, Undo, UndoOther, LookUp, Complete, ReadToCredit,
           CreditPack, DeleteRow, StopOrder, tips
  <1>3. mishaps' \in 0..MishapBound
    <2>1. Mishap \/ mishaps' = mishaps
      BY DEF OrderStep, ReadToChange, Change, ReadSender, ReadReceiver, Debit,
             Credit, Record, Undo, UndoOther, LookUp, Complete, ReadToCredit,
             CreditPack, DeleteRow, StopOrder
    <2>2. QED
      BY <2>1, WalletAssumption DEF Mishap, BooksOK
  <1> DEFINE u == order[q].user
             v == order[q].other
             x == order[q].receipt
  <1>4. /\ order[q].op # "none" => u \in User
        /\ order[q].op = "gift" => v \in User
        /\ order[q].op = "buy" => x \in Receipt
    BY Parties
  <1>5. owed' \in [User -> Int]
    <2>1. CASE Change(q)
      <3>1. Delta(order[q].op) \in Int
        BY AmountsType DEF Delta
      <3>2. QED
        BY <2>1, <3>1, <1>4 DEF Change, BooksOK
    <2>2. CASE Record(q)
      <3>1. u \in User /\ v \in User
        BY <2>2, <1>4 DEF Record, At
      <3>2. \A i \in Int : i - Cost \in Int /\ i + Cost \in Int
        BY AmountsType
      <3>3. [owed EXCEPT ![u] = @ - Cost] \in [User -> Int]
        BY <3>1, <3>2 DEF BooksOK
      <3>4. owed' = owed \/ owed' = [owed EXCEPT ![u] = @ - Cost, ![v] = @ + Cost]
        BY <2>2 DEF Record
      <3>5. QED
        BY <3>1, <3>2, <3>3, <3>4 DEF BooksOK
    <2>3. CASE Complete(q) \/ DeleteRow(q)
      <3>1. u \in User
        BY <2>3, <1>4 DEF Complete, DeleteRow, At
      <3>2. \A i \in Int : i - Pack \in Int /\ i + Pack \in Int
        BY AmountsType
      <3>3. \/ owed' = owed
            \/ owed' = [owed EXCEPT ![u] = @ + Pack]
            \/ owed' = [owed EXCEPT ![u] = @ - Pack]
        BY <2>3 DEF Complete, DeleteRow
      <3>4. QED
        BY <3>1, <3>2, <3>3 DEF BooksOK
    <2>4. CASE ~(Change(q) \/ Record(q) \/ Complete(q) \/ DeleteRow(q))
      <3>1. owed' = owed
        BY <2>4 DEF OrderStep, ReadToChange, ReadSender, ReadReceiver, Debit,
             Credit, Undo, UndoOther, LookUp, ReadToCredit, CreditPack, StopOrder
      <3>2. QED
        BY <3>1 DEF BooksOK
    <2>5. QED
      BY <2>1, <2>2, <2>3, <2>4
  <1>6. /\ row' \in [Receipt -> {"none", "pending", "completed"}]
        /\ credited' \in [Receipt -> Nat]
        /\ unsure' \subseteq Receipt
    <2>1. CASE Complete(q) \/ CreditPack(q) \/ DeleteRow(q)
      <3>1. x \in Receipt
        BY <2>1, <1>4 DEF Complete, CreditPack, DeleteRow, At
      <3>2. /\ row' \in {row, [row EXCEPT ![x] = "completed"], [row EXCEPT ![x] = "none"]}
            /\ credited' \in {credited, [credited EXCEPT ![x] = @ + 1]}
            /\ unsure' \in {unsure, unsure \cup {x}}
        BY <2>1 DEF Complete, CreditPack, DeleteRow
      <3>3. QED
        BY <3>1, <3>2 DEF BooksOK
    <2>2. CASE ~(Complete(q) \/ CreditPack(q) \/ DeleteRow(q))
      <3>1. UNCHANGED <<row, credited, unsure>>
        BY <2>2 DEF OrderStep, ReadToChange, Change, ReadSender, ReadReceiver,
             Debit, Credit, Record, Undo, UndoOther, LookUp, ReadToCredit,
             StopOrder, purchases
      <3>2. QED
        BY <3>1 DEF BooksOK
    <2>3. QED
      BY <2>1, <2>2
  <1>7. QED
    BY <1>1, <1>2, <1>3, <1>5, <1>6 DEF BooksOK

BookInv == MoneyInv /\ BooksOK /\ TipInv

LEMMA NextBookInv == BookInv /\ [WalletNext]_walletVars => BookInv'
  <1> SUFFICES ASSUME MoneyInv, BooksOK, TipInv, [WalletNext]_walletVars
               PROVE  TipInv' /\ BooksOK'
    BY NextMoneyInv DEF BookInv
  <1>1. ASSUME NEW q \in Order,
               \/ \E u \in User, op \in {"spend", "earn"} : BeginChange(q, op, u)
               \/ \E s \in User : \E r \in User \ {s} : BeginGift(q, s, r)
               \/ \E x \in Receipt : BeginPurchase(q, x)
        PROVE  TipInv' /\ BooksOK'
    <2>1. /\ UNCHANGED <<owed, purchases, tips, mishaps>>
          /\ opened' = opened + 1 /\ opened < OrderBound
      BY <1>1 DEF BeginChange, BeginGift, BeginPurchase, Open
    <2>2. opened' \in 0..OrderBound
      BY <2>1, WalletAssumption DEF BooksOK
    <2>3. QED
      BY <2>1, <2>2 DEF BooksOK, TipInv, TipAnswersTrue, purchases, tips
  <1>2. ASSUME NEW q \in Order, OrderStep(q) PROVE TipInv' /\ BooksOK'
    BY <1>2, OrderBooks DEF MoneyInv
  <1>3. ASSUME NEW x \in Receipt, Checkout(x) PROVE TipInv' /\ BooksOK'
    BY <1>3 DEF Checkout, BooksOK, TipInv, TipAnswersTrue, tips
  <1>4. ASSUME NEW k \in TipKey, TipRefused(k) \/ TipReplayed(k) \/ TipMoves(k)
        PROVE  TipInv' /\ BooksOK'
    BY <1>4, TipSteps
  <1>5. CASE EndRoom
    BY <1>5 DEF EndRoom, BooksOK, TipInv, TipAnswersTrue, purchases
  <1>6. CASE UNCHANGED walletVars
    BY <1>6 DEF walletVars, BooksOK, TipInv, TipAnswersTrue, purchases, tips
  <1>7. QED
    BY <1>1, <1>2, <1>3, <1>4, <1>5, <1>6 DEF WalletNext

LEMMA InitBookInv == WalletInit => BookInv
  BY NoOrderOK, AmountsType, WalletAssumption
  DEF WalletInit, BookInv, MoneyInv, OrdersOK, CoinsOK, OrderOK, BooksOK, TipInv,
      TipAnswersTrue

LEMMA BookInvHolds == WalletSpec => []BookInv
  BY InitBookInv, NextBookInv, PTL DEF WalletSpec

\* Balances never become negative, whatever overlaps, fails or is rolled back.
THEOREM WalletTypes == WalletSpec => []WalletTypeOK
  <1>1. BookInv => WalletTypeOK
    BY DEF BookInv, MoneyInv, OrdersOK, CoinsOK, BooksOK, TipInv, WalletTypeOK,
           OrderType, Stage
  <1>2. QED
    BY <1>1, BookInvHolds, PTL

\* A tip's key moves coins at most once, and the client is told the truth.
THEOREM WalletTips == WalletSpec => []TipAnswersTrue
  <1>1. BookInv => TipAnswersTrue
    BY DEF BookInv, TipInv
  <1>2. QED
    BY <1>1, BookInvHolds, PTL

-----------------------------------------------------------------------------
(***************************************************************************)
(* Receipts.  A request that has completed a receipt and may still credit  *)
(* it is alone in that, and finds it uncredited; a receipt that is open    *)
(* again, after its row was deleted, was not credited.                     *)
(***************************************************************************)
Crediting(q, x) ==
    /\ order[q].op = "buy"
    /\ order[q].receipt = x
    /\ order[q].at \in {"read", "write", "delete"}

ReceiptOK(x) ==
    /\ \A q \in Order : Crediting(q, x) => row[x] = "completed" /\ credited[x] = 0
    /\ \A p, q \in Order : Crediting(p, x) /\ Crediting(q, x) => p = q
    /\ row[x] # "completed" => credited[x] = 0
    /\ credited[x] <= 1

ReceiptInv == \A x \in Receipt \ unsure : ReceiptOK(x)

\* Nobody begins to credit the receipt, and its books stay as they are.
LEMMA ReceiptUntouched ==
    ASSUME NEW x \in Receipt, ReceiptOK(x),
           row'[x] = row[x], credited'[x] = credited[x],
           \A p \in Order : Crediting(p, x)' => Crediting(p, x)
    PROVE  ReceiptOK(x)'
  BY DEF ReceiptOK

LEMMA OthersStay ==
    ASSUME OrdersOK, NEW q \in Order, OrderStep(q), NEW p \in Order, p # q
    PROVE  order'[p] = order[p]
  BY DEF OrderStep, ReadToChange, Change, ReadSender, ReadReceiver, Debit,
         Credit, Record, Undo, UndoOther, LookUp, Complete, ReadToCredit,
         CreditPack, DeleteRow, FailedPurchase, StopOrder, Goes, Ends, OrdersOK

\* The steps of other requests than purchases, and the end of any request.
LEMMA NoCreditBegun ==
    ASSUME OrdersOK, ReceiptInv, NEW q \in Order, OrderStep(q),
           ~(LookUp(q) \/ Complete(q) \/ ReadToCredit(q) \/ CreditPack(q)
             \/ DeleteRow(q))
    PROVE  ReceiptInv'
  <1>1. order'[q].op # "buy"
    BY DEF OrderStep, ReadToChange, Change, ReadSender, ReadReceiver, Debit,
           Credit, Record, Undo, UndoOther, StopOrder, At, Goes, Ends, NoOrder,
           OrdersOK, OrderType
  <1>2. UNCHANGED <<row, credited, unsure>>
    BY DEF OrderStep, ReadToChange, Change, ReadSender, ReadReceiver, Debit,
           Credit, Record, Undo, UndoOther, StopOrder, purchases
  <1>3. \A x \in Receipt, p \in Order : Crediting(p, x)' => Crediting(p, x)
    BY <1>1, OthersStay DEF Crediting
  <1>4. QED
    BY <1>2, <1>3, ReceiptUntouched DEF ReceiptInv

\* Before it is completed a request looks; after that it reads and writes.
LEMMA CreditGoesOn ==
    ASSUME OrdersOK, ReceiptInv, NEW q \in Order, LookUp(q) \/ ReadToCredit(q)
    PROVE  ReceiptInv'
  <1>1. OrderStep(q) /\ UNCHANGED <<row, credited, unsure>>
    BY DEF OrderStep, LookUp, ReadToCredit, purchases
  <1>2. \A x \in Receipt : Crediting(q, x)' => Crediting(q, x)
    BY DEF LookUp, ReadToCredit, FailedPurchase, At, Goes, Ends, NoOrder,
           Crediting, OrdersOK, OrderType
  <1>3. \A x \in Receipt, p \in Order : Crediting(p, x)' => Crediting(p, x)
    BY <1>1, <1>2, OthersStay DEF Crediting
  <1>4. QED
    BY <1>1, <1>3, ReceiptUntouched DEF ReceiptInv

\* What a step of a purchase leaves alone: all other receipts.
LEMMA OtherReceipts ==
    ASSUME OrdersOK, BooksOK, ReceiptInv, NEW q \in Order,
           Complete(q) \/ CreditPack(q) \/ DeleteRow(q),
           NEW y \in Receipt, y \notin unsure', y # order[q].receipt
    PROVE  ReceiptOK(y)'
  <1>1. OrderStep(q)
    BY DEF OrderStep
  <1>2. y \notin unsure /\ row'[y] = row[y] /\ credited'[y] = credited[y]
    BY DEF Complete, CreditPack, DeleteRow, BooksOK
  <1>3. ~Crediting(q, y)'
    BY DEF Complete, CreditPack, DeleteRow, FailedPurchase, At, Goes, Ends,
           NoOrder, Crediting, OrdersOK, OrderType
  <1>4. \A p \in Order : Crediting(p, y)' => Crediting(p, y)
    BY <1>1, <1>3, OthersStay DEF Crediting
  <1>5. QED
    BY <1>2, <1>4, ReceiptUntouched DEF ReceiptInv

LEMMA CompleteReceipts ==
    ASSUME OrdersOK, BooksOK, ReceiptInv, NEW q \in Order, Complete(q)
    PROVE  ReceiptInv'
  <1>0. PICK x \in Receipt : x = order[q].receipt
    BY Parties DEF Complete, At
  <1>1. OrderStep(q)
    BY DEF OrderStep
  <1>2. ASSUME x \notin unsure' PROVE ReceiptOK(x)'
    <2>1. x \notin unsure /\ ReceiptOK(x) /\ credited' = credited
      BY <1>0, <1>2 DEF Complete, ReceiptInv
    <2>2. CASE row[x] = "completed"
      <3>1. ~Crediting(q, x)' /\ row'[x] = row[x]
        BY <1>0, <1>2, <2>2 DEF Complete, ReceiptRefused, At, Goes, Ends,
           NoOrder, Crediting, OrdersOK, OrderType, BooksOK
      <3>2. \A p \in Order : Crediting(p, x)' => Crediting(p, x)
        BY <1>1, <3>1, OthersStay DEF Crediting
      <3>3. QED
        BY <1>1, <2>1, <3>1, <3>2, ReceiptUntouched
    <2>3. CASE row[x] # "completed"
      <3>1. row'[x] = "completed"
        BY <1>0, <2>3 DEF Complete, ReceiptRefused, BooksOK
      <3>2. \A p \in Order : Crediting(p, x)' => p = q
        BY <1>1, <2>1, <2>3, OthersStay DEF Crediting, ReceiptOK
      <3>3. credited'[x] = 0
        BY <2>1, <2>3 DEF ReceiptOK
      <3>4. QED
        BY <3>1, <3>2, <3>3 DEF ReceiptOK
    <2>4. QED
      BY <2>2, <2>3
  <1>3. QED
    BY <1>0, <1>2, OtherReceipts DEF ReceiptInv

LEMMA CreditReceipts ==
    ASSUME OrdersOK, BooksOK, ReceiptInv, NEW q \in Order,
           CreditPack(q) \/ DeleteRow(q)
    PROVE  ReceiptInv'
  <1>0. PICK x \in Receipt : x = order[q].receipt
    BY Parties DEF CreditPack, DeleteRow, At
  <1>1. OrderStep(q) /\ Crediting(q, x)
    BY <1>0 DEF CreditPack, DeleteRow, At, OrderStep, Crediting
  <1>2. ASSUME x \notin unsure' PROVE ReceiptOK(x)'
    <2>1. x \notin unsure /\ ReceiptOK(x)
      BY <1>0, <1>2 DEF CreditPack, DeleteRow, ReceiptInv
    <2>2. /\ row[x] = "completed" /\ credited[x] = 0
          /\ \A p \in Order : Crediting(p, x) => p = q
      BY <1>1, <2>1 DEF ReceiptOK
    <2>3. \A p \in Order \ {q} : ~Crediting(p, x)'
      BY <1>1, <2>2, OthersStay DEF Crediting
    <2>4. CASE Ends(q)
      <3>1. \A p \in Order : ~Crediting(p, x)'
        BY <2>3, <2>4 DEF Ends, NoOrder, Crediting, OrdersOK
      <3>2. /\ credited'[x] \in {0, 1}
            /\ row'[x] = "completed" \/ credited'[x] = 0
        BY <1>0, <2>2 DEF CreditPack, DeleteRow, BooksOK
      <3>3. QED
        BY <3>1, <3>2 DEF ReceiptOK
    <2>5. CASE ~Ends(q)
      <3>1. row'[x] = "completed" /\ credited'[x] = 0
        BY <1>0, <1>2, <2>2, <2>5 DEF CreditPack, DeleteRow
      <3>2. QED
        BY <2>3, <3>1 DEF ReceiptOK
    <2>6. QED
      BY <2>4, <2>5
  <1>3. QED
    BY <1>0, <1>2, OtherReceipts DEF ReceiptInv

LEMMA NextReceipts ==
    BookInv /\ ReceiptInv /\ [WalletNext]_walletVars => ReceiptInv'
  <1> SUFFICES ASSUME OrdersOK, BooksOK, ReceiptInv, [WalletNext]_walletVars
               PROVE  ReceiptInv'
    BY DEF BookInv, MoneyInv
  <1>1. ASSUME NEW q \in Order, NEW new, Open(q, new),
               new.at \in {"read", "look"}, new.at = "read" => new.op # "buy"
        PROVE  ReceiptInv'
    <2>1. \A p \in Order : order'[p] = IF p = q THEN new ELSE order[p]
      BY <1>1 DEF Open, OrdersOK
    <2>2. \A x \in Receipt, p \in Order : Crediting(p, x)' => Crediting(p, x)
      BY <1>1, <2>1 DEF Crediting
    <2>3. UNCHANGED <<row, credited, unsure>>
      BY <1>1 DEF Open, purchases
    <2>4. QED
      BY <2>2, <2>3, ReceiptUntouched DEF ReceiptInv
  <1>2. ASSUME NEW q \in Order,
               \/ \E u \in User, op \in {"spend", "earn"} : BeginChange(q, op, u)
               \/ \E s \in User : \E r \in User \ {s} : BeginGift(q, s, r)
               \/ \E x \in Receipt : BeginPurchase(q, x)
        PROVE  ReceiptInv'
    <2>1. ASSUME NEW u \in User, NEW op \in {"spend", "earn"}, BeginChange(q, op, u)
          PROVE  ReceiptInv'
      BY <2>1, <1>1 DEF BeginChange, NoOrder
    <2>2. ASSUME NEW s \in User, NEW r \in User \ {s}, BeginGift(q, s, r)
          PROVE  ReceiptInv'
      BY <2>2, <1>1 DEF BeginGift, NoOrder
    <2>3. ASSUME NEW x \in Receipt, BeginPurchase(q, x)
          PROVE  ReceiptInv'
      BY <2>3, <1>1 DEF BeginPurchase, NoOrder
    <2>4. QED
      BY <1>2, <2>1, <2>2, <2>3
  <1>3. ASSUME NEW q \in Order, OrderStep(q) PROVE ReceiptInv'
    BY <1>3, NoCreditBegun, CreditGoesOn, CompleteReceipts, CreditReceipts
  <1>4. ASSUME NEW x \in Receipt, Checkout(x) PROVE ReceiptInv'
    <2>1. /\ row[x] = "none" /\ row' = [row EXCEPT ![x] = "pending"]
          /\ UNCHANGED <<order, credited, unsure>>
      BY <1>4 DEF Checkout
    <2>2. ASSUME NEW y \in Receipt \ unsure PROVE ReceiptOK(y)'
      BY <2>1, <2>2 DEF ReceiptInv, ReceiptOK, Crediting, BooksOK
    <2>3. QED
      BY <2>1, <2>2 DEF ReceiptInv
  <1>5. CASE UNCHANGED <<order, purchases>>
    BY <1>5 DEF ReceiptInv, ReceiptOK, Crediting, purchases
  <1>6. QED
    BY <1>2, <1>3, <1>4, <1>5
    DEF WalletNext, TipRefused, TipReplayed, TipMoves, EndRoom, walletVars

LEMMA InitReceipts == WalletInit => ReceiptInv
  BY DEF WalletInit, ReceiptInv, ReceiptOK, Crediting, NoOrder

\* A receipt is credited once, however often and by however many requests it
\* is presented, but for the two cases the property names.
THEOREM WalletReceipts == WalletSpec => []ReceiptCreditedOnce
  <1>1. ReceiptInv /\ BookInv => ReceiptCreditedOnce
    BY DEF ReceiptInv, ReceiptOK, BookInv, BooksOK, ReceiptCreditedOnce
  <1>2. QED
    BY <1>1, InitReceipts, NextReceipts, BookInvHolds, PTL DEF WalletSpec

-----------------------------------------------------------------------------
(***************************************************************************)
(* The coins of a user nobody has disturbed.  What requests have read of   *)
(* the balance is current, one gift at most has moved the user's coins     *)
(* without a record of it, and the balance is what the records say, less   *)
(* what that gift has taken, plus what it has brought, less the packs that *)
(* are recorded and not credited.                                          *)
(***************************************************************************)
Debited(q, u) ==
    /\ order[q].op = "gift" /\ order[q].user = u
    /\ order[q].at \in {"credit", "record", "giveBack", "undo"}

Given(q, u) ==
    /\ order[q].op = "gift" /\ order[q].other = u
    /\ order[q].at \in {"record", "undo", "undoOther"}

Moved(q, u) == Debited(q, u) \/ Given(q, u)

Awaits(q, u) ==
    /\ order[q].op = "buy" /\ order[q].user = u
    /\ order[q].at \in {"read", "write", "delete"}

Awaiting(u) == {q \in Order : Awaits(q, u)}

\* The steps each kind of request goes through.
ShapeOK(q) ==
    /\ order[q].op \in {"spend", "earn"} => order[q].at \in {"read", "write"}
    /\ order[q].op = "buy" =>
          order[q].at \in {"look", "complete", "read", "write", "delete"}
    /\ order[q].op = "gift" =>
          /\ order[q].at \in {"read", "readOther", "write", "credit", "record",
                              "giveBack", "undo", "undoOther"}
          /\ order[q].user # order[q].other
    /\ order[q].op = "none" => order[q].at = "idle"
    /\ order[q].op # "gift" => order[q].made = {} /\ order[q].other = nil

ReadCurrent(q, u) ==
    \/ u \in order[q].made /\ ~Moved(q, u)
    \/ /\ u \notin order[q].made
       /\ order[q].user = u /\ order[q].at \in {"readOther", "write"} =>
             order[q].seen = coins[u]
       /\ order[q].other = u /\ order[q].at \in {"write", "credit"} =>
             order[q].seenOther = coins[u]
       /\ Debited(q, u) => order[q].seen = coins[u] + Cost
       /\ Given(q, u) => order[q].seenOther + Cost = coins[u]

InAir(u) ==
    IF \E q \in Order : Debited(q, u) THEN Cost
    ELSE IF \E q \in Order : Given(q, u) THEN -Cost
    ELSE 0

UserOK(u) ==
    /\ \A q \in Order : ReadCurrent(q, u)
    /\ \A p, q \in Order : Moved(p, u) /\ Moved(q, u) => p = q
    /\ coins[u] + InAir(u) + Pack * Cardinality(Awaiting(u)) = owed[u]

CoinsInv ==
    /\ \A q \in Order : ShapeOK(q)
    /\ \A u \in User \ disturbed : UserOK(u)

\* What q alone has in the air.
Loose(q, u) ==
    (IF Debited(q, u) THEN Cost ELSE IF Given(q, u) THEN -Cost ELSE 0)
    + (IF Awaits(q, u) THEN Pack ELSE 0)

LEMMA MovedHolds ==
    ASSUME NEW q, NEW u, Moved(q, u)
    PROVE  Holds(q, u)
  BY DEF Moved, Debited, Given, Holds

LEMMA AwaitingType ==
    ASSUME NEW u
    PROVE  IsFiniteSet(Awaiting(u)) /\ Cardinality(Awaiting(u)) \in Nat
  <1>1. IsFiniteSet(Order) /\ Awaiting(u) \subseteq Order
    BY WalletAssumption DEF Awaiting
  <1>2. QED
    BY <1>1, FS_Subset, FS_CardinalityType

LEMMA AwaitingCount ==
    ASSUME NEW q \in Order, NEW u,
           \A p \in Order \ {q} : Awaits(p, u)' <=> Awaits(p, u)
    PROVE  /\ Pack * Cardinality(Awaiting(u)) \in Int
           /\ Pack * Cardinality(Awaiting(u)') =
                Pack * Cardinality(Awaiting(u))
                + (IF Awaits(q, u)' THEN Pack ELSE 0)
                - (IF Awaits(q, u) THEN Pack ELSE 0)
  <1> DEFINE A == Awaiting(u)
             B == Awaiting(u)'
  <1>1. IsFiniteSet(A) /\ Cardinality(A) \in Nat
    BY AwaitingType
  <1>2. CASE Awaits(q, u)' <=> Awaits(q, u)
    <2>1. B = A
      BY <1>2 DEF Awaiting
    <2>2. Cardinality(B) = Cardinality(A)
      BY <2>1, Zenon
    <2>3. QED
      BY <1>1, <1>2, <2>2, AmountsType
  <1>3. CASE Awaits(q, u)' /\ ~Awaits(q, u)
    <2>1. B = A \cup {q} /\ q \notin A
      BY <1>3 DEF Awaiting
    <2>2. Cardinality(B) = Cardinality(A) + 1
      <3> HIDE DEF A, B
      <3> QED
        BY <1>1, <2>1, FS_AddElement
    <2>3. QED
      BY <1>1, <1>3, <2>2, AmountsType
  <1>4. CASE ~Awaits(q, u)' /\ Awaits(q, u)
    <2>1. B = A \ {q} /\ q \in A
      BY <1>4 DEF Awaiting
    <2>2. Cardinality(B) = Cardinality(A) - 1
      <3> HIDE DEF A, B
      <3> QED
        BY <1>1, <2>1, FS_RemoveElement
    <2>3. QED
      BY <1>1, <1>4, <2>2, AmountsType
  <1>5. QED
    BY <1>2, <1>3, <1>4

\* A request's step keeps the books of a user if it leaves coins and gifts of
\* the user alone, or if no other request has read the user's balance.
LEMMA UserStep ==
    ASSUME CoinsOK, BooksOK, NEW u \in User, UserOK(u), NEW q \in Order,
           \A p \in Order \ {q} : order'[p] = order[p],
           \/ /\ coins'[u] = coins[u]
              /\ Debited(q, u)' <=> Debited(q, u)
              /\ Given(q, u)' <=> Given(q, u)
           \/ \A p \in Order \ {q} : ~Holds(p, u)
           \/ coins'[u] = coins[u] /\ Moved(q, u),
           ReadCurrent(q, u)',
           coins'[u] \in Int, owed'[u] \in Int,
           coins'[u] - owed'[u] + Loose(q, u)' = coins[u] - owed[u] + Loose(q, u)
    PROVE  UserOK(u)'
  <1> DEFINE Same == /\ coins'[u] = coins[u]
                     /\ Debited(q, u)' <=> Debited(q, u)
                     /\ Given(q, u)' <=> Given(q, u)
             Alone == \A p \in Order \ {q} : ~Moved(p, u)
             Mine(d, g) == IF d THEN Cost ELSE IF g THEN -Cost ELSE 0
  <1>1. Same \/ Alone
    BY MovedHolds DEF UserOK
  <1>2. \A p \in Order \ {q} :
           /\ Debited(p, u)' <=> Debited(p, u)
           /\ Given(p, u)' <=> Given(p, u)
           /\ Awaits(p, u)' <=> Awaits(p, u)
    BY DEF Debited, Given, Awaits
  <1>3. \A p, r \in Order : Moved(p, u)' /\ Moved(r, u)' => p = r
    BY <1>1, <1>2 DEF UserOK, Moved
  <1>4. ASSUME NEW p \in Order PROVE ReadCurrent(p, u)'
    <2>1. CASE p = q
      BY <2>1
    <2>2. CASE p # q /\ coins'[u] = coins[u]
      <3>1. ReadCurrent(p, u) /\ order'[p] = order[p]
        BY <2>2 DEF UserOK
      <3>2. QED
        BY <2>2, <3>1 DEF ReadCurrent, Moved, Debited, Given
    <2>3. CASE p # q /\ ~Holds(p, u)
      <3>1. order'[p] = order[p]
        BY <2>3
      <3>2. QED
        BY <2>3, <3>1 DEF ReadCurrent, Moved, Debited, Given, Holds
    <2>4. QED
      BY <2>1, <2>2, <2>3
  <1>5. /\ InAir(u) \in Int
        /\ InAir(u)' = InAir(u) + Mine(Debited(q, u)', Given(q, u)')
                                - Mine(Debited(q, u), Given(q, u))
    <2>1. CASE Alone
      <3>1. InAir(u) = Mine(Debited(q, u), Given(q, u))
        BY <2>1 DEF InAir, Moved
      <3>2. InAir(u)' = Mine(Debited(q, u)', Given(q, u)')
        BY <1>2, <2>1 DEF InAir, Moved
      <3>3. QED
        BY <3>1, <3>2, AmountsType
    <2>2. CASE Same
      <3>1. \A p \in Order : /\ Debited(p, u)' <=> Debited(p, u)
                             /\ Given(p, u)' <=> Given(p, u)
        BY <1>2, <2>2
      <3>2. InAir(u)' = InAir(u) /\ InAir(u) \in Int
        BY <3>1, AmountsType DEF InAir
      <3>3. QED
        BY <2>2, <3>2, AmountsType
    <2>3. QED
      BY <1>1, <2>1, <2>2
  <1>6. /\ Pack * Cardinality(Awaiting(u)) \in Int
        /\ Pack * Cardinality(Awaiting(u)') =
             Pack * Cardinality(Awaiting(u))
             + (IF Awaits(q, u)' THEN Pack ELSE 0)
             - (IF Awaits(q, u) THEN Pack ELSE 0)
    BY <1>2, AwaitingCount
  <1>7. coins'[u] + InAir(u)' + Pack * Cardinality(Awaiting(u)') = owed'[u]
    <2>1. coins[u] + InAir(u) + Pack * Cardinality(Awaiting(u)) = owed[u]
      BY DEF UserOK
    <2>2. coins[u] \in Int /\ owed[u] \in Int
      BY DEF CoinsOK, BooksOK
    <2>3. /\ Loose(q, u) = Mine(Debited(q, u), Given(q, u))
                           + (IF Awaits(q, u) THEN Pack ELSE 0)
          /\ Loose(q, u)' = Mine(Debited(q, u)', Given(q, u)')
                            + (IF Awaits(q, u)' THEN Pack ELSE 0)
      BY DEF Loose
    <2> DEFINE c == Pack * Cardinality(Awaiting(u))
               d == Pack * Cardinality(Awaiting(u)')
               a == InAir(u)
               b == InAir(u)'
               m == Mine(Debited(q, u), Given(q, u))
               n == Mine(Debited(q, u)', Given(q, u)')
               x == IF Awaits(q, u) THEN Pack ELSE 0
               y == IF Awaits(q, u)' THEN Pack ELSE 0
    <2>4. m \in Int /\ n \in Int /\ x \in Int /\ y \in Int
      BY AmountsType
    <2>5. /\ a \in Int /\ b = a + n - m /\ c \in Int /\ d = c + y - x
          /\ coins[u] + a + c = owed[u]
          /\ coins'[u] - owed'[u] + (n + y) = coins[u] - owed[u] + (m + x)
      BY <1>5, <1>6, <2>1, <2>3
    <2>6. coins'[u] + b + d = owed'[u]
      <3> HIDE DEF a, b, c, d, m, n, x, y
      <3> QED
        BY <2>2, <2>4, <2>5
    <2>7. QED
      BY <2>6
  <1>8. QED
    BY <1>3, <1>4, <1>7 DEF UserOK

LEMMA EndedOK ==
    ASSUME OrdersOK, NEW q \in Order, Ends(q), NEW u \in User
    PROVE  /\ ReadCurrent(q, u)' /\ ShapeOK(q)'
           /\ ~Debited(q, u)' /\ ~Given(q, u)' /\ ~Awaits(q, u)'
           /\ Loose(q, u)' = 0
  <1>1. order'[q] = NoOrder
    BY DEF Ends, OrdersOK
  <1>2. u # nil
    BY WalletAssumption
  <1>3. ~Debited(q, u)' /\ ~Given(q, u)' /\ ~Awaits(q, u)'
    BY <1>1 DEF NoOrder, Debited, Given, Awaits
  <1>4. QED
    BY <1>1, <1>2, <1>3 DEF NoOrder, ReadCurrent, Moved, ShapeOK, Loose

\* What a step of q has to keep, user by user.
LEMMA StepBooks ==
    ASSUME CoinsInv, NEW q \in Order, \A p \in Order \ {q} : order'[p] = order[p],
           ShapeOK(q)', disturbed \subseteq disturbed',
           \A u \in User \ disturbed' : UserOK(u) => UserOK(u)'
    PROVE  CoinsInv'
  BY DEF CoinsInv, ShapeOK

\* A write that leaves its user undisturbed overlapped with nothing.
LEMMA Undisturbed ==
    ASSUME NEW q \in Order, NEW u, NEW n, PutCoins(q, u, n), u \notin disturbed'
    PROVE  /\ \A p \in Order \ {q} : ~Holds(p, u)
           /\ u \notin order[q].made
  BY DEF PutCoins, Overlapped

\* Other users than the one whose coins are written see nothing of it.
LEMMA Bystander ==
    ASSUME CoinsOK, NEW q, NEW v \in User, NEW n,
           PutCoins(q, v, n) \/ PutUnheard(v, n)
    PROVE  /\ coins'[v] = n
           /\ \A u \in User \ {v} : coins'[u] = coins[u]
           /\ disturbed \subseteq disturbed'
           /\ PutUnheard(v, n) => v \in disturbed'
  BY DEF CoinsOK, PutCoins, PutUnheard

\* The step of q leaves what it has read, moved and recorded of u as it is.
Apart(q, u) ==
    /\ ReadCurrent(q, u) => ReadCurrent(q, u)'
    /\ Debited(q, u)' <=> Debited(q, u)
    /\ Given(q, u)' <=> Given(q, u)
    /\ Awaits(q, u)' <=> Awaits(q, u)

\* The write n of the coins of v is what the records come to.
Balanced(q, v, n) ==
    /\ ReadCurrent(q, v)'
    /\ owed'[v] \in Int
    /\ n - owed'[v] + Loose(q, v)' = coins[v] - owed[v] + Loose(q, v)

\* A step that writes no coins and no record, and leaves the gifts and packs of
\* the undisturbed as they are.
LEMMA QuietBooks ==
    ASSUME CoinsOK, BooksOK, CoinsInv, NEW q \in Order,
           \A p \in Order \ {q} : order'[p] = order[p], ShapeOK(q)',
           UNCHANGED <<coins, owed>>, disturbed \subseteq disturbed',
           \A u \in User \ disturbed' : Apart(q, u)
    PROVE  CoinsInv'
  <1>1. ASSUME NEW u \in User \ disturbed', UserOK(u) PROVE UserOK(u)'
    <2>1. /\ ReadCurrent(q, u)'
          /\ Debited(q, u)' <=> Debited(q, u)
          /\ Given(q, u)' <=> Given(q, u)
          /\ Awaits(q, u)' <=> Awaits(q, u)
      BY <1>1 DEF UserOK, Apart
    <2>2. Loose(q, u)' = Loose(q, u)
      BY <2>1 DEF Loose
    <2>3. /\ coins'[u] \in Int /\ owed'[u] \in Int
          /\ coins'[u] = coins[u] /\ owed'[u] = owed[u]
      BY DEF CoinsOK, BooksOK
    <2>4. coins'[u] - owed'[u] + Loose(q, u)' = coins[u] - owed[u] + Loose(q, u)
      BY <2>2, <2>3
    <2>5. QED
      BY <1>1, <2>1, <2>3, <2>4, UserStep
  <1>2. QED
    BY <1>1, StepBooks

\* A step that writes the coins of v, and perhaps the record of v.
LEMMA WriteBooks ==
    ASSUME CoinsOK, BooksOK, CoinsInv, NEW q \in Order,
           \A p \in Order \ {q} : order'[p] = order[p], ShapeOK(q)',
           NEW v \in User, NEW n \in Int,
           PutCoins(q, v, n) \/ PutUnheard(v, n),
           \A u \in User \ {v} : owed'[u] = owed[u],
           \A u \in User \ {v} : Apart(q, u),
           ASSUME PutCoins(q, v, n), v \notin disturbed', ReadCurrent(q, v),
                  v \notin order[q].made
           PROVE  Balanced(q, v, n)
    PROVE  CoinsInv'
  <1>1. /\ coins'[v] = n
        /\ \A u \in User \ {v} : coins'[u] = coins[u]
        /\ disturbed \subseteq disturbed'
        /\ PutUnheard(v, n) => v \in disturbed'
    BY Bystander
  <1>2. ASSUME NEW u \in User \ disturbed', UserOK(u) PROVE UserOK(u)'
    <2>1. CASE u = v
      <3>1. PutCoins(q, v, n)
        BY <1>1, <2>1
      <3>2. (\A p \in Order \ {q} : ~Holds(p, u)) /\ u \notin order[q].made
        BY <2>1, <3>1, Undisturbed
      <3>3. ReadCurrent(q, u)
        BY <1>2 DEF UserOK
      <3>4. /\ ReadCurrent(q, u)' /\ coins'[u] \in Int /\ owed'[u] \in Int
            /\ coins'[u] - owed'[u] + Loose(q, u)' = coins[u] - owed[u] + Loose(q, u)
        BY <1>1, <1>2, <2>1, <3>1, <3>2, <3>3 DEF Balanced
      <3>5. QED
        BY <1>2, <3>2, <3>4, UserStep
    <2>2. CASE u # v
      <3>1. /\ ReadCurrent(q, u)'
            /\ Debited(q, u)' <=> Debited(q, u)
            /\ Given(q, u)' <=> Given(q, u)
            /\ Awaits(q, u)' <=> Awaits(q, u)
        BY <1>2, <2>2 DEF UserOK, Apart
      <3>2. Loose(q, u)' = Loose(q, u)
        BY <3>1 DEF Loose
      <3>3. /\ coins'[u] \in Int /\ owed'[u] \in Int
            /\ coins'[u] = coins[u] /\ owed'[u] = owed[u]
        BY <1>1, <2>2 DEF CoinsOK, BooksOK
      <3>4. coins'[u] - owed'[u] + Loose(q, u)' = coins[u] - owed[u] + Loose(q, u)
        BY <3>2, <3>3
      <3>5. QED
        BY <1>2, <3>1, <3>3, <3>4, UserStep
    <2>3. QED
      BY <2>1, <2>2
  <1>3. QED
    BY <1>1, <1>2, StepBooks

\* A balance that was read, or made up, and nothing else.
LEMMA ReadBooks ==
    ASSUME OrdersOK, CoinsOK, BooksOK, CoinsInv, NEW q \in Order,
           ReadToChange(q) \/ ReadSender(q) \/ ReadReceiver(q) \/ LookUp(q)
    PROVE  CoinsInv'
  <1>1. /\ order[q] \in OrderType /\ order[q].user \in User
        /\ order[q].op = "gift" => order[q].other \in User
        /\ order[q].op \in {"spend", "earn", "gift", "buy"}
        /\ ShapeOK(q)
    BY Parties DEF ReadToChange, ReadSender, ReadReceiver, LookUp, At, CoinsInv
  <1>2. \A p \in Order \ {q} : order'[p] = order[p]
    BY OthersStay DEF OrderStep
  <1>3. UNCHANGED <<coins, owed, disturbed>>
    BY DEF ReadToChange, ReadSender, ReadReceiver, LookUp
  <1>4. \A u \in User : ~Debited(q, u) /\ ~Given(q, u) /\ ~Awaits(q, u)
    BY <1>1 DEF ReadToChange, ReadSender, ReadReceiver, LookUp, At, Debited, Given,
                Awaits
  <1>5. ASSUME /\ ShapeOK(q)'
               /\ \A u \in User :
                    /\ ReadCurrent(q, u) => ReadCurrent(q, u)'
                    /\ ~Debited(q, u)' /\ ~Given(q, u)' /\ ~Awaits(q, u)'
        PROVE  CoinsInv'
    BY <1>2, <1>3, <1>4, <1>5, QuietBooks DEF Apart
  <1>6. CASE Ends(q)
    BY <1>1, <1>5, <1>6, EndedOK
  <1>7. ASSUME /\ ShapeOK(q)'
               /\ order'[q].op \in {"spend", "earn", "gift", "buy"}
               /\ order'[q].op = "gift" => order'[q].at \in {"readOther", "write"}
               /\ order'[q].op = "buy" => order'[q].at = "complete"
               /\ \A u \in User : ReadCurrent(q, u) =>
                     \/ u \in order'[q].made
                     \/ /\ order'[q].user = u /\ order'[q].at \in {"readOther", "write"}
                              => order'[q].seen = coins[u]
                        /\ order'[q].other = u /\ order'[q].at = "write"
                              => order'[q].seenOther = coins[u]
        PROVE  CoinsInv'
    <2>1. \A u \in User : ~Debited(q, u)' /\ ~Given(q, u)' /\ ~Awaits(q, u)'
      BY <1>7 DEF Debited, Given, Awaits
    <2>2. \A u \in User : ReadCurrent(q, u) => ReadCurrent(q, u)'
      BY <1>3, <1>7, <2>1 DEF ReadCurrent, Moved, ShapeOK
    <2>3. QED
      BY <1>5, <1>7, <2>1, <2>2
  <1>8. CASE ReadToChange(q) /\ ~Ends(q)
    <2>1. order'[q] = [order[q] EXCEPT !.at = "write", !.seen = coins[order[q].user]]
      BY <1>8 DEF ReadToChange, OrdersOK
    <2>2. /\ order'[q].op = order[q].op /\ order'[q].user = order[q].user
          /\ order'[q].other = nil /\ order'[q].at = "write"
          /\ order'[q].made = {} /\ order'[q].seen = coins[order[q].user]
          /\ order[q].op \in {"spend", "earn"}
      BY <1>1, <1>8, <2>1 DEF ReadToChange, ShapeOK, OrderType
    <2>3. ShapeOK(q)'
      BY <2>2 DEF ShapeOK
    <2>4. QED
      BY <1>7, <2>2, <2>3, WalletAssumption
  <1>9. CASE ReadSender(q) /\ ~Ends(q)
    <2>1. PICK n \in {coins[order[q].user], FallbackCoins},
               made \in {{}, {order[q].user}} :
             /\ order'[q] = [order[q] EXCEPT !.at = "readOther", !.seen = n,
                                             !.made = made]
             /\ n = coins[order[q].user] \/ made = {order[q].user}
      BY <1>9 DEF ReadSender, OrdersOK
    <2>2. /\ order'[q].op = "gift" /\ order'[q].user = order[q].user
          /\ order'[q].other = order[q].other /\ order'[q].at = "readOther"
          /\ order'[q].made = made /\ order'[q].seen = n
          /\ order[q].user # order[q].other
      BY <1>1, <1>9, <2>1 DEF ReadSender, At, ShapeOK, OrderType
    <2>3. ShapeOK(q)'
      BY <2>2 DEF ShapeOK
    <2>4. QED
      BY <1>7, <2>1, <2>2, <2>3
  <1>10. CASE ReadReceiver(q)
    <2>1. PICK n \in {coins[order[q].other], FallbackCoins},
               made \in {{}, {order[q].other}} :
             /\ order'[q] = [order[q] EXCEPT !.at = "write", !.seenOther = n,
                                             !.made = @ \cup made]
             /\ n = coins[order[q].other] \/ made = {order[q].other}
      BY <1>10 DEF ReadReceiver, OrdersOK
    <2>2. /\ order'[q].op = "gift" /\ order'[q].user = order[q].user
          /\ order'[q].other = order[q].other /\ order'[q].at = "write"
          /\ order'[q].made = order[q].made \cup made
          /\ order'[q].seen = order[q].seen /\ order'[q].seenOther = n
          /\ order[q].at = "readOther" /\ order[q].user # order[q].other
      BY <1>1, <1>10, <2>1 DEF ReadReceiver, At, ShapeOK, OrderType
    <2>3. ShapeOK(q)'
      BY <2>2 DEF ShapeOK
    <2>4. ASSUME NEW u \in User, ReadCurrent(q, u), u \notin order'[q].made
          PROVE  /\ order'[q].user = u => order'[q].seen = coins[u]
                 /\ order'[q].other = u => order'[q].seenOther = coins[u]
      <3>1. u \notin order[q].made /\ u \notin made
        BY <2>2, <2>4
      <3>2. order[q].user = u => order[q].seen = coins[u]
        BY <2>2, <2>4, <3>1 DEF ReadCurrent
      <3>3. order[q].other = u => n = coins[u]
        BY <2>1, <3>1
      <3>4. QED
        BY <2>2, <3>2, <3>3
    <2>5. QED
      BY <1>7, <2>2, <2>3, <2>4
  <1>11. CASE LookUp(q) /\ ~Ends(q)
    <2>1. order'[q] = [order[q] EXCEPT !.at = "complete"] /\ order[q].op = "buy"
      BY <1>11 DEF LookUp, At, Goes, OrdersOK
    <2>2. /\ order'[q].op = "buy" /\ order'[q].other = nil
          /\ order'[q].at = "complete" /\ order'[q].made = {}
      BY <1>1, <2>1 DEF ShapeOK, OrderType
    <2>3. ShapeOK(q)'
      BY <2>2 DEF ShapeOK
    <2>4. QED
      BY <1>7, <2>2, <2>3, WalletAssumption
  <1>12. QED
    BY <1>6, <1>8, <1>9, <1>10, <1>11

\* Requests that begin, or end without harm to anybody undisturbed.
LEMMA BeginBooks ==
    ASSUME OrdersOK, CoinsOK, BooksOK, CoinsInv, NEW q \in Order,
           \/ \E u \in User, op \in {"spend", "earn"} : BeginChange(q, op, u)
           \/ \E s \in User : \E r \in User \ {s} : BeginGift(q, s, r)
           \/ \E x \in Receipt : BeginPurchase(q, x)
    PROVE  CoinsInv'
  <1>1. /\ \A p \in Order \ {q} : order'[p] = order[p]
        /\ UNCHANGED <<coins, owed, disturbed>> /\ order[q].op = "none"
    BY DEF BeginChange, BeginGift, BeginPurchase, Open, OrdersOK
  <1> DEFINE Fresh ==
        /\ order'[q].at \in {"read", "look"}
        /\ order'[q].at = "read" => order'[q].op \in {"spend", "earn", "gift"}
        /\ order'[q].at = "look" => order'[q].op = "buy"
        /\ order'[q].op = "gift" => order'[q].user # order'[q].other
        /\ order'[q].op # "gift" => order'[q].other = nil
        /\ order'[q].made = {}
  <1>2. Fresh
    <2>1. ASSUME NEW u \in User, NEW op \in {"spend", "earn"}, BeginChange(q, op, u)
          PROVE  Fresh
      BY <2>1 DEF BeginChange, Open, OrdersOK, NoOrder
    <2>2. ASSUME NEW u \in User, NEW v \in User \ {u}, BeginGift(q, u, v)
          PROVE  Fresh
      BY <2>2 DEF BeginGift, Open, OrdersOK, NoOrder
    <2>3. ASSUME NEW x \in Receipt, BeginPurchase(q, x)
          PROVE  Fresh
      BY <2>3 DEF BeginPurchase, Open, OrdersOK, NoOrder
    <2>4. QED
      <3> HIDE DEF Fresh
      <3> QED
        BY <2>1, <2>2, <2>3
  <1>3. \A u \in User :
           /\ ~Debited(q, u) /\ ~Given(q, u) /\ ~Awaits(q, u)
           /\ ~Debited(q, u)' /\ ~Given(q, u)' /\ ~Awaits(q, u)'
    BY <1>1, <1>2 DEF Debited, Given, Awaits
  <1>4. \A u \in User : ReadCurrent(q, u)'
    BY <1>2, <1>3 DEF ReadCurrent
  <1>5. ShapeOK(q)'
    BY <1>2 DEF ShapeOK
  <1>6. QED
    BY <1>1, <1>3, <1>4, <1>5, QuietBooks DEF Apart

LEMMA StopBooks ==
    ASSUME OrdersOK, CoinsOK, BooksOK, CoinsInv, NEW q \in Order, StopOrder(q)
    PROVE  CoinsInv'
  <1>1. /\ \A p \in Order \ {q} : order'[p] = order[p]
        /\ UNCHANGED <<coins, owed>> /\ disturbed \subseteq disturbed' /\ Ends(q)
    BY OthersStay DEF OrderStep, StopOrder
  <1>2. \A u \in User \ disturbed' : ~Debited(q, u) /\ ~Given(q, u) /\ ~Awaits(q, u)
    BY DEF StopOrder, Debited, Given, Awaits
  <1>3. \A u \in User :
           /\ ~Debited(q, u)' /\ ~Given(q, u)' /\ ~Awaits(q, u)'
           /\ ReadCurrent(q, u)' /\ ShapeOK(q)'
    BY <1>1, EndedOK
  <1>4. ShapeOK(q)'
    BY <1>1 DEF Ends, OrdersOK, NoOrder, ShapeOK
  <1>5. QED
    BY <1>1, <1>2, <1>3, <1>4, QuietBooks DEF Apart

LEMMA ChangeBooks ==
    ASSUME OrdersOK, CoinsOK, BooksOK, CoinsInv, NEW q \in Order, Change(q)
    PROVE  CoinsInv'
  <1>1. PICK v \in User : v = order[q].user
    BY Parties DEF Change
  <1>2. PICK d \in Int : d = Delta(order[q].op)
    BY AmountsType DEF Delta
  <1>3. PICK n \in Int : n = order[q].seen + d
    BY Parties
  <1>4. /\ order[q].op \in {"spend", "earn"} /\ order[q].at = "write"
        /\ PutCoins(q, v, n) \/ PutUnheard(v, n)
        /\ PutCoins(q, v, n) /\ v \notin disturbed' =>
              owed' = [owed EXCEPT ![v] = @ + d]
        /\ \A u \in User \ {v} : owed'[u] = owed[u]
        /\ Ends(q)
    BY <1>1, <1>2, <1>3 DEF Change, BooksOK, PutUnheard
  <1>5. \A p \in Order \ {q} : order'[p] = order[p]
    BY OthersStay DEF OrderStep
  <1>6. \A u \in User :
           /\ ReadCurrent(q, u)' /\ ShapeOK(q)'
           /\ ~Debited(q, u) /\ ~Given(q, u) /\ ~Awaits(q, u)
           /\ ~Debited(q, u)' /\ ~Given(q, u)' /\ ~Awaits(q, u)'
           /\ Loose(q, u) = 0 /\ Loose(q, u)' = 0
    BY <1>4, EndedOK DEF Debited, Given, Awaits, Loose
  <1>7. ASSUME PutCoins(q, v, n), v \notin disturbed', ReadCurrent(q, v),
               v \notin order[q].made
        PROVE  Balanced(q, v, n)
    <2>1. n = coins[v] + d
      BY <1>1, <1>3, <1>4, <1>7 DEF ReadCurrent
    <2>2. owed'[v] = owed[v] + d /\ owed[v] \in Int /\ coins[v] \in Int
      BY <1>4, <1>7 DEF BooksOK, CoinsOK
    <2>3. Loose(q, v) = 0 /\ Loose(q, v)' = 0 /\ ReadCurrent(q, v)'
      BY <1>6
    <2>4. QED
      BY <2>1, <2>2, <2>3 DEF Balanced
  <1>8. ShapeOK(q)' /\ \A u \in User : Apart(q, u)
    BY <1>6 DEF Apart
  <1>9. QED
    BY <1>4, <1>5, <1>7, <1>8, WriteBooks

\* A step that writes records only.
LEMMA RecordBooks ==
    ASSUME CoinsOK, BooksOK, CoinsInv, NEW q \in Order,
           \A p \in Order \ {q} : order'[p] = order[p], ShapeOK(q)',
           coins' = coins, disturbed \subseteq disturbed',
           \A u \in User \ disturbed' :
              ReadCurrent(q, u) =>
                 \/ Apart(q, u) /\ owed'[u] = owed[u]
                 \/ /\ Balanced(q, u, coins[u])
                    /\ \/ Moved(q, u)
                       \/ ~Debited(q, u)' /\ ~Given(q, u)'
    PROVE  CoinsInv'
  <1>1. ASSUME NEW u \in User \ disturbed', UserOK(u) PROVE UserOK(u)'
    <2>1. /\ coins'[u] = coins[u] /\ coins[u] \in Int /\ owed[u] \in Int
          /\ ReadCurrent(q, u)
      BY <1>1 DEF CoinsOK, BooksOK, UserOK
    <2>2. CASE Apart(q, u) /\ owed'[u] = owed[u]
      <3>1. /\ ReadCurrent(q, u)'
            /\ Debited(q, u)' <=> Debited(q, u)
            /\ Given(q, u)' <=> Given(q, u)
            /\ Loose(q, u)' = Loose(q, u)
        BY <2>1, <2>2 DEF Apart, Loose
      <3>2. coins'[u] - owed'[u] + Loose(q, u)' = coins[u] - owed[u] + Loose(q, u)
        BY <2>1, <2>2, <3>1
      <3>3. QED
        BY <1>1, <2>1, <2>2, <3>1, <3>2, UserStep
    <2>3. CASE /\ Balanced(q, u, coins[u])
               /\ \/ Moved(q, u)
                  \/ ~Debited(q, u)' /\ ~Given(q, u)'
      <3>1. /\ ReadCurrent(q, u)' /\ owed'[u] \in Int
            /\ coins'[u] - owed'[u] + Loose(q, u)' = coins[u] - owed[u] + Loose(q, u)
        BY <2>1, <2>3 DEF Balanced
      <3>2. \/ Moved(q, u)
            \/ /\ Debited(q, u)' <=> Debited(q, u)
               /\ Given(q, u)' <=> Given(q, u)
        BY <2>3 DEF Moved
      <3>3. QED
        BY <1>1, <2>1, <3>1, <3>2, UserStep
    <2>4. QED
      BY <1>1, <2>1, <2>2, <2>3
  <1>2. QED
    BY <1>1, StepBooks

\* What changes of a request that goes on.
LEMMA GoesOn ==
    ASSUME OrdersOK, NEW q \in Order, NEW at, Goes(q, at)
    PROVE  /\ order'[q].at = at
           /\ order'[q].op = order[q].op /\ order'[q].user = order[q].user
           /\ order'[q].other = order[q].other /\ order'[q].made = order[q].made
           /\ order'[q].seen = order[q].seen
           /\ order'[q].seenOther = order[q].seenOther
  <1>1. order'[q] = [order[q] EXCEPT !.at = at] /\ order[q] \in OrderType
    BY Parties DEF Goes, OrdersOK
  <1>2. QED
    BY <1>1 DEF OrderType

\* A request stays apart from users it does not deal with.
LEMMA Strangers ==
    ASSUME OrdersOK, NEW q \in Order, NEW u \in User,
           u # order[q].user, u # order[q].other,
           \/ Ends(q)
           \/ order'[q].user = order[q].user /\ order'[q].other = order[q].other
    PROVE  Apart(q, u)
  <1>1. u # order'[q].user /\ u # order'[q].other
    BY WalletAssumption DEF Ends, OrdersOK, NoOrder
  <1>2. /\ ~Debited(q, u) /\ ~Given(q, u) /\ ~Awaits(q, u)
        /\ ~Debited(q, u)' /\ ~Given(q, u)' /\ ~Awaits(q, u)'
    BY <1>1 DEF Debited, Given, Awaits
  <1>3. ReadCurrent(q, u)'
    BY <1>1, <1>2 DEF ReadCurrent, Moved
  <1>4. QED
    BY <1>2, <1>3 DEF Apart

\* The two users of a gift, and what it has read of them.
LEMMA GiftFacts ==
    ASSUME OrdersOK, CoinsInv, NEW q \in Order, order[q].op = "gift"
    PROVE  /\ order[q].user \in User /\ order[q].other \in User
           /\ order[q].user # order[q].other
           /\ order[q].seen \in Int /\ order[q].seenOther \in Int
           /\ Cost \in Int /\ Pack \in Int
           /\ \A u \in User : ~Awaits(q, u)
  BY Parties, AmountsType DEF CoinsInv, ShapeOK, Awaits

\* A gift that goes on keeps its shape.
LEMMA GiftShape ==
    ASSUME OrdersOK, CoinsInv, NEW q \in Order, order[q].op = "gift",
           NEW at \in {"read", "readOther", "write", "credit", "record",
                       "giveBack", "undo", "undoOther"},
           Ends(q) \/ Goes(q, at)
    PROVE  ShapeOK(q)'
  <1>1. CASE Ends(q)
    BY <1>1 DEF Ends, OrdersOK, NoOrder, ShapeOK
  <1>2. CASE Goes(q, at)
    BY <1>2, GoesOn, GiftFacts DEF ShapeOK
  <1>3. QED
    BY <1>1, <1>2

LEMMA DebitBooks ==
    ASSUME OrdersOK, CoinsOK, BooksOK, CoinsInv, NEW q \in Order, Debit(q)
    PROVE  CoinsInv'
  <1>1. /\ order[q].op = "gift" /\ order[q].at = "write"
        /\ Ends(q) \/ Goes(q, "credit")
    BY DEF Debit, At
  <1>2. PICK v \in User, w \in User :
           v = order[q].user /\ w = order[q].other /\ v # w
    BY <1>1, GiftFacts
  <1>3. PICK n \in Int : n = order[q].seen - Cost
    BY <1>1, GiftFacts
  <1>4. /\ owed' = owed
        /\ PutCoins(q, v, n) \/ PutUnheard(v, n)
        /\ PutCoins(q, v, n) /\ v \notin disturbed' => Goes(q, "credit")
    BY <1>2, <1>3 DEF Debit, PutUnheard
  <1>5. \A p \in Order \ {q} : order'[p] = order[p]
    BY OthersStay DEF OrderStep
  <1>6. ShapeOK(q)'
    BY <1>1, GiftShape
  <1>7. coins'[v] = n /\ coins'[w] = coins[w]
    BY <1>2, <1>4, Bystander
  <1>8. Apart(q, w)
    <2>1. ~Debited(q, w) /\ ~Given(q, w) /\ ~Awaits(q, w)
      BY <1>1 DEF Debited, Given, Awaits
    <2>2. CASE Ends(q)
      BY <2>1, <2>2, EndedOK DEF Apart
    <2>3. CASE Goes(q, "credit")
      <3>1. ~Debited(q, w)' /\ ~Given(q, w)' /\ ~Awaits(q, w)'
        BY <1>1, <1>2, <2>3, GoesOn DEF Debited, Given, Awaits
      <3>2. ReadCurrent(q, w) => ReadCurrent(q, w)'
        BY <1>1, <1>2, <1>7, <2>1, <2>3, <3>1, GoesOn DEF ReadCurrent, Moved
      <3>3. QED
        BY <2>1, <3>1, <3>2 DEF Apart
    <2>4. QED
      BY <1>1, <2>2, <2>3
  <1>9. ASSUME PutCoins(q, v, n), v \notin disturbed', ReadCurrent(q, v),
               v \notin order[q].made
        PROVE  Balanced(q, v, n)
    <2>1. Goes(q, "credit")
      BY <1>4, <1>9
    <2>2. order[q].seen = coins[v]
      BY <1>1, <1>2, <1>9 DEF ReadCurrent
    <2>3. Debited(q, v)' /\ ~Given(q, v)' /\ ~Awaits(q, v)'
      BY <1>1, <1>2, <2>1, GoesOn DEF Debited, Given, Awaits
    <2>4. Loose(q, v) = 0 /\ Loose(q, v)' = Cost
      BY <1>1, <2>3, GiftFacts DEF Debited, Given, Awaits, Loose
    <2>5. order'[q].seen = coins'[v] + Cost
      BY <1>1, <1>3, <1>7, <2>1, GiftFacts, GoesOn
    <2>6. ReadCurrent(q, v)'
      BY <1>2, <1>9, <2>1, <2>3, <2>5, GoesOn DEF ReadCurrent
    <2>7. coins[v] \in Int /\ owed[v] \in Int
      BY DEF CoinsOK, BooksOK
    <2>8. QED
      BY <1>1, <1>3, <1>4, <2>2, <2>4, <2>6, <2>7, GiftFacts DEF Balanced
  <1>10. \A u \in User \ {v} : Apart(q, u)
    BY <1>1, <1>2, <1>8, Strangers, GoesOn
  <1>11. QED
    BY <1>4, <1>5, <1>6, <1>9, <1>10, WriteBooks

LEMMA CreditBooks ==
    ASSUME OrdersOK, CoinsOK, BooksOK, CoinsInv, NEW q \in Order, Credit(q)
    PROVE  CoinsInv'
  <1>1. /\ order[q].op = "gift" /\ order[q].at = "credit"
        /\ Goes(q, "record") \/ Goes(q, "giveBack")
    BY DEF Credit, At
  <1>2. PICK v \in User, w \in User :
           v = order[q].user /\ w = order[q].other /\ v # w
    BY <1>1, GiftFacts
  <1>3. PICK n \in Int : n = order[q].seenOther + Cost
    BY <1>1, GiftFacts
  <1>4. /\ owed' = owed
        /\ \/ /\ PutCoins(q, w, n) \/ PutUnheard(w, n)
              /\ PutCoins(q, w, n) /\ w \notin disturbed' => Goes(q, "record")
           \/ UNCHANGED <<coins, disturbed>> /\ Goes(q, "giveBack")
    BY <1>2, <1>3 DEF Credit, PutUnheard
  <1>5. \A p \in Order \ {q} : order'[p] = order[p]
    BY OthersStay DEF OrderStep
  <1>6. ShapeOK(q)'
    BY <1>1, GiftShape
  <1>7. coins'[v] = coins[v]
    BY <1>2, <1>4, Bystander
  <1>8. PICK at \in {"record", "giveBack"} : Goes(q, at)
    BY <1>1
  <1>9. Apart(q, v)
    <2>1. /\ Debited(q, v) /\ ~Given(q, v) /\ ~Awaits(q, v)
          /\ Debited(q, v)' /\ ~Given(q, v)' /\ ~Awaits(q, v)'
      BY <1>1, <1>2, <1>8, GoesOn DEF Debited, Given, Awaits
    <2>2. ReadCurrent(q, v) => ReadCurrent(q, v)'
      BY <1>1, <1>2, <1>7, <1>8, <2>1, GoesOn DEF ReadCurrent, Moved
    <2>3. QED
      BY <2>1, <2>2 DEF Apart
  <1>10. \A u \in User \ {w} : Apart(q, u)
    BY <1>2, <1>8, <1>9, Strangers, GoesOn
  <1>11. CASE /\ PutCoins(q, w, n) \/ PutUnheard(w, n)
              /\ PutCoins(q, w, n) /\ w \notin disturbed' => Goes(q, "record")
    <2>1. ASSUME PutCoins(q, w, n), w \notin disturbed', ReadCurrent(q, w),
                 w \notin order[q].made, Goes(q, "record")
          PROVE  Balanced(q, w, n)
      <3>1. order[q].seenOther = coins[w]
        BY <1>1, <1>2, <2>1 DEF ReadCurrent
      <3>2. ~Debited(q, w)' /\ Given(q, w)' /\ ~Awaits(q, w)'
        BY <1>1, <1>2, <2>1, GoesOn DEF Debited, Given, Awaits
      <3>3. Loose(q, w) = 0 /\ Loose(q, w)' = -Cost
        BY <1>1, <1>2, <3>2, GiftFacts DEF Debited, Given, Awaits, Loose
      <3>4. order'[q].seenOther + Cost = coins'[w]
        BY <1>1, <1>3, <2>1, GiftFacts, GoesOn, Bystander
      <3>5. ReadCurrent(q, w)'
        BY <1>2, <2>1, <3>2, <3>4, GoesOn DEF ReadCurrent
      <3>6. coins[w] \in Int /\ owed[w] \in Int
        BY DEF CoinsOK, BooksOK
      <3>7. QED
        BY <1>1, <1>3, <1>4, <3>1, <3>3, <3>5, <3>6, GiftFacts DEF Balanced
    <2>2. QED
      BY <1>4, <1>5, <1>6, <1>10, <1>11, <2>1, WriteBooks
  <1>12. CASE UNCHANGED <<coins, disturbed>> /\ Goes(q, "giveBack")
    <2>1. Apart(q, w)
      <3>1. /\ ~Debited(q, w) /\ ~Given(q, w) /\ ~Awaits(q, w)
            /\ ~Debited(q, w)' /\ ~Given(q, w)' /\ ~Awaits(q, w)'
        BY <1>1, <1>2, <1>12, GoesOn DEF Debited, Given, Awaits
      <3>2. ReadCurrent(q, w)'
        BY <1>2, <1>12, <3>1, GoesOn DEF ReadCurrent, Moved
      <3>3. QED
        BY <3>1, <3>2 DEF Apart
    <2>2. QED
      BY <1>4, <1>5, <1>6, <1>10, <1>12, <2>1, QuietBooks
  <1>13. QED
    BY <1>4, <1>11, <1>12

LEMMA RecordGiftBooks ==
    ASSUME OrdersOK, CoinsOK, BooksOK, CoinsInv, NEW q \in Order, Record(q)
    PROVE  CoinsInv'
  <1>1. /\ order[q].op = "gift" /\ order[q].at = "record"
        /\ Ends(q) \/ Goes(q, "undo")
        /\ coins' = coins /\ disturbed \subseteq disturbed'
    BY DEF Record, At
  <1>2. PICK v \in User, w \in User :
           v = order[q].user /\ w = order[q].other /\ v # w
    BY <1>1, GiftFacts
  <1>3. \A p \in Order \ {q} : order'[p] = order[p]
    BY OthersStay DEF OrderStep
  <1>4. ShapeOK(q)'
    BY <1>1, GiftShape
  <1>5. /\ Debited(q, v) /\ ~Given(q, v) /\ ~Awaits(q, v)
        /\ ~Debited(q, w) /\ Given(q, w) /\ ~Awaits(q, w)
        /\ Loose(q, v) = Cost /\ Loose(q, w) = -Cost
    BY <1>1, <1>2, GiftFacts DEF Debited, Given, Awaits, Loose
  <1>6. /\ \A u \in User : coins[u] \in Int /\ owed[u] \in Int
        /\ Cost \in Int
    BY <1>1, GiftFacts DEF CoinsOK, BooksOK
  <1>7. \/ /\ owed' = [owed EXCEPT ![v] = @ - Cost, ![w] = @ + Cost]
           /\ Ends(q)
        \/ /\ owed' = [owed EXCEPT ![v] = @ - Cost, ![w] = @ + Cost]
           /\ disturbed' = disturbed \cup {v, w}
           /\ Goes(q, "undo")
        \/ owed' = owed /\ Goes(q, "undo")
    BY <1>2 DEF Record
  <1>8. \A u \in User \ {v, w} : Apart(q, u) /\ owed'[u] = owed[u]
    <2>1. \A u \in User \ {v, w} : owed'[u] = owed[u]
      BY <1>7 DEF BooksOK
    <2>2. \A u \in User \ {v, w} : Apart(q, u)
      BY <1>1, <1>2, Strangers, GoesOn
    <2>3. QED
      BY <2>1, <2>2
  <1>9. ASSUME NEW u \in User \ disturbed', ReadCurrent(q, u)
        PROVE  \/ Apart(q, u) /\ owed'[u] = owed[u]
               \/ /\ Balanced(q, u, coins[u])
                  /\ \/ Moved(q, u)
                     \/ ~Debited(q, u)' /\ ~Given(q, u)'
    <2>1. CASE u \notin {v, w}
      BY <1>8, <2>1
    <2>2. CASE /\ u \in {v, w} /\ Ends(q)
               /\ owed' = [owed EXCEPT ![v] = @ - Cost, ![w] = @ + Cost]
      <3>1. coins[u] - owed'[u] = coins[u] - owed[u] + Loose(q, u) /\ owed'[u] \in Int
        <4>1. CASE u = v
          <5>1. owed'[v] = owed[v] - Cost
            BY <1>2, <2>2 DEF BooksOK
          <5>2. QED
            BY <1>5, <1>6, <4>1, <5>1
        <4>2. CASE u = w
          <5>1. owed'[w] = owed[w] + Cost
            BY <1>2, <2>2 DEF BooksOK
          <5>2. QED
            BY <1>5, <1>6, <4>2, <5>1
        <4>3. QED
          BY <2>2, <4>1, <4>2
      <3>2. ReadCurrent(q, u)' /\ Loose(q, u)' = 0 /\ Moved(q, u)
        BY <1>5, <2>2, EndedOK DEF Moved
      <3>3. coins[u] - owed'[u] + Loose(q, u)' = coins[u] - owed'[u]
        BY <1>6, <3>1, <3>2
      <3>4. QED
        BY <3>1, <3>2, <3>3 DEF Balanced
    <2>3. CASE u \in {v, w} /\ Goes(q, "undo") /\ owed' = owed
      <3>1. /\ Debited(q, v)' /\ ~Given(q, v)' /\ ~Awaits(q, v)'
            /\ ~Debited(q, w)' /\ Given(q, w)' /\ ~Awaits(q, w)'
        BY <1>1, <1>2, <2>3, GoesOn DEF Debited, Given, Awaits
      <3>2. ReadCurrent(q, u)'
        BY <1>1, <1>2, <1>5, <1>9, <2>3, <3>1, GoesOn DEF ReadCurrent, Moved
      <3>3. QED
        BY <1>5, <2>3, <3>1, <3>2 DEF Apart
    <2>4. QED
      BY <1>7, <2>1, <2>2, <2>3
  <1>10. QED
    BY <1>1, <1>3, <1>4, <1>9, RecordBooks

LEMMA UndoBooks ==
    ASSUME OrdersOK, CoinsOK, BooksOK, CoinsInv, NEW q \in Order, Undo(q)
    PROVE  CoinsInv'
  <1>1. /\ order[q].op = "gift" /\ order[q].at \in {"giveBack", "undo"}
        /\ \/ order[q].at = "undo" /\ Goes(q, "undoOther")
           \/ order[q].at = "giveBack" /\ Ends(q)
    BY DEF Undo
  <1>2. PICK v \in User, w \in User :
           v = order[q].user /\ w = order[q].other /\ v # w
    BY <1>1, GiftFacts
  <1>3. PICK n \in Int : n = order[q].seen
    BY <1>1, GiftFacts
  <1>4. /\ owed' = owed
        /\ \/ PutCoins(q, v, n)
           \/ coins' = coins /\ disturbed' = disturbed \cup {v}
    BY <1>2, <1>3 DEF Undo
  <1>5. \A p \in Order \ {q} : order'[p] = order[p]
    BY OthersStay DEF OrderStep
  <1>6. ShapeOK(q)'
    BY <1>1, GiftShape
  <1>7. coins'[w] = coins[w]
    BY <1>2, <1>4, Bystander
  <1>8. /\ Debited(q, v) /\ ~Given(q, v) /\ ~Awaits(q, v) /\ Loose(q, v) = Cost
        /\ ~Debited(q, v)' /\ ~Given(q, v)' /\ ~Awaits(q, v)'
        /\ Loose(q, v)' = 0
    <2>1. Debited(q, v) /\ ~Given(q, v) /\ ~Awaits(q, v)
      BY <1>1, <1>2 DEF Debited, Given, Awaits
    <2>2. ~Debited(q, v)' /\ ~Given(q, v)' /\ ~Awaits(q, v)'
      BY <1>1, <1>2, GoesOn, EndedOK DEF Debited, Given, Awaits
    <2>3. QED
      BY <1>1, <2>1, <2>2, GiftFacts DEF Loose
  <1>9. Apart(q, w)
    <2>1. CASE order[q].at = "undo" /\ Goes(q, "undoOther")
      <3>1. /\ ~Debited(q, w) /\ Given(q, w) /\ ~Awaits(q, w)
            /\ ~Debited(q, w)' /\ Given(q, w)' /\ ~Awaits(q, w)'
        BY <1>1, <1>2, <2>1, GoesOn DEF Debited, Given, Awaits
      <3>2. ReadCurrent(q, w) => ReadCurrent(q, w)'
        BY <1>1, <1>2, <1>7, <2>1, <3>1, GoesOn DEF ReadCurrent, Moved
      <3>3. QED
        BY <3>1, <3>2 DEF Apart
    <2>2. CASE order[q].at = "giveBack" /\ Ends(q)
      <3>1. ~Debited(q, w) /\ ~Given(q, w) /\ ~Awaits(q, w)
        BY <1>1, <1>2, <2>2 DEF Debited, Given, Awaits
      <3>2. QED
        BY <2>2, <3>1, EndedOK DEF Apart
    <2>3. QED
      BY <1>1, <2>1, <2>2
  <1>10. \A u \in User \ {v} : Apart(q, u)
    BY <1>1, <1>2, <1>9, Strangers, GoesOn
  <1>11. CASE PutCoins(q, v, n)
    <2>1. ASSUME ReadCurrent(q, v), v \notin order[q].made
          PROVE  Balanced(q, v, n)
      <3>1. n = coins[v] + Cost
        BY <1>3, <1>8, <2>1 DEF ReadCurrent
      <3>2. ReadCurrent(q, v)'
        <4>1. CASE Ends(q)
          BY <4>1, EndedOK
        <4>2. CASE Goes(q, "undoOther")
          BY <1>2, <1>8, <2>1, <4>2, GoesOn DEF ReadCurrent
        <4>3. QED
          BY <1>1, <4>1, <4>2
      <3>3. coins[v] \in Int /\ owed[v] \in Int /\ Cost \in Int
        BY <1>1, GiftFacts DEF CoinsOK, BooksOK
      <3>4. QED
        BY <1>4, <1>8, <3>1, <3>2, <3>3 DEF Balanced
    <2>2. QED
      BY <1>4, <1>5, <1>6, <1>10, <1>11, <2>1, WriteBooks
  <1>12. CASE coins' = coins /\ disturbed' = disturbed \cup {v}
    BY <1>4, <1>5, <1>6, <1>10, <1>12, QuietBooks
  <1>13. QED
    BY <1>4, <1>11, <1>12

LEMMA UndoOtherBooks ==
    ASSUME OrdersOK, CoinsOK, BooksOK, CoinsInv, NEW q \in Order, UndoOther(q)
    PROVE  CoinsInv'
  <1>1. order[q].op = "gift" /\ order[q].at = "undoOther" /\ Ends(q)
    BY DEF UndoOther, At
  <1>2. PICK v \in User, w \in User :
           v = order[q].user /\ w = order[q].other /\ v # w
    BY <1>1, GiftFacts
  <1>3. PICK n \in Int : n = order[q].seenOther
    BY <1>1, GiftFacts
  <1>4. /\ owed' = owed
        /\ \/ PutCoins(q, w, n)
           \/ coins' = coins /\ disturbed' = disturbed \cup {w}
    BY <1>2, <1>3 DEF UndoOther
  <1>5. \A p \in Order \ {q} : order'[p] = order[p]
    BY OthersStay DEF OrderStep
  <1>6. ShapeOK(q)'
    BY <1>1, GiftShape
  <1>7. \A u \in User :
           /\ ReadCurrent(q, u)' /\ Loose(q, u)' = 0
           /\ ~Debited(q, u)' /\ ~Given(q, u)' /\ ~Awaits(q, u)'
    BY <1>1, EndedOK
  <1>8. /\ ~Debited(q, v) /\ ~Given(q, v) /\ ~Awaits(q, v)
        /\ ~Debited(q, w) /\ Given(q, w) /\ ~Awaits(q, w) /\ Loose(q, w) = -Cost
    BY <1>1, <1>2, GiftFacts DEF Debited, Given, Awaits, Loose
  <1>9. Apart(q, v)
    BY <1>7, <1>8 DEF Apart
  <1>10. \A u \in User \ {w} : Apart(q, u)
    BY <1>1, <1>2, <1>9, Strangers
  <1>11. CASE PutCoins(q, w, n)
    <2>1. ASSUME ReadCurrent(q, w), w \notin order[q].made
          PROVE  Balanced(q, w, n)
      <3>1. n + Cost = coins[w]
        BY <1>3, <1>8, <2>1 DEF ReadCurrent
      <3>2. coins[w] \in Int /\ owed[w] \in Int /\ Cost \in Int
        BY <1>1, GiftFacts DEF CoinsOK, BooksOK
      <3>3. QED
        BY <1>4, <1>7, <1>8, <3>1, <3>2 DEF Balanced
    <2>2. QED
      BY <1>4, <1>5, <1>6, <1>10, <1>11, <2>1, WriteBooks
  <1>12. CASE coins' = coins /\ disturbed' = disturbed \cup {w}
    BY <1>4, <1>5, <1>6, <1>10, <1>12, QuietBooks
  <1>13. QED
    BY <1>4, <1>11, <1>12

\* A purchase deals with its buyer.
LEMMA PurchaseFacts ==
    ASSUME OrdersOK, CoinsInv, NEW q \in Order, order[q].op = "buy"
    PROVE  /\ order[q].user \in User /\ order[q].receipt \in Receipt
           /\ order[q].made = {} /\ order[q].other = nil
           /\ order[q].seen \in Int /\ Pack \in Int
           /\ \A u \in User : /\ u # order[q].other
                              /\ ~Debited(q, u) /\ ~Given(q, u)
  BY Parties, AmountsType, WalletAssumption
  DEF CoinsInv, ShapeOK, Debited, Given

\* A purchase that goes on keeps its shape, and has moved nothing.
LEMMA PurchaseGoesOn ==
    ASSUME OrdersOK, CoinsInv, NEW q \in Order, order[q].op = "buy",
           NEW at \in {"complete", "read", "write", "delete"}, Goes(q, at)
    PROVE  /\ ShapeOK(q)'
           /\ \A u \in User : ~Debited(q, u)' /\ ~Given(q, u)'
           /\ at # "write" => \A u \in User : ReadCurrent(q, u)'
  <1>1. /\ order'[q].op = "buy" /\ order'[q].at = at
        /\ order'[q].made = {} /\ order'[q].other = nil
    BY GoesOn, PurchaseFacts
  <1>2. \A u \in User : ~Debited(q, u)' /\ ~Given(q, u)'
    BY <1>1 DEF Debited, Given
  <1>3. at # "write" => \A u \in User : ReadCurrent(q, u)'
    BY <1>1, <1>2, WalletAssumption DEF ReadCurrent
  <1>4. QED
    BY <1>1, <1>2, <1>3 DEF ShapeOK

\* After an error the buyer of a web receipt is disturbed, and a store's
\* receipt is about to be deleted.
LEMMA FailedBooks ==
    ASSUME OrdersOK, CoinsInv, NEW q \in Order, order[q].op = "buy",
           order[q].at \in {"read", "write"}, FailedPurchase(q)
    PROVE  /\ ShapeOK(q)'
           /\ \A u \in User \ {order[q].user} : Apart(q, u)
           /\ Short(q) = {} => \A u \in User : Apart(q, u)
  <1>1. Ends(q) \/ Goes(q, "delete")
    BY DEF FailedPurchase
  <1>2. ShapeOK(q)'
    BY <1>1, PurchaseGoesOn DEF Ends, NoOrder, ShapeOK, OrdersOK
  <1>3. \A u \in User \ {order[q].user} : Apart(q, u)
    BY <1>1, PurchaseFacts, Strangers, GoesOn
  <1>4. ASSUME Short(q) = {}, NEW u \in User PROVE Apart(q, u)
    <2>1. Goes(q, "delete")
      BY <1>4 DEF FailedPurchase, Short
    <2>2. Awaits(q, u)' <=> Awaits(q, u)
      BY <2>1, GoesOn DEF Awaits
    <2>3. QED
      BY <2>1, <2>2, PurchaseFacts, PurchaseGoesOn DEF Apart
  <1>5. QED
    BY <1>2, <1>3, <1>4

LEMMA ReadToCreditBooks ==
    ASSUME OrdersOK, CoinsOK, BooksOK, CoinsInv, NEW q \in Order, ReadToCredit(q)
    PROVE  CoinsInv'
  <1>1. /\ order[q].op = "buy" /\ order[q].at = "read"
        /\ UNCHANGED <<coins, owed>> /\ disturbed \subseteq disturbed'
    BY DEF ReadToCredit, At
  <1>2. PICK v \in User : v = order[q].user
    BY <1>1, PurchaseFacts
  <1>3. \A p \in Order \ {q} : order'[p] = order[p]
    BY OthersStay DEF OrderStep
  <1>4. CASE /\ order' = [order EXCEPT ![q].at = "write", ![q].seen = coins[v]]
             /\ UNCHANGED disturbed
    <2>1. /\ order'[q].op = "buy" /\ order'[q].at = "write"
          /\ order'[q].user = v /\ order'[q].other = nil
          /\ order'[q].made = {} /\ order'[q].seen = coins[v]
      <3>1. order[q] \in OrderType
        BY Parties
      <3>2. order'[q] = [order[q] EXCEPT !.at = "write", !.seen = coins[v]]
        BY <1>4 DEF OrdersOK
      <3>3. QED
        BY <1>1, <1>2, <3>1, <3>2, PurchaseFacts DEF OrderType
    <2>2. ShapeOK(q)'
      BY <2>1 DEF ShapeOK
    <2>3. ASSUME NEW u \in User PROVE Apart(q, u)
      <3>1. ~Debited(q, u)' /\ ~Given(q, u)' /\ (Awaits(q, u)' <=> Awaits(q, u))
        BY <1>1, <1>2, <2>1 DEF Debited, Given, Awaits
      <3>2. ReadCurrent(q, u)'
        BY <1>1, <2>1, <3>1, WalletAssumption DEF ReadCurrent
      <3>3. QED
        BY <1>1, <3>1, <3>2, PurchaseFacts DEF Apart
    <2>4. QED
      BY <1>1, <1>3, <2>2, <2>3, QuietBooks
  <1>5. CASE FailedPurchase(q) /\ disturbed' = disturbed \cup Short(q)
    <2>1. /\ ShapeOK(q)'
          /\ \A u \in User \ {v} : Apart(q, u)
          /\ Short(q) = {} => \A u \in User : Apart(q, u)
      BY <1>1, <1>2, <1>5, FailedBooks
    <2>2. Short(q) = {} \/ Short(q) = {v}
      BY <1>2 DEF Short
    <2>3. \A u \in User \ disturbed' : Apart(q, u)
      BY <1>5, <2>1, <2>2
    <2>4. QED
      BY <1>1, <1>3, <2>1, <2>3, QuietBooks
  <1>6. QED
    BY <1>2, <1>4, <1>5 DEF ReadToCredit

LEMMA CreditPackBooks ==
    ASSUME OrdersOK, CoinsOK, BooksOK, CoinsInv, NEW q \in Order, CreditPack(q)
    PROVE  CoinsInv'
  <1>1. /\ order[q].op = "buy" /\ order[q].at = "write" /\ owed' = owed
    BY DEF CreditPack, At
  <1>2. PICK v \in User : v = order[q].user
    BY <1>1, PurchaseFacts
  <1>3. PICK n \in Int : n = order[q].seen + Pack
    BY <1>1, PurchaseFacts
  <1>4. \A p \in Order \ {q} : order'[p] = order[p]
    BY OthersStay DEF OrderStep
  <1>5. \/ PutCoins(q, v, n) /\ Ends(q)
        \/ PutUnheard(v, n) /\ FailedPurchase(q)
        \/ /\ coins' = coins /\ disturbed' = disturbed \cup Short(q)
           /\ FailedPurchase(q)
    BY <1>2, <1>3 DEF CreditPack
  <1>6. CASE PutCoins(q, v, n) /\ Ends(q)
    <2>1. /\ ShapeOK(q)'
          /\ \A u \in User \ {v} : Apart(q, u)
      BY <1>1, <1>2, <1>6, EndedOK, PurchaseFacts, Strangers
    <2>2. ASSUME ReadCurrent(q, v), v \notin order[q].made
          PROVE  Balanced(q, v, n)
      <3>1. n = coins[v] + Pack
        BY <1>1, <1>2, <1>3, <2>2 DEF ReadCurrent
      <3>2. Loose(q, v) = Pack
        BY <1>1, <1>2, PurchaseFacts DEF Awaits, Loose
      <3>3. ReadCurrent(q, v)' /\ Loose(q, v)' = 0
        BY <1>6, EndedOK
      <3>4. coins[v] \in Int /\ owed[v] \in Int /\ Pack \in Int
        BY <1>1, PurchaseFacts DEF CoinsOK, BooksOK
      <3>5. QED
        BY <1>1, <3>1, <3>2, <3>3, <3>4 DEF Balanced
    <2>3. QED
      BY <1>1, <1>4, <1>6, <2>1, <2>2, WriteBooks
  <1>7. CASE PutUnheard(v, n) /\ FailedPurchase(q)
    <2>1. /\ ShapeOK(q)'
          /\ \A u \in User \ {v} : Apart(q, u)
      BY <1>1, <1>2, <1>7, FailedBooks
    <2>2. v \in disturbed'
      BY <1>7 DEF PutUnheard
    <2>3. QED
      BY <1>1, <1>4, <1>7, <2>1, <2>2, WriteBooks
  <1>8. CASE /\ coins' = coins /\ disturbed' = disturbed \cup Short(q)
             /\ FailedPurchase(q)
    <2>1. /\ ShapeOK(q)'
          /\ \A u \in User \ {v} : Apart(q, u)
          /\ Short(q) = {} => \A u \in User : Apart(q, u)
      BY <1>1, <1>2, <1>8, FailedBooks
    <2>2. Short(q) = {} \/ Short(q) = {v}
      BY <1>2 DEF Short
    <2>3. \A u \in User \ disturbed' : Apart(q, u)
      BY <1>8, <2>1, <2>2
    <2>4. QED
      BY <1>1, <1>4, <1>8, <2>1, <2>3, QuietBooks
  <1>9. QED
    BY <1>5, <1>6, <1>7, <1>8

\* A purchase enters or leaves the buyer's books.
LEMMA CompleteBooks ==
    ASSUME OrdersOK, CoinsOK, BooksOK, CoinsInv, NEW q \in Order, Complete(q)
    PROVE  CoinsInv'
  <1>1. /\ order[q].op = "buy" /\ order[q].at = "complete" /\ coins' = coins
        /\ Ends(q) \/ Goes(q, "read")
        /\ disturbed \subseteq disturbed'
    BY DEF Complete, At
  <1>2. PICK v \in User : v = order[q].user
    BY <1>1, PurchaseFacts
  <1>3. \A p \in Order \ {q} : order'[p] = order[p]
    BY OthersStay DEF OrderStep
  <1>4. ShapeOK(q)'
    BY <1>1, <1>2, EndedOK, PurchaseGoesOn
  <1>5. \A u \in User \ {v} : Apart(q, u)
    BY <1>1, <1>2, PurchaseFacts, Strangers, GoesOn
  <1>6. \/ Ends(q) /\ owed' = owed
        \/ /\ Goes(q, "read")
           /\ v \notin disturbed' => owed' = [owed EXCEPT ![v] = @ + Pack]
           /\ \A u \in User \ {v} : owed'[u] = owed[u]
        \/ /\ v \in disturbed'
           /\ \A u \in User \ {v} : owed'[u] = owed[u]
    BY <1>2 DEF Complete, BooksOK
  <1>7. /\ coins[v] \in Int /\ owed[v] \in Int /\ Pack \in Int
        /\ ~Awaits(q, v) /\ Loose(q, v) = 0
    BY <1>1, PurchaseFacts DEF CoinsOK, BooksOK, Awaits, Loose
  <1>8. ASSUME v \notin disturbed'
        PROVE  \/ Apart(q, v) /\ owed'[v] = owed[v]
               \/ Balanced(q, v, coins[v]) /\ ~Debited(q, v)' /\ ~Given(q, v)'
    <2>1. CASE Ends(q) /\ owed' = owed
      BY <1>1, <1>7, <2>1, EndedOK, PurchaseFacts DEF Apart
    <2>2. CASE Goes(q, "read") /\ owed' = [owed EXCEPT ![v] = @ + Pack]
      <3>1. ~Debited(q, v)' /\ ~Given(q, v)' /\ Awaits(q, v)' /\ ReadCurrent(q, v)'
        BY <1>1, <1>2, <2>2, GoesOn, PurchaseGoesOn DEF Awaits
      <3>2. Loose(q, v)' = Pack /\ owed'[v] = owed[v] + Pack
        BY <1>7, <2>2, <3>1 DEF Loose, BooksOK
      <3>3. QED
        BY <1>7, <3>1, <3>2 DEF Balanced
    <2>3. QED
      BY <1>6, <1>8, <2>1, <2>2
  <1>9. \A u \in User \ {v} : owed'[u] = owed[u]
    BY <1>6
  <1>10. QED
    BY <1>1, <1>3, <1>4, <1>5, <1>8, <1>9, RecordBooks

LEMMA DeleteRowBooks ==
    ASSUME OrdersOK, CoinsOK, BooksOK, CoinsInv, NEW q \in Order, DeleteRow(q)
    PROVE  CoinsInv'
  <1>1. /\ order[q].op = "buy" /\ order[q].at = "delete" /\ coins' = coins
        /\ Ends(q) /\ disturbed \subseteq disturbed'
    BY DEF DeleteRow, At
  <1>2. PICK v \in User : v = order[q].user
    BY <1>1, PurchaseFacts
  <1>3. \A p \in Order \ {q} : order'[p] = order[p]
    BY OthersStay DEF OrderStep
  <1>4. \A u \in User :
           /\ ShapeOK(q)' /\ ReadCurrent(q, u)' /\ Loose(q, u)' = 0
           /\ ~Debited(q, u)' /\ ~Given(q, u)'
    BY <1>1, EndedOK
  <1>5. \A u \in User \ {v} : Apart(q, u) /\ owed'[u] = owed[u]
    <2>1. \A u \in User \ {v} : owed'[u] = owed[u]
      BY <1>2 DEF DeleteRow, BooksOK
    <2>2. QED
      BY <1>1, <1>2, <2>1, PurchaseFacts, Strangers
  <1>6. ASSUME v \notin disturbed' PROVE Balanced(q, v, coins[v])
    <2>1. owed'[v] = owed[v] - Pack
      BY <1>2, <1>6 DEF DeleteRow, BooksOK
    <2>2. Loose(q, v) = Pack
      BY <1>1, <1>2, PurchaseFacts DEF Awaits, Loose
    <2>3. coins[v] \in Int /\ owed[v] \in Int /\ Pack \in Int
      BY <1>1, PurchaseFacts DEF CoinsOK, BooksOK
    <2>4. ReadCurrent(q, v)' /\ Loose(q, v)' = 0
      BY <1>4
    <2>5. QED
      BY <2>1, <2>2, <2>3, <2>4 DEF Balanced
  <1>7. ShapeOK(q)'
    BY <1>2, <1>4
  <1>8. QED
    BY <1>1, <1>3, <1>4, <1>5, <1>6, <1>7, RecordBooks

\* A tip writes coins and record at once; who had read them is noticed.
LEMMA TipBooks ==
    ASSUME CoinsOK, BooksOK, CoinsInv, NEW k \in TipKey, TipMoves(k)
    PROVE  CoinsInv'
  <1>1. /\ Tipper[k] \in User /\ Host[k] \in User /\ Tipper[k] # Host[k]
        /\ TipCoins \in Int
    BY WalletAssumption
  <1>2. /\ coins' = [coins EXCEPT ![Tipper[k]] = @ - TipCoins,
                                  ![Host[k]] = @ + TipCoins]
        /\ owed' = [owed EXCEPT ![Tipper[k]] = @ - TipCoins,
                                ![Host[k]] = @ + TipCoins]
        /\ disturbed' = disturbed \cup Touched(k) /\ order' = order
    BY DEF TipMoves
  <1>3. ASSUME NEW u \in User \ disturbed', UserOK(u) PROVE UserOK(u)'
    <2>1. /\ coins'[u] - owed'[u] = coins[u] - owed[u]
          /\ coins'[u] \in Int /\ owed'[u] \in Int
      <3>1. CASE u \notin {Tipper[k], Host[k]}
        BY <1>2, <3>1 DEF CoinsOK, BooksOK
      <3>2. CASE u = Tipper[k]
        BY <1>1, <1>2, <3>2 DEF CoinsOK, BooksOK
      <3>3. CASE u = Host[k]
        BY <1>1, <1>2, <3>3 DEF CoinsOK, BooksOK
      <3>4. QED
        BY <3>1, <3>2, <3>3
    <2>2. coins'[u] = coins[u] \/ \A p \in Order : ~Holds(p, u)
      BY <1>1, <1>2 DEF Touched, CoinsOK
    <2>3. \A p \in Order : ReadCurrent(p, u)'
      <3>1. CASE coins'[u] = coins[u]
        BY <1>2, <1>3, <3>1 DEF UserOK, ReadCurrent, Moved, Debited, Given
      <3>2. CASE \A p \in Order : ~Holds(p, u)
        BY <1>2, <3>2 DEF ReadCurrent, Moved, Debited, Given, Holds
      <3>3. QED
        BY <2>2, <3>1, <3>2
    <2>4. InAir(u)' = InAir(u) /\ Awaiting(u)' = Awaiting(u)
      BY <1>2 DEF InAir, Awaiting, Awaits, Debited, Given
    <2>5. Pack * Cardinality(Awaiting(u)') = Pack * Cardinality(Awaiting(u))
      BY <2>4, Zenon
    <2>6. /\ InAir(u) \in Int /\ Pack * Cardinality(Awaiting(u)) \in Int
          /\ coins[u] \in Int /\ owed[u] \in Int
      BY AmountsType, AwaitingType DEF InAir, CoinsOK, BooksOK
    <2>7. coins[u] + InAir(u) + Pack * Cardinality(Awaiting(u)) = owed[u]
      BY <1>3 DEF UserOK
    <2>8. ASSUME NEW a \in Int, NEW c \in Int, coins[u] + a + c = owed[u]
          PROVE  coins'[u] + a + c = owed'[u]
      BY <2>1, <2>6, <2>8
    <2>9. coins'[u] + InAir(u)' + Pack * Cardinality(Awaiting(u)') = owed'[u]
      BY <2>4, <2>5, <2>6, <2>7, <2>8
    <2>10. \A p, q \in Order : Moved(p, u)' /\ Moved(q, u)' => p = q
      BY <1>2, <1>3 DEF UserOK, Moved, Debited, Given
    <2>11. QED
      BY <2>3, <2>9, <2>10 DEF UserOK
  <1>4. QED
    BY <1>2, <1>3 DEF CoinsInv, ShapeOK

LEMMA InitCoins == WalletInit => CoinsInv
  <1> SUFFICES ASSUME WalletInit PROVE CoinsInv
    OBVIOUS
  <1>1. \A q \in Order : ShapeOK(q) /\ order[q] = NoOrder
    BY DEF WalletInit, ShapeOK, NoOrder
  <1>2. \A q \in Order, u \in User :
           /\ ~Debited(q, u) /\ ~Given(q, u) /\ ~Awaits(q, u) /\ ReadCurrent(q, u)
    BY <1>1, WalletAssumption
    DEF NoOrder, Debited, Given, Awaits, ReadCurrent, Moved
  <1>3. ASSUME NEW u \in User PROVE UserOK(u)
    <2>1. Awaiting(u) = {} /\ InAir(u) = 0
      BY <1>2 DEF Awaiting, InAir
    <2>2. Pack * Cardinality(Awaiting(u)) = 0
      BY <2>1, FS_EmptySet, AmountsType
    <2>3. coins[u] = owed[u] /\ coins[u] \in Int
      BY AmountsType DEF WalletInit
    <2>4. QED
      BY <1>2, <2>1, <2>2, <2>3 DEF UserOK, Moved
  <1>4. QED
    BY <1>1, <1>3 DEF CoinsInv

LEMMA NextCoins == BookInv /\ CoinsInv /\ [WalletNext]_walletVars => CoinsInv'
  <1> SUFFICES ASSUME OrdersOK, CoinsOK, BooksOK, CoinsInv,
                      [WalletNext]_walletVars
               PROVE  CoinsInv'
    BY DEF BookInv, MoneyInv
  <1>1. ASSUME NEW q \in Order, OrderStep(q) PROVE CoinsInv'
    BY <1>1, ReadBooks, ChangeBooks, DebitBooks, CreditBooks, RecordGiftBooks,
       UndoBooks, UndoOtherBooks, CompleteBooks, ReadToCreditBooks,
       CreditPackBooks, DeleteRowBooks, StopBooks
    DEF OrderStep
  <1>2. ASSUME NEW q \in Order,
               \/ \E u \in User, op \in {"spend", "earn"} : BeginChange(q, op, u)
               \/ \E s \in User : \E r \in User \ {s} : BeginGift(q, s, r)
               \/ \E x \in Receipt : BeginPurchase(q, x)
        PROVE  CoinsInv'
    BY <1>2, BeginBooks
  <1>3. ASSUME NEW k \in TipKey, TipMoves(k) PROVE CoinsInv'
    BY <1>3, TipBooks
  <1>4. ASSUME UNCHANGED <<coins, owed, order, disturbed>> PROVE CoinsInv'
    <2>1. ASSUME NEW u \in User \ disturbed', UserOK(u) PROVE UserOK(u)'
      <3>1. Awaiting(u)' = Awaiting(u) /\ InAir(u)' = InAir(u)
        BY <1>4 DEF Awaiting, Awaits, InAir, Debited, Given
      <3>2. Pack * Cardinality(Awaiting(u)') = Pack * Cardinality(Awaiting(u))
        BY <3>1, Zenon
      <3>3. \A p \in Order : /\ ReadCurrent(p, u)' <=> ReadCurrent(p, u)
                             /\ Moved(p, u)' <=> Moved(p, u)
        BY <1>4 DEF ReadCurrent, Moved, Debited, Given
      <3>4. coins'[u] + InAir(u)' + Pack * Cardinality(Awaiting(u)') = owed'[u]
        BY <1>4, <2>1, <3>1, <3>2 DEF UserOK
      <3>5. QED
        BY <2>1, <3>3, <3>4 DEF UserOK
    <2>2. QED
      BY <1>4, <2>1 DEF CoinsInv, ShapeOK
  <1>5. QED
    BY <1>1, <1>2, <1>3, <1>4
    DEF WalletNext, Checkout, TipRefused, TipReplayed, EndRoom, walletVars

\* Once no request deals with a user nothing is in the air.
LEMMA RestMatches == MoneyInv /\ BooksOK /\ CoinsInv => CoinsMatchRecords
  <1> SUFFICES ASSUME MoneyInv, BooksOK, CoinsInv, NEW u \in User \ disturbed,
                      \A q \in Order : ~Involved(q, u)
               PROVE  coins[u] = owed[u]
    BY DEF CoinsMatchRecords
  <1>1. \A q \in Order : ~Debited(q, u) /\ ~Given(q, u) /\ ~Awaits(q, u)
    BY DEF Involved, Debited, Given, Awaits
  <1>2. Awaiting(u) = {} /\ InAir(u) = 0
    BY <1>1 DEF Awaiting, InAir
  <1>3. Pack * Cardinality(Awaiting(u)) = 0
    BY <1>2, FS_EmptySet, AmountsType
  <1>4. UserOK(u) /\ coins[u] \in Int
    BY DEF CoinsInv, MoneyInv, CoinsOK
  <1>5. QED
    BY <1>2, <1>3, <1>4 DEF UserOK

\* A user's coins are what the records come to once no request deals with the
\* user: a failed gift or purchase is rolled back to that, and what is lost is
\* lost only where requests overlap or a step fails halfway.
THEOREM WalletCoins == WalletSpec => []CoinsMatchRecords
  <1>1. BookInv /\ CoinsInv => CoinsMatchRecords
    BY RestMatches DEF BookInv
  <1>2. QED
    BY <1>1, InitCoins, NextCoins, BookInvHolds, PTL DEF WalletSpec

-----------------------------------------------------------------------------
(***************************************************************************)
(* What disturbed and unsure excuse: overlaps and failures, nothing else.  *)
(* While no call fails, requests take turns and tips come between them,    *)
(* nobody is ever disturbed and no receipt unsure.                         *)
(***************************************************************************)
OneAtATime ==
    /\ mishaps = 0
    /\ \A p, q \in Order : order[p].op = "none" \/ order[q].op = "none" \/ p = q

TipsApart ==
    \A k \in TipKey : TipMoves(k) => \A q \in Order : order[q].op = "none"

\* No balance is made up, and who completes a receipt has just looked it up.
Plain ==
    \A q \in Order :
        /\ order[q].made = {}
        /\ At(q, "buy", "complete") => row[order[q].receipt] # "completed"

Unexcused == disturbed = {} /\ unsure = {} /\ Plain

LEMMA NoMishap == OneAtATime /\ OneAtATime' => ~Mishap
  BY DEF OneAtATime, Mishap

LEMMA NobodyHolds ==
    ASSUME CoinsInv, OneAtATime, NEW q \in Order, order[q].op # "none"
    PROVE  \A u : ~Overlapped(q, u)
  <1>1. \A p \in Order \ {q} : order[p].at = "idle"
    BY DEF CoinsInv, ShapeOK, OneAtATime
  <1>2. QED
    BY <1>1 DEF Overlapped, Holds

LEMMA PlainMoves ==
    ASSUME Plain, NEW q \in Order, order'[q].made = {},
           order'[q].op = "buy" => order'[q].at # "complete",
           \A p \in Order \ {q} : order'[p] = order[p] /\ order[p].op = "none"
    PROVE  Plain'
  BY DEF Plain, At

LEMMA EndsPlain ==
    ASSUME OrdersOK, NEW q \in Order, Ends(q)
    PROVE  order'[q].made = {} /\ order'[q].op = "none"
  BY DEF Ends, OrdersOK, NoOrder

LEMMA GiftTurns ==
    ASSUME BookInv, CoinsInv, Unexcused, OneAtATime, ~Mishap, NEW q \in Order,
           \/ ReadToChange(q) \/ Change(q) \/ ReadSender(q) \/ ReadReceiver(q)
           \/ Debit(q) \/ Credit(q) \/ Record(q) \/ Undo(q) \/ UndoOther(q)
    PROVE  Unexcused'
  <1>1. order[q].op \in {"spend", "earn", "gift"}
    BY DEF At, ReadToChange, Change, ReadSender, ReadReceiver, Debit, Credit,
           Record, Undo, UndoOther
  <1>2. OrdersOK /\ \A p \in Order \ {q} : order[p].op = "none"
    BY <1>1 DEF BookInv, MoneyInv, OneAtATime
  <1>3. (\A u, n : PutCoins(q, u, n) => disturbed' = disturbed) /\ order[q].made = {}
    BY <1>1, NobodyHolds DEF PutCoins, Unexcused, Plain
  <1>4. disturbed' = disturbed /\ unsure' = unsure
    BY <1>3
    DEF ReadToChange, Change, ReadSender, ReadReceiver, Debit, Credit, Record,
        Undo, UndoOther, purchases
  <1>5. order'[q].made = {} /\ order'[q].op # "buy"
    <2>1. /\ order[q] \in OrderType /\ order \in [Order -> OrderType]
      BY <1>2 DEF OrdersOK
    <2>2. CASE Ends(q)
      BY <1>2, <2>2, EndsPlain
    <2>3. CASE ~Ends(q)
      BY <1>1, <1>3, <2>1, <2>3
      DEF OrderType, Goes, ReadToChange, Change, ReadSender, ReadReceiver,
          Debit, Credit, Record, Undo, UndoOther
    <2>4. QED
      BY <2>2, <2>3
  <1>6. Plain'
    BY <1>2, <1>5, OthersStay, PlainMoves DEF Unexcused, OrderStep
  <1>7. QED
    BY <1>4, <1>6 DEF Unexcused

LEMMA PurchaseTurns ==
    ASSUME BookInv, CoinsInv, Unexcused, OneAtATime, ~Mishap, NEW q \in Order,
           \/ LookUp(q) \/ Complete(q) \/ ReadToCredit(q) \/ CreditPack(q)
           \/ DeleteRow(q)
    PROVE  Unexcused'
  <1>1. order[q].op = "buy"
    BY DEF At, LookUp, Complete, ReadToCredit, CreditPack, DeleteRow
  <1>2. OrdersOK /\ \A p \in Order \ {q} : order[p].op = "none"
    BY <1>1 DEF BookInv, MoneyInv, OneAtATime
  <1>3. (\A u, n : PutCoins(q, u, n) => disturbed' = disturbed) /\ order[q].made = {}
    BY <1>1, NobodyHolds DEF PutCoins, Unexcused, Plain
  <1>4. CASE LookUp(q)
    <2>1. /\ disturbed' = disturbed /\ unsure' = unsure /\ row' = row
          /\ Ends(q) \/ (Goes(q, "complete") /\ row[order[q].receipt] # "completed")
      BY <1>4 DEF LookUp, purchases
    <2>2. CASE Ends(q)
      BY <1>2, <2>1, <2>2, EndsPlain, OthersStay, PlainMoves DEF OrderStep, Unexcused
    <2>3. CASE Goes(q, "complete") /\ row[order[q].receipt] # "completed"
      BY <1>2, <2>1, <2>3 DEF Goes, OrdersOK, OrderType, At, Plain, Unexcused
    <2>4. QED
      BY <2>1, <2>2, <2>3
  <1>5. CASE Complete(q)
    <2>1. row[order[q].receipt] # "completed"
      BY <1>5 DEF Complete, Unexcused, Plain
    <2>2. /\ disturbed' = disturbed /\ unsure' = unsure
          /\ Ends(q) \/ Goes(q, "read")
      BY <1>5, <2>1 DEF Complete
    <2>3. order'[q].made = {} /\ order'[q].at # "complete"
      BY <1>2, <1>3, <2>2 DEF Ends, Goes, NoOrder, OrdersOK, OrderType
    <2>4. QED
      BY <1>2, <1>5, <2>2, <2>3, OthersStay, PlainMoves DEF OrderStep, Unexcused
  <1>6. CASE ReadToCredit(q) \/ CreditPack(q) \/ DeleteRow(q)
    <2>1. disturbed' = disturbed /\ unsure' = unsure
      BY <1>3, <1>6 DEF ReadToCredit, CreditPack, DeleteRow, purchases
    <2>2. \/ Ends(q)
          \/ order' = [order EXCEPT ![q].at = "write",
                                    ![q].seen = coins[order[q].user]]
      BY <1>6 DEF ReadToCredit, CreditPack, DeleteRow
    <2>3. order'[q].made = {} /\ order'[q].at # "complete"
      BY <1>2, <1>3, <2>2 DEF Ends, NoOrder, OrdersOK, OrderType
    <2>4. QED
      BY <1>2, <1>6, <2>1, <2>3, OthersStay, PlainMoves DEF OrderStep, Unexcused
  <1>7. QED
    BY <1>4, <1>5, <1>6

LEMMA NextTurns ==
    ASSUME BookInv, CoinsInv, Unexcused, OneAtATime, OneAtATime',
           [WalletNext]_walletVars, [TipsApart]_walletVars
    PROVE  Unexcused'
  <1>1. ~Mishap /\ OrdersOK
    BY NoMishap DEF BookInv, MoneyInv
  <1>2. ASSUME NEW q \in Order, OrderStep(q) PROVE Unexcused'
    BY <1>1, <1>2, GiftTurns, PurchaseTurns DEF OrderStep, StopOrder
  <1>3. ASSUME NEW q \in Order, NEW new, Open(q, new), new.made = {},
               new.at \in {"read", "look"}
        PROVE  Unexcused'
    BY <1>1, <1>3 DEF Open, purchases, Unexcused, Plain, At, OrdersOK
  <1>4. ASSUME NEW q \in Order,
               \/ \E u \in User, op \in {"spend", "earn"} : BeginChange(q, op, u)
               \/ \E s \in User : \E r \in User \ {s} : BeginGift(q, s, r)
               \/ \E x \in Receipt : BeginPurchase(q, x)
        PROVE  Unexcused'
    BY <1>3, <1>4 DEF BeginChange, BeginGift, BeginPurchase, NoOrder
  <1>5. ASSUME NEW k \in TipKey, TipMoves(k) PROVE Unexcused'
    <2>1. tip'[k].moved = tip[k].moved + 1 /\ tip[k].moved \in {0, 1}
      BY <1>5 DEF TipMoves, TipAnswered, BookInv, TipInv
    <2>2. \A q \in Order : order[q].op = "none"
      BY <1>5, <2>1 DEF TipsApart, walletVars, tips
    <2>3. Touched(k) = {}
      BY <2>2 DEF Touched, Holds, CoinsInv, ShapeOK
    <2>4. QED
      BY <1>5, <2>3 DEF TipMoves, purchases, Unexcused, Plain, At
  <1>6. ASSUME NEW x \in Receipt, Checkout(x) PROVE Unexcused'
    BY <1>6 DEF Checkout, Unexcused, Plain, At, BookInv, BooksOK
  <1>7. CASE UNCHANGED <<order, purchases, disturbed>>
    BY <1>7 DEF purchases, Unexcused, Plain, At
  <1>8. QED
    BY <1>2, <1>4, <1>5, <1>6, <1>7
    DEF WalletNext, TipRefused, TipReplayed, EndRoom, walletVars, purchases

\* While no call fails, requests take turns and tips come between them, whoever
\* makes them: every user's coins are what the records come to, and every
\* receipt is credited at most once.
THEOREM WalletTurns ==
    WalletSpec /\ []OneAtATime /\ [][TipsApart]_walletVars =>
        [](disturbed = {} /\ CoinsMatchRecords /\ \A x \in Receipt : credited[x] <= 1)
  <1>1. WalletInit => Unexcused
    BY DEF WalletInit, Unexcused, Plain, NoOrder, At
  <1>2. Unexcused /\ ReceiptInv => \A x \in Receipt : credited[x] <= 1
    BY DEF Unexcused, ReceiptInv, ReceiptOK
  <1>3. QED
    BY <1>1, <1>2, NextTurns, InitCoins, NextCoins, InitReceipts, NextReceipts,
       BookInvHolds, WalletCoins, PTL DEF WalletSpec, Unexcused

-----------------------------------------------------------------------------
(***************************************************************************)
(* Purchases in Google Play.  A handler that is about to write has the     *)
(* account of the token's row, which never changes again, and if no end    *)
(* has passed it by, the purchase still runs.                              *)
(***************************************************************************)
HandlerType == [kind : {"none", "active", "ended", "restore"},
                token : Token \cup {unclaimed}, account : Account \cup {unclaimed},
                at : {"idle", "check", "resolve", "claim", "readBack", "write"},
                missed : BOOLEAN]

PlayTypes ==
    /\ purchase \in [Token -> {"none", "active", "ended"}]
    /\ holder \in [Token -> Account \cup {unclaimed}]
    /\ vip \subseteq Account
    /\ handler \in [Handler -> HandlerType]
    /\ granted \in [Token -> SUBSET Account]

HandlerOK(r) ==
    /\ r.kind # "none" => r.token \in Token
    /\ r.kind \in {"active", "restore"} /\ r.at \in {"claim", "readBack"} =>
          r.account \in Account
    /\ r.kind = "restore" => r.account \in Account
    /\ r.at = "write" => r.account \in Account /\ holder[r.token] = r.account
    /\ r.kind \in {"active", "restore"} /\ r.at # "check" /\ ~r.missed =>
          purchase[r.token] = "active"

PlayInv ==
    /\ PlayTypes
    /\ \A h \in Handler : HandlerOK(handler[h])
    /\ OneAccountPerPurchase
    /\ VipIsPaid

\* A step that changes one handler at most, and no row or purchase.
LEMMA HandlerMoves ==
    ASSUME PlayTypes, NEW h \in Handler, NEW r \in HandlerType,
           handler' = [handler EXCEPT ![h] = r],
           \A g \in Handler : HandlerOK(handler[g]),
           UNCHANGED <<purchase, holder>>, HandlerOK(r)
    PROVE  /\ handler' \in [Handler -> HandlerType]
           /\ \A g \in Handler : HandlerOK(handler[g])'
  BY DEF PlayTypes, HandlerOK

LEMMA NoHandlerOK == NoHandler \in HandlerType /\ HandlerOK(NoHandler)
  BY DEF NoHandler, HandlerType, HandlerOK

\* Where a handler stands is all that changes.
LEMMA OnlyMoves ==
    ASSUME PlayInv, NEW h \in Handler, NEW r \in HandlerType, HandlerOK(r),
           handler' = [handler EXCEPT ![h] = r],
           UNCHANGED <<purchase, holder, vip, due, granted, late>>
    PROVE  PlayInv'
  <1>1. /\ handler' \in [Handler -> HandlerType]
        /\ \A g \in Handler : HandlerOK(handler[g])'
    BY HandlerMoves DEF PlayInv
  <1>2. QED
    BY <1>1 DEF PlayInv, PlayTypes, OneAccountPerPurchase, VipIsPaid

LEMMA GooglesSteps ==
    ASSUME PlayInv, NEW t \in Token, PurchaseRuns(t) \/ PurchaseEnds(t)
    PROVE  PlayInv'
  <1>1. CASE PurchaseRuns(t)
    <2>1. PlayTypes' /\ OneAccountPerPurchase' /\ VipIsPaid'
      BY <1>1 DEF PurchaseRuns, PlayInv, PlayTypes, OneAccountPerPurchase, VipIsPaid
    <2>2. \A h \in Handler : HandlerOK(handler[h])'
      BY <1>1 DEF PurchaseRuns, PlayInv, PlayTypes, HandlerOK, HandlerType
    <2>3. QED
      BY <2>1, <2>2 DEF PlayInv
  <1>2. CASE PurchaseEnds(t)
    <2>1. OneAccountPerPurchase' /\ VipIsPaid'
      BY <1>2 DEF PurchaseEnds, PlayInv, PlayTypes, OneAccountPerPurchase, VipIsPaid
    <2>2. ASSUME NEW h \in Handler
          PROVE  handler'[h] \in HandlerType /\ HandlerOK(handler[h])'
      <3> DEFINE r == handler[h]
                 hit == /\ r.token = t
                        /\ r.kind # "ended" /\ r.at # "check"
      <3>1. r \in HandlerType /\ HandlerOK(r)
        BY DEF PlayInv, PlayTypes
      <3>2. handler'[h] = IF hit THEN [r EXCEPT !.missed = TRUE] ELSE r
        BY <1>2 DEF PurchaseEnds
      <3>3. /\ holder' = holder
            /\ \A s \in Token \ {t} : purchase'[s] = purchase[s]
        BY <1>2 DEF PurchaseEnds, PlayInv, PlayTypes
      <3>4. CASE hit
        <4>1. handler'[h] = [r EXCEPT !.missed = TRUE]
          BY <3>2, <3>4
        <4>2. QED
          BY <3>1, <3>3, <4>1 DEF HandlerType, HandlerOK
      <3>5. CASE ~hit
        <4>1. handler'[h] = r
          BY <3>2, <3>5
        <4>2. QED
          BY <3>1, <3>3, <3>5, <4>1 DEF HandlerType, HandlerOK
      <3>6. QED
        BY <3>4, <3>5
    <2>3. PlayTypes'
      BY <1>2, <2>2 DEF PurchaseEnds, PlayInv, PlayTypes
    <2>4. QED
      BY <2>1, <2>2, <2>3 DEF PlayInv
  <1>3. QED
    BY <1>1, <1>2

LEMMA OpensKeep ==
    ASSUME PlayInv, NEW h \in Handler, NEW t \in Token,
           \/ NotifyActive(h, t) \/ NotifyEnded(h, t)
           \/ \E a \in Account : Restore(h, t, a)
    PROVE  PlayInv'
  <1>1. PICK kind \in {"active", "ended", "restore"},
             a \in Account \cup {unclaimed}, at \in {"check", "resolve"} :
          /\ Opens(h, kind, t, a, at)
          /\ kind = "restore" => a \in Account
          /\ kind # "ended" => at = "check"
    BY DEF NotifyActive, NotifyEnded, Restore
  <1> DEFINE r == [kind |-> kind, token |-> t, account |-> a, at |-> at,
                   missed |-> FALSE]
  <1>2. r \in HandlerType /\ HandlerOK(r)
    BY <1>1 DEF HandlerType, HandlerOK
  <1>3. /\ handler' = [handler EXCEPT ![h] = r]
        /\ UNCHANGED <<purchase, holder, vip, due, granted, late>>
    BY <1>1 DEF Opens
  <1>4. QED
    <2> HIDE DEF r
    <2> QED
      BY <1>2, <1>3, OnlyMoves

\* The steps of a handler that write nothing.
LEMMA AsksKeep ==
    ASSUME PlayInv, NEW h \in Handler,
           Check(h) \/ Resolve(h) \/ ReadBack(h) \/ GiveUp(h)
    PROVE  PlayInv'
  <1> DEFINE r == handler[h]
             t == r.token
  <1>1. /\ r \in HandlerType /\ HandlerOK(r) /\ PlayTypes
        /\ UNCHANGED <<purchase, holder, vip, due, granted, late>>
    BY DEF PlayInv, PlayTypes, Check, Resolve, ReadBack, GiveUp
  <1>2. CASE Check(h)
    <2> DEFINE n == [r EXCEPT !.at = IF r.kind = "active" THEN "resolve" ELSE "claim"]
    <2>1. handler' = [handler EXCEPT ![h] = n]
      BY <1>2 DEF Check, Moves
    <2>2. n \in HandlerType /\ HandlerOK(n)
      BY <1>1, <1>2 DEF Check, Serves, HandlerType, HandlerOK
    <2>3. QED
      <3> HIDE DEF n
      <3> QED
        BY <1>1, <2>1, <2>2, OnlyMoves
  <1>3. CASE Resolve(h)
    <2>1. t \in Token
      BY <1>1, <1>3 DEF Resolve, Serves, HandlerOK
    <2>2. PICK a \in Account, at \in {"claim", "write"} :
             /\ handler' = [handler EXCEPT ![h].account = a, ![h].at = at]
             /\ at = "write" => holder[t] = a
             /\ at = "claim" => r.kind = "active"
      BY <1>1, <1>3, <2>1, PlayAssumption DEF Resolve, PlayTypes
    <2> DEFINE n == [r EXCEPT !.account = a, !.at = at]
    <2>3. n \in HandlerType /\ HandlerOK(n)
      BY <1>1, <1>3, <2>1, <2>2 DEF Resolve, Serves, HandlerType, HandlerOK
    <2>4. handler' = [handler EXCEPT ![h] = n]
      BY <2>2
    <2>5. QED
      <3> HIDE DEF n
      <3> QED
        BY <1>1, <2>3, <2>4, OnlyMoves
  <1>4. CASE ReadBack(h)
    <2> DEFINE n == [r EXCEPT !.at = "write"]
    <2>1. handler' = [handler EXCEPT ![h] = n]
      BY <1>4 DEF ReadBack, Moves
    <2>2. n \in HandlerType /\ HandlerOK(n)
      BY <1>1, <1>4 DEF ReadBack, Serves, HandlerType, HandlerOK
    <2>3. QED
      <3> HIDE DEF n
      <3> QED
        BY <1>1, <2>1, <2>2, OnlyMoves
  <1>5. CASE GiveUp(h)
    BY <1>1, <1>5, NoHandlerOK, OnlyMoves DEF GiveUp, Quits
  <1>6. QED
    BY <1>2, <1>3, <1>4, <1>5

LEMMA ClaimKeeps ==
    ASSUME PlayInv, NEW h \in Handler, ClaimToken(h)
    PROVE  PlayInv'
  <1>1. PICK t \in Token : t = handler[h].token
    BY DEF ClaimToken, Serves, PlayInv, HandlerOK
  <1>2. PICK a \in Account : a = handler[h].account
    BY DEF ClaimToken, Serves, PlayInv, HandlerOK
  <1>3. /\ handler[h] \in HandlerType /\ HandlerOK(handler[h])
        /\ handler[h].kind \in {"active", "restore"} /\ handler[h].at = "claim"
    BY DEF ClaimToken, Serves, PlayInv, PlayTypes
  <1>4. /\ holder' = IF holder[t] = unclaimed THEN [holder EXCEPT ![t] = a] ELSE holder
        /\ UNCHANGED <<purchase, vip, due, granted, late>>
    BY <1>1, <1>2 DEF ClaimToken
  <1>5. /\ holder' \in [Token -> Account \cup {unclaimed}]
        /\ \A s \in Token : holder[s] # unclaimed => holder'[s] = holder[s]
    BY <1>4 DEF PlayInv, PlayTypes
  <1>6. PICK n \in {NoHandler, [handler[h] EXCEPT !.at = "readBack"]} :
          handler' = [handler EXCEPT ![h] = n]
    BY DEF ClaimToken, Moves, Quits
  <1>7. n \in HandlerType
    BY <1>3, <1>6, NoHandlerOK DEF HandlerType
  <1>8. HandlerOK(n)'
    <2>1. CASE n = NoHandler
      BY <2>1 DEF NoHandler, HandlerOK
    <2>2. CASE n = [handler[h] EXCEPT !.at = "readBack"]
      BY <1>2, <1>3, <1>4, <2>2 DEF HandlerType, HandlerOK
    <2>3. QED
      BY <1>6, <2>1, <2>2
  <1>9. ASSUME NEW g \in Handler, g # h PROVE HandlerOK(handler[g])'
    <2>1. handler'[g] = handler[g] /\ HandlerOK(handler[g])
      BY <1>6, <1>9 DEF PlayInv, PlayTypes
    <2>2. handler[g].at = "write" => handler[g].kind # "none" \/ TRUE
      OBVIOUS
    <2>3. QED
      BY <1>4, <1>5, <2>1, PlayAssumption DEF HandlerOK, PlayInv, PlayTypes
  <1>10. \A g \in Handler : HandlerOK(handler[g])'
    <2>1. handler'[h] = n
      BY <1>6 DEF PlayInv, PlayTypes
    <2>2. QED
      BY <1>8, <1>9, <2>1 DEF HandlerOK
  <1>11. PlayTypes'
    BY <1>4, <1>5, <1>6, <1>7 DEF PlayInv, PlayTypes
  <1>12. OneAccountPerPurchase'
    BY <1>4, <1>5, PlayAssumption DEF PlayInv, PlayTypes, OneAccountPerPurchase
  <1>13. VipIsPaid'
    BY <1>4, <1>5, PlayAssumption DEF PlayInv, PlayTypes, VipIsPaid
  <1>14. QED
    BY <1>10, <1>11, <1>12, <1>13 DEF PlayInv

LEMMA WriteKeeps ==
    ASSUME PlayInv, NEW h \in Handler, Grant(h) \/ Withdraw(h)
    PROVE  PlayInv'
  <1>1. /\ handler[h].token \in Token
        /\ handler[h].account \in Account
        /\ holder[handler[h].token] = handler[h].account
        /\ handler[h].kind \in {"active", "restore"} /\ ~handler[h].missed =>
              purchase[handler[h].token] = "active"
    BY DEF Grant, Withdraw, Serves, PlayInv, HandlerOK
  <1>2. /\ handler' = [handler EXCEPT ![h] = NoHandler]
        /\ UNCHANGED <<purchase, holder>>
    BY DEF Grant, Withdraw, Quits
  <1>3. /\ handler' \in [Handler -> HandlerType]
        /\ \A g \in Handler : HandlerOK(handler[g])'
    BY <1>2, NoHandlerOK, HandlerMoves DEF PlayInv
  <1>4. CASE Grant(h)
    <2>1. PlayTypes'
      BY <1>1, <1>2, <1>3, <1>4 DEF Grant, PlayInv, PlayTypes
    <2>2. OneAccountPerPurchase'
      BY <1>1, <1>2, <1>4 DEF Grant, PlayInv, PlayTypes, OneAccountPerPurchase
    <2>3. VipIsPaid'
      BY <1>1, <1>2, <1>4 DEF Grant, Serves, PlayInv, VipIsPaid
    <2>4. QED
      BY <1>3, <2>1, <2>2, <2>3 DEF PlayInv
  <1>5. CASE Withdraw(h)
    <2>1. PlayTypes'
      BY <1>2, <1>3, <1>5 DEF Withdraw, PlayInv, PlayTypes
    <2>2. OneAccountPerPurchase'
      BY <1>2, <1>5 DEF Withdraw, PlayInv, OneAccountPerPurchase
    <2>3. VipIsPaid'
      BY <1>1, <1>2, <1>5 DEF Withdraw, PlayInv, VipIsPaid
    <2>4. QED
      BY <1>3, <2>1, <2>2, <2>3 DEF PlayInv
  <1>6. QED
    BY <1>4, <1>5

LEMMA NextPlayInv == PlayInv /\ [PlayNext]_playVars => PlayInv'
  <1>1. ASSUME PlayInv, UNCHANGED playVars PROVE PlayInv'
    BY <1>1 DEF playVars, PlayInv, PlayTypes, HandlerOK, OneAccountPerPurchase,
                VipIsPaid
  <1>2. QED
    BY <1>1, GooglesSteps, OpensKeep, AsksKeep, ClaimKeeps, WriteKeeps
    DEF PlayNext, HandlerStep

LEMMA PlayInvHolds == PlaySpec => []PlayInv
  <1>1. PlayInit => PlayInv
    BY NoHandlerOK DEF PlayInit, PlayInv, PlayTypes, OneAccountPerPurchase, VipIsPaid
  <1>2. QED
    BY <1>1, NextPlayInv, PTL DEF PlaySpec

\* A purchase makes one account VIP, however claims of it overlap.
THEOREM PlayOneAccount == PlaySpec => []OneAccountPerPurchase
  <1>1. PlayInv => OneAccountPerPurchase
    BY DEF PlayInv
  <1>2. QED
    BY <1>1, PlayInvHolds, PTL

\* Notifications may come again, late and in any order: a purchase that ended
\* makes nobody VIP but through a handler it overtook.
THEOREM PlayVipIsPaid == PlaySpec => []VipIsPaid
  <1>1. PlayInv => VipIsPaid
    BY DEF PlayInv
  <1>2. QED
    BY <1>1, PlayInvHolds, PTL

=============================================================================
