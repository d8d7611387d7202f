------------------------------ MODULE PlayPurchases ------------------------------
(***************************************************************************)
(* VIP status from Google Play subscriptions: the developer notifications  *)
(* that Pub/Sub delivers, again and in any order (GooglePlayNotification-  *)
(* Service), and learners restoring a purchase (restorePurchases).  A      *)
(* handler asks Google for the purchase, finds or claims its account in    *)
(* google_play_purchases and writes users.is_vip, one call at a time.      *)
(* A notification whose handling fails is answered with 200 and is gone.   *)
(***************************************************************************)
EXTENDS FiniteSets

CONSTANTS
    Account,
    Token,      \* purchase tokens
    Handler,    \* notifications and restores under way at once
    Payer,      \* the account a purchase names, or unclaimed
    unclaimed

ASSUME PlayAssumption ==
    unclaimed \notin Account /\ Payer \in [Token -> Account \cup {unclaimed}]

VARIABLES
    purchase,   \* at Google: none, active or ended
    holder,     \* google_play_purchases.user_id of a token
    vip,        \* accounts whose users.is_vip is set
    handler,    \* what a handler serves, for whom, where it stands
    due,        \* history: ended purchases whose end nobody has handled since
    granted,    \* history: the accounts a token has made VIP
    late        \* history: accounts made VIP after an end the handler missed

playVars == <<purchase, holder, vip, handler, due, granted, late>>

NoHandler == [kind |-> "none", token |-> unclaimed, account |-> unclaimed,
              at |-> "idle", missed |-> FALSE]

PlayInit ==
    /\ purchase = [t \in Token |-> "none"]
    /\ holder = [t \in Token |-> unclaimed]
    /\ vip = {}
    /\ handler = [h \in Handler |-> NoHandler]
    /\ due = {}
    /\ granted = [t \in Token |-> {}]
    /\ late = {}

-----------------------------------------------------------------------------
(***************************************************************************)
(* Google                                                                  *)
(***************************************************************************)

\* Bought, renewed or recovered.
PurchaseRuns(t) ==
    /\ purchase[t] # "active"
    /\ purchase' = [purchase EXCEPT ![t] = "active"]
    /\ due' = due \ {t}
    /\ UNCHANGED <<holder, vip, handler, granted, late>>

\* Handlers that have seen it active miss it.
PurchaseEnds(t) ==
    /\ purchase[t] = "active"
    /\ purchase' = [purchase EXCEPT ![t] = "ended"]
    /\ due' = due \cup {t}
    /\ handler' = [h \in Handler |->
          IF /\ handler[h].token = t
             /\ handler[h].kind # "ended" /\ handler[h].at # "check"
          THEN [handler[h] EXCEPT !.missed = TRUE] ELSE handler[h]]
    /\ UNCHANGED <<holder, vip, granted, late>>

-----------------------------------------------------------------------------
Serves(h, kinds, at) == handler[h].kind \in kinds /\ handler[h].at = at

Moves(h, at) == handler' = [handler EXCEPT ![h].at = at]

Quits(h) == handler' = [handler EXCEPT ![h] = NoHandler]

Opens(h, kind, t, a, at) ==
    /\ handler[h] = NoHandler
    /\ purchase[t] # "none"
    /\ handler' = [handler EXCEPT ![h] =
          [kind |-> kind, token |-> t, account |-> a, at |-> at, missed |-> FALSE]]
    /\ UNCHANGED <<purchase, holder, vip, due, granted, late>>

\* Defect variant: of a token that is known Google is not asked again.
NotifyActiveTrusting(h, t) ==
    Opens(h, "active", t, unclaimed,
          IF holder[t] = unclaimed THEN "check" ELSE "resolve")

\* SUBSCRIBED, RENEWED, RECOVERED and the like, late ones and copies included.
NotifyActive(h, t) == Opens(h, "active", t, unclaimed, "check")

\* EXPIRED and REVOKED, and CANCELLED of a purchase that still runs.
NotifyEnded(h, t) == Opens(h, "ended", t, unclaimed, "resolve")

Restore(h, t, a) == Opens(h, "restore", t, a, "check")

\* getSubscriptionPurchaseDetails and the comparison of the expiry.
Check(h) ==
    LET t == handler[h].token IN
    /\ Serves(h, {"active", "restore"}, "check")
    /\ purchase[t] = "active"
    /\ Moves(h, IF handler[h].kind = "active" THEN "resolve" ELSE "claim")
    /\ UNCHANGED <<purchase, holder, vip, due, granted, late>>

\* getUserIdByPurchaseToken, whose errors read as nobody.
Resolve(h) ==
    LET t == handler[h].token
        Finds(a, at) ==
            handler' = [handler EXCEPT ![h].account = a, ![h].at = at]
    IN
    /\ Serves(h, {"active", "ended"}, "resolve")
    /\ \/ /\ holder[t] # unclaimed
          /\ Finds(holder[t], "write")
       \/ /\ handler[h].kind = "active"
          /\ Payer[t] # unclaimed
          /\ Finds(Payer[t], "claim")
    /\ UNCHANGED <<purchase, holder, vip, due, granted, late>>

\* Defect variant: the upsert replaces the row.
ClaimTokenReplacing(h) ==
    /\ Serves(h, {"active", "restore"}, "claim")
    /\ holder' = [holder EXCEPT ![handler[h].token] = handler[h].account]
    /\ Moves(h, "readBack") \/ Quits(h)
    /\ UNCHANGED <<purchase, vip, due, granted, late>>

\* The upsert that ignores duplicates; an error may hide that it was applied.
ClaimToken(h) ==
    LET t == handler[h].token IN
    /\ Serves(h, {"active", "restore"}, "claim")
    /\ holder' = IF holder[t] = unclaimed
                 THEN [holder EXCEPT ![t] = handler[h].account] ELSE holder
    /\ Moves(h, "readBack") \/ Quits(h)
    /\ UNCHANGED <<purchase, vip, due, granted, late>>

ReadBack(h) ==
    /\ Serves(h, {"active", "restore"}, "readBack")
    /\ holder[handler[h].token] = handler[h].account
    /\ Moves(h, "write")
    /\ UNCHANGED <<purchase, holder, vip, due, granted, late>>

\* updateVipStatusFromWebhook(account, true).
Grant(h) ==
    LET t == handler[h].token
        a == handler[h].account
    IN
    /\ Serves(h, {"active", "restore"}, "write")
    /\ vip' = vip \cup {a}
    /\ granted' = [granted EXCEPT ![t] = @ \cup {a}]
    /\ late' = IF handler[h].missed THEN late \cup {a} ELSE late
    /\ Quits(h)
    /\ UNCHANGED <<purchase, holder, due>>

\* updateVipStatusFromWebhook(account, false).
Withdraw(h) ==
    /\ Serves(h, {"ended"}, "write")
    /\ vip' = vip \ {handler[h].account}
    /\ late' = late \ {handler[h].account}
    /\ due' = due \ {handler[h].token}
    /\ Quits(h)
    /\ UNCHANGED <<purchase, holder, granted>>

\* A refusal, a failed call or a replica that stops: nothing more is done.
GiveUp(h) ==
    /\ handler[h] # NoHandler
    /\ Quits(h)
    /\ UNCHANGED <<purchase, holder, vip, due, granted, late>>

-----------------------------------------------------------------------------
HandlerStep(h) ==
    \/ Check(h) \/ Resolve(h) \/ ClaimToken(h) \/ ReadBack(h)
    \/ Grant(h) \/ Withdraw(h) \/ GiveUp(h)

PlayNext ==
    \/ \E t \in Token : PurchaseRuns(t) \/ PurchaseEnds(t)
    \/ \E h \in Handler :
          \/ \E t \in Token :
                \/ NotifyActive(h, t) \/ NotifyEnded(h, t)
                \/ \E a \in Account : Restore(h, t, a)
          \/ HandlerStep(h)

PlaySpec == PlayInit /\ [][PlayNext]_playVars

-----------------------------------------------------------------------------
(***************************************************************************)
(* Properties                                                              *)
(***************************************************************************)

\* "A token already associated with one account [must never] grant
\* entitlement to another" (restorePurchases): whoever restores or is named
\* by a notification, and however claims overlap, a purchase makes one account
\* VIP, the one it is recorded for.
OneAccountPerPurchase == \A t \in Token : granted[t] \subseteq {holder[t]}

\* A VIP has a running purchase, or one whose end nobody has handled yet: a
\* notification delivered again, or after the end, makes nobody VIP again.
\* The exception is a handler that asked Google before the end and wrote after.
VipIsPaid ==
    \A a \in vip :
        \/ a \in late
        \/ \E t \in Token :
              holder[t] = a /\ (purchase[t] = "active" \/ t \in due)

=============================================================================
