----------------------------- MODULE PremiumAi -----------------------------
(***************************************************************************)
(* Coin-funded premium AI reports.                                         *)
(*                                                                         *)
(* PremiumAiService.runConversationAnalysis serves an HTTP request in five *)
(* awaits (authorize, start RPC, provider, complete RPC, refund RPC); many *)
(* requests are in flight at once, in several backend replicas, and two of *)
(* them may carry the same idempotency key.  Every RPC is one PostgreSQL   *)
(* transaction, atomic here and taken apart into row locks in              *)
(* PremiumAiLocks.  The reply of a transaction that committed can be lost: *)
(* the client library then reports an error as if it had not.  A replica   *)
(* can die between any two awaits.  The reconciliation cron refunds what   *)
(* such a crash leaves pending.                                            *)
(***************************************************************************)
EXTENDS PremiumAiRuns

CONSTANTS
    Room,           \* rows of public.chat_rooms
    Handler,        \* request slots: handlers that can be in flight at once
    BatchLimit      \* p_limit of refund_stale_premium_ai_runs

ASSUME PremiumAiAssumption ==
    /\ Room # {} /\ Run # {}
    /\ BatchLimit \in Nat \ {0}

VARIABLES
    balance,    \* users.coins_balance
    member,     \* chat_room_members
    status,     \* premium_ai_runs.status, "none" while there is no row
    subject,    \* premium_ai_runs.subject_id
    age,        \* how long the run has been pending
    spends,     \* coin_transactions rows of type premium_ai_spend of a run
    refunds,    \* and those of type premium_ai_refund
    at,         \* where the handler in a slot stands
    run,        \* the run its request is about
    room,       \* the conversation its request is about
    charged,    \* its start transaction was the one that charged
    answer      \* what it answered

db == <<balance, member, status, subject, age, spends, refunds>>
handler == <<at, run, room, charged, answer>>
vars == <<db, handler>>

-----------------------------------------------------------------------------
\* pending < 5 minutes; between 5 and 15 (recovered by a retry of its key);
\* over 15 (also refunded by the cron job).
Age == {"fresh", "abandoned", "stale"}

\* The answers the service gives.  "rejected" stands for 400 and 403.
\* "refunded" and "unavailable" are the two kinds of 503: "Your coins have
\* been refunded" and "temporarily unavailable".  "no_answer" is a connection
\* that died with its replica.
Answer == {"none", "no_answer", "report", "rejected",
           "busy_409", "gone_410", "refunded", "unavailable",
           "reconcile_500"}

Step == {"authorize", "start", "provider", "complete", "refund", "done"}

StatusOf(h) == status[run[h]]
OwnerOf(h) == Owner[run[h]]

Goto(h, step) ==
    /\ at' = [at EXCEPT ![h] = step]
    /\ UNCHANGED <<run, room, charged, answer>>

Reply(h, what) ==
    /\ at' = [at EXCEPT ![h] = "done"]
    /\ answer' = [answer EXCEPT ![h] = what]
    /\ UNCHANGED <<run, room, charged>>

-----------------------------------------------------------------------------
\* What a column or slot holds before its first use; never read.
NoRoom == CHOOSE m \in Room : TRUE
NoRun == CHOOSE r \in Run : TRUE

Init ==
    /\ balance = [u \in User |-> StartBalance]
    /\ member = User \X Room
    /\ status = [r \in Run |-> "none"]
    /\ subject = [r \in Run |-> NoRoom]
    /\ age = [r \in Run |-> "fresh"]
    /\ spends = [r \in Run |-> 0]
    /\ refunds = [r \in Run |-> 0]
    /\ at = [h \in Handler |-> "done"]
    /\ run = [h \in Handler |-> NoRun]
    /\ room = [h \in Handler |-> NoRoom]
    /\ charged = [h \in Handler |-> FALSE]
    /\ answer = [h \in Handler |-> "none"]

\* A request (or a retry, or a second tab) arrives at a free slot.  The key
\* may be new or already used, for this room or another.
Receive(h, r, m) ==
    /\ at[h] = "done"
    /\ at' = [at EXCEPT ![h] = "authorize"]
    /\ run' = [run EXCEPT ![h] = r]
    /\ room' = [room EXCEPT ![h] = m]
    /\ charged' = [charged EXCEPT ![h] = FALSE]
    /\ answer' = [answer EXCEPT ![h] = "none"]
    /\ UNCHANGED db

\* The service's own membership check and its read of the conversation.
Authorize(h) ==
    /\ at[h] = "authorize"
    /\ IF <<OwnerOf(h), room[h]>> \in member
       THEN \/ Goto(h, "start")
            \/ Reply(h, "unavailable") \/ Reply(h, "rejected")
       ELSE Reply(h, "rejected") \/ Reply(h, "unavailable")
    /\ UNCHANGED db

-----------------------------------------------------------------------------
(***************************************************************************)
(* start_premium_ai_service                                                *)
(***************************************************************************)

\* The RPC passes the membership check it repeats inside the transaction.
Starting(h) ==
    /\ at[h] = "start"
    /\ <<OwnerOf(h), room[h]>> \in member

\* Defect variant: the key is not bound to a room (20260823001000's start).
SubjectUnchecked(h) == room[h] \in Room

SubjectMatches(h) == subject[run[h]] = room[h]

\* The retry found a pending run older than five minutes.
Recoverable(h) ==
    StatusOf(h) = "pending" /\ age[run[h]] # "fresh"

StartDenied(h) ==
    /\ at[h] = "start"
    /\ <<OwnerOf(h), room[h]>> \notin member
    /\ Reply(h, "rejected")
    /\ UNCHANGED db

\* The key was first used for another room.
StartMismatch(h) ==
    /\ Starting(h)
    /\ StatusOf(h) # "none"
    /\ ~SubjectMatches(h)
    /\ Reply(h, "gone_410")
    /\ UNCHANGED db

\* created = false: handleExistingRun turns the run's status into an answer.
StartFindsRun(h) ==
    /\ Starting(h)
    /\ StatusOf(h) # "none"
    /\ SubjectMatches(h)
    /\ ~Recoverable(h)
    /\ \/ StatusOf(h) = "completed" /\ Reply(h, "report")
       \/ StatusOf(h) = "pending" /\ Reply(h, "busy_409")
       \/ StatusOf(h) = "failed" /\ Reply(h, "gone_410")
    /\ UNCHANGED db

\* Defect variant: the refund leaves no coin_transactions row.
RefundRunsUnaudited(S) ==
    /\ balance' = [u \in User |-> balance[u] + Price(RunsOf(u, S))]
    /\ status' = [r \in Run |-> IF r \in S THEN "failed" ELSE status[r]]
    /\ UNCHANGED <<member, subject, age, spends, refunds>>

\* Refunds a set of runs, each to its own user, in one transaction.
RefundRuns(S) ==
    /\ balance' = [u \in User |-> balance[u] + Price(RunsOf(u, S))]
    /\ status' = [r \in Run |-> IF r \in S THEN "failed" ELSE status[r]]
    /\ refunds' = [r \in Run |-> IF r \in S THEN refunds[r] + 1 ELSE refunds[r]]
    /\ UNCHANGED <<member, subject, age, spends>>

\* Recovery on retry; its reply may be lost like that of any transaction.
StartRecovers(h) ==
    /\ Starting(h)
    /\ SubjectMatches(h)
    /\ Recoverable(h)
    /\ RefundRuns({run[h]})
    /\ Reply(h, "gone_410") \/ Reply(h, "unavailable")

StartInsufficient(h) ==
    /\ Starting(h)
    /\ StatusOf(h) = "none"
    /\ balance[OwnerOf(h)] < Cost
    /\ Reply(h, "rejected")
    /\ UNCHANGED db

\* Deducts the price, inserts the run and its spend row, and answers
\* created = true if the reply is heard.
Charge(h) ==
    /\ balance' = [balance EXCEPT ![OwnerOf(h)] = @ - Cost]
    /\ status' = [status EXCEPT ![run[h]] = "pending"]
    /\ subject' = [subject EXCEPT ![run[h]] = room[h]]
    /\ spends' = [spends EXCEPT ![run[h]] = @ + 1]
    /\ charged' = [charged EXCEPT ![h] = TRUE]
    /\ \/ /\ at' = [at EXCEPT ![h] = "provider"]
          /\ UNCHANGED answer
       \/ /\ at' = [at EXCEPT ![h] = "done"]
          /\ answer' = [answer EXCEPT ![h] = "unavailable"]
    /\ UNCHANGED <<member, age, refunds, run, room>>

\* Defect variant: the wallet may go below zero.
StartChargesOverdrawn(h) ==
    /\ Starting(h)
    /\ StatusOf(h) = "none"
    /\ Charge(h)

StartCharges(h) ==
    /\ Starting(h)
    /\ StatusOf(h) = "none"
    /\ balance[OwnerOf(h)] >= Cost
    /\ Charge(h)

\* The RPC failed without committing: no connection, deadlock victim, ...
StartError(h) ==
    /\ at[h] = "start"
    /\ Reply(h, "unavailable")
    /\ UNCHANGED db

-----------------------------------------------------------------------------
\* generateReport: a usable report, or an error, bad output or 12 s timeout.
Provider(h) ==
    /\ at[h] = "provider"
    /\ Goto(h, "complete") \/ Goto(h, "refund")
    /\ UNCHANGED db

(***************************************************************************)
(* complete_premium_ai_service: TRUE if the run is completed now or was.   *)
(***************************************************************************)
\* Defect variant: without the status = 'pending' condition.
CompletesLate(h) ==
    /\ at[h] = "complete"
    /\ status' = [status EXCEPT ![run[h]] = "completed"]
    /\ Reply(h, "report") \/ Goto(h, "refund")
    /\ UNCHANGED <<balance, member, subject, age, spends, refunds>>

Completes(h) ==
    /\ at[h] = "complete"
    /\ StatusOf(h) = "pending"
    /\ status' = [status EXCEPT ![run[h]] = "completed"]
    /\ Reply(h, "report") \/ Goto(h, "refund")
    /\ UNCHANGED <<balance, member, subject, age, spends, refunds>>

\* Nothing pending to complete, or the RPC failed without committing.
CompleteFails(h) ==
    /\ at[h] = "complete"
    /\ \/ StatusOf(h) = "completed" /\ Reply(h, "report")
       \/ Goto(h, "refund")
    /\ UNCHANGED db

(***************************************************************************)
(* fail_premium_ai_service, called by refundPendingRun.                    *)
(***************************************************************************)
\* Defect variant: refunds a run somebody else may have settled.
RefundsAgain(h) ==
    /\ at[h] = "refund"
    /\ RefundRuns({run[h]})
    /\ Reply(h, "refunded") \/ Reply(h, "reconcile_500")

Refunds(h) ==
    /\ at[h] = "refund"
    /\ StatusOf(h) = "pending"
    /\ RefundRuns({run[h]})
    /\ Reply(h, "refunded") \/ Reply(h, "reconcile_500")

\* Defect variant: the FALSE of the RPC is not looked at.
RefundFailsUnchecked(h) ==
    /\ at[h] = "refund"
    /\ Reply(h, "refunded")
    /\ UNCHANGED db

\* The RPC returned FALSE, or failed without committing.
RefundFails(h) ==
    /\ at[h] = "refund"
    /\ Reply(h, "reconcile_500")
    /\ UNCHANGED db

-----------------------------------------------------------------------------
\* The replica that runs the handler stops between two awaits.
Crash(h) ==
    /\ at[h] # "done"
    /\ Reply(h, "no_answer")
    /\ UNCHANGED db

\* A member leaves a group conversation (leave_group_chat).
LeaveRoom(u, m) ==
    /\ <<u, m>> \in member
    /\ member' = member \ {<<u, m>>}
    /\ UNCHANGED <<balance, status, subject, age, spends, refunds, handler>>

\* Time passes over a pending run: updated_at and created_at are both the
\* time of its insertion.
Grow(r) ==
    /\ status[r] = "pending"
    /\ age[r] # "stale"
    /\ age' = [age EXCEPT ![r] =
            IF @ = "fresh" THEN "abandoned" ELSE "stale"]
    /\ UNCHANGED <<balance, member, status, subject, spends, refunds, handler>>

\* Defect variant: a window with an upper end misses the oldest runs.
StaleRunsWindow == {r \in Run : status[r] = "pending" /\ age[r] = "abandoned"}

StaleRuns == {r \in Run : status[r] = "pending" /\ age[r] = "stale"}

\* refund_stale_premium_ai_runs, called by the cron job: a batch of the stale
\* runs, without those whose row another transaction holds (SKIP LOCKED).
Reconcile(S) ==
    /\ S # {}
    /\ S \subseteq StaleRuns
    /\ Cardinality(S) <= BatchLimit
    /\ RefundRuns(S)
    /\ UNCHANGED handler

StartRpc(h) ==
    \/ StartDenied(h) \/ StartMismatch(h) \/ StartFindsRun(h)
    \/ StartRecovers(h) \/ StartInsufficient(h) \/ StartCharges(h)
    \/ StartError(h)

Handle(h) ==
    \/ \E r \in Run, m \in Room : Receive(h, r, m)
    \/ Authorize(h) \/ StartRpc(h) \/ Provider(h)
    \/ Completes(h) \/ CompleteFails(h)
    \/ Refunds(h) \/ RefundFails(h) \/ Crash(h)

Next ==
    \/ \E h \in Handler : Handle(h)
    \/ \E u \in User, m \in Room : LeaveRoom(u, m)
    \/ \E r \in Run : Grow(r)
    \/ \E S \in SUBSET Run : Reconcile(S)

Spec == Init /\ [][Next]_vars

(***************************************************************************)
(* Fairness.  Time passes, and the cron job runs every five minutes in     *)
(* every replica, oldest runs first.  Nothing is assumed of handlers: a    *)
(* crashed one takes no further step.                                      *)
(***************************************************************************)
Fairness ==
    \A r \in Run :
        /\ WF_vars(Grow(r))
        /\ WF_vars(\E S \in SUBSET Run : r \in S /\ Reconcile(S))

FairSpec == Spec /\ Fairness

-----------------------------------------------------------------------------
(***************************************************************************)
(* Properties                                                              *)
(***************************************************************************)

\* Every variable keeps its type; balances never go below zero.
TypeOK ==
    /\ balance \in [User -> Nat]
    /\ member \subseteq User \X Room
    /\ status \in [Run -> Status]
    /\ subject \in [Run -> Room]
    /\ age \in [Run -> Age]
    /\ spends \in [Run -> Nat]
    /\ refunds \in [Run -> Nat]
    /\ at \in [Handler -> Step]
    /\ run \in [Handler -> Run]
    /\ room \in [Handler -> Room]
    /\ charged \in [Handler -> BOOLEAN]
    /\ answer \in [Handler -> Answer]

Paid(u) == {r \in RunsOf(u, Run) : status[r] \in {"pending", "completed"}}

\* Conservation of coins: whatever requests, retries, crashes and cron jobs
\* interleave, a balance is the opening balance less the price of each run
\* that is pending or completed.  No double charge, no double refund.
WalletMatchesRuns ==
    \A u \in User : balance[u] = StartBalance - Price(Paid(u))

\* The audit trail agrees with the run: one spend row for every run that was
\* ever charged, one refund row exactly when it has failed.
LedgerMatchesRuns ==
    \A r \in Run :
        /\ spends[r] = IF status[r] = "none" THEN 0 ELSE 1
        /\ refunds[r] = IF status[r] = "failed" THEN 1 ELSE 0

\* What an answer tells the learner is so, and stays so: a report was paid
\* for and never refunded; "your coins have been refunded" and the 410 of a
\* dead key stand for a failed (or another room's) run.
AnswersMatchRuns ==
    \A h \in Handler :
        /\ answer[h] = "report" => StatusOf(h) = "completed"
        /\ answer[h] = "refunded" => StatusOf(h) = "failed"
        /\ answer[h] = "gone_410" =>
              StatusOf(h) = "failed" \/ subject[run[h]] # room[h]

\* A report is returned only for the conversation it was generated from, even
\* when its key is reused for another room the user belongs to.
ReportStaysInRoom ==
    \A h \in Handler :
        answer[h] = "report" => subject[run[h]] = room[h]

\* No learner stays charged for a report that never comes: a pending run is
\* eventually completed or refunded, whichever handlers crash.
EveryChargeSettles ==
    \A r \in Run :
        status[r] = "pending" ~> status[r] \in {"completed", "failed"}

\* docs/premium-ai-coin-services.md: a 503 says the request was either not
\* charged or refunded.
UnavailableMeansUncharged ==
    \A h \in Handler :
        answer[h] = "unavailable" /\ charged[h] =>
            StatusOf(h) # "pending"

\* The service and its database functions implement the abstract purchase.
Ledger == INSTANCE PremiumAiLedger WITH purchase <- status, wallet <- balance

ImplementsLedger == Ledger!Spec

=============================================================================
