----------------------------- MODULE EscrowQueue -----------------------------
(***************************************************************************)
(* Degraded holds: the circuit breaker around EscrowService.holdCoins, the *)
(* Redis list escrow_degraded_queue it falls back to, and the worker that  *)
(* retries the list every 30 seconds.                                      *)
(*                                                                         *)
(* One payer sends a number of hold requests, each once.  performHold is   *)
(* one step here (Escrow takes it apart): it charges the payer and inserts *)
(* a row, or does neither.  A price is one coin.  One replica, and no      *)
(* restart: either would only process an item more often.                  *)
(***************************************************************************)
EXTENDS CircuitBreaker, Sequences

CONSTANTS
    StartCoins  \* the payer's coins at first, a natural number

VARIABLES
    sent,       \* requests the payer has sent
    coins,      \* users.coins_balance of the payer
    rows,       \* escrow_transactions rows inserted for each request
    queue,      \* escrow_degraded_queue, its head first
    passing,    \* the worker's running flag
    batch,      \* what the pass has read with LRANGE and not yet tried
    processed, failed   \* the counters of the pass

payer == <<sent, coins, rows>>
worker == <<passing, batch, processed, failed>>
queueVars == <<breakerVars, payer, queue, worker>>

QueueInit ==
    /\ BreakerInit
    /\ sent = {}
    /\ coins = StartCoins
    /\ rows = [c \in Call |-> 0]
    /\ queue = <<>>
    /\ passing = FALSE
    /\ batch = <<>>
    /\ processed = 0
    /\ failed = 0

-----------------------------------------------------------------------------
\* POST /escrow/hold.
SendHold(c) ==
    /\ c \notin sent
    /\ Ask(c)
    /\ sent' = sent \cup {c}
    /\ UNCHANGED <<coins, rows, queue, worker>>

\* performHold deducts and inserts.
Hold(c) ==
    /\ coins > 0
    /\ coins' = coins - 1
    /\ rows' = [rows EXCEPT ![c] = @ + 1]
    /\ UNCHANGED sent

HoldSucceeds(c) ==
    /\ OperationSucceeds(c)
    /\ Hold(c)
    /\ UNCHANGED <<queue, worker>>

\* The database fails, or the payer cannot afford the hold.
HoldFails(c) ==
    /\ OperationFails(c)
    /\ UNCHANGED <<payer, queue, worker>>

\* performDegradedHold: LPUSH, whose failure is only logged.
DegradedHold(c) ==
    /\ FallbackReturns(c)
    /\ queue' = <<c>> \o queue \/ UNCHANGED queue
    /\ UNCHANGED <<payer, worker>>

-----------------------------------------------------------------------------
\* processDegradedQueue reads the whole list.
StartPass ==
    /\ ~passing
    /\ queue # <<>>
    /\ passing' = TRUE
    /\ batch' = queue
    /\ processed' = 0
    /\ failed' = 0
    /\ UNCHANGED <<breakerVars, payer, queue>>

\* The next item, with the retries of retryWithBackoff; not through the
\* breaker.
TryItem ==
    /\ passing
    /\ batch # <<>>
    /\ batch' = Tail(batch)
    /\ \/ /\ Hold(Head(batch))
          /\ processed' = processed + 1
          /\ UNCHANGED failed
       \/ /\ failed' = failed + 1
          /\ UNCHANGED <<payer, processed>>
    /\ UNCHANGED <<breakerVars, queue, passing>>

\* "Clear processed items": LTRIM failed -1 if any was processed.
FinishPass ==
    /\ passing
    /\ batch = <<>>
    /\ passing' = FALSE
    /\ queue' = IF processed > 0
                THEN SubSeq(queue, failed + 1, Len(queue))
                ELSE queue
    /\ UNCHANGED <<breakerVars, payer, batch, processed, failed>>

QueueNext ==
    \/ \E c \in Call :
          SendHold(c) \/ HoldSucceeds(c) \/ HoldFails(c) \/ DegradedHold(c)
    \/ StartPass \/ TryItem \/ FinishPass
    \/ /\ Tick \/ Reset
       /\ UNCHANGED <<payer, queue, worker>>

QueueSpec == QueueInit /\ [][QueueNext]_queueVars

-----------------------------------------------------------------------------
\* "Clear processed items" (escrow.service.ts): a hold that was processed
\* from the queue is not processed again, so that no request, sent once, is
\* charged twice.
HeldOnce == \A c \in Call : rows[c] <= 1

=============================================================================
