# Verification of the coin-moving core and the live rooms

The repository is a language-exchange application: a NestJS backend
(`src/backend/src`), PostgreSQL functions and tables
(`src/supabase/migrations`), Redis, Centrifugo and LiveKit around it, an Angular
client, an admin portal. Learners own *coins*, meet in *audio rooms* and at
*events*, and may be *VIPs*. This project specifies in TLA+ the parts of the
backend where a coin, a seat, a reminder, a summary, a role or a VIP status can be
lost or given twice by an interleaving, a lost reply or a crash, checks the
specifications with TLC on small instances, and proves most of the invariants
with TLAPS for all instances.

Paths below are relative to `src/`. To run: `tlc -config MC_X.cfg MC_Y` and
`tlapm XProofs.tla`.

## 1. Inventory

| Component | State | Operations | Talks to | What makes it hard | What makes it correct |
|---|---|---|---|---|---|
| **Premium AI purchases** (`backend/src/economy/premium-ai*.ts`, migrations `20260823001000`, `20260823001100`, `20260825144500`) | `users.coins_balance`, `premium_ai_runs`, `coin_transactions` | `conversationAnalysis`; the RPCs start, complete, fail; the cron job `refundStaleRuns` in every replica | PostgreSQL by RPC, LLM provider | five awaits per request, the same key in flight twice, lost replies, a crash after the charge, two refund paths, row locks in two orders | charged at most once; delivered or refunded; the answer is true; audit rows agree |
| **Escrow settlement** (`backend/src/escrow/escrow.service.ts`, `escrow-queue.worker.ts`) | `users.coins_balance`, `escrow_transactions` | hold, release, refund, cancel, dispute, 30-day sweep | PostgreSQL by single-statement calls | no transaction, no conditional update: every read and every write is a round trip of its own; partial failure | paid out once, as the status says; balances add up; nothing held for ever |
| **Circuit breaker** (`backend/src/escrow/circuit-breaker.service.ts`) | per service: `isOpen`, `failureCount`, `cooldownUntil`, `halfOpenAttempts` | `isAvailable`, `recordSuccess`, `recordFailure`, `executeWithBreaker`, `reset` | wraps hold, release, refund | results arrive in another state than their call was admitted in | opens on failures only, bounded probes, closes again |
| **Degraded hold queue** (`performDegradedHold`, `processDegradedQueue`, the worker) | Redis list `escrow_degraded_queue`, `running` flag | push, pass every 30 s | breaker, escrow, Redis | pushes during a pass; what a pass removes | one request, one hold |
| **Coin economy** (`backend/src/economy/economy.service.ts`, `monetisation.service.ts`, `20261102000000`) | `users.coins_balance`, `coin_purchases`, `gift_transactions`, `audio_room_tips` | gift, buy, spend, earn, tip; partly modelled | PostgreSQL; Stripe, App Store, Google Play for receipts | read-modify-write next to an atomic RPC on the same column, rollbacks that write old balances, a fallback balance | books agree with records; a receipt is credited once; a tip is answered truly |
| **Event reminders, RSVP, scheduled parties** (`backend/src/events/events.service.ts`, `20260821080500`, `20260823104500`) | `event_rsvps`, `event_reminders_sent` with lease, the event's room | RSVP; claim, push, mark, release; find, create, link | push provider, audio rooms | requests for the last seat, a lease of 120 s against slow pushes, marks that do not compare the lease, a crash between insert and link | seats within capacity; reminded, and once; one room per event |
| **Audio rooms** (`backend/src/audio-rooms`) | columns `speakers`, `raised_hands`, `co_host_id`; `audio_room_transcripts` | raise, approve, demote, kick, dismiss, clear, reorder, invite and remove a co-host; finalize, process, retry a summary; partly modelled | Centrifugo, LiveKit, transcription | whole columns rewritten from an old copy; workers in every replica without a lock | columns as meant; no publisher without the role; one worker per attempt; jobs settle |
| **Monetisation and store webhooks** (`backend/src/monetisation`) | `users.is_vip`, `google_play_purchases` | Google Play notifications and restores; Stripe, Apple; the former modelled | payment providers | notifications again, late, out of order; two accounts with one token | one account per purchase; a VIP has paid |
| Redis lock (`backend/src/common/redis-lock.ts`) | one key per job | acquire, release | Redis | TTL shorter than the job | one holder within the TTL |
| Web client of premium AI, offline queues (`frontend/src/app`) | idempotency key, stored queues | run, navigate; enqueue, replay | backend | key dropped or kept at the wrong time; replays | no second purchase; nothing replayed twice |
| Chat, learning features, moderation, admin, UI | rows and views | CRUD, publish | all | little protocol of their own | — |

`PROJECT.json` lists the hazards of these parts with the line where each bites
and the property that watches it.

## 2. Modules

```
PremiumAiRuns ── PremiumAiRunsTheorems ──┐
   ├─ PremiumAiLedger ── PremiumAiLedgerProofs ── PremiumAiProofs
   ├─ PremiumAi        (implements PremiumAiLedger)
   └─ PremiumAiLocks   (implements PremiumAiLedger) ── PremiumAiLocksProofs
Escrow ─────────────────────────────┬─ EscrowProofs
CircuitBreaker ── EscrowQueue ──────┘
SummaryJobs, RoomStage, ScheduledParty ── LiveRoomsProofs
EventReminders ── EventRemindersProofs
Wallet, PlayPurchases ── WalletProofs
   all six ── MC_LiveRooms
MC_*  instances for TLC
```

### PremiumAiLedger: what is promised

Two variables: the status of every purchase and every wallet. A purchase is
charged, then delivered or refunded; several may be refunded in one step. No
handler, lock, crash or cron job appears.

### PremiumAi: handlers and transactions

One row of `premium_ai_runs` is one element of `Run`, that is one (user, service,
idempotency key) triple. A `Handler` is a request being served; any number may
be about the same run. Every handler step is one `await` of
`runConversationAnalysis`: `Authorize`, the start RPC (`StartDenied`,
`StartMismatch`, `StartFindsRun`, `StartRecovers`, `StartInsufficient`,
`StartCharges`, `StartError`, one per way through the SQL function), `Provider`,
the complete RPC, the refund RPC. A PostgreSQL function is one transaction and
one step. Where it writes, it has two outcomes: heard, or committed with its
reply lost. `Crash` stops a handler at any await. `Reconcile` is the cron
job, `Grow` the clock, `LeaveRoom` the loss of membership between check and use.
`age` abstracts the timestamps to what the code distinguishes: under 5 minutes,
from 5 on (a retry recovers), over 15 (the cron job refunds). A handler may be
slower than all of that.

### PremiumAiLocks: the same functions under READ COMMITTED

Here a function is a transaction that takes row locks one at a time, holds them
to its commit, and writes when it commits. `read` is the plpgsql variable
`v_balance`: fail and start write it back changed, so it must not go stale.
`Select` is `FOR UPDATE SKIP LOCKED`, `LockOwner` the sweep's update of each
run's user. `BreakDeadlock` is PostgreSQL's detector, `Rollback` a lost
connection. That each function is atomic, which PremiumAi assumes, is what this
module checks: it implements PremiumAiLedger too.

### Escrow: one round trip at a time

`Request` slots run hold, release, refund, cancel and dispute, `Worker`s the
stale sweep. `at` says which round trip comes next: the `row`, the `balance`, the
`write` of the balance, the `mark` (insert or status update), and for a hold whose
insert failed the `undo`. Any call can be answered by an error, applied or not; a
replica can stop. What each operation then does is in the code: hold, release and
refund give up, cancel and the sweep go on.

This code has no protection against overlap, so plain "paid once" is false (see
findings). What is checked instead is *exactly when* it is right: a history
variable `disturbed` collects the escrows and users for which a hazard really
occurred: two operations between reading and writing the same status, two
between reading and writing the same balance, a write applied and not recorded
or recorded and not applied. Everybody else's books must balance. A missing
status check or a forgotten undo disturbs nobody and breaks the property.

A status update to `disputed` is always refused: the table's CHECK
(`20260807000000_create_escrow_transactions.sql:7`) does not list it.

### CircuitBreaker and EscrowQueue

The breaker is modelled for any number of concurrent calls; time is counted in
cooldowns. An operation may fail at any time: the code counts every exception, a
refused request's among them, so the database's being up is no reason for the
circuit to be closed, and no property takes it for one. EscrowQueue extends it with the hold endpoint, the Redis list and the
worker's pass; there performHold is a single step.

### SummaryJobs: the summaries of archived rooms

A row of `audio_room_transcripts` is a job. Every replica's cron tick recovers
jobs that have been in work for ten minutes (`Recover`) and starts the due ones
among the oldest rows (`Poll`); the host's requests (`Finalize`, `Retry`, the older
`ArchiveRoom`) start them too. A worker (`Proc` is a replica and a room: the set
`inFlight` allows one) reads the job (`Load`), claims it by an update that compares
status and attempts (`Claim`, `ClaimLost`), works, and writes a result that
compares "processing" and its own attempt (`MarkReady`, `MarkFailed`). A claim's
answer can be lost, a result can fail to be stored, a replica can stop. `due` and
`abandoned` stand for the two timestamps. What the order of the rows' `updated_at`
says is the relation `older`: an update makes its row the youngest (`Requeue`), and
a tick takes the rows with fewer than its batch size before them.

### EventReminders: RSVPs and leased reminders of one event

`Submit` begins an RSVP request; its transaction locks the event's row, counts
and decides (`LockEvent`), and commits or raises. `ClaimReminders` is the function
`claim_due_event_reminders`: it inserts missing rows and leases a batch in one
transaction. A tick pushes to each claimed learner (`Push`: delivered, suppressed,
failed, or delivered with the answer lost) and then runs two updates (`MarkSent`,
`Release`), which compare the status, not the lease. The lease lapses by time
alone. A batch is sent at once: the code's sub-batches only make pushes later,
which is included.

### ScheduledParty: the rooms of events

`Scan`, `Create`, `Find` and `Link` are the calls of `checkStartEvents` and
`ensureScheduledLanguageParty` of a tick; a `Server` is a tick under way, and the
ticks of one replica may overlap as those of several do (`setInterval` waits for
nothing). `Listings` is the query: the `PartyBatch` oldest of the events that started within
the catch-up window, those that have a room included, equals in any order. An event's
date does not change here. What follows the insert in `Create`
can fail, or its answer be lost, and the lookup comes next.

### RoomStage: columns rewritten from copies

A request reads the row (`Read`) and writes whole columns from this copy. The
code has no protection for most columns, so plain "no update is lost" is false.
`dirty` records which of the columns a request uses have been written since it
read them; `intended` is the row as the requests mean it, a column that is
written while dirty being taken as it comes out. `StageAsIntended` therefore says that
nothing goes wrong *but* through an overlap of one column, and a forgotten hand,
a wrong column or a missing comparison breaks it. `inviteCoHost` is four steps
(revoke, demote, notify, assign), two of them guarded by `co_host_id`.

### Wallet: every way to move coins

An `Order` is a gift, a purchase, a spending or an earning under way, one database
call per step, each possibly answered by an error, applied or not. A tip is a
single RPC and one step, keyed by the client. `owed` is what the recorded
operations come to, `disturbed` the users whose balance was written between
another request's read and write or whose operation failed halfway. The daily check-in is not an
operation here.

### PlayPurchases: Google Play VIP

A handler is a notification or a restore. It asks Google (`Check`), finds the
account of the token (`Resolve`) or claims it (`ClaimToken`, `ReadBack`), and
writes `is_vip` (`Grant`, `Withdraw`). Notifications may come at any time, for any
purchase that ever ran, any number of times. An exception is answered with 200,
so a failed one does not come again (`GiveUp`). What a handler misses because
Google's answer was older than the end of the purchase is recorded (`missed`,
`late`).

### MC_LiveRooms: side by side

The six components share no variable. A step of one is the same whatever the
others do, so exploring the product of their state spaces shows nothing more than
exploring each: a variable `focus`, chosen in the initial state, says which
component moves; the others rest in their initial state. Two components have two
foci because of the size of their state spaces: RSVPs by three users, or ticks
with two attendees who stay; requests about speakers, or about the co-host.

## 3. Runs

| Run | Instance | Shows |
|---|---|---|
| `premium_ai` | 2 handlers, 2 keys of one user, 2 rooms, 5 coins at price 3, batch 1; 1.0 M states | types; `WalletMatchesRuns`, `LedgerMatchesRuns`, `AnswersMatchRuns`, `ReportStaysInRoom` |
| `premium_ai_live` | one room, 6 coins, batch 2, fairness; 98 k states | `ImplementsLedger`, `EveryChargeSettles` |
| `premium_ai_unavailable` | as `premium_ai` | violation of `UnavailableMeansUncharged` |
| `premium_ai_locks` | 2 sessions, 3 runs of 2 users, fairness; 169 k states | `ReadsAreCurrent`, `SweepsArePending`, `RingsNeedSweep`, `ImplementsLedger`, `TransactionsEnd` |
| `premium_ai_ring` | 3 sessions, 2 runs | violation of `NoLockRing` |
| `escrow` | 2 requests, 1 sweep, 2 escrows in opposite directions, amounts 1 and 2, 2 coins each, 2 faults; 231 k states | `PaidAsMarked`, `BooksBalance` |
| `escrow_live` | 1 request, 1 sweep, 1 fault, fairness; 261 k states | `HeldEnds` |
| `escrow_paid_once` | 2 requests, no fault | violation of `PaidOnce` |
| `circuit_breaker` | 5 calls, the code's 5 and 3, fairness; 9 k states | `OpenMeansStreak`, `ProbesBounded`, `Recovers` |
| `escrow_queue` | 2 hold requests, threshold 2 | violation of `HeldOnce` |
| `live_rooms` | per component, see below; 1.4 M states | `OneWorkerPerAttempt`; `CapacityKept`, `RemindedOnce`, `SentWasHandled`; `StageAsIntended`, `CoHostsStepDown`; `OneRoomPerEvent`; `CoinsMatchRecords`, `ReceiptCreditedOnce`, `TipAnswersTrue`; `OneAccountPerPurchase`, `VipIsPaid`; types |
| `live_rooms_progress` | summaries, reminders and parties, up to 2 failures, fairness; 41 k states | `JobsSettle`, `RemindersArrive`, `PartyOpens` |

**Why the bounds are enough to be interesting.** Two handlers are a request and
its retry; a slot is reused, so there may be any number of requests one after
the other. Five coins at price three let one of two purchases through, until a
refund. Batch 1 makes the cron job choose; batch 2 makes it refund two runs of
one user in one transaction. In `premium_ai_locks` three runs of two users let a
sweep hold one user and wait for another. Two opposite escrows make each user a
payer and a payee; two requests beside a sweep give every pair of operations.
`FaultBound` bounds failed calls and crashes, not requests. The
constraint `SomeoneUndisturbed` (`MC_Escrow`) stops exploring where both users
are disturbed: `BooksBalance` says nothing there, and `disturbed` only grows. What
`PaidAsMarked` says of an escrow beyond that point is not explored by the run, it
is proved (section 4). The constraint is used with invariants only.
In the breaker, `failureCount` and the streak are capped at the threshold, above
which the code tells no values apart; `probes` is kept finite by the property
it serves.

In `live_rooms`: one job, two replicas, two attempts, a host's retry and a failure are
enough for two workers of one job, a recovery under a slow worker and an attempt
number set back; three users compete for two seats; two ticks share two
attendees; two requests at a time by a host and two members, any number one after the other;
two ticks at a time create the rooms of three events with two failures, where the limit of
two shuts the third event out until the others' windows end; two orders at a time with a
failure, a web and a store receipt of one buyer, a tip in the opposite
direction, and balances of 1 at price 1 so that the last coin is spent twice; two
handlers, two accounts and two purchases, of which Google can name the buyer of
one. `OrderBound` bounds the orders, because coins would grow without end. The
constraint `SomeoneUndisturbed` stops the wallet where both users are disturbed,
as in `MC_Escrow`; the other components never set the variable.
`live_rooms_progress` has one job (the queue's order matters only through dead rows,
which `JobsSettle` names) and one tick slot.

**Deadlock** is checked in every run but the two of `MC_LiveRooms`, where the system
really stops: an event that has started, a party whose window is over, orders that
are used up.

**Fairness.** PremiumAi: the clock and the cron job (`@Cron('*/5 * * * *')`, oldest
first, so every stale run is eventually in a batch). Nothing of handlers: a
crashed one never moves. PremiumAiLocks: sessions run, row locks are granted to
waiters in turn (strong fairness), the deadlock detector fires after
`deadlock_timeout`. Escrow: calls return, a sweep starts every five minutes on every
replica, time passes; nothing of users. Breaker: calls return, time passes.
`Recovers` assumes in addition that calls keep coming, and where it says that the
circuit closes for good, not where it says that it keeps letting calls through, that
from some time on no operation fails, for whatever reason. SummaryJobs: cron ticks come in every replica,
workers finish or fail, retry delays and the ten minutes pass, a host's request
that was begun ends. EventReminders: ticks come and return, leases and retry
delays pass, transactions end; the event need not start. ScheduledParty: ticks come
and return, the clock need not move. Nothing is assumed of hosts, learners or buyers in any of them.

## 4. What is proved

All theorems hold for every value of the constants allowed by the named
assumptions (`RunsAssumption`, `PremiumAiAssumption`, `LocksAssumption`,
`EscrowAssumption`, `BreakerAssumption`, `SummaryAssumption`, `ReminderAssumption`,
`PartyAssumption`, `StageAssumption`, `WalletAssumption`, `PlayAssumption`): in
particular any finite number of keys, escrows, attendees and requests for coins that
are under way at once, and any number of users, rooms, replicas, handlers, database
sessions and calls. Finite is what a sum needs.

Every safety invariant of a passing run is a theorem.

* **`PremiumAiLedgerProofs`** – `LedgerWallet`: in the abstract purchase a wallet is
  the opening balance less the price of what is pending or delivered. The step of
  the argument is about sets: `PremiumAiRunsTheorems` shows how `Price(RunsOf(u, S))`
  changes when a run joins or leaves S (cardinality of finite sets).
* **`PremiumAiProofs`**
  * `PremiumAiTypeOK`: types, and no balance below zero.
  * `PremiumAiImplementsLedger`: PremiumAi implements PremiumAiLedger. All movements
    of coins go through `StartCharges`, `Completes` and the three refund paths;
    the lemma `Movements` maps each to `Charge`, `Deliver` or `Refund`, everything
    else to a stutter.
  * `PremiumAiWallet`: `WalletMatchesRuns`. Inductive with types: charge requires
    "none", refund requires "pending", so `Paid(u)` changes by just the runs whose
    price moves.
  * `PremiumAiAudit`: `LedgerMatchesRuns`.
  * `PremiumAiAnswers`, `PremiumAiRooms`: the two claims about answers are not
    inductive as they stand, since what a handler will answer depends on what it
    knows. `HandlerInv` adds it: a handler past the charge has a run that exists
    and whose subject is its room. A settled run is never touched again, so an
    answer that was true stays true.
* **`PremiumAiLocksProofs`** – what a session has read or selected stays true only
  because of the locks it holds. `LockInv` says so per session: how far it can have
  come (`StageOK`), that `start` and `fail` hold the user row from the second lock on
  and have the stored balance in `read` (`UserHeld`), that who is about to write a run
  holds it, or is a `start` that found no row while it holds the user who would have
  to insert one (`RunHeld`), that a sweep holds the runs of its batch, which are
  pending, and the users of those it has dealt with (`SweepHeld`), and that nobody idle
  holds a lock.
  * `LocksTypes`, `LocksReads`, `LocksSweeps` are its consequences.
  * `LocksRings`: a session that waits for a user waits for one that has its user
    already; if that is a handler it waits for a run, whose holder is at its commit
    unless it is a sweep. A ring without a sweep cannot close.
  * `LocksImplementLedger`: `StepEffects` gives every step as a charge, a delivery, a
    refund of a set of runs, or no change, with the locks held at that moment; each
    is the step of PremiumAiLedger of that name. This is what entitles PremiumAi to take
    a database function as one step.
  * `LocksWallet`: no update of a balance is lost, whatever waits, deadlocks and rolls
    back; `LocksSettleOnce`, a property of steps: a run is settled once.
* **`EscrowProofs`**
  * `EscrowTypeOK`: types, and no balance below zero although nothing is locked.
    `Base` adds that a hold about to write has read a balance it can afford, and
    that every operation but a hold works on a row that exists.
  * `EscrowPaidAsMarked`: `PaidAsMarked` speaks of escrows at rest; in between the
    counters run ahead of the status. `EscrowInv` says how far: for an
    undisturbed escrow at most one process is between reading and writing the
    status (`Window`), nothing is paid before its write of the balance (`Unpaid`),
    and after it just what it is about to mark (`Due`). A process enters a window
    only with `Harm` for those already there, so the entering step finds the
    escrow at rest and counted. `WorkStep` and `Elsewhere` carry one process's step
    over to all escrows; then there is one lemma per action.
  * `EscrowBooksBalance`: coins are conserved over balances and escrows, for users
    nobody has disturbed. `BooksInv` adds that at most one process is going to write such
    a user's balance, that what it has read is the balance (but for its own
    deduction), that harm to an escrow has reached both parties, and that the balance is
    the opening one less and plus what the payments so far come to. The sums are
    cardinalities of sets of coins, so that one payment adds or removes one block.
  * `EscrowStatusMoves`, a property of steps: a status goes from none to held, and from held to
    released, refunded or cancelled, and nowhere else but from refunded to
    cancelled, unless the escrow is disturbed. No update compares the status it replaces;
    that it is what the operation had read is the invariant `ReadsStand`.
  * `EscrowTurns`: where operations take turns and no call fails (`InTurn`), `disturbed` stays
    empty, each escrow is paid at most once and as marked, and all books balance. The
    exemption that the other theorems make thus excuses overlaps and failures only.
  * `BreakerInv` (an open circuit has `failureCount = streak = FailureThreshold`; a
    closed one has no attempts and `failureCount = streak`; `probes = attempts` while the
    circuit is half-open) gives `BreakerTypes`, `BreakerOpensOnStreak` and
    `BreakerProbes`.
  * `QueueKeepsBreaker`: EscrowQueue's calls are steps of the breaker, its refusals
    among them.
  * `QueueBooks`: `QueueOK` says that a request under way has no row and is neither in the
    list nor in the batch, and that neither names a request twice; `PayerPays`, that
    every coin charged stands in a row.
  * `QueueHeldOnce`: if the LTRIM at the end of each pass removed what the pass has
    processed (`TrimClears`), no request would be held twice. The run `escrow_queue`
    shows that it does not; the theorem, that nothing else is wrong in this respect.
* **`LiveRoomsProofs`**
  * `SummaryTypes`: types, and that `older` always is one strict order of exactly the
    rows that are listed: no update takes a row out of the queue.
  * `SummaryOneWorker`: a claim raises the attempt number, and nothing but a retry
    lowers it, so a worker's attempt is never ahead of the job's (`NotAhead`)
    unless it is outdated; a claim is then above every worker there is.
  * `PartyOneRoom`: the count of an event's rooms is 0 or 1 with its row's state
    (`PartyInv`); one lemma, `EventTurn`, for every step a tick takes with one event.
  * `StageTypes`, `StageMeant` (`MeantInv`: the row is the intended one, and a request's
    copy agrees with it on every column that is not dirty; who wrote the co-host column also
    wrote the speakers), `StageCoHosts` (`CoHostInv`: where an invitation stands tells
    who has been revoked already).
* **`EventRemindersProofs`**
  * `ReminderTypes`: types, and that a reminder marked sent keeps no lease.
  * `RsvpCapacity`: whoever holds the event's lock and is let in has counted, and
    nobody else can commit before; cardinality of finite sets.
  * `RemindersOnce`, `RemindersHandled` (`DeliveryInv`): a learner who is not excused is in
    the hands of at most one tick, whose lease holds, and has been pushed to only if
    that tick has her among the sent or the row says so.
* **`WalletProofs`**
  * `WalletTypes`, `WalletTips` (`BookInv`: a gift about to debit has seen enough).
  * `WalletReceipts` (`ReceiptInv`: a request about to credit a receipt that is not
    unsure is the only one, and the receipt is not credited yet).
  * `WalletCoins`: `CoinsMatchRecords` speaks of users no request deals with.
    `CoinsInv` says what is in the air before: at most one gift has moved an undisturbed
    user's coins without a record, it knows the balances from before (`ReadCurrent`)
    and can restore them, and each purchase between its record and its
    credit lacks one pack (`Awaiting`, counted as a finite set).
  * `WalletTurns`: where requests take turns, tips come between them and no call fails,
    nobody is disturbed and every receipt is credited at most once.
  * `PlayOneAccount`, `PlayVipIsPaid` (`PlayInv`): a handler about to write has the account
    the row records, which never changes; one that has not missed the end serves
    an active purchase.

**Only model-checked**: the liveness properties (`EveryChargeSettles`,
`TransactionsEnd`, `HeldEnds`, `Recovers`, `JobsSettle`, `RemindersArrive`, `PartyOpens`).
They rest on fairness, hence on ENABLED, which is outside the provers' reach. The
action properties and the theorems about turns are proved and have no run of their
own; what the latter assume is met by every behaviour of one request after the
other.

## 5. Disagreements between code and documentation

Each has a run whose counterexample shows it.

1. **A 503 may leave a learner charged** (`premium_ai_unavailable`). The reply of a
   start transaction that committed can be lost; the answer is "temporarily
   unavailable". The documentation promises "not charged or successfully
   refunded", and the web client then discards the key.
2. **The stale sweep takes locks in the opposite order** (`premium_ai_ring`). The run
   `premium_ai_locks` shows that it does no lasting harm.
3. **An escrow can be paid twice** (`escrow_paid_once`): the "must be held" check and
   the write are not one step.
4. **A processed hold stays in the queue** (`escrow_queue`): `LTRIM failed -1` keeps
   what it should clear.

Noted while reading, without a run: a dispute can never be stored (the table's
CHECK; a second definition of the table in
`backend/src/database/migrations/` has `disputed` and lacks `cancelled`); the payee may cancel
(`escrow.service.ts:636`) although the controller says "Only the payer can cancel";
the catch around a hold's rollback never runs, since the client library returns
errors; a refusal such as "insufficient balance" counts as a failure of the
service, is queued and answered with success, and five of them in a row open the circuit
with the database up (`Recovers` therefore lets the circuit close only once operations cease to fail);
`escrow_release_queue` and
`escrow_refund_queue` are never read; a failed probe does not extend the
cooldown; a success from before the opening closes a cooling circuit.

Noted while modelling rooms, events and coins, also without a run:
* An upserted RSVP of someone who already attends a full event is refused as
  full, since the trigger runs as an insert and counts the learner's own row;
  `docs/events-rsvp.md:26` calls retries and status switches idempotent. The step
  `LockEvent` has it. `createRsvp` throws the database's error as it is.
* `OneWorkerPerAttempt` needs the exception of a host's retry (`outdated`):
  it sets the attempts back to 0 while a slow worker may hold attempt 1.
* The queue takes the five oldest rows that are not ready, those without an
  attempt left among them: five of them stop all retries by the queue
  (`QueueBlocked`).
* A tick takes the 50 oldest due events, those that have their room included
  (`events.service.ts:670`). The limit is documented
  (`docs/scheduled-event-language-parties.md:17`), its consequence is not: in a busy window
  a later event may be in none of the ticks of its 30 minutes. `PartyOpens` promises a
  room only to the events the limit cannot shut out (`InEveryListing`).
* `20260815223500_atomic_coin_mutations.sql` adds `add_user_coins` and
  `deduct_user_coins`; `addCoins` and `deductCoins` still read and write.
* `getBalance` answers with a fallback balance where the read fails, and `sendGift`
  goes on to write it, less the price, into the account.
* `google-play-notification.service.ts:221` notes that a cancelled subscription is
  "still active until expiry"; its notification withdraws VIP at once (`NotifyEnded`).

## 6. Not modelled

The text of prompts and reports, rate limits, metrics and logs, the deletion of
users (which deletes their runs), a conversation's messages, the escrow's and the
economy's read caches. Of the partly modelled components: Stripe and Apple events,
which the code applies in the order of their arrival, and App Store receipts; the
daily check-in and quests; captions, polls, reactions, tokens and the listing of
audio rooms, and the media server; creating and editing events. The premium AI
web client, the offline queues, the Redis lock, chat, learning features,
moderation, administration and the user interface have no module: they are mostly
rows written and shown by single statements; `PROJECT.json` gives the reasons. They
are the greater part of the repository, so the models cover a small share of its
lines; the components were chosen for their protocols, not for their size.

## 7. Plan

What is left, in this order:

1. `PremiumAiClient`: the browser's idempotency key over PremiumAi, the point from
   which a second purchase could start.
2. EscrowQueue with several replicas on one list and with restarts; its hold taken
   apart as in Escrow.
3. Escrow and coin read caches, App Store receipts, Stripe and Apple events.
4. For RoomStage and SummaryJobs what EscrowTurns and WalletTurns are for the coins:
   that the histories `dirty` and `outdated` stay empty where requests take turns.
