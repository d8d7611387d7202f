----------------------------- MODULE EventReminders -----------------------------
(***************************************************************************)
(* One event: its RSVPs, whose capacity a trigger keeps under a lock on    *)
(* the event's row (enforce_event_rsvp_mutation), and the push reminders   *)
(* of its attendees (EventsService.checkReminders).  A reminder is leased  *)
(* by claim_due_event_reminders, pushed, and marked; the marks compare the *)
(* status and not the holder of the lease, and their errors are ignored:   *)
(* the lease runs out and somebody sends again.  Events share nothing but  *)
(* the limit of a batch, which attendees of one event share as well.       *)
(***************************************************************************)
EXTENDS Integers, FiniteSets

CONSTANTS
    Attendee,       \* users who answer the invitation
    Tick,           \* checkReminders runs under way, of any replica
    Capacity,       \* max_participants
    ReminderBatch,  \* REMINDER_BATCH_SIZE, 200; here all of it is sent at once
    nobody,         \* the event's row is not locked
    FaultBound      \* bound: failed calls, crashes

ASSUME ReminderAssumption ==
    /\ IsFiniteSet(Attendee)
    /\ Capacity \in Nat
    /\ ReminderBatch \in Nat \ {0}
    /\ FaultBound \in Nat
    /\ nobody \notin Attendee

VARIABLES
    phase,      \* the event: far, soon (15 minutes), started, cancelled
    rsvp,       \* event_rsvps.status, none without a row
    request,    \* the RSVP request of a user: what it wants, where it stands
    eventLock,  \* the transaction that holds the event's row
    reminder,   \* event_reminders_sent: status, lease, next_attempt_at
    tick,       \* the claims of a tick: still to push, pushed, to try again
    handled,    \* history: pushed, or suppressed by the user's preferences
    pushed, repeated,   \* history: users pushed to, and pushed to twice
    excused,    \* history: the lease ran out on a tick, or a push went unheard
    faults

rsvps == <<rsvp, request, eventLock>>
deliveries == <<reminder, tick, handled, pushed, repeated, excused>>
reminderVars == <<phase, rsvps, deliveries, faults>>

Row == [status : {"none", "pending", "sent"},
        lease : {"free", "held", "lapsed"},
        later : BOOLEAN]        \* next_attempt_at has not come

NoWork == [claimed |-> {}, sent |-> {}, retry |-> {}]

ReminderInit ==
    /\ phase = "far"
    /\ rsvp \in [Attendee -> {"none", "interested", "attending"}]
    /\ Cardinality({u \in Attendee : rsvp[u] = "attending"}) <= Capacity
    /\ request = [u \in Attendee |-> [want |-> "none", at |-> "idle"]]
    /\ eventLock = nobody
    /\ reminder = [u \in Attendee |->
                      [status |-> "none", lease |-> "free", later |-> FALSE]]
    /\ tick = [d \in Tick |-> NoWork]
    /\ handled = {} /\ pushed = {} /\ repeated = {} /\ excused = {}
    /\ faults = 0

Glitch ==
    /\ faults < FaultBound
    /\ faults' = faults + 1

-----------------------------------------------------------------------------
(***************************************************************************)
(* RSVPs: createRsvp upserts, removeRsvp deletes (want = "none")           *)
(***************************************************************************)

\* now() is the start of the transaction, so the trigger's look at the start
\* of the event belongs to this step.
Submit(u, want) ==
    /\ request[u].at = "idle"
    /\ phase # "started"
    /\ request' = [request EXCEPT ![u] = [want |-> want, at |-> "begun"]]
    /\ UNCHANGED <<phase, rsvp, eventLock, deliveries, faults>>

Attending == {u \in Attendee : rsvp[u] = "attending"}

\* SELECT ... FOR UPDATE of the event, then the count under its lock.  Upsert
\* fires the trigger with TG_OP = 'INSERT' even where the row exists, and that
\* branch counts every row, the user's own among them.
Seats(u) == Cardinality(Attending) < Capacity

\* Defect variant: the count without the lock.
LockEventUnlocked(u) ==
    /\ request[u].at = "begun"
    /\ request' = [request EXCEPT ![u].at =
          IF phase = "cancelled" THEN "closed"
          ELSE IF request[u].want = "attending" /\ ~Seats(u) THEN "full"
          ELSE "open"]
    /\ eventLock' = u
    /\ UNCHANGED <<phase, rsvp, deliveries, faults>>

LockEvent(u) ==
    /\ eventLock = nobody
    /\ request[u].at = "begun"
    /\ request' = [request EXCEPT ![u].at =
          IF phase = "cancelled" THEN "closed"
          ELSE IF request[u].want = "attending" /\ ~Seats(u) THEN "full"
          ELSE "open"]
    /\ eventLock' = u
    /\ UNCHANGED <<phase, rsvp, deliveries, faults>>

\* The transaction ends.
EndRsvp(u) ==
    /\ eventLock' = nobody
    /\ request' = [request EXCEPT ![u] = [want |-> "none", at |-> "idle"]]
    /\ UNCHANGED <<phase, deliveries, faults>>

CommitRsvp(u) ==
    /\ request[u].at = "open"
    /\ rsvp' = [rsvp EXCEPT ![u] = request[u].want]
    /\ EndRsvp(u)

Raise(u) ==
    /\ request[u].at \in {"closed", "full"}
    /\ EndRsvp(u)
    /\ UNCHANGED rsvp

-----------------------------------------------------------------------------
(***************************************************************************)
(* The event and the clock                                                 *)
(***************************************************************************)

TimePasses ==
    /\ \/ phase = "far" /\ phase' = "soon"
       \/ phase = "soon" /\ phase' = "started"
    /\ UNCHANGED <<rsvps, deliveries, faults>>

Cancel ==
    /\ phase \in {"far", "soon"}
    /\ eventLock = nobody
    /\ phase' = "cancelled"
    /\ UNCHANGED <<rsvps, deliveries, faults>>

InHand(d) == tick[d].claimed \cup tick[d].sent \cup tick[d].retry

\* The lease of 120 seconds runs out, whether its holder is gone or slow.
LeaseLapses(u) ==
    /\ reminder[u].status = "pending"
    /\ reminder[u].lease = "held"
    /\ reminder' = [reminder EXCEPT ![u].lease = "lapsed"]
    /\ excused' = IF u \in pushed \/ \E d \in Tick : u \in InHand(d)
                  THEN excused \cup {u} ELSE excused
    /\ UNCHANGED <<phase, rsvps, tick, handled, pushed, repeated, faults>>

\* The retry delay of a minute passes.
RetryDelay(u) ==
    /\ reminder[u].later
    /\ reminder' = [reminder EXCEPT ![u].later = FALSE]
    /\ UNCHANGED <<phase, rsvps, tick, handled, pushed, repeated, excused, faults>>

-----------------------------------------------------------------------------
(***************************************************************************)
(* The reminders                                                           *)
(***************************************************************************)

\* Defect variant: a leased reminder is due as well.
DueRemindersLeased ==
    {u \in Attending :
        /\ phase = "soon"
        /\ reminder[u].status # "sent"
        /\ ~reminder[u].later}

\* Defect variant: a lease that ran out is not taken over.
DueRemindersFree ==
    {u \in Attending :
        /\ phase = "soon"
        /\ reminder[u].status # "sent"
        /\ reminder[u].lease = "free"
        /\ ~reminder[u].later}

\* Attendees whose reminder may be claimed; rows not yet there are inserted.
DueReminders ==
    {u \in Attending :
        /\ phase = "soon"
        /\ reminder[u].status # "sent"
        /\ reminder[u].lease # "held"
        /\ ~reminder[u].later}

LowerOf(m, n) == IF m < n THEN m ELSE n

\* One transaction: inserts the missing rows, leases a batch of the due ones.
Lease(S) ==
    /\ S # {}
    /\ Cardinality(S) = LowerOf(ReminderBatch, Cardinality(DueReminders))
    /\ reminder' = [u \in Attendee |->
          IF u \in S THEN [reminder[u] EXCEPT !.status = "pending",
                                              !.lease = "held"]
          ELSE IF u \in Attending /\ reminder[u].status = "none"
          THEN [reminder[u] EXCEPT !.status = "pending"]
          ELSE reminder[u]]

ClaimReminders(d) ==
    /\ tick[d] = NoWork
    /\ \E S \in SUBSET DueReminders :
          /\ Lease(S)
          /\ \/ /\ tick' = [tick EXCEPT ![d].claimed = S]
                /\ UNCHANGED faults
             \/ /\ Glitch           \* leased, but the answer is lost
                /\ UNCHANGED tick
    /\ UNCHANGED <<phase, rsvps, handled, pushed, repeated, excused>>

Settle(d, u, list) ==
    tick' = [tick EXCEPT ![d].claimed = @ \ {u}, ![d][list] = @ \cup {u}]

Deliver(u) ==
    /\ pushed' = pushed \cup {u}
    /\ repeated' = IF u \in pushed THEN repeated \cup {u} ELSE repeated
    /\ handled' = handled \cup {u}

\* sendPushNotification for one claim: sent, suppressed, or retry, which is
\* also its answer when the provider delivered and its reply was lost.
Push(d, u) ==
    /\ u \in tick[d].claimed
    /\ \/ /\ Deliver(u)
          /\ Settle(d, u, "sent")
          /\ UNCHANGED <<excused, faults>>
       \/ /\ handled' = handled \cup {u}
          /\ Settle(d, u, "sent")
          /\ UNCHANGED <<pushed, repeated, excused, faults>>
       \/ /\ Glitch
          /\ Settle(d, u, "retry")
          /\ UNCHANGED <<handled, pushed, repeated, excused>>
       \/ /\ Glitch
          /\ Deliver(u)
          /\ excused' = excused \cup {u}
          /\ Settle(d, u, "retry")
    /\ UNCHANGED <<phase, rsvps, reminder>>

\* The two updates of a batch run in parallel; a failed one is only logged.
Update(d, list, row) ==
    /\ tick[d].claimed = {}
    /\ tick[d][list] # {}
    /\ tick' = [tick EXCEPT ![d][list] = {}]
    /\ \/ /\ reminder' = [u \in Attendee |->
                IF u \in tick[d][list] /\ reminder[u].status = "pending"
                THEN row ELSE reminder[u]]
          /\ UNCHANGED faults
       \/ Glitch /\ UNCHANGED reminder
    /\ UNCHANGED <<phase, rsvps, handled, pushed, repeated, excused>>

\* Defect variant: the lease stays.
SentRowLeased == [status |-> "sent", lease |-> "held", later |-> FALSE]

SentRow == [status |-> "sent", lease |-> "free", later |-> FALSE]

RetryRow == [status |-> "pending", lease |-> "free", later |-> TRUE]

MarkSent(d) == Update(d, "sent", SentRow)

\* Defect variant: reminders to try again are marked as sent.
ReleaseSent(d) == Update(d, "retry", SentRow)

Release(d) == Update(d, "retry", RetryRow)

\* The replica stops in the middle of a tick.
StopTick(d) ==
    /\ tick[d] # NoWork
    /\ Glitch
    /\ tick' = [tick EXCEPT ![d] = NoWork]
    /\ UNCHANGED <<phase, rsvps, reminder, handled, pushed, repeated, excused>>

-----------------------------------------------------------------------------
TickStep(d) ==
    \/ ClaimReminders(d) \/ MarkSent(d) \/ Release(d)
    \/ \E u \in Attendee : Push(d, u)

RsvpStep(u) == LockEvent(u) \/ CommitRsvp(u) \/ Raise(u)

\* What happens while the users of U answer and the ticks of D run.
ReminderStep(U, D) ==
    \/ TimePasses \/ Cancel
    \/ \E u \in U :
          \/ \E want \in {"none", "interested", "attending"} : Submit(u, want)
          \/ RsvpStep(u)
    \/ \E u \in Attendee : LeaseLapses(u) \/ RetryDelay(u)
    \/ \E d \in D : TickStep(d) \/ StopTick(d)

ReminderNext == ReminderStep(Attendee, Tick)

ReminderSpec == ReminderInit /\ [][ReminderNext]_reminderVars

\* Ticks come and their calls return, time passes.  Nothing is assumed of the
\* users, and the event need not start.
ReminderFairness ==
    /\ \A d \in Tick : WF_reminderVars(TickStep(d))
    /\ \A u \in Attendee :
          /\ WF_reminderVars(RsvpStep(u))
          /\ WF_reminderVars(LeaseLapses(u))
          /\ WF_reminderVars(RetryDelay(u))

-----------------------------------------------------------------------------
(***************************************************************************)
(* Properties                                                              *)
(***************************************************************************)

\* Types; a sent reminder holds no lease.
ReminderTypeOK ==
    /\ phase \in {"far", "soon", "started", "cancelled"}
    /\ rsvp \in [Attendee -> {"none", "interested", "attending"}]
    /\ request \in [Attendee -> [want : {"none", "interested", "attending"},
                     at : {"idle", "begun", "open", "full", "closed"}]]
    /\ eventLock \in Attendee \cup {nobody}
    /\ reminder \in [Attendee -> Row]
    /\ \A u \in Attendee : reminder[u].status = "sent" => reminder[u].lease = "free"
    /\ tick \in [Tick -> [claimed : SUBSET Attendee, sent : SUBSET Attendee,
                          retry : SUBSET Attendee]]
    /\ handled \subseteq Attendee /\ pushed \subseteq Attendee
    /\ repeated \subseteq Attendee /\ excused \subseteq Attendee
    /\ faults \in 0..FaultBound

\* Concurrent requests for the last seat: never more attendees than the
\* event's capacity (trigger enforce_event_rsvp_mutation).
CapacityKept == Cardinality(Attending) <= Capacity

\* A learner is reminded twice only where the lease ran out in the hands of a
\* slow or stopped tick, after a push that could not be marked, or where the
\* provider's answer was lost, however ticks and replicas overlap
\* (event-reminder-push-delivery.md, "Delivery state and concurrency").
RemindedOnce == repeated \subseteq excused

\* A reminder that is marked sent was pushed or suppressed by preferences, also
\* where a late tick releases or marks what another tick has claimed.
SentWasHandled ==
    \A u \in Attendee : reminder[u].status = "sent" => u \in handled

\* An attendee of an event that is near is reminded, whatever ticks crash or
\* calls fail, unless the event starts or is cancelled or the user withdraws.
RemindersArrive ==
    \A u \in Attendee :
        (phase = "soon" /\ rsvp[u] = "attending") ~>
            (reminder[u].status = "sent" \/ phase # "soon" \/ rsvp[u] # "attending")

=============================================================================
