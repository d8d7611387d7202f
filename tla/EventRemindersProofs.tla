------------------------ MODULE EventRemindersProofs ------------------------
(***************************************************************************)
(* Theorems about EventReminders, for any capacity, batch, number of       *)
(* attendees and of ticks under way.                                       *)
(***************************************************************************)
EXTENDS EventReminders, FiniteSetTheorems, TLAPS

Status3 == {"none", "interested", "attending"}

RequestType == [want : Status3, at : {"idle", "begun", "open", "full", "closed"}]

-----------------------------------------------------------------------------
(***************************************************************************)
(* RSVPs.  The holder of the event's row, and only it, has looked at the   *)
(* seats; nobody can take a seat until it commits.                         *)
(***************************************************************************)
RsvpInv ==
    /\ rsvp \in [Attendee -> Status3]
    /\ request \in [Attendee -> RequestType]
    /\ eventLock \in Attendee \cup {nobody}
    /\ \A u \in Attendee :
          request[u].at \in {"open", "full", "closed"} => eventLock = u
    /\ \A u \in Attendee :
          request[u].at = "open" /\ request[u].want = "attending" => Seats(u)
    /\ CapacityKept

LEMMA AttendingFinite ==
    IsFiniteSet(Attending) /\ Cardinality(Attending) \in Nat
  BY ReminderAssumption, FS_Subset, FS_CardinalityType DEF Attending

LEMMA RequestIdle == [want |-> "none", at |-> "idle"] \in RequestType
  BY DEF RequestType, Status3

LEMMA InitRsvpInv == ReminderInit => RsvpInv
  <1> SUFFICES ASSUME ReminderInit PROVE RsvpInv
    OBVIOUS
  <1>1. CapacityKept
    BY DEF ReminderInit, CapacityKept, Attending
  <1>2. QED
    BY <1>1, RequestIdle DEF ReminderInit, RsvpInv, Status3

LEMMA SubmitKeeps ==
    ASSUME RsvpInv, NEW u \in Attendee, NEW want \in Status3, Submit(u, want)
    PROVE  RsvpInv'
  <1>1. [want |-> want, at |-> "begun"] \in RequestType
    BY DEF RequestType
  <1>2. /\ request' = [request EXCEPT ![u] = [want |-> want, at |-> "begun"]]
        /\ rsvp' = rsvp /\ eventLock' = eventLock
    BY DEF Submit
  <1>3. Attending' = Attending
    BY <1>2 DEF Attending
  <1>4. QED
    BY <1>1, <1>2, <1>3 DEF RsvpInv, Seats, CapacityKept

LEMMA LockKeeps ==
    ASSUME RsvpInv, NEW u \in Attendee, LockEvent(u)
    PROVE  RsvpInv'
  <1> DEFINE at == IF phase = "cancelled" THEN "closed"
                   ELSE IF request[u].want = "attending" /\ ~Seats(u) THEN "full"
                   ELSE "open"
  <1>1. /\ eventLock = nobody /\ eventLock' = u /\ rsvp' = rsvp
        /\ request' = [request EXCEPT ![u].at = at]
    BY DEF LockEvent
  <1>2. Attending' = Attending
    BY <1>1 DEF Attending
  <1>3. \A v \in Attendee : request[v].at \in {"idle", "begun"}
    BY <1>1, ReminderAssumption DEF RsvpInv, RequestType
  <1>4. /\ request[u] \in RequestType
        /\ at \in {"open", "full", "closed"}
        /\ at = "open" /\ request[u].want = "attending" => Seats(u)
    BY DEF RsvpInv
  <1>5. /\ request' \in [Attendee -> RequestType]
        /\ request'[u].want = request[u].want /\ request'[u].at = at
        /\ \A v \in Attendee \ {u} : request'[v] = request[v]
    <2> HIDE DEF at
    <2> QED
      BY <1>1, <1>4 DEF RsvpInv, RequestType
  <1>6. Seats(u)' <=> Seats(u)
    BY <1>2 DEF Seats
  <1>7. QED
    <2> HIDE DEF at
    <2>1. \A v \in Attendee :
              request'[v].at \in {"open", "full", "closed"} => eventLock' = v
      BY <1>1, <1>3, <1>5
    <2>2. \A v \in Attendee :
              request'[v].at = "open" /\ request'[v].want = "attending" => Seats(v)'
      BY <1>3, <1>4, <1>5, <1>6
    <2>3. CapacityKept'
      BY <1>2 DEF RsvpInv, CapacityKept
    <2>4. QED
      BY <1>1, <1>5, <2>1, <2>2, <2>3 DEF RsvpInv

LEMMA EndKeeps ==
    ASSUME RsvpInv, NEW u \in Attendee, CommitRsvp(u) \/ Raise(u)
    PROVE  RsvpInv'
  <1>1. /\ eventLock = u
        /\ eventLock' = nobody
        /\ request' = [request EXCEPT ![u] = [want |-> "none", at |-> "idle"]]
    BY DEF RsvpInv, CommitRsvp, Raise, EndRsvp
  <1>2. request' \in [Attendee -> RequestType]
    BY <1>1, RequestIdle DEF RsvpInv
  <1>3. \A v \in Attendee : request'[v].at \notin {"open", "full", "closed"}
    BY <1>1 DEF RsvpInv
  <1>4. CASE CommitRsvp(u)
    <2>1. rsvp' = [rsvp EXCEPT ![u] = request[u].want]
      BY <1>4 DEF CommitRsvp
    <2>2. request[u].want \in Status3
      BY DEF RsvpInv, RequestType
    <2>3. rsvp' \in [Attendee -> Status3]
      BY <2>1, <2>2 DEF RsvpInv
    <2>4. CapacityKept'
      <3>1. CASE request[u].want = "attending"
        <4>1. Attending' \subseteq Attending \cup {u}
          BY <2>1 DEF Attending, RsvpInv
        <4>2. Cardinality(Attending) < Capacity
          BY <3>1, <1>4 DEF RsvpInv, CommitRsvp, Seats
        <4>3. /\ IsFiniteSet(Attending \cup {u})
              /\ Cardinality(Attending \cup {u}) <= Cardinality(Attending) + 1
              /\ Cardinality(Attending \cup {u}) \in Nat
          <5>1. /\ IsFiniteSet(Attending \cup {u})
                /\ \/ Cardinality(Attending \cup {u}) = Cardinality(Attending)
                   \/ Cardinality(Attending \cup {u}) = Cardinality(Attending) + 1
            BY AttendingFinite, FS_AddElement
          <5>2. QED
            BY <5>1, AttendingFinite
        <4>4. Cardinality(Attending') <= Cardinality(Attending \cup {u})
              /\ Cardinality(Attending') \in Nat
          BY <4>1, <4>3, FS_Subset, FS_CardinalityType
        <4>5. QED
          BY <4>2, <4>3, <4>4, AttendingFinite, ReminderAssumption DEF CapacityKept
      <3>2. CASE request[u].want # "attending"
        <4>1. Attending' \subseteq Attending
          BY <2>1, <3>2 DEF Attending, RsvpInv
        <4>2. Cardinality(Attending') <= Cardinality(Attending)
              /\ Cardinality(Attending') \in Nat
          BY <4>1, AttendingFinite, FS_Subset, FS_CardinalityType
        <4>3. QED
          BY <4>2, AttendingFinite, ReminderAssumption DEF CapacityKept, RsvpInv
      <3>3. QED
        BY <3>1, <3>2
    <2>5. QED
      BY <1>1, <1>2, <1>3, <2>3, <2>4 DEF RsvpInv
  <1>5. CASE Raise(u)
    <2>1. rsvp' = rsvp
      BY <1>5 DEF Raise
    <2>2. CapacityKept'
      BY <2>1 DEF RsvpInv, CapacityKept, Attending
    <2>3. QED
      BY <1>1, <1>2, <1>3, <2>1, <2>2 DEF RsvpInv
  <1>6. QED
    BY <1>4, <1>5

LEMMA RsvpsStay ==
    ASSUME RsvpInv, UNCHANGED rsvps
    PROVE  RsvpInv'
  BY DEF RsvpInv, rsvps, Seats, CapacityKept, Attending

LEMMA NextRsvpInv == RsvpInv /\ [ReminderNext]_reminderVars => RsvpInv'
  <1> SUFFICES ASSUME RsvpInv, [ReminderNext]_reminderVars PROVE RsvpInv'
    OBVIOUS
  <1>1. ASSUME NEW u \in Attendee, NEW want \in Status3, Submit(u, want)
        PROVE  RsvpInv'
    BY <1>1, SubmitKeeps
  <1>2. ASSUME NEW u \in Attendee, RsvpStep(u) PROVE RsvpInv'
    BY <1>2, LockKeeps, EndKeeps DEF RsvpStep
  <1>3. CASE TimePasses \/ Cancel
    BY <1>3, RsvpsStay DEF TimePasses, Cancel
  <1>4. ASSUME NEW u \in Attendee, LeaseLapses(u) \/ RetryDelay(u) PROVE RsvpInv'
    BY <1>4, RsvpsStay DEF LeaseLapses, RetryDelay
  <1>5. ASSUME NEW d \in Tick, TickStep(d) \/ StopTick(d) PROVE RsvpInv'
    BY <1>5, RsvpsStay
    DEF TickStep, ClaimReminders, MarkSent, Release, Update, Push, StopTick
  <1>6. CASE UNCHANGED reminderVars
    BY <1>6, RsvpsStay DEF reminderVars
  <1>7. QED
    BY <1>1, <1>2, <1>3, <1>4, <1>5, <1>6 DEF ReminderNext, ReminderStep, Status3

\* However many requests for however many seats are under way, the event never
\* has more attendees than its capacity.
THEOREM RsvpCapacity == ReminderSpec => []CapacityKept
  <1>1. RsvpInv => CapacityKept
    BY DEF RsvpInv
  <1>2. QED
    BY <1>1, InitRsvpInv, NextRsvpInv, PTL DEF ReminderSpec

-----------------------------------------------------------------------------
(***************************************************************************)
(* Reminders.  A tick that has an attendee in hand holds the lease and is  *)
(* the only one, in one of its three lists only, unless the lease ran out  *)
(* on it (excused).  So whoever was pushed to is marked, or waits for the  *)
(* mark under a lease.                                                     *)
(***************************************************************************)
Work == [claimed : SUBSET Attendee, sent : SUBSET Attendee, retry : SUBSET Attendee]

DeliveryTypes ==
    /\ reminder \in [Attendee -> Row]
    /\ \A u \in Attendee : reminder[u].status = "sent" => reminder[u].lease = "free"
    /\ tick \in [Tick -> Work]
    /\ handled \subseteq Attendee /\ pushed \subseteq Attendee
    /\ repeated \subseteq Attendee /\ excused \subseteq Attendee

\* A reminder is marked only with what was handled.
MarksHandled ==
    /\ \A d \in Tick : tick[d].sent \subseteq handled
    /\ SentWasHandled

Leased(u) == reminder[u].status = "pending" /\ reminder[u].lease = "held"

InOneList(d, u) ==
    /\ u \in tick[d].claimed => u \notin tick[d].sent \cup tick[d].retry
    /\ u \in tick[d].sent => u \notin tick[d].retry

HeldOnce(u) ==
    \A d \in Tick :
        u \in InHand(d) =>
            /\ Leased(u)
            /\ InOneList(d, u)
            /\ \A e \in Tick \ {d} : u \notin InHand(e)

PushedOnce(u) ==
    /\ u \in pushed =>
          \/ reminder[u].status = "sent"
          \/ Leased(u) /\ \A d \in Tick : u \notin tick[d].claimed \cup tick[d].retry
    /\ u \notin repeated

DeliveryInv ==
    /\ DeliveryTypes
    /\ MarksHandled
    /\ \A u \in Attendee \ excused : HeldOnce(u) /\ PushedOnce(u)

LEMMA InitDeliveryInv == ReminderInit => DeliveryInv
  BY DEF ReminderInit, DeliveryInv, DeliveryTypes, MarksHandled, SentWasHandled,
         HeldOnce, PushedOnce, InHand, NoWork, Work, Row

\* Nothing that the invariant speaks of changes.
LEMMA DeliveriesStay ==
    ASSUME DeliveryInv, UNCHANGED deliveries
    PROVE  DeliveryInv'
  BY DEF DeliveryInv, deliveries, DeliveryTypes, MarksHandled, SentWasHandled,
         HeldOnce, PushedOnce, InHand, Leased, InOneList

LEMMA LapseKeeps ==
    ASSUME DeliveryInv, NEW v \in Attendee, LeaseLapses(v)
    PROVE  DeliveryInv'
  <1>1. /\ reminder[v] \in Row /\ reminder[v].status = "pending"
        /\ reminder' = [reminder EXCEPT ![v].lease = "lapsed"]
        /\ UNCHANGED <<tick, handled, pushed, repeated>>
        /\ excused' = IF v \in pushed \/ \E d \in Tick : v \in InHand(d)
                      THEN excused \cup {v} ELSE excused
    BY DEF LeaseLapses, DeliveryInv, DeliveryTypes
  <1>2. /\ reminder' \in [Attendee -> Row]
        /\ reminder'[v].status = "pending"
        /\ \A u \in Attendee \ {v} : reminder'[u] = reminder[u]
    BY <1>1 DEF DeliveryInv, DeliveryTypes, Row
  <1>3. DeliveryTypes' /\ MarksHandled'
    BY <1>1, <1>2 DEF DeliveryInv, DeliveryTypes, MarksHandled, SentWasHandled
  <1>4. ASSUME NEW u \in Attendee \ excused'
        PROVE  HeldOnce(u)' /\ PushedOnce(u)'
    <2>1. u \notin excused /\ HeldOnce(u) /\ PushedOnce(u)
      BY <1>1 DEF DeliveryInv
    <2>2. CASE u = v
      <3>1. u \notin pushed /\ \A d \in Tick : u \notin InHand(d)
        BY <1>1, <2>2
      <3>2. QED
        BY <2>1, <3>1, <1>1 DEF HeldOnce, PushedOnce, InHand
    <2>3. CASE u # v
      BY <2>1, <2>3, <1>1, <1>2
      DEF HeldOnce, PushedOnce, InHand, Leased, InOneList
    <2>4. QED
      BY <2>2, <2>3
  <1>5. QED
    BY <1>3, <1>4 DEF DeliveryInv

LEMMA DelayKeeps ==
    ASSUME DeliveryInv, NEW v \in Attendee, RetryDelay(v)
    PROVE  DeliveryInv'
  <1>1. /\ reminder' = [reminder EXCEPT ![v].later = FALSE]
        /\ UNCHANGED <<tick, handled, pushed, repeated, excused>>
    BY DEF RetryDelay
  <1>2. /\ reminder' \in [Attendee -> Row]
        /\ \A u \in Attendee : /\ reminder'[u].status = reminder[u].status
                               /\ reminder'[u].lease = reminder[u].lease
    BY <1>1 DEF DeliveryInv, DeliveryTypes, Row
  <1>3. QED
    BY <1>1, <1>2
    DEF DeliveryInv, DeliveryTypes, MarksHandled, SentWasHandled,
        HeldOnce, PushedOnce, InHand, Leased, InOneList

LEMMA StopTickKeeps ==
    ASSUME DeliveryInv, NEW d \in Tick, StopTick(d)
    PROVE  DeliveryInv'
  <1>1. /\ tick' = [tick EXCEPT ![d] = NoWork]
        /\ UNCHANGED <<reminder, handled, pushed, repeated, excused>>
    BY DEF StopTick
  <1>2. /\ tick' \in [Tick -> Work]
        /\ tick'[d] = NoWork
        /\ \A e \in Tick \ {d} : tick'[e] = tick[e]
    BY <1>1 DEF DeliveryInv, DeliveryTypes, NoWork, Work
  <1>3. QED
    BY <1>1, <1>2
    DEF DeliveryInv, DeliveryTypes, MarksHandled, SentWasHandled, NoWork,
        HeldOnce, PushedOnce, InHand, Leased, InOneList

\* The rows a claim writes are of attendees nobody holds.
LEMMA LeaseWrites ==
    ASSUME DeliveryInv, NEW S \in SUBSET DueReminders, Lease(S)
    PROVE  /\ reminder' \in [Attendee -> Row]
           /\ \A u \in S : /\ reminder[u].status # "sent"
                           /\ reminder[u].lease # "held"
                           /\ Leased(u)'
           /\ \A u \in Attendee \ S :
                 \/ reminder'[u] = reminder[u]
                 \/ reminder[u].status = "none" /\ reminder'[u].status = "pending"
  <1>1. \A u \in Attendee : reminder[u] \in Row
    BY DEF DeliveryInv, DeliveryTypes
  <1>2. reminder' = [u \in Attendee |->
            IF u \in S THEN [reminder[u] EXCEPT !.status = "pending", !.lease = "held"]
            ELSE IF u \in Attending /\ reminder[u].status = "none"
            THEN [reminder[u] EXCEPT !.status = "pending"]
            ELSE reminder[u]]
    BY DEF Lease
  <1>3. S \subseteq Attendee
    BY DEF DueReminders, Attending
  <1>4. \A u \in Attendee :
            /\ [reminder[u] EXCEPT !.status = "pending", !.lease = "held"] \in Row
            /\ [reminder[u] EXCEPT !.status = "pending"] \in Row
            /\ [reminder[u] EXCEPT !.status = "pending"].status = "pending"
    BY <1>1 DEF Row
  <1>5. \A u \in Attendee :
            LET new == [reminder[u] EXCEPT !.status = "pending", !.lease = "held"]
            IN  new.status = "pending" /\ new.lease = "held"
    BY <1>1 DEF Row
  <1>6. reminder' \in [Attendee -> Row]
    BY <1>1, <1>2, <1>4
  <1>7. \A u \in S : Leased(u)'
    BY <1>2, <1>3, <1>5 DEF Leased
  <1>8. \A u \in S : reminder[u].status # "sent" /\ reminder[u].lease # "held"
    BY DEF DueReminders
  <1>9. \A u \in Attendee \ S :
            \/ reminder'[u] = reminder[u]
            \/ reminder[u].status = "none" /\ reminder'[u].status = "pending"
    BY <1>2, <1>4
  <1>10. QED
    BY <1>6, <1>7, <1>8, <1>9

LEMMA ClaimKeeps ==
    ASSUME DeliveryInv, NEW d \in Tick, ClaimReminders(d)
    PROVE  DeliveryInv'
  <1>1. PICK S \in SUBSET DueReminders :
            /\ Lease(S)
            /\ \/ tick' = [tick EXCEPT ![d].claimed = S]
               \/ tick' = tick
    BY DEF ClaimReminders
  <1>2. /\ tick[d] = NoWork
        /\ UNCHANGED <<handled, pushed, repeated, excused>>
    BY DEF ClaimReminders
  <1>3. /\ reminder' \in [Attendee -> Row]
        /\ \A u \in S : /\ reminder[u].status # "sent"
                        /\ reminder[u].lease # "held"
                        /\ Leased(u)'
        /\ \A u \in Attendee \ S :
              \/ reminder'[u] = reminder[u]
              \/ reminder[u].status = "none" /\ reminder'[u].status = "pending"
    BY <1>1, LeaseWrites
  <1>4. S \subseteq Attendee
    BY DEF DueReminders, Attending
  <1>5. /\ tick' \in [Tick -> Work]
        /\ \A e \in Tick \ {d} : tick'[e] = tick[e]
        /\ tick'[d].claimed \in {S, {}} /\ tick'[d].sent = {} /\ tick'[d].retry = {}
    BY <1>1, <1>2, <1>4 DEF DeliveryInv, DeliveryTypes, NoWork, Work
  <1>6. DeliveryTypes' /\ MarksHandled'
    BY <1>2, <1>3, <1>4, <1>5
    DEF DeliveryInv, DeliveryTypes, MarksHandled, SentWasHandled, Leased
  <1>7. ASSUME NEW u \in Attendee \ excused
        PROVE  HeldOnce(u)' /\ PushedOnce(u)'
    <2>1. HeldOnce(u) /\ PushedOnce(u)
      BY DEF DeliveryInv
    <2>2. CASE u \in S
      <3>1. (\A e \in Tick : u \notin InHand(e)) /\ u \notin pushed /\ u \notin repeated
        BY <2>1, <2>2, <1>3 DEF HeldOnce, PushedOnce, Leased
      <3>2. QED
        BY <2>2, <3>1, <1>2, <1>3, <1>5 DEF HeldOnce, PushedOnce, InHand, InOneList
    <2>3. CASE u \notin S
      <3>1. /\ u \notin InHand(d)'
            /\ \A e \in Tick \ {d} : InHand(e)' = InHand(e)
        BY <2>3, <1>5 DEF InHand
      <3>2. /\ Leased(u) => Leased(u)'
            /\ reminder[u].status = "sent" => reminder'[u].status = "sent"
        BY <2>3, <1>3 DEF Leased
      <3>3. HeldOnce(u)'
        BY <2>1, <3>1, <3>2, <1>5 DEF HeldOnce, InOneList
      <3>4. PushedOnce(u)'
        BY <2>1, <2>3, <3>2, <1>2, <1>5 DEF PushedOnce
      <3>5. QED
        BY <3>3, <3>4
    <2>4. QED
      BY <2>2, <2>3
  <1>8. QED
    BY <1>2, <1>6, <1>7 DEF DeliveryInv

\* One claim moves from claimed to one of the other lists.
LEMMA SettleSent ==
    ASSUME tick \in [Tick -> Work], NEW d \in Tick, NEW u,
           u \in tick[d].claimed, Settle(d, u, "sent")
    PROVE  /\ tick' \in [Tick -> Work]
           /\ \A e \in Tick \ {d} : tick'[e] = tick[e]
           /\ tick'[d].claimed = tick[d].claimed \ {u}
           /\ tick'[d].sent = tick[d].sent \cup {u}
           /\ tick'[d].retry = tick[d].retry
  <1>1. tick[d] \in Work /\ u \in Attendee
    BY DEF Work
  <1>2. tick' = [tick EXCEPT ![d].claimed = @ \ {u}, ![d].sent = @ \cup {u}]
    BY DEF Settle
  <1>3. QED
    BY <1>1, <1>2 DEF Work

LEMMA SettleRetry ==
    ASSUME tick \in [Tick -> Work], NEW d \in Tick, NEW u,
           u \in tick[d].claimed, Settle(d, u, "retry")
    PROVE  /\ tick' \in [Tick -> Work]
           /\ \A e \in Tick \ {d} : tick'[e] = tick[e]
           /\ tick'[d].claimed = tick[d].claimed \ {u}
           /\ tick'[d].retry = tick[d].retry \cup {u}
           /\ tick'[d].sent = tick[d].sent
  <1>1. tick[d] \in Work /\ u \in Attendee
    BY DEF Work
  <1>2. tick' = [tick EXCEPT ![d].claimed = @ \ {u}, ![d].retry = @ \cup {u}]
    BY DEF Settle
  <1>3. QED
    BY <1>1, <1>2 DEF Work

\* What a push does: delivered, suppressed, failed, delivered but unheard.
PushOutcome(u, list) ==
    /\ reminder' = reminder
    /\ \/ list = "sent" /\ Deliver(u) /\ excused' = excused
       \/ list = "sent" /\ handled' = handled \cup {u}
             /\ UNCHANGED <<pushed, repeated, excused>>
       \/ list = "retry" /\ UNCHANGED <<handled, pushed, repeated, excused>>
       \/ list = "retry" /\ Deliver(u) /\ excused' = excused \cup {u}

LEMMA PushKeeps ==
    ASSUME DeliveryInv, NEW d \in Tick, NEW v \in Attendee, Push(d, v)
    PROVE  DeliveryInv'
  <1>1. v \in tick[d].claimed /\ tick \in [Tick -> Work]
    BY DEF Push, DeliveryInv, DeliveryTypes
  <1>2. PICK list \in {"sent", "retry"} : Settle(d, v, list) /\ PushOutcome(v, list)
    <2>1. reminder' = reminder
      BY DEF Push
    <2>2. \/ Settle(d, v, "sent") /\ PushOutcome(v, "sent")
          \/ Settle(d, v, "retry") /\ PushOutcome(v, "retry")
      BY <2>1 DEF Push, PushOutcome
    <2>3. QED
      BY <2>2
  <1>3. /\ tick' \in [Tick -> Work]
        /\ \A e \in Tick \ {d} : tick'[e] = tick[e]
        /\ tick'[d].claimed = tick[d].claimed \ {v}
        /\ tick'[d].sent = IF list = "sent" THEN tick[d].sent \cup {v}
                                            ELSE tick[d].sent
        /\ tick'[d].retry = IF list = "retry" THEN tick[d].retry \cup {v}
                                              ELSE tick[d].retry
    <2>1. CASE list = "sent"
      <3>1. Settle(d, v, "sent")
        BY <1>2, <2>1
      <3>2. QED
        BY <1>1, <2>1, <3>1, SettleSent
    <2>2. CASE list = "retry"
      <3>1. Settle(d, v, "retry")
        BY <1>2, <2>2
      <3>2. QED
        BY <1>1, <2>2, <3>1, SettleRetry
    <2>3. QED
      BY <2>1, <2>2
  <1>4. /\ handled \subseteq handled' /\ (list = "sent" => v \in handled')
        /\ handled' \subseteq handled \cup {v}
        /\ pushed' \in {pushed, pushed \cup {v}}
        /\ \A u \in Attendee \ {v} :
              /\ u \in pushed' <=> u \in pushed
              /\ u \in repeated' <=> u \in repeated
              /\ u \in excused' <=> u \in excused
        /\ excused \subseteq excused' /\ excused' \subseteq Attendee
        /\ repeated' \subseteq Attendee /\ pushed' \subseteq Attendee
    BY <1>2 DEF PushOutcome, Deliver, DeliveryInv, DeliveryTypes
  <1>5. DeliveryTypes' /\ MarksHandled'
    <2>1. \A e \in Tick : tick'[e].sent \subseteq handled'
      BY <1>3, <1>4 DEF DeliveryInv, MarksHandled
    <2>2. reminder' = reminder
      BY <1>2 DEF PushOutcome
    <2>3. QED
      BY <1>3, <1>4, <2>1, <2>2
      DEF DeliveryInv, DeliveryTypes, MarksHandled, SentWasHandled
  <1>6. \A e \in Tick : InHand(e)' = InHand(e)
    BY <1>1, <1>3 DEF InHand
  <1>7. \A u : Leased(u)' <=> Leased(u)
    BY <1>2 DEF PushOutcome, Leased
  <1>8. ASSUME NEW u \in Attendee \ excused'
        PROVE  HeldOnce(u)' /\ PushedOnce(u)'
    <2>1. u \notin excused /\ HeldOnce(u) /\ PushedOnce(u)
      BY <1>4 DEF DeliveryInv
    <2>2. CASE u # v
      <3>1. \A e \in Tick : /\ InOneList(e, u)' <=> InOneList(e, u)
                            /\ u \in tick'[e].claimed <=> u \in tick[e].claimed
                            /\ u \in tick'[e].retry <=> u \in tick[e].retry
        BY <2>2, <1>3 DEF InOneList
      <3>2. HeldOnce(u)'
        BY <2>1, <3>1, <1>6, <1>7 DEF HeldOnce
      <3>3. PushedOnce(u)'
        BY <2>1, <2>2, <3>1, <1>2, <1>4, <1>7 DEF PushedOnce, PushOutcome
      <3>4. QED
        BY <3>2, <3>3
    <2>3. CASE u = v
      <3>1. /\ Leased(u) /\ InOneList(d, u)
            /\ \A e \in Tick \ {d} : u \notin InHand(e)
            /\ u \notin tick[d].sent /\ u \notin tick[d].retry
            /\ u \notin pushed /\ u \notin repeated
            /\ reminder[u].status # "sent"
        BY <2>1, <2>3, <1>1 DEF HeldOnce, PushedOnce, InHand, InOneList, Leased
      <3>2. InOneList(d, u)' /\ u \notin tick'[d].claimed
        BY <2>3, <3>1, <1>3 DEF InOneList
      <3>3. HeldOnce(u)'
        BY <3>1, <3>2, <1>6, <1>7 DEF HeldOnce
      <3>4. u \notin repeated' /\ (u \in pushed' => list = "sent")
        BY <2>1, <2>3, <3>1, <1>2, <1>8 DEF PushOutcome, Deliver
      <3>5. PushedOnce(u)'
        <4>1. list = "sent" => \A e \in Tick : u \notin tick'[e].claimed \cup tick'[e].retry
          BY <3>1, <3>2, <1>3 DEF InHand
        <4>2. QED
          BY <3>1, <3>4, <4>1, <1>7 DEF PushedOnce
      <3>6. QED
        BY <3>3, <3>5
    <2>4. QED
      BY <2>2, <2>3
  <1>9. QED
    BY <1>5, <1>8 DEF DeliveryInv

\* Marks touch only rows that are pending, in the hand of this tick or of one
\* that has taken over from it.
LEMMA MarkKeeps ==
    ASSUME DeliveryInv, NEW d \in Tick, MarkSent(d) \/ Release(d)
    PROVE  DeliveryInv'
  <1>1. PICK list \in {"sent", "retry"}, row \in {SentRow, RetryRow} :
            /\ list = "sent" <=> row = SentRow
            /\ tick[d].claimed = {}
            /\ tick' = [tick EXCEPT ![d][list] = {}]
            /\ \/ reminder' = reminder
               \/ reminder' = [u \in Attendee |->
                     IF u \in tick[d][list] /\ reminder[u].status = "pending"
                     THEN row ELSE reminder[u]]
            /\ UNCHANGED <<handled, pushed, repeated, excused>>
    <2>1. SentRow # RetryRow
      BY DEF SentRow, RetryRow
    <2>2. CASE MarkSent(d)
      BY <2>1, <2>2 DEF MarkSent, Update
    <2>3. CASE Release(d)
      BY <2>1, <2>3 DEF Release, Update
    <2>4. QED
      BY <2>2, <2>3
  <1>2. /\ tick' \in [Tick -> Work]
        /\ \A e \in Tick \ {d} : tick'[e] = tick[e]
        /\ tick'[d].claimed = {}
        /\ tick'[d].sent = IF list = "sent" THEN {} ELSE tick[d].sent
        /\ tick'[d].retry = IF list = "retry" THEN {} ELSE tick[d].retry
    <2>1. tick \in [Tick -> Work]
      BY DEF DeliveryInv, DeliveryTypes
    <2>2. CASE list = "sent"
      <3>1. tick' = [tick EXCEPT ![d].sent = {}]
        BY <1>1, <2>2
      <3>2. QED
        BY <3>1, <2>1, <2>2, <1>1 DEF Work
    <2>3. CASE list = "retry"
      <3>1. tick' = [tick EXCEPT ![d].retry = {}]
        BY <1>1, <2>3
      <3>2. QED
        BY <3>1, <2>1, <2>3, <1>1 DEF Work
    <2>4. QED
      BY <2>2, <2>3
  <1>3. /\ row \in Row
        /\ row.status = "sent" <=> list = "sent"
        /\ row.lease = "free"
    <2>1. /\ SentRow \in Row /\ RetryRow \in Row
          /\ SentRow.status = "sent" /\ RetryRow.status # "sent"
          /\ SentRow.lease = "free" /\ RetryRow.lease = "free"
      BY DEF SentRow, RetryRow, Row
    <2>2. QED
      BY <1>1, <2>1
  <1>4. /\ reminder' \in [Attendee -> Row]
        /\ \A u \in Attendee : \/ reminder'[u] = reminder[u]
                               \/ /\ u \in tick[d][list]
                                  /\ reminder[u].status = "pending"
                                  /\ reminder'[u] = row
    BY <1>1, <1>3 DEF DeliveryInv, DeliveryTypes
  <1>5. tick[d].sent \subseteq handled
    BY DEF DeliveryInv, MarksHandled
  <1>6. DeliveryTypes' /\ MarksHandled'
    <2>1. DeliveryTypes'
      BY <1>1, <1>2, <1>3, <1>4 DEF DeliveryInv, DeliveryTypes
    <2>2. \A e \in Tick : tick'[e].sent \subseteq handled'
      BY <1>1, <1>2 DEF DeliveryInv, MarksHandled
    <2>3. SentWasHandled'
      BY <1>1, <1>3, <1>4, <1>5 DEF DeliveryInv, MarksHandled, SentWasHandled
    <2>4. QED
      BY <2>1, <2>2, <2>3 DEF MarksHandled
  <1>7. ASSUME NEW u \in Attendee \ excused
        PROVE  HeldOnce(u)' /\ PushedOnce(u)'
    <2>1. HeldOnce(u) /\ PushedOnce(u)
      BY DEF DeliveryInv
    <2>2. CASE u \in tick[d][list]
      <3>1. /\ Leased(u) /\ InOneList(d, u)
            /\ \A e \in Tick \ {d} : u \notin InHand(e)
        <4>1. u \in InHand(d)
          BY <2>2, <1>1 DEF InHand
        <4>2. QED
          BY <2>1, <4>1 DEF HeldOnce
      <3>2. \A e \in Tick : u \notin InHand(e)'
        BY <2>2, <3>1, <1>1, <1>2 DEF InHand, InOneList
      <3>3. HeldOnce(u)'
        BY <3>2 DEF HeldOnce
      <3>4. u \in pushed => list = "sent"
        BY <2>1, <2>2, <3>1, <1>1 DEF PushedOnce, Leased
      <3>5. list = "sent" => reminder'[u].status = "sent" \/ Leased(u)'
        BY <3>1, <1>3, <1>4 DEF Leased
      <3>6. PushedOnce(u)'
        BY <2>1, <3>2, <3>4, <3>5, <1>1 DEF PushedOnce, InHand
      <3>7. QED
        BY <3>3, <3>6
    <2>3. CASE u \notin tick[d][list]
      <3>1. reminder'[u] = reminder[u] /\ (Leased(u)' <=> Leased(u))
        BY <2>3, <1>4 DEF Leased
      <3>2. \A e \in Tick : /\ tick'[e].claimed \subseteq tick[e].claimed
                            /\ tick'[e].sent \subseteq tick[e].sent
                            /\ tick'[e].retry \subseteq tick[e].retry
        BY <1>1, <1>2
      <3>3. HeldOnce(u)'
        BY <2>1, <3>1, <3>2 DEF HeldOnce, InHand, InOneList
      <3>4. PushedOnce(u)'
        BY <2>1, <3>1, <3>2, <1>1 DEF PushedOnce
      <3>5. QED
        BY <3>3, <3>4
    <2>4. QED
      BY <2>2, <2>3
  <1>8. QED
    BY <1>1, <1>6, <1>7 DEF DeliveryInv

LEMMA NextDeliveryInv == DeliveryInv /\ [ReminderNext]_reminderVars => DeliveryInv'
  <1> SUFFICES ASSUME DeliveryInv, [ReminderNext]_reminderVars PROVE DeliveryInv'
    OBVIOUS
  <1>1. CASE TimePasses \/ Cancel
    BY <1>1, DeliveriesStay DEF TimePasses, Cancel
  <1>2. ASSUME NEW u \in Attendee, NEW want \in {"none", "interested", "attending"},
               Submit(u, want)
        PROVE  DeliveryInv'
    BY <1>2, DeliveriesStay DEF Submit
  <1>3. ASSUME NEW u \in Attendee, RsvpStep(u) PROVE DeliveryInv'
    BY <1>3, DeliveriesStay DEF RsvpStep, LockEvent, CommitRsvp, Raise, EndRsvp
  <1>4. ASSUME NEW u \in Attendee, LeaseLapses(u) \/ RetryDelay(u) PROVE DeliveryInv'
    BY <1>4, LapseKeeps, DelayKeeps
  <1>5. ASSUME NEW d \in Tick, TickStep(d) PROVE DeliveryInv'
    BY <1>5, ClaimKeeps, PushKeeps, MarkKeeps DEF TickStep
  <1>6. ASSUME NEW d \in Tick, StopTick(d) PROVE DeliveryInv'
    BY <1>6, StopTickKeeps
  <1>7. CASE UNCHANGED reminderVars
    BY <1>7, DeliveriesStay DEF reminderVars
  <1>8. QED
    BY <1>1, <1>2, <1>3, <1>4, <1>5, <1>6, <1>7 DEF ReminderNext, ReminderStep

LEMMA DeliveryInvHolds == ReminderSpec => []DeliveryInv
  BY InitDeliveryInv, NextDeliveryInv, PTL DEF ReminderSpec

\* Nobody is reminded twice unless a lease ran out on a tick or a push went
\* unheard, however many ticks and replicas overlap.
THEOREM RemindersOnce == ReminderSpec => []RemindedOnce
  <1>1. DeliveryInv => RemindedOnce
    BY DEF DeliveryInv, DeliveryTypes, PushedOnce, RemindedOnce
  <1>2. QED
    BY <1>1, DeliveryInvHolds, PTL

\* What is marked sent was pushed or suppressed, also by late ticks.
THEOREM RemindersHandled == ReminderSpec => []SentWasHandled
  <1>1. DeliveryInv => SentWasHandled
    BY DEF DeliveryInv, MarksHandled
  <1>2. QED
    BY <1>1, DeliveryInvHolds, PTL

-----------------------------------------------------------------------------
(***************************************************************************)
(* Types.  What the two invariants above leave over: the phase of the      *)
(* event and the failures counted against their bound.                     *)
(***************************************************************************)
Course ==
    /\ phase \in {"far", "soon", "started", "cancelled"}
    /\ faults \in 0..FaultBound

LEMMA GlitchCounts ==
    ASSUME faults \in 0..FaultBound, Glitch \/ UNCHANGED faults
    PROVE  faults' \in 0..FaultBound
  BY ReminderAssumption DEF Glitch

LEMMA NextCourse == Course /\ [ReminderNext]_reminderVars => Course'
  <1> SUFFICES ASSUME Course, [ReminderNext]_reminderVars PROVE Course'
    OBVIOUS
  <1>1. ASSUME phase' \in {phase, "soon", "started", "cancelled"},
               Glitch \/ UNCHANGED faults
        PROVE  Course'
    BY <1>1, GlitchCounts DEF Course
  <1>2. CASE TimePasses \/ Cancel
    BY <1>2, <1>1 DEF TimePasses, Cancel
  <1>3. ASSUME NEW u \in Attendee, NEW want \in Status3, Submit(u, want)
        PROVE  Course'
    BY <1>3, <1>1 DEF Submit
  <1>4. ASSUME NEW u \in Attendee, RsvpStep(u) PROVE Course'
    BY <1>4, <1>1 DEF RsvpStep, LockEvent, CommitRsvp, Raise, EndRsvp
  <1>5. ASSUME NEW u \in Attendee, LeaseLapses(u) \/ RetryDelay(u) PROVE Course'
    BY <1>5, <1>1 DEF LeaseLapses, RetryDelay
  <1>6. ASSUME NEW d \in Tick, TickStep(d) \/ StopTick(d) PROVE Course'
    <2>1. phase' = phase
      BY <1>6 DEF TickStep, ClaimReminders, MarkSent, Release, Update, Push, StopTick
    <2>2. Glitch \/ UNCHANGED faults
      BY <1>6 DEF TickStep, ClaimReminders, MarkSent, Release, Update, Push, StopTick
    <2>3. QED
      BY <2>1, <2>2, <1>1
  <1>7. CASE UNCHANGED reminderVars
    BY <1>7, <1>1 DEF reminderVars
  <1>8. QED
    BY <1>2, <1>3, <1>4, <1>5, <1>6, <1>7 DEF ReminderNext, ReminderStep, Status3

\* The types of rows, requests, leases and lists, and that a reminder marked
\* sent holds no lease any more, whichever tick marks it.
THEOREM ReminderTypes == ReminderSpec => []ReminderTypeOK
  <1>1. ReminderInit => Course
    BY ReminderAssumption DEF ReminderInit, Course
  <1>2. RsvpInv /\ DeliveryInv /\ Course => ReminderTypeOK
    BY DEF RsvpInv, DeliveryInv, DeliveryTypes, Course, ReminderTypeOK,
           RequestType, Status3, Work
  <1>3. QED
    BY <1>1, <1>2, InitRsvpInv, NextRsvpInv, DeliveryInvHolds, NextCourse, PTL
    DEF ReminderSpec

=============================================================================
