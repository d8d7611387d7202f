------------------------------ MODULE MC_LiveRooms ------------------------------
(* Audio rooms, events and coins.  The six components share no variable, so *)
(* a behaviour moves the variables of one of them, its focus, and the run   *)
(* explores their state spaces side by side instead of their product.       *)
EXTENDS SummaryJobs, EventReminders, RoomStage, ScheduledParty, Wallet, PlayPurchases, TLC

CONSTANTS r1, r2, m1, m2, ann, bob, cat, web, store, k1, p1, p2,
    v1, v2, v3,
    Focus   \* what the run looks at

VARIABLE focus

BuyerAnn == web :> ann @@ store :> ann
FromAnn == k1 :> ann
ToBob == k1 :> bob
\* Google knows for whom p1 was bought.
NamesAnn == p1 :> ann @@ p2 :> unclaimed

\* v3 starts while the others' windows are open: a tick has no place for it yet.
LastV3 == [e \in PartyEvent |-> IF e = v3 THEN 2 ELSE 1]

\* rsvps: three users and no tick; reminders: two attendees who stay.
\* stage: who speaks; coHosts: who has the role, while hands are raised.
StageRequests == {"raise", "approve", "demote", "kick", "dismiss", "clear", "reorder"}
CoHostRequests == {"raise", "approve", "kick", "invite", "remove"}

AnnAndBobAttend ==
    rsvp = [u \in Attendee |-> IF u = cat THEN "none" ELSE "attending"]

Init ==
    /\ focus \in Focus
    /\ SummaryInit /\ ReminderInit /\ StageInit /\ PartyInit
    /\ WalletInit /\ PlayInit
    /\ focus # "rsvps" => AnnAndBobAttend

Next ==
    /\ \/ /\ focus = "summaries" /\ SummaryNext
          /\ UNCHANGED <<reminderVars, stageVars, partyVars, walletVars, playVars>>
       \/ /\ \/ focus = "rsvps" /\ ReminderStep(Attendee, {})
             \/ focus = "reminders" /\ ReminderStep({}, Tick)
          /\ UNCHANGED <<summaryVars, stageVars, partyVars, walletVars, playVars>>
       \/ /\ \/ focus = "stage" /\ StageStep(StageRequests)
             \/ focus = "coHosts" /\ StageStep(CoHostRequests)
          /\ UNCHANGED <<summaryVars, reminderVars, partyVars, walletVars, playVars>>
       \/ /\ focus = "party" /\ PartyNext
          /\ UNCHANGED <<summaryVars, reminderVars, stageVars, walletVars, playVars>>
       \/ /\ focus = "wallet" /\ WalletNext
          /\ UNCHANGED <<summaryVars, reminderVars, stageVars, partyVars, playVars>>
       \/ /\ focus = "play" /\ PlayNext
          /\ UNCHANGED <<summaryVars, reminderVars, stageVars, partyVars, walletVars>>
    /\ UNCHANGED focus

\* Once every balance is disturbed nothing is said of balances any more.
SomeoneUndisturbed == ~(User \subseteq disturbed)

vars == <<summaryVars, reminderVars, stageVars, partyVars, walletVars, playVars,
          focus>>

Spec == Init /\ [][Next]_vars

\* Out of focus a component rests in its initial state, where none of its
\* fair actions is enabled.
LiveSpec == Spec /\ SummaryFairness /\ ReminderFairness /\ PartyFairness

=============================================================================
