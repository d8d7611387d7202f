---------------------------- MODULE ScheduledParty ----------------------------
(***************************************************************************)
(* The language parties of audio-room events (EventsService.               *)
(* checkStartEvents).  Every tick of every replica lists the oldest of the *)
(* events that started within the catch-up window, looks for their rooms   *)
(* by names made from the events' ids, and creates a room or links it to   *)
(* its event.  room_name is unique; a tick that loses, or does not hear    *)
(* that it won, looks the room up again.                                   *)
(*                                                                         *)
(* The limit of a tick counts every due event, with or without its room.   *)
(* Those listed are dealt with side by side, in any order: the code's      *)
(* chunks of 10 only bring some of them later, which is included.          *)
(***************************************************************************)
EXTENDS Naturals, FiniteSets

CONSTANTS
    PartyEvent,     \* audio-room events with a language pair, not cancelled
    DateTime,       \* date_time of each, in units of the clock
    CatchUp,        \* SCHEDULED_PARTY_CATCHUP_MS, in units of the clock
    PartyBatch,     \* SCHEDULED_PARTY_BATCH_SIZE, 50 in the code
    Server,         \* ticks under way at once, of one replica or of several
    TroubleBound    \* bound: failed calls, lost answers, crashes

ASSUME PartyAssumption ==
    /\ IsFiniteSet(PartyEvent)
    /\ DateTime \in [PartyEvent -> Nat]
    /\ CatchUp \in Nat
    /\ PartyBatch \in Nat \ {0}
    /\ TroubleBound \in Nat

VARIABLES
    clock,
    party,      \* each event's row of audio_rooms: none, created, linked (event_id)
    parties,    \* history: how many rooms were created for each event
    step,       \* where ensureScheduledLanguageParty stands, per tick and event
    troubles

partyVars == <<clock, party, parties, step, troubles>>

AllIdle == [e \in PartyEvent |-> "idle"]

PartyInit ==
    /\ clock = 0
    /\ party = [e \in PartyEvent |-> "none"]
    /\ parties = [e \in PartyEvent |-> 0]
    /\ step = [r \in Server |-> AllIdle]
    /\ troubles = 0

Trouble ==
    /\ troubles < TroubleBound
    /\ troubles' = troubles + 1

Turn(r, e, s) == step' = [step EXCEPT ![r][e] = s]

ClockTicks ==
    /\ \E e \in PartyEvent : clock <= DateTime[e] + CatchUp
    /\ clock' = clock + 1
    /\ UNCHANGED <<party, parties, step, troubles>>

-----------------------------------------------------------------------------
InWindow(e) == DateTime[e] <= clock /\ clock <= DateTime[e] + CatchUp

DueEvents == {e \in PartyEvent : InWindow(e)}

\* ORDER BY date_time LIMIT: what the query may return, in any order of equals.
Listings ==
    {S \in SUBSET DueEvents :
        /\ Cardinality(S) <= PartyBatch
        /\ \A d \in DueEvents \ S :
              /\ Cardinality(S) = PartyBatch
              /\ \A e \in S : DateTime[e] <= DateTime[d]}

\* Defect variant: a room that exists is taken for the event's.
ScanExisting(r) ==
    /\ step[r] = AllIdle
    /\ \E S \in Listings :
          step' = [step EXCEPT ![r] = [e \in PartyEvent |->
              IF e \in S /\ party[e] = "none" THEN "create" ELSE "idle"]]
    /\ UNCHANGED <<clock, party, parties, troubles>>

\* The tick lists the due events and the rooms with their names; a room that
\* is linked needs nothing more.
Scan(r) ==
    /\ step[r] = AllIdle
    /\ \E S \in Listings :
          step' = [step EXCEPT ![r] = [e \in PartyEvent |->
              CASE e \in S /\ party[e] = "none"    -> "create"
                [] e \in S /\ party[e] = "created" -> "reconcile"
                [] OTHER                           -> "idle"]]
    /\ UNCHANGED <<clock, party, parties, troubles>>

-----------------------------------------------------------------------------
\* Defect variant: the name carries the time, as for parties without an event.
NameFreeAlways(e) == TRUE

\* room_name is unique, and the same in every replica.
NameFree(e) == party[e] = "none"

\* createLanguageParty: the insert, then the recording and the host's profile,
\* which may fail as well; every failure ends in a lookup.
Create(r, e) ==
    /\ step[r][e] = "create"
    /\ \/ /\ NameFree(e)
          /\ party' = [party EXCEPT ![e] = "created"]
          /\ parties' = [parties EXCEPT ![e] = @ + 1]
          /\ \/ Turn(r, e, "link") /\ UNCHANGED troubles
             \/ Turn(r, e, "find") /\ Trouble
       \/ /\ ~NameFree(e)
          /\ Turn(r, e, "find")
          /\ UNCHANGED <<party, parties, troubles>>
       \/ /\ Turn(r, e, "find")
          /\ Trouble
          /\ UNCHANGED <<party, parties>>
    /\ UNCHANGED clock

\* linkRoomToEvent and reconcileScheduledLanguageParty write the same; after a
\* failure the former is followed by a lookup, the latter by the next tick.
Link(r, e) ==
    /\ step[r][e] \in {"link", "reconcile"}
    /\ \/ /\ party' = [party EXCEPT ![e] = "linked"]
          /\ Turn(r, e, "idle")
          /\ UNCHANGED troubles
       \/ /\ Trouble
          /\ party' \in {party, [party EXCEPT ![e] = "linked"]}
          /\ Turn(r, e, IF step[r][e] = "link" THEN "find" ELSE "idle")
    /\ UNCHANGED <<clock, parties>>

\* findRoomByName.
Find(r, e) ==
    /\ step[r][e] = "find"
    /\ \/ /\ Turn(r, e, IF party[e] = "created" THEN "reconcile" ELSE "idle")
          /\ UNCHANGED troubles
       \/ Turn(r, e, "idle") /\ Trouble
    /\ UNCHANGED <<clock, party, parties>>

StopServer(r) ==
    /\ step[r] # AllIdle
    /\ Trouble
    /\ step' = [step EXCEPT ![r] = AllIdle]
    /\ UNCHANGED <<clock, party, parties>>

ServerStep(r) ==
    \/ Scan(r)
    \/ \E e \in PartyEvent : Create(r, e) \/ Link(r, e) \/ Find(r, e)

PartyNext ==
    \/ ClockTicks
    \/ \E r \in Server : ServerStep(r) \/ StopServer(r)

PartySpec == PartyInit /\ [][PartyNext]_partyVars

\* Ticks come and their calls return; nothing is assumed of the clock.
PartyFairness == \A r \in Server : WF_partyVars(ServerStep(r))

-----------------------------------------------------------------------------
(***************************************************************************)
(* Properties                                                              *)
(***************************************************************************)

\* However replicas race, fail halfway or do not hear that they succeeded, an
\* event has at most one room (scheduled-event-language-parties.md).
OneRoomPerEvent == \A e \in PartyEvent : parties[e] <= 1

\* No more due events than a tick takes start before e or with it: e is in
\* every listing.  The others may be left out of all the ticks of their window.
InEveryListing(e) ==
    /\ InWindow(e)
    /\ Cardinality({d \in DueEvents : DateTime[d] <= DateTime[e]}) <= PartyBatch

\* A due event that the limit of a tick does not shut out gets its room, linked
\* to it, before its window ends, whichever step of whichever replica fails.
PartyOpens ==
    \A e \in PartyEvent :
        InEveryListing(e) ~> (party[e] = "linked" \/ ~InWindow(e))

=============================================================================
