------------------------------- MODULE RoomStage -------------------------------
(***************************************************************************)
(* The stage of a live audio room (AudioRoomsService).  Every request      *)
(* reads the row of audio_rooms and later writes whole columns computed    *)
(* from that copy; only the two writes of inviteCoHost look at the row     *)
(* again, at its co_host_id.  Requests refused for lack of rights change   *)
(* nothing and are left out.                                               *)
(***************************************************************************)
EXTENDS FiniteSets

CONSTANTS
    owner,      \* the host of the room
    Member,     \* the other users in it
    Call,       \* requests that can be under way at once
    none        \* no co-host

ASSUME StageAssumption == owner \notin Member /\ none \notin Member \cup {owner}

VARIABLES
    room,       \* the columns speakers, raised_hands, co_host_id
    call,       \* a request: what it asks, its copy, where it stands
    publishing, \* members whom LiveKit lets publish as co-host, not told to stop
    intended,   \* history: the columns as the requests mean them
    slipped     \* history: co-hosts dropped by a request that read another one

stageVars == <<room, call, publishing, intended, slipped>>

Column == {"speakers", "hands", "coHost"}

Operation == {"raise", "approve", "demote", "kick", "dismiss",
              "invite", "remove", "clear", "reorder"}

NewRoom == [speakers |-> {owner}, hands |-> {}, coHost |-> none]

NoCall == [op |-> "none", target |-> none, copy |-> NewRoom,
           at |-> "idle", dirty |-> {}]

StageInit ==
    /\ room = NewRoom
    /\ call = [c \in Call |-> NoCall]
    /\ publishing = {}
    /\ intended = NewRoom
    /\ slipped = {}

-----------------------------------------------------------------------------
Target(c) == call[c].target
Copy(c) == call[c].copy

\* The co-host an invitation of t replaces.
Previous(c) == Copy(c).coHost
Replaces(copy, t) == copy.coHost \notin {none, t}

\* What the row must look like for the request to go on.
Proceeds(op, t) ==
    op = "raise" => t \notin room.hands \cup room.speakers

\* The columns of its copy a request uses.
Uses(op) ==
    CASE op \in {"raise", "dismiss"} -> {"hands"}
      [] op \in {"demote", "reorder"} -> {"speakers"}
      [] op = "approve" -> {"hands", "speakers"}
      [] op \in {"kick", "remove"} -> {"speakers", "coHost"}
      [] op = "invite" -> Column
      [] op = "clear" -> {}

\* Whom it is about, where it is about anybody.
Targets(op) ==
    IF op \in {"remove", "clear", "reorder"} THEN {none} ELSE Member

\* Reads the row.
Read(c, op, t) ==
    /\ call[c].op = "none"
    /\ Proceeds(op, t)
    /\ call' = [call EXCEPT ![c] =
          [op |-> op, target |-> t, dirty |-> {},
           copy |-> [col \in Column |->
                       IF col \in Uses(op) THEN room[col] ELSE NewRoom[col]],
           at |-> IF op = "invite" /\ Replaces(room, t) THEN "revoke" ELSE "write"]]
    /\ UNCHANGED <<room, publishing, intended, slipped>>

\* The request fails, or its replica stops, wherever it stands.
Abort(c) ==
    /\ call[c].op # "none"
    /\ call' = [call EXCEPT ![c] = NoCall]
    /\ UNCHANGED <<room, publishing, intended, slipped>>

\* Request c writes the columns cols.  A column that somebody else has written since c
\* read it is taken as it comes out, any other one as the request means it.
Save(c, cols, new, meant, next) ==
    /\ room' = new
    /\ intended' = [col \in Column |->
          IF col \in call[c].dirty THEN new[col] ELSE meant[col]]
    /\ call' = [d \in Call |->
          IF d = c THEN next
          ELSE IF call[d].op = "none" THEN call[d]
          ELSE [call[d] EXCEPT !.dirty = @ \cup (cols \cap Uses(call[d].op))]]

Writes(c, op) == call[c].op = op /\ call[c].at = "write"

-----------------------------------------------------------------------------
RaiseHand(c) ==
    /\ Writes(c, "raise")
    /\ Save(c, {"hands"},
               [room EXCEPT !.hands = Copy(c).hands \cup {Target(c)}],
               [intended EXCEPT !.hands = @ \cup {Target(c)}], NoCall)
    /\ UNCHANGED <<publishing, slipped>>

\* Defect variant: the hand stays up.
ApproveSpeakerOnly(c) ==
    /\ Writes(c, "approve")
    /\ Save(c, {"speakers"},
               [room EXCEPT !.speakers = Copy(c).speakers \cup {Target(c)}],
               [intended EXCEPT !.hands = @ \ {Target(c)},
                                !.speakers = @ \cup {Target(c)}], NoCall)
    /\ UNCHANGED <<publishing, slipped>>

ApproveSpeaker(c) ==
    /\ Writes(c, "approve")
    /\ Save(c, {"hands", "speakers"},
               [room EXCEPT !.hands = Copy(c).hands \ {Target(c)},
                            !.speakers = Copy(c).speakers \cup {Target(c)}],
               [intended EXCEPT !.hands = @ \ {Target(c)},
                                !.speakers = @ \cup {Target(c)}], NoCall)
    /\ UNCHANGED <<publishing, slipped>>

DemoteSpeaker(c) ==
    /\ Writes(c, "demote")
    /\ Save(c, {"speakers"},
               [room EXCEPT !.speakers = Copy(c).speakers \ {Target(c)}],
               [intended EXCEPT !.speakers = @ \ {Target(c)}], NoCall)
    /\ UNCHANGED <<publishing, slipped>>

DismissRaisedHand(c) ==
    /\ Writes(c, "dismiss")
    /\ Save(c, {"hands"},
               [room EXCEPT !.hands = Copy(c).hands \ {Target(c)}],
               [intended EXCEPT !.hands = @ \ {Target(c)}], NoCall)
    /\ UNCHANGED <<publishing, slipped>>

\* The order of the speakers is not modelled: the same set is written again.
ReorderSpeakers(c) ==
    /\ Writes(c, "reorder")
    /\ Save(c, {"speakers"},
               [room EXCEPT !.speakers = Copy(c).speakers], intended, NoCall)
    /\ UNCHANGED <<publishing, slipped>>

\* Defect variant: the host is taken off the stage with the others.
ClearStageAll(c) ==
    /\ Writes(c, "clear")
    /\ Save(c, {"hands", "speakers"},
               [room EXCEPT !.speakers = {}, !.hands = {}],
               [intended EXCEPT !.speakers = {}, !.hands = {}], NoCall)
    /\ UNCHANGED <<publishing, slipped>>

ClearStage(c) ==
    /\ Writes(c, "clear")
    /\ Save(c, {"hands", "speakers"},
               [room EXCEPT !.speakers = {owner}, !.hands = {}],
               [intended EXCEPT !.speakers = {owner}, !.hands = {}], NoCall)
    /\ UNCHANGED <<publishing, slipped>>

\* The co-host of the copy loses the role, and is told; whoever has the role
\* by now loses it too.
Dismissed(c) ==
    /\ publishing' = publishing \ {Previous(c)}
    /\ slipped' = (slipped \cup ({room.coHost} \ {none})) \cap publishing'

KickSpeaker(c) ==
    /\ Writes(c, "kick")
    /\ IF Previous(c) = Target(c)
       THEN /\ Save(c, {"speakers", "coHost"},
                       [room EXCEPT !.speakers = Copy(c).speakers \ {Target(c)},
                                    !.coHost = none],
                       [intended EXCEPT !.speakers = @ \ {Target(c)},
                                        !.coHost = none], NoCall)
            /\ Dismissed(c)
       ELSE /\ Save(c, {"speakers"},
                       [room EXCEPT !.speakers = Copy(c).speakers \ {Target(c)}],
                       [intended EXCEPT !.speakers = @ \ {Target(c)},
                            !.coHost = IF @ = Target(c) THEN none ELSE @], NoCall)
            /\ UNCHANGED <<publishing, slipped>>

RemoveCoHost(c) ==
    /\ Writes(c, "remove")
    /\ Save(c, {"speakers", "coHost"},
               [room EXCEPT !.speakers = Copy(c).speakers \ {Previous(c)},
                            !.coHost = none],
               [intended EXCEPT !.speakers = @ \ {intended.coHost},
                                !.coHost = none], NoCall)
    /\ Dismissed(c)

-----------------------------------------------------------------------------
(***************************************************************************)
(* inviteCoHost: revoke, demote, notify, then assign                       *)
(***************************************************************************)

\* revokeCoHostPublishPermission.
Revoke(c) ==
    /\ call[c].at = "revoke"
    /\ publishing' = publishing \ {Previous(c)}
    /\ slipped' = slipped \ {Previous(c)}
    /\ call' = [call EXCEPT ![c].at = "demote"]
    /\ UNCHANGED <<room, intended>>

\* WHERE co_host_id is still the one that was read.
Demote(c) ==
    /\ call[c].at = "demote"
    /\ room.coHost = Previous(c)
    /\ Save(c, {"speakers", "coHost"},
               [room EXCEPT !.speakers = Copy(c).speakers \ {Previous(c)},
                            !.coHost = none],
               [intended EXCEPT !.speakers = @ \ {Previous(c)}, !.coHost = none],
               [call[c] EXCEPT !.at = "notify"])
    /\ UNCHANGED <<publishing, slipped>>

Notify(c) ==
    /\ call[c].at = "notify"
    /\ publishing' = publishing \ {Previous(c)}
    /\ slipped' = slipped \ {Previous(c)}
    /\ call' = [call EXCEPT ![c].at = "write"]
    /\ UNCHANGED <<room, intended>>

\* Defect variant: the assignment compares nothing.
AssignableAlways(c) == TRUE

\* WHERE co_host_id is null, or is the invited user already.
Assignable(c) ==
    room.coHost = IF Previous(c) = Target(c) THEN Target(c) ELSE none

\* Another invitation has revoked t's rights and will take the role away.
Awaited(t) ==
    \E d \in Call : call[d].at = "demote" /\ Previous(d) = t

Assign(c) ==
    /\ Writes(c, "invite")
    /\ Assignable(c)
    /\ Save(c, Column,
               [speakers |-> (Copy(c).speakers \
                    IF Previous(c) = Target(c) THEN {} ELSE {Previous(c)})
                        \cup {Target(c)},
                hands |-> Copy(c).hands \ {Target(c)},
                coHost |-> Target(c)],
               [speakers |-> intended.speakers \cup {Target(c)},
                hands |-> intended.hands \ {Target(c)},
                coHost |-> Target(c)], NoCall)
    /\ publishing' = publishing \cup {Target(c)}
    /\ slipped' = IF Awaited(Target(c)) THEN slipped \cup {Target(c)}
                                        ELSE slipped \ {Target(c)}

-----------------------------------------------------------------------------
CallStep(c) ==
    \/ RaiseHand(c) \/ ApproveSpeaker(c) \/ DemoteSpeaker(c)
    \/ DismissRaisedHand(c) \/ ReorderSpeakers(c) \/ ClearStage(c)
    \/ KickSpeaker(c) \/ RemoveCoHost(c)
    \/ Revoke(c) \/ Demote(c) \/ Notify(c) \/ Assign(c)

\* What requests of the kinds in Ops do.
StageStep(Ops) ==
    \E c \in Call :
        \/ \E op \in Ops : \E t \in Targets(op) : Read(c, op, t)
        \/ CallStep(c)
        \/ Abort(c)

StageNext == StageStep(Operation)

StageSpec == StageInit /\ [][StageNext]_stageVars

-----------------------------------------------------------------------------
(***************************************************************************)
(* Properties                                                              *)
(***************************************************************************)

RoomType == [speakers : SUBSET (Member \cup {owner}), hands : SUBSET Member,
             coHost : Member \cup {none}]

\* Types; the host never leaves the stage.
StageTypeOK ==
    /\ room \in RoomType
    /\ owner \in room.speakers
    /\ call \in [Call -> [op : Operation \cup {"none"}, target : Member \cup {none},
                          copy : RoomType, dirty : SUBSET Column,
                          at : {"idle", "revoke", "demote", "notify", "write"}]]
    /\ publishing \subseteq Member
    /\ slipped \subseteq publishing

\* Columns that nobody else wrote between a request's read and its write come
\* out as the requests mean them, one after the other, in the order of their
\* writes: raised hands, speakers and the co-host are lost, or come back, only
\* by such an overlap of one column, and not by one of different columns.
StageAsIntended == room = intended

\* "the room is left safely without a co-host rather than with two publishers"
\* (inviteCoHost): wherever an invitation fails or stops and however requests
\* overlap, whoever lost the role cannot publish any more or was told to stop;
\* the exceptions are a removal on an old copy and a co-host who was assigned
\* again while an invitation was replacing her.
CoHostsStepDown ==
    \A u \in publishing : u = room.coHost \/ u \in slipped

=============================================================================
