------------------------------- MODULE Office -------------------------------
(***************************************************************************)
(* The office of one room: who is connected, where everyone stands, who    *)
(* follows whom, the bubbles people talk in, and the voice group of each.  *)
(*                                                                         *)
(* The truth is in two places.  A hub.Client in memory has the last        *)
(* accepted position, the bubble, the connection followed and the voice    *)
(* group it was given; Redis has a presence record per connection and a    *)
(* record per bubble, which survive a crash of the server.  A handler      *)
(* copies between them in several calls, and the handlers of other         *)
(* connections run in between: a job is a handler between two calls.       *)
(*                                                                         *)
(* A position is the zone it is in.  Which zone a requested move ends in   *)
(* (AcceptPresence clamps it to the map, to the speed limit and to         *)
(* walkable tiles) is left open here; module PrivateZone has the zones     *)
(* that let in some connections only.  Requests the code rejects before it *)
(* changes anything are not written down.                                  *)
(***************************************************************************)
EXTENDS Integers, FiniteSets

CONSTANTS
    Conns,      \* connections that may come, each with an id of its own
    Meetings,   \* the meeting zones of the map
    Lobby,      \* the rest of the map; where a client spawns
    None,       \* no connection and no meeting
    Settings,   \* what may go on in a behaviour, see setting
    MaxBubbles, \* bound: bubbles ever made
    MaxFaults   \* bound: Redis errors and crashes

ASSUME OfficeAssumption ==
    /\ None \notin Conns
    /\ None \notin Meetings
    /\ Lobby \notin Meetings
    /\ MaxBubbles \in Nat /\ MaxFaults \in Nat

VARIABLES
    setting,    \* crowd: how many connections come; inFlight: handlers between two calls at
                \* one time; bubbles: how many are made; traffic: the requests made, and whether
                \* there is a fault or a crash
    phase,      \* the life of a connection
    place,      \* Client.LastX, LastY: the zone
    bubble,     \* Client.BubbleID
    following,  \* Client.FollowingID
    voice,      \* Client.ActiveVoiceGroup
    presence,   \* the presence HASH in Redis
    bubbles,    \* the bubbles HASH in Redis
    chats,      \* bubbles with a chat history in Redis
    job,        \* what every connection's goroutine is doing
    minted,     \* bubble ids made so far
    faults,     \* Redis errors and crashes so far
    asked       \* history variable: who made a bubble and who was invited to it

fields == <<place, bubble, following, voice>>
redis == <<presence, bubbles, chats>>
bounds == <<minted, faults>>
vars == <<setting, phase, fields, redis, job, bounds, asked>>

Zones == Meetings \cup {Lobby}
NoBubble == 0
BubbleID == 1..MaxBubbles

\* model.Bubble; it has no owner, and whoever is in it is no longer invited.
Bubble == {b \in [members : SUBSET Conns, invites : SUBSET Conns] : b.members \cap b.invites = {}}
EmptyBubble == [members |-> {}, invites |-> {}]

\* model.Presence, as far as it is not fixed by the connection.
Presence == [zone : Zones, bubble : BubbleID \cup {NoBubble}, following : Conns \cup {None}]

\* A LiveKit group: that of a bubble, that of a meeting room, or none.
Group == [bubble : BubbleID \cup {NoBubble}, meeting : Meetings \cup {None}]
Silent == [bubble |-> NoBubble, meeting |-> None]

Points ==
    {"idle", "spawn", "readPresence", "readClients", "purge", "move", "follow", "recordFollow",
     "setBubble", "deleteBubble", "recordBubble", "syncVoice", "getOwn", "recordLeave", "reget",
     "push", "delPresence", "listBubbles", "clearBubbles", "clearFollowers",
     "persistFollowers", "recordFollower"}

\* at: the call to come; id: the bubble; next: the bubble to join after leaving one;
\* blob: the bubble to write; who: another connection; record: the presence to write;
\* rest: connections still to be dealt with; snap: the bubbles read, EmptyBubble for
\* those not to be touched.
Job == [at : Points, op : {"none", "invite", "create", "accept", "leave"},
        id : BubbleID \cup {NoBubble}, next : BubbleID \cup {NoBubble}, blob : Bubble,
        who : Conns \cup {None}, record : Presence, rest : SUBSET Conns,
        snap : [BubbleID -> Bubble]]

Blank == [zone |-> Lobby, bubble |-> NoBubble, following |-> None]

Idle == [at |-> "idle", op |-> "none", id |-> NoBubble, next |-> NoBubble,
         blob |-> EmptyBubble, who |-> None, record |-> Blank, rest |-> {},
         snap |-> [b \in BubbleID |-> EmptyBubble]]

Phases == {"away", "open", "joined", "closed", "lost"}

TypeOK ==
    /\ phase \in [Conns -> Phases]
    /\ place \in [Conns -> Zones]
    /\ bubble \in [Conns -> BubbleID \cup {NoBubble}]
    /\ following \in [Conns -> Conns \cup {None}]
    /\ voice \in [Conns -> Group]
    /\ DOMAIN presence \subseteq Conns
    /\ \A c \in DOMAIN presence : presence[c] \in Presence
    /\ DOMAIN bubbles \subseteq BubbleID
    /\ \A b \in DOMAIN bubbles : bubbles[b] \in Bubble
    /\ chats \subseteq BubbleID
    /\ job \in [Conns -> Job]
    /\ minted \in 0..MaxBubbles
    /\ faults \in 0..MaxFaults
    /\ asked \in [BubbleID -> SUBSET Conns]

Init ==
    /\ setting \in Settings
    /\ phase = [c \in Conns |-> "away"]
    /\ place = [c \in Conns |-> Lobby]
    /\ bubble = [c \in Conns |-> NoBubble]
    /\ following = [c \in Conns |-> None]
    /\ voice = [c \in Conns |-> Silent]
    /\ presence = [c \in {} |-> Blank]
    /\ bubbles = [b \in {} |-> EmptyBubble]
    /\ chats = {}
    /\ job = [c \in Conns |-> Idle]
    /\ minted = 0 /\ faults = 0
    /\ asked = [b \in BubbleID |-> {}]

-----------------------------------------------------------------------------
(* Pieces of handlers.                                                     *)

\* HSET and HDEL.
HSet(hash, key, value) ==
    [k \in DOMAIN hash \cup {key} |-> IF k = key THEN value ELSE hash[k]]
HDel(hash, keys) == [k \in DOMAIN hash \ keys |-> hash[k]]

Joined == {c \in Conns : phase[c] = "joined"}

Busy == {c \in Conns : job[c] # Idle}

\* The requests of one connection run one after the other, its disconnect last.
Ready(c, kind) ==
    /\ kind \in setting.traffic
    /\ job[c] = Idle
    /\ Cardinality(Busy) < setting.inFlight

Request(c, kind) == phase[c] = "joined" /\ Ready(c, kind)

Goto(c, j) == job' = [job EXCEPT ![c] = j]
At(c, point) == job[c].at = point
GoesWrong(kind) == kind \in setting.traffic /\ faults < MaxFaults /\ faults' = faults + 1
Fault == GoesWrong("fault")

\* DeriveActiveVoiceGroup: a bubble comes before a meeting room.
VoiceGroup(b, zone) ==
    [bubble |-> b,
     meeting |-> IF b = NoBubble /\ zone \in Meetings THEN zone ELSE None]

\* presenceFromClient.
PresenceOf(c) == [zone |-> place[c], bubble |-> bubble[c], following |-> following[c]]

\* SetPresence of a handler that goes on when it fails.
TrySetPresence(j) ==
    \/ presence' = HSet(presence, j.who, j.record) /\ UNCHANGED faults
    \/ Fault /\ UNCHANGED presence

Without(b, c) == [members |-> b.members \ {c}, invites |-> b.invites \ {c}]

-----------------------------------------------------------------------------
(* Joining.                                                                *)

\* Register.
Register(c) ==
    /\ Ready(c, "join")
    /\ phase[c] = "away"
    /\ Cardinality({d \in Conns : phase[d] # "away"}) < setting.crowd
    /\ phase' = [phase EXCEPT ![c] = "open"]
    /\ UNCHANGED <<setting, fields, redis, job, bounds, asked>>

\* A variant with a mistake: the client is put into the room at the end.
HandleJoin_SpawnFirst(c) ==
    /\ Ready(c, "join")
    /\ phase[c] = "open"
    /\ Goto(c, [Idle EXCEPT !.at = "spawn"])
    /\ UNCHANGED <<setting, phase, fields, redis, bounds, asked>>

\* HandleJoin: SetClientRoom and SetClientUser come first; when GetState fails the
\* handler returns, and the client stays in the room without a presence.
HandleJoin(c) ==
    /\ Ready(c, "join")
    /\ phase[c] = "open"
    /\ phase' = [phase EXCEPT ![c] = "joined"]
    /\ \/ Goto(c, [Idle EXCEPT !.at = "spawn"]) /\ UNCHANGED faults
       \/ Fault /\ UNCHANGED job
    /\ UNCHANGED <<setting, fields, redis, minted, asked>>

\* spawnPresence; when it fails HandleJoin returns.
SpawnPresence(c) ==
    /\ At(c, "spawn")
    /\ \/ /\ presence' = HSet(presence, c, [PresenceOf(c) EXCEPT !.zone = Lobby])
          /\ place' = [place EXCEPT ![c] = Lobby]
          /\ Goto(c, [Idle EXCEPT !.at = "readPresence"])
          /\ UNCHANGED faults
       \/ /\ Fault
          /\ Goto(c, Idle)
          /\ UNCHANGED <<presence, place>>
    /\ UNCHANGED <<setting, phase, bubble, following, voice, bubbles, chats, minted, asked>>

\* reconcileLivePresence: first the presence in Redis, ...; when that fails there is no
\* ghost hunt, and HandleJoin goes on.
GetAllPresence(c) ==
    /\ At(c, "readPresence")
    /\ \/ /\ Goto(c, [Idle EXCEPT !.at = "readClients", !.rest = DOMAIN presence])
          /\ UNCHANGED faults
       \/ Fault /\ Goto(c, [Idle EXCEPT !.at = "purge"])
    /\ UNCHANGED <<setting, phase, fields, redis, minted, asked>>

\* ... then the clients in the room; who is in the first and not in the second is a ghost.
ClientsInRoom(c) ==
    /\ At(c, "readClients")
    /\ Goto(c, [Idle EXCEPT !.at = "purge", !.rest = job[c].rest \ Joined])
    /\ UNCHANGED <<setting, phase, fields, redis, bounds, asked>>

\* A variant with a mistake: the ghosts are left out of the answer and not deleted.
PurgeGhosts_HidesThem(c) ==
    /\ At(c, "purge")
    /\ voice' = [voice EXCEPT ![c] = VoiceGroup(bubble[c], place[c])]
    /\ Goto(c, Idle)
    /\ UNCHANGED <<setting, phase, place, bubble, following, redis, bounds, asked>>

\* The ghosts are deleted one by one, a failure being logged; then HandleJoin goes on
\* to its end: SyncActiveVoiceOnJoin.
PurgeGhosts(c) ==
    /\ At(c, "purge")
    /\ \/ /\ job[c].rest = {}
          /\ voice' = [voice EXCEPT ![c] = VoiceGroup(bubble[c], place[c])]
          /\ Goto(c, Idle)
          /\ UNCHANGED <<presence, faults>>
       \/ \E g \in job[c].rest :
            /\ \/ presence' = HDel(presence, {g}) /\ UNCHANGED faults
               \/ Fault /\ UNCHANGED presence
            /\ Goto(c, [job[c] EXCEPT !.rest = @ \ {g}])
            /\ UNCHANGED voice
    /\ UNCHANGED <<setting, phase, place, bubble, following, bubbles, chats, minted, asked>>

-----------------------------------------------------------------------------
(* Moving and following.                                                   *)

\* HandlePresenceUpdate, up to SetPresence.
PresenceUpdate(c) ==
    /\ Request(c, "move")
    /\ \E zone \in Zones :
         Goto(c, [Idle EXCEPT !.at = "move", !.record = [PresenceOf(c) EXCEPT !.zone = zone]])
    /\ UNCHANGED <<setting, phase, fields, redis, bounds, asked>>

\* A variant with a mistake: the voice group is that of the old place.
Moved_OldVoice(c) ==
    /\ At(c, "move")
    /\ presence' = HSet(presence, c, job[c].record)
    /\ place' = [place EXCEPT ![c] = job[c].record.zone]
    /\ voice' = [voice EXCEPT ![c] = VoiceGroup(bubble[c], place[c])]
    /\ Goto(c, Idle)
    /\ UNCHANGED <<setting, phase, bubble, following, bubbles, chats, bounds, asked>>

\* SetPresence, the new position in the client, SyncActiveVoice.
Moved(c) ==
    /\ At(c, "move")
    /\ presence' = HSet(presence, c, job[c].record)
    /\ place' = [place EXCEPT ![c] = job[c].record.zone]
    /\ voice' = [voice EXCEPT ![c] = VoiceGroup(bubble[c], job[c].record.zone)]
    /\ Goto(c, Idle)
    /\ UNCHANGED <<setting, phase, bubble, following, bubbles, chats, bounds, asked>>

\* HandleFollowStart looks the target up ...
FollowStart(c) ==
    /\ Request(c, "follow")
    /\ \E t \in Joined \ {c} : Goto(c, [Idle EXCEPT !.at = "follow", !.who = t])
    /\ UNCHANGED <<setting, phase, fields, redis, bounds, asked>>

\* The client follows t, and its presence is about to say so.
Follows(c, t) ==
    /\ following' = [following EXCEPT ![c] = t]
    /\ Goto(c, [Idle EXCEPT !.at = "recordFollow", !.who = c,
                            !.record = [PresenceOf(c) EXCEPT !.following = t]])

\* ... and then sets FollowingID.
SetFollowing(c) ==
    /\ At(c, "follow")
    /\ Follows(c, job[c].who)
    /\ UNCHANGED <<setting, phase, place, bubble, voice, redis, bounds, asked>>

\* HandleFollowStop.
FollowStop(c) ==
    /\ Request(c, "follow")
    /\ following[c] # None
    /\ Follows(c, None)
    /\ UNCHANGED <<setting, phase, place, bubble, voice, redis, bounds, asked>>

\* persistFollowing.
RecordFollow(c) ==
    /\ At(c, "recordFollow")
    /\ TrySetPresence(job[c])
    /\ Goto(c, Idle)
    /\ UNCHANGED <<setting, phase, fields, bubbles, chats, minted, asked>>

\* HandleVoiceTokenRequest: new credentials for the group the client belongs to now.
VoiceTokenRequest(c) ==
    /\ Request(c, "move")
    /\ voice' = [voice EXCEPT ![c] = VoiceGroup(bubble[c], place[c])]
    /\ UNCHANGED <<setting, phase, place, bubble, following, redis, job, bounds, asked>>

-----------------------------------------------------------------------------
(* Bubbles.                                                                *)

\* HandleBubbleInvite of someone who is in a bubble in Redis.
InviteToBubble(c) ==
    /\ Request(c, "bubble")
    /\ \E t \in Joined \ {c}, b \in DOMAIN bubbles :
         /\ c \in bubbles[b].members
         /\ t \notin bubbles[b].members
         /\ Goto(c, [Idle EXCEPT !.at = "setBubble", !.op = "invite", !.id = b,
                                 !.blob = [bubbles[b] EXCEPT !.invites = @ \cup {t}]])
         /\ asked' = [asked EXCEPT ![b] = @ \cup {t}]
    /\ UNCHANGED <<setting, phase, fields, redis, bounds>>

\* HandleBubbleInvite of someone who is in none: a new bubble.
CreateBubble(c) ==
    /\ Request(c, "bubble")
    /\ \A b \in DOMAIN bubbles : c \notin bubbles[b].members
    /\ minted < MaxBubbles /\ minted < setting.bubbles
    /\ minted' = minted + 1
    /\ \E t \in Joined \ {c} :
         /\ Goto(c, [Idle EXCEPT !.at = "setBubble", !.op = "create", !.id = minted + 1,
                                 !.blob = [members |-> {c}, invites |-> {t}]])
         /\ asked' = [asked EXCEPT ![minted + 1] = @ \cup {c, t}]
    /\ UNCHANGED <<setting, phase, fields, redis, faults>>

\* A variant with a mistake: no invitation is needed.
BubbleAccept_Uninvited(c) ==
    /\ Request(c, "bubble")
    /\ \E b \in DOMAIN bubbles :
         /\ c \notin bubbles[b].members
         /\ Goto(c, [Idle EXCEPT !.at = "setBubble", !.op = "accept", !.id = b,
                       !.blob = [members |-> bubbles[b].members \cup {c},
                                 invites |-> bubbles[b].invites \ {c}]])
    /\ UNCHANGED <<setting, phase, fields, redis, bounds, asked>>

\* A variant with a mistake: who joins stays invited.
WillAccept_KeepsInvite(c, b) ==
    Goto(c, [Idle EXCEPT !.at = "setBubble", !.op = "accept", !.id = b,
                         !.blob = [bubbles[b] EXCEPT !.members = @ \cup {c}]])

\* The client joins bubble b as Redis has it now.
WillAccept(c, b) ==
    Goto(c, [Idle EXCEPT !.at = "setBubble", !.op = "accept", !.id = b,
                         !.blob = [members |-> bubbles[b].members \cup {c},
                                   invites |-> bubbles[b].invites \ {c}]])

\* A variant with a mistake: who is in another bubble stays there.
BubbleAccept_StaysInOther(c) ==
    /\ Request(c, "bubble")
    /\ \E b \in DOMAIN bubbles : c \in bubbles[b].invites /\ WillAccept(c, b)
    /\ UNCHANGED <<setting, phase, fields, redis, bounds, asked>>

\* HandleBubbleAccept: who is in another bubble leaves that one first.
BubbleAccept(c) ==
    /\ Request(c, "bubble")
    /\ \E b \in DOMAIN bubbles :
         /\ c \notin bubbles[b].members
         /\ c \in bubbles[b].invites
         /\ IF bubble[c] \in {NoBubble, b}
            THEN WillAccept(c, b)
            ELSE Goto(c, [Idle EXCEPT !.at = "getOwn", !.next = b])
    /\ UNCHANGED <<setting, phase, fields, redis, bounds, asked>>

\* HandleBubbleAccept after leaving: the bubble is read again, the invitation is not.
RegetBubble(c) ==
    /\ At(c, "reget")
    /\ LET b == job[c].next
       IN  \/ b \notin DOMAIN bubbles /\ Goto(c, Idle)
           \/ b \in DOMAIN bubbles /\ WillAccept(c, b)
    /\ UNCHANGED <<setting, phase, fields, redis, bounds, asked>>

\* HandleBubbleLeave.
BubbleLeave(c) ==
    /\ Request(c, "bubble")
    /\ bubble[c] # NoBubble
    /\ Goto(c, [Idle EXCEPT !.at = "getOwn"])
    /\ UNCHANGED <<setting, phase, fields, redis, bounds, asked>>

\* The end of leaving: HandleBubbleAccept goes on, HandleBubbleLeave does not.
AfterLeaving(c) ==
    IF job[c].next = NoBubble THEN Idle
    ELSE [Idle EXCEPT !.at = "reget", !.next = job[c].next]

\* leaveBubbleMembership: GetBubble, and BubbleID is cleared at once.
GetOwnBubble(c) ==
    /\ At(c, "getOwn")
    /\ bubble' = [bubble EXCEPT ![c] = NoBubble]
    /\ LET b == bubble[c]
       IN  Goto(c, [job[c] EXCEPT
                      !.at = "recordLeave", !.who = c,
                      !.record = [PresenceOf(c) EXCEPT !.bubble = NoBubble],
                      !.id = IF b \in DOMAIN bubbles THEN b ELSE NoBubble,
                      !.blob = IF b \in DOMAIN bubbles THEN Without(bubbles[b], c)
                               ELSE EmptyBubble])
    /\ UNCHANGED <<setting, phase, place, following, voice, redis, bounds, asked>>

\* A variant with a mistake: an empty bubble is written and not deleted.
RecordLeave_KeepsEmpty(c) ==
    /\ At(c, "recordLeave")
    /\ TrySetPresence(job[c])
    /\ voice' = [voice EXCEPT ![c] = VoiceGroup(bubble[c], place[c])]
    /\ IF job[c].id = NoBubble THEN Goto(c, AfterLeaving(c))
       ELSE Goto(c, [job[c] EXCEPT !.at = "setBubble", !.op = "leave"])
    /\ UNCHANGED <<setting, phase, place, bubble, following, bubbles, chats, minted, asked>>

\* Its presence and voice follow, then the bubble: it lives as long as it has members.
RecordLeave(c) ==
    /\ At(c, "recordLeave")
    /\ TrySetPresence(job[c])
    /\ voice' = [voice EXCEPT ![c] = VoiceGroup(bubble[c], place[c])]
    /\ IF job[c].id = NoBubble THEN Goto(c, AfterLeaving(c))
       ELSE Goto(c, [job[c] EXCEPT
                       !.at = IF job[c].blob.members = {} THEN "deleteBubble" ELSE "setBubble",
                       !.op = "leave"])
    /\ UNCHANGED <<setting, phase, place, bubble, following, bubbles, chats, minted, asked>>

\* DeleteBubble deletes the chat history too; an error is logged.
DeleteBubble(c) ==
    /\ At(c, "deleteBubble")
    /\ \/ /\ bubbles' = HDel(bubbles, {job[c].id})
          /\ chats' = chats \ {job[c].id}
          /\ UNCHANGED faults
       \/ Fault /\ UNCHANGED <<bubbles, chats>>
    /\ Goto(c, AfterLeaving(c))
    /\ UNCHANGED <<setting, phase, fields, presence, minted, asked>>

\* SetBubble, and what follows it: who created or joined the bubble is in it now.
SetBubble(c) ==
    /\ At(c, "setBubble")
    /\ bubbles' = HSet(bubbles, job[c].id, job[c].blob)
    /\ \/ /\ job[c].op \in {"create", "accept"}
          /\ bubble' = [bubble EXCEPT ![c] = job[c].id]
          /\ Goto(c, [job[c] EXCEPT !.at = "recordBubble", !.who = c,
                                    !.record = [PresenceOf(c) EXCEPT !.bubble = job[c].id]])
       \/ job[c].op = "invite" /\ Goto(c, Idle) /\ UNCHANGED bubble
       \/ job[c].op = "leave" /\ Goto(c, AfterLeaving(c)) /\ UNCHANGED bubble
    /\ UNCHANGED <<setting, phase, place, following, voice, presence, chats, bounds, asked>>

\* persistBubblePresence.
RecordBubble(c) ==
    /\ At(c, "recordBubble")
    /\ TrySetPresence(job[c])
    /\ Goto(c, [Idle EXCEPT !.at = "syncVoice", !.rest = job[c].blob.members])
    /\ UNCHANGED <<setting, phase, fields, bubbles, chats, minted, asked>>

\* syncVoiceForBubbleMembers, one member: it may be another connection's client.
SyncVoice(c) ==
    /\ At(c, "syncVoice")
    /\ \/ /\ job[c].rest = {}
          /\ Goto(c, Idle)
          /\ UNCHANGED voice
       \/ \E m \in job[c].rest :
            /\ voice' = IF m \in Joined
                        THEN [voice EXCEPT ![m] = VoiceGroup(bubble[m], place[m])] ELSE voice
            /\ Goto(c, [job[c] EXCEPT !.rest = @ \ {m}])
    /\ UNCHANGED <<setting, phase, place, bubble, following, redis, bounds, asked>>

\* HandleBubbleSend: members only, in the client and in Redis.
BubbleSend(c) ==
    /\ Request(c, "chat")
    /\ bubble[c] \in DOMAIN bubbles
    /\ c \in bubbles[bubble[c]].members
    /\ Goto(c, [Idle EXCEPT !.at = "push", !.id = bubble[c]])
    /\ UNCHANGED <<setting, phase, fields, redis, bounds, asked>>

\* PushChannelMessage; a failure is logged.
PushChannelMessage(c) ==
    /\ At(c, "push")
    /\ \/ chats' = chats \cup {job[c].id} /\ UNCHANGED faults
       \/ Fault /\ UNCHANGED chats
    /\ Goto(c, Idle)
    /\ UNCHANGED <<setting, phase, fields, presence, bubbles, minted, asked>>

-----------------------------------------------------------------------------
(* Disconnecting.                                                          *)

\* ClearVoiceOnDisconnect, then Unregister under the hub's mutex.  It is the end of the
\* connection's goroutine; a client that never joined leaves nothing to clean up.
Unregister(c) ==
    /\ Ready(c, "leave")
    /\ phase[c] \in {"open", "joined"}
    /\ phase' = [phase EXCEPT ![c] = "closed"]
    /\ voice' = [voice EXCEPT ![c] = Silent]
    /\ Goto(c, IF phase[c] = "joined" THEN [Idle EXCEPT !.at = "delPresence"] ELSE Idle)
    /\ UNCHANGED <<setting, place, bubble, following, redis, bounds, asked>>

\* A failing call of Unregister is logged, and it goes on.
DeletePresence(c) ==
    /\ At(c, "delPresence")
    /\ \/ presence' = HDel(presence, {c}) /\ UNCHANGED faults
       \/ Fault /\ UNCHANGED presence
    /\ Goto(c, [Idle EXCEPT !.at = "listBubbles"])
    /\ UNCHANGED <<setting, phase, fields, bubbles, chats, minted, asked>>

\* RemoveConnectionFromBubbles reads all bubbles ...
ListBubbles(c) ==
    /\ At(c, "listBubbles")
    /\ Goto(c, [Idle EXCEPT
                  !.at = "clearBubbles",
                  !.snap = [b \in BubbleID |->
                              IF b \in DOMAIN bubbles
                                 /\ c \in bubbles[b].members \cup bubbles[b].invites
                              THEN bubbles[b] ELSE EmptyBubble]])
    /\ UNCHANGED <<setting, phase, fields, redis, bounds, asked>>

\* A variant with a mistake: the invitations stay.
ClearBubbles_MembersOnly(c) ==
    /\ At(c, "clearBubbles")
    /\ LET listed == {b \in BubbleID : job[c].snap[b] # EmptyBubble}
       IN  \/ /\ listed = {}
              /\ Goto(c, [Idle EXCEPT !.at = "clearFollowers"])
              /\ UNCHANGED <<bubbles, chats>>
           \/ \E b \in listed :
                /\ LET left == [job[c].snap[b] EXCEPT !.members = @ \ {c}]
                   IN  IF left.members = {}
                       THEN bubbles' = HDel(bubbles, {b}) /\ chats' = chats \ {b}
                       ELSE bubbles' = HSet(bubbles, b, left) /\ UNCHANGED chats
                /\ Goto(c, [job[c] EXCEPT !.snap[b] = EmptyBubble])
    /\ UNCHANGED <<setting, phase, fields, presence, bounds, asked>>

\* ... and writes or deletes those the connection is in, one call each; an error ends it.
ClearBubbles(c) ==
    /\ At(c, "clearBubbles")
    /\ LET listed == {b \in BubbleID : job[c].snap[b] # EmptyBubble}
       IN  \/ /\ listed = {}
              /\ Goto(c, [Idle EXCEPT !.at = "clearFollowers"])
              /\ UNCHANGED <<bubbles, chats, faults>>
           \/ \E b \in listed :
                /\ LET left == Without(job[c].snap[b], c)
                   IN  IF left.members = {}
                       THEN bubbles' = HDel(bubbles, {b}) /\ chats' = chats \ {b}
                       ELSE bubbles' = HSet(bubbles, b, left) /\ UNCHANGED chats
                /\ Goto(c, [job[c] EXCEPT !.snap[b] = EmptyBubble])
                /\ UNCHANGED faults
           \/ /\ listed # {} /\ Fault
              /\ Goto(c, [Idle EXCEPT !.at = "clearFollowers"])
              /\ UNCHANGED <<bubbles, chats>>
    /\ UNCHANGED <<setting, phase, fields, presence, minted, asked>>

\* A variant with a mistake: only the presence records are corrected.
ClearFollowers_PresenceOnly(c) ==
    /\ At(c, "clearFollowers")
    /\ Goto(c, [Idle EXCEPT !.at = "persistFollowers",
                            !.rest = {f \in Joined : following[f] = c}])
    /\ UNCHANGED <<setting, phase, fields, redis, bounds, asked>>

\* clearFollowersOf, under the hub's mutex.
ClearFollowers(c) ==
    /\ At(c, "clearFollowers")
    /\ LET followers == {f \in Joined : following[f] = c}
       IN  /\ following' = [f \in Conns |-> IF f \in followers THEN None ELSE following[f]]
           /\ Goto(c, [Idle EXCEPT !.at = "persistFollowers", !.rest = followers])
    /\ UNCHANGED <<setting, phase, place, bubble, voice, redis, bounds, asked>>

\* The rest of clearFollowersOf, without it: the presence of each follower is put
\* together from its client ...
PersistFollowers(c) ==
    /\ At(c, "persistFollowers")
    /\ \/ job[c].rest = {} /\ Goto(c, Idle)
       \/ \E f \in job[c].rest :
            Goto(c, [job[c] EXCEPT !.at = "recordFollower", !.who = f, !.rest = @ \ {f},
                                   !.record = [PresenceOf(f) EXCEPT !.following = None]])
    /\ UNCHANGED <<setting, phase, fields, redis, bounds, asked>>

\* ... and written.
RecordFollower(c) ==
    /\ At(c, "recordFollower")
    /\ TrySetPresence(job[c])
    /\ Goto(c, [Idle EXCEPT !.at = "persistFollowers", !.rest = job[c].rest])
    /\ UNCHANGED <<setting, phase, fields, bubbles, chats, minted, asked>>

-----------------------------------------------------------------------------
(* What goes wrong.                                                        *)

\* Redis fails a call whose handler returns then.
StoreFails(c) ==
    /\ job[c].at \in {"move", "setBubble", "getOwn", "reget"}
    /\ Fault
    /\ Goto(c, IF (At(c, "setBubble") /\ job[c].op = "leave") \/ At(c, "getOwn")
               THEN AfterLeaving(c) ELSE Idle)
    /\ UNCHANGED <<setting, phase, fields, redis, minted, asked>>

\* The server dies and is started again: the connections are lost, Redis keeps what it has.
Crash ==
    /\ GoesWrong("crash")
    /\ phase' = [c \in Conns |-> IF phase[c] \in {"open", "joined"} THEN "lost" ELSE phase[c]]
    /\ place' = [c \in Conns |-> Lobby]
    /\ bubble' = [c \in Conns |-> NoBubble]
    /\ following' = [c \in Conns |-> None]
    /\ voice' = [c \in Conns |-> Silent]
    /\ job' = [c \in Conns |-> Idle]
    /\ UNCHANGED <<setting, redis, minted, asked>>

-----------------------------------------------------------------------------

JoinStep(c) ==
    Register(c) \/ HandleJoin(c) \/ SpawnPresence(c) \/ GetAllPresence(c) \/ ClientsInRoom(c)
    \/ PurgeGhosts(c)

MoveStep(c) ==
    PresenceUpdate(c) \/ Moved(c) \/ FollowStart(c) \/ SetFollowing(c) \/ FollowStop(c)
    \/ RecordFollow(c) \/ VoiceTokenRequest(c)

BubbleStep(c) ==
    \/ InviteToBubble(c) \/ CreateBubble(c) \/ BubbleAccept(c) \/ RegetBubble(c)
    \/ BubbleLeave(c) \/ GetOwnBubble(c) \/ RecordLeave(c) \/ DeleteBubble(c) \/ SetBubble(c)
    \/ RecordBubble(c) \/ SyncVoice(c) \/ BubbleSend(c) \/ PushChannelMessage(c)

LeaveStep(c) ==
    Unregister(c) \/ DeletePresence(c) \/ ListBubbles(c) \/ ClearBubbles(c)
    \/ ClearFollowers(c) \/ PersistFollowers(c) \/ RecordFollower(c)

Next ==
    \/ \E c \in Conns :
         JoinStep(c) \/ MoveStep(c) \/ BubbleStep(c) \/ LeaveStep(c) \/ StoreFails(c)
    \/ Crash

Spec == Init /\ [][Next]_vars

-----------------------------------------------------------------------------
(* Safety, whatever runs at the same time.                                 *)

WillWrite(c) == job[c].at = "setBubble"

\* A bubble lives as long as it has members: no interleaving of creating, joining,
\* leaving and disconnecting stores, or is about to store, one without.
BubblesAlive ==
    /\ \A b \in DOMAIN bubbles : bubbles[b].members # {}
    /\ \A c \in Conns : WillWrite(c) => job[c].blob.members # {}

\* Nobody gets into a bubble without having made it or having been invited by a
\* member, however stale the record is that a handler writes.
ByInvitationOnly == \A b \in DOMAIN bubbles : bubbles[b].members \subseteq asked[b]

\* A ghost hunt never hits the living: the presence of a connection that is open is
\* not deleted, though the presence records and the clients are read one after the
\* other while people join.
LivingNotPurged ==
    [][\A c \in DOMAIN presence : phase[c] \in {"open", "joined"} => c \in DOMAIN presence']_vars

-----------------------------------------------------------------------------
(* What holds between handlers when no two overlap and Redis does not fail. *)

Calm == setting.inFlight = 1 /\ Busy = {}

\* A client knows the bubble it is in: its BubbleID is a bubble in Redis that has it as
\* a member, and it is a member of no other one.
MembershipAgrees ==
    Calm /\ faults = 0 =>
      \A c \in Joined :
        {b \in DOMAIN bubbles : c \in bubbles[b].members} =
          (IF bubble[c] = NoBubble THEN {} ELSE {bubble[c]})

\* The voice group a client was given last is that of its bubble, else that of the
\* meeting room it stands in, else none.
VoiceAgrees ==
    Calm =>
      \A c \in Joined \cap DOMAIN presence :
        LET group == voice[c]
        IN  IF bubble[c] # NoBubble THEN group.bubble = bubble[c] /\ group.meeting = None
            ELSE group.bubble = NoBubble
                 /\ group.meeting = IF place[c] \in Meetings THEN place[c] ELSE None

\* Nobody follows a connection that is not in the room.
FollowsSomeone == Calm => \A c \in Joined : following[c] # None => following[c] \in Joined

\* The presence records are those of the people in the room, as their clients have
\* them; those a crash left behind are gone once somebody has joined.
PresenceAgrees ==
    Calm /\ Joined # {} /\ (faults = 0 \/ "fault" \notin setting.traffic) =>
      /\ DOMAIN presence = Joined
      /\ \A c \in Joined : /\ presence[c].zone = place[c]
                           /\ presence[c].bubble = bubble[c]
                           /\ presence[c].following = following[c]

\* A connection that has closed is in no bubble and invited to none, and a bubble that
\* is gone has taken its chat history with it.
ClosedLeavesNothing ==
    Calm /\ faults = 0 =>
      /\ \A b \in DOMAIN bubbles :
           \A c \in bubbles[b].members \cup bubbles[b].invites : phase[c] # "closed"
      /\ chats \subseteq DOMAIN bubbles
=============================================================================
