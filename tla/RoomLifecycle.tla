---------------------------- MODULE RoomLifecycle ----------------------------
(***************************************************************************)
(* How a room comes to an end.  A room is in memory as long as a client is *)
(* in it; what its users made stays in Redis.  Who leaves last marks the   *)
(* room with the time.  The cleanup of every day reads the marks, then the *)
(* rooms in memory, then deletes room by room what was marked long ago.    *)
(* Nothing takes a mark away when somebody comes back.                     *)
(*                                                                         *)
(* A day begins with the hour of the cleanup.  All keys of a room are one. *)
(***************************************************************************)
EXTENDS Integers, FiniteSets

CONSTANTS
    Guests,             \* connections; who has left may come again as a new one
    Rooms,
    Outside,            \* no room
    MaxAge,             \* roomMaxAge, in days
    MaxDays,            \* bound: days
    MaxCleanupFaults,   \* bound: Redis errors and crashes
    LifeSettings        \* see lifeSetting

ASSUME LifecycleAssumption ==
    /\ Outside \notin Rooms
    /\ MaxAge \in Nat /\ MaxDays \in Nat \ {0} /\ MaxCleanupFaults \in Nat

VARIABLES
    lifeSetting,    \* what happens: "overlap" of a cleanup and guests, "fault", "crash"
    inRoom,         \* Hub.rooms: where every guest is
    leaving,        \* the room a guest, the last in it, has left and not marked yet
    kept,           \* rooms with something of their users in Redis
    mark,           \* last_emptied in Redis; 0: no such key
    day,
    cleanup,        \* the cleanup goroutine
    cleanupFaults,
    lastIn          \* history variable: the last day somebody was in a room

lifeVars ==
    <<lifeSetting, inRoom, leaving, kept, mark, day, cleanup, cleanupFaults, lastIn>>

Days == 0..MaxDays

\* at: the call to come; on: the day it ran last; marks: the marks read; busy: the rooms
\* in memory when it looked; rest: the rooms still to be dealt with.
Cleanup == [at : {"off", "lookRooms", "each"}, on : Days, marks : [Rooms -> Days],
            busy : SUBSET Rooms, rest : SUBSET Rooms]
NoMarks == [r \in Rooms |-> 0]

LifecycleTypeOK ==
    /\ lifeSetting \in LifeSettings
    /\ inRoom \in [Guests -> Rooms \cup {Outside}]
    /\ leaving \in [Guests -> Rooms \cup {Outside}]
    /\ kept \subseteq Rooms
    /\ mark \in [Rooms -> Days] /\ lastIn \in [Rooms -> Days]
    /\ day \in Days \ {0}
    /\ cleanup \in Cleanup
    /\ cleanupFaults \in 0..MaxCleanupFaults
    /\ \A g \in Guests : leaving[g] # Outside => inRoom[g] = Outside

LifecycleInit ==
    /\ lifeSetting \in LifeSettings
    /\ inRoom = [g \in Guests |-> Outside]
    /\ leaving = [g \in Guests |-> Outside]
    /\ kept = {}
    /\ mark = NoMarks /\ lastIn = NoMarks
    /\ day = 1
    /\ cleanup = [at |-> "off", on |-> 0, marks |-> NoMarks, busy |-> {}, rest |-> {}]
    /\ cleanupFaults = 0

-----------------------------------------------------------------------------

\* ActiveRooms.
ActiveRooms == {inRoom[g] : g \in Guests} \ {Outside}

NobodyLeaving == \A g \in Guests : leaving[g] = Outside

\* Guests and the cleanup take turns, unless they are to overlap.
GuestsTurn == cleanup.at = "off" \/ "overlap" \in lifeSetting

CleanupFault(kind) ==
    /\ kind \in lifeSetting
    /\ cleanupFaults < MaxCleanupFaults
    /\ cleanupFaults' = cleanupFaults + 1

\* Register and HandleJoin, as far as SetClientRoom.
EnterRoom(g) ==
    /\ GuestsTurn
    /\ inRoom[g] = Outside /\ leaving[g] = Outside
    /\ \E r \in Rooms :
         /\ inRoom' = [inRoom EXCEPT ![g] = r]
         /\ lastIn' = [lastIn EXCEPT ![r] = day]
    /\ UNCHANGED <<lifeSetting, leaving, kept, mark, day, cleanup, cleanupFaults>>

\* Whatever a guest does that Redis keeps.
UseRoom(g) ==
    /\ GuestsTurn
    /\ inRoom[g] # Outside
    /\ kept' = kept \cup {inRoom[g]}
    /\ UNCHANGED <<lifeSetting, inRoom, leaving, mark, day, cleanup, cleanupFaults, lastIn>>

\* Unregister, under the hub's mutex: is the room empty now?
LeaveRoom(g) ==
    /\ GuestsTurn
    /\ inRoom[g] # Outside
    /\ inRoom' = [inRoom EXCEPT ![g] = Outside]
    /\ leaving' = [leaving EXCEPT
                     ![g] = IF \E h \in Guests \ {g} : inRoom[h] = inRoom[g] THEN Outside
                            ELSE inRoom[g]]
    /\ lastIn' = [lastIn EXCEPT ![inRoom[g]] = day]
    /\ UNCHANGED <<lifeSetting, kept, mark, day, cleanup, cleanupFaults>>

\* A variant with a mistake: a room that has been marked is not marked again.
SetRoomLastEmptied_Once(g) ==
    /\ leaving[g] # Outside
    /\ mark' = [mark EXCEPT ![leaving[g]] = IF @ = 0 THEN day ELSE @]
    /\ leaving' = [leaving EXCEPT ![g] = Outside]
    /\ UNCHANGED <<lifeSetting, inRoom, kept, day, cleanup, cleanupFaults, lastIn>>

\* SetRoomLastEmptied; an error is logged.
SetRoomLastEmptied(g) ==
    /\ leaving[g] # Outside
    /\ \/ mark' = [mark EXCEPT ![leaving[g]] = day] /\ UNCHANGED cleanupFaults
       \/ CleanupFault("fault") /\ UNCHANGED mark
    /\ leaving' = [leaving EXCEPT ![g] = Outside]
    /\ UNCHANGED <<lifeSetting, inRoom, kept, day, cleanup, lastIn>>

\* Time passes; calls take less than a day.
NextDay ==
    /\ day < MaxDays
    /\ NobodyLeaving /\ cleanup.at = "off"
    /\ day' = day + 1
    /\ lastIn' = [r \in Rooms |-> IF r \in ActiveRooms THEN day' ELSE lastIn[r]]
    /\ UNCHANGED <<lifeSetting, inRoom, leaving, kept, mark, cleanup, cleanupFaults>>

\* runRoomCleanup: ListRoomsLastEmptied, ...
ListRoomsLastEmptied ==
    /\ cleanup.at = "off" /\ cleanup.on < day
    /\ "overlap" \in lifeSetting \/ NobodyLeaving
    /\ cleanup' = [cleanup EXCEPT !.at = "lookRooms", !.on = day, !.marks = mark]
    /\ UNCHANGED <<lifeSetting, inRoom, leaving, kept, mark, day, cleanupFaults, lastIn>>

\* ... then ActiveRooms, ...
LookAtActiveRooms ==
    /\ cleanup.at = "lookRooms"
    /\ cleanup' = [cleanup EXCEPT !.at = "each", !.busy = ActiveRooms,
                                  !.rest = {r \in Rooms : cleanup.marks[r] # 0}]
    /\ UNCHANGED <<lifeSetting, inRoom, leaving, kept, mark, day, cleanupFaults, lastIn>>

Expired(time) == time # 0 /\ day - time > MaxAge

\* A variant with a mistake: a room in use ends the cleanup.
CleanRoom_StopsAtActive ==
    /\ cleanup.at = "each"
    /\ \E r \in cleanup.rest :
         IF r \in cleanup.busy
         THEN cleanup' = [cleanup EXCEPT !.rest = {}] /\ UNCHANGED <<kept, mark>>
         ELSE /\ cleanup' = [cleanup EXCEPT !.rest = @ \ {r}]
              /\ kept' = IF Expired(cleanup.marks[r]) THEN kept \ {r} ELSE kept
              /\ mark' = IF Expired(cleanup.marks[r]) THEN [mark EXCEPT ![r] = 0] ELSE mark
    /\ UNCHANGED <<lifeSetting, inRoom, leaving, day, cleanupFaults, lastIn>>

\* ... then DeleteRoom, room by room, for those not in use and marked long ago; the mark
\* goes with the rest, and an error leaves the room for another day.
CleanRoom ==
    /\ cleanup.at = "each"
    /\ \E r \in cleanup.rest :
         /\ cleanup' = [cleanup EXCEPT !.rest = @ \ {r}]
         /\ IF r \notin cleanup.busy /\ Expired(cleanup.marks[r])
            THEN \/ /\ kept' = kept \ {r}
                    /\ mark' = [mark EXCEPT ![r] = 0]
                    /\ UNCHANGED cleanupFaults
                 \/ CleanupFault("fault") /\ UNCHANGED <<kept, mark>>
            ELSE UNCHANGED <<kept, mark, cleanupFaults>>
    /\ UNCHANGED <<lifeSetting, inRoom, leaving, day, lastIn>>

EndCleanup ==
    /\ cleanup.at = "each" /\ cleanup.rest = {}
    /\ cleanup' = [cleanup EXCEPT !.at = "off", !.marks = NoMarks, !.busy = {}]
    /\ UNCHANGED <<lifeSetting, inRoom, leaving, kept, mark, day, cleanupFaults, lastIn>>

\* The server stops, by a crash or a shutdown, and starts again: the connections are
\* gone, and nobody's Unregister has run.
Restart ==
    /\ CleanupFault("crash")
    /\ inRoom' = [g \in Guests |-> Outside]
    /\ leaving' = [g \in Guests |-> Outside]
    /\ cleanup' = [cleanup EXCEPT !.at = "off", !.marks = NoMarks, !.busy = {}, !.rest = {}]
    /\ UNCHANGED <<lifeSetting, kept, mark, day, lastIn>>

LifecycleNext ==
    \/ \E g \in Guests : EnterRoom(g) \/ UseRoom(g) \/ LeaveRoom(g) \/ SetRoomLastEmptied(g)
    \/ NextDay \/ ListRoomsLastEmptied \/ LookAtActiveRooms \/ CleanRoom \/ EndCleanup
    \/ Restart

LifecycleSpec == LifecycleInit /\ [][LifecycleNext]_lifeVars

-----------------------------------------------------------------------------

\* The rooms that lose what they kept.
Lost == kept \ kept'

LongEmpty(r) == r \notin ActiveRooms /\ day - lastIn[r] > MaxAge

\* A room is deleted when it has been empty for more than MaxAge days: nobody is in it
\* and nobody was, as long as guests and cleanup take turns, every mark is written and
\* the server does not stop.
KeptWhileInUse ==
    [][("overlap" \notin lifeSetting /\ cleanupFaults = 0) => \A r \in Lost : LongEmpty(r)]_lifeVars

\* The same whatever happens: what the comment of startRoomCleanup says.
DeletesOnlyLongEmptyRooms == [][\A r \in Lost : LongEmpty(r)]_lifeVars

\* When a cleanup ends, no room marked long ago is left, unless somebody was there when it
\* looked or Redis failed; however guests come and go in between.
CleanupDeletesExpired ==
    [][cleanup.at = "each" /\ cleanup'.at = "off" /\ cleanupFaults' = 0 =>
         \A r \in Rooms : Expired(mark[r]) => r \in cleanup.busy]_lifeVars
=============================================================================
