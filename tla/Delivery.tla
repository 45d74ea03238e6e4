------------------------------ MODULE Delivery ------------------------------
(***************************************************************************)
(* How a change reaches the clients of a room.  A handler writes the state *)
(* of the room to Redis and puts a message with it into the hub's channel; *)
(* a full channel drops it.  Hub.Run takes one message at a time, looks    *)
(* who is in the room, writes to all of them at once and waits.  Who joins *)
(* is in the room first, reads the state next, and is sent it past the     *)
(* channel.                                                                *)
(*                                                                         *)
(* A state is its version.  The sessions of the WebSocket library are      *)
(* external: a write puts the message into a queue of the session, sent in *)
(* order, or fails because the session is closed or its queue full.        *)
(***************************************************************************)
EXTENDS Integers, Sequences, FiniteSets

CONSTANTS
    Clients,
    Halls,              \* rooms
    Nowhere,            \* no room, no client
    ChannelSize,        \* the capacity of Hub.broadcastCh
    MaxVersion,         \* bound: changes of one room
    DeliverySettings    \* see deliverySetting

ASSUME DeliveryAssumption ==
    /\ Nowhere \notin Halls /\ Nowhere \notin Clients
    /\ ChannelSize \in Nat \ {0} /\ MaxVersion \in Nat

VARIABLES
    deliverySetting,    \* inFlight: handlers between two calls at one time; slow: whether
                        \* sessions may be too slow
    hall,               \* Hub.rooms: the room of every client
    closed,             \* clients that have disconnected
    stored,             \* the state of every room in Redis
    handler,            \* what every client's goroutine is doing
    channel,            \* Hub.broadcastCh
    stage,              \* where Hub.Run is
    current,            \* the message Hub.Run has taken
    writing,            \* the clients it is still writing to
    shown,              \* the version every client was sent last
    log,                \* history variable: the messages that got into the channel
    heard,              \* history variable: the broadcasts every client was sent
    lossy               \* history variable: whether a message was dropped or failed

deliveryVars == <<deliverySetting, hall, closed, stored, handler, channel, stage, current,
                  writing, shown, log, heard, lossy>>
runVars == <<channel, stage, current, writing>>
clientVars == <<shown, heard, lossy>>

Versions == 0..MaxVersion
Messages == [room : Halls, version : Versions, except : Clients \cup {Nowhere}]
Nothing == [room |-> Nowhere, version |-> 0, except |-> Nowhere]

HandlerPoints == {"idle", "broadcast", "readState", "roomJoined"}
Handler == [at : HandlerPoints, message : Messages \cup {Nothing}]
AtRest == [at |-> "idle", message |-> Nothing]

DeliveryTypeOK ==
    /\ hall \in [Clients -> Halls \cup {Nowhere}]
    /\ closed \subseteq Clients
    /\ stored \in [Halls -> Versions]
    /\ handler \in [Clients -> Handler]
    /\ channel \in Seq(Messages) /\ Len(channel) <= ChannelSize
    /\ stage \in {"receive", "lookRoom", "write"}
    /\ current \in Messages \cup {Nothing}
    /\ writing \subseteq Clients
    /\ shown \in [Clients -> Versions]
    /\ log \in Seq(Messages)
    /\ heard \in [Clients -> Seq(Messages)]
    /\ lossy \in BOOLEAN

DeliveryInit ==
    /\ deliverySetting \in DeliverySettings
    /\ hall = [c \in Clients |-> Nowhere]
    /\ closed = {}
    /\ stored = [r \in Halls |-> 0]
    /\ handler = [c \in Clients |-> AtRest]
    /\ channel = <<>>
    /\ stage = "receive" /\ current = Nothing /\ writing = {}
    /\ shown = [c \in Clients |-> 0]
    /\ log = <<>>
    /\ heard = [c \in Clients |-> <<>>]
    /\ lossy = FALSE

-----------------------------------------------------------------------------
(* Handlers.                                                               *)

Handling == {c \in Clients : handler[c] # AtRest}

MayHandle(c) ==
    /\ handler[c] = AtRest
    /\ Cardinality(Handling) < deliverySetting.inFlight

\* HandleJoin: SetClientRoom, ...
SetClientRoom(c) ==
    /\ MayHandle(c)
    /\ hall[c] = Nowhere /\ c \notin closed
    /\ \E r \in Halls : hall' = [hall EXCEPT ![c] = r]
    /\ handler' = [handler EXCEPT ![c].at = "readState"]
    /\ UNCHANGED <<deliverySetting, closed, stored, runVars, clientVars, log>>

\* ... GetState, ...
ReadState(c) ==
    /\ handler[c].at = "readState"
    /\ handler' = [handler EXCEPT ![c] = [at |-> "roomJoined",
                     message |-> [room |-> hall[c], version |-> stored[hall[c]],
                                  except |-> Nowhere]]]
    /\ UNCHANGED <<deliverySetting, hall, closed, stored, runVars, clientVars, log>>

\* ... SendRoomJoined, which is SendToSession.
SendRoomJoined(c) ==
    /\ handler[c].at = "roomJoined"
    /\ handler' = [handler EXCEPT ![c] = AtRest]
    /\ \/ shown' = [shown EXCEPT ![c] = handler[c].message.version] /\ UNCHANGED lossy
       \/ deliverySetting.slow /\ lossy' = TRUE /\ UNCHANGED shown
    /\ UNCHANGED <<deliverySetting, hall, closed, stored, runVars, heard, log>>

\* A variant with a mistake: what is to be broadcast is the state before the change.
SetState_SendsOld(c) ==
    /\ MayHandle(c)
    /\ hall[c] # Nowhere /\ stored[hall[c]] < MaxVersion
    /\ stored' = [stored EXCEPT ![hall[c]] = @ + 1]
    /\ \E except \in {c, Nowhere} :
         handler' = [handler EXCEPT ![c] = [at |-> "broadcast",
                       message |-> [room |-> hall[c], version |-> stored[hall[c]],
                                    except |-> except]]]
    /\ UNCHANGED <<deliverySetting, hall, closed, runVars, clientVars, log>>

\* Any handler that changes the room: it writes the new state ...
SetState(c) ==
    /\ MayHandle(c)
    /\ hall[c] # Nowhere /\ stored[hall[c]] < MaxVersion
    /\ stored' = [stored EXCEPT ![hall[c]] = @ + 1]
    /\ \E except \in {c, Nowhere} :
         handler' = [handler EXCEPT ![c] = [at |-> "broadcast",
                       message |-> [room |-> hall[c], version |-> stored'[hall[c]],
                                    except |-> except]]]
    /\ UNCHANGED <<deliverySetting, hall, closed, runVars, clientVars, log>>

\* ... and BroadcastToRoomExcept never waits for room in the channel.
BroadcastToRoomExcept(c) ==
    /\ handler[c].at = "broadcast"
    /\ handler' = [handler EXCEPT ![c] = AtRest]
    /\ \/ /\ Len(channel) < ChannelSize
          /\ channel' = Append(channel, handler[c].message)
          /\ log' = Append(log, handler[c].message)
          /\ UNCHANGED lossy
       \/ /\ Len(channel) = ChannelSize
          /\ lossy' = TRUE
          /\ UNCHANGED <<channel, log>>
    /\ UNCHANGED <<deliverySetting, hall, closed, stored, stage, current, writing, shown, heard>>

\* Unregister.
CloseClient(c) ==
    /\ handler[c] = AtRest /\ c \notin closed
    /\ closed' = closed \cup {c}
    /\ hall' = [hall EXCEPT ![c] = Nowhere]
    /\ UNCHANGED <<deliverySetting, stored, handler, runVars, clientVars, log>>

-----------------------------------------------------------------------------
(* Hub.Run.                                                                *)

Receive ==
    /\ stage = "receive" /\ channel # <<>>
    /\ current' = Head(channel)
    /\ channel' = Tail(channel)
    /\ stage' = "lookRoom"
    /\ UNCHANGED <<deliverySetting, hall, closed, stored, handler, writing, clientVars, log>>

\* A variant with a mistake: the one who is excluded is written to as well.
LookIntoRoom_EchoesToo ==
    /\ stage = "lookRoom"
    /\ writing' = {c \in Clients : hall[c] = current.room}
    /\ stage' = "write"
    /\ UNCHANGED <<deliverySetting, hall, closed, stored, handler, channel, current, clientVars,
                   log>>

\* The clients in the room, under the hub's mutex.
LookIntoRoom ==
    /\ stage = "lookRoom"
    /\ writing' = {c \in Clients : hall[c] = current.room /\ c # current.except}
    /\ stage' = "write"
    /\ UNCHANGED <<deliverySetting, hall, closed, stored, handler, channel, current, clientVars,
                   log>>

\* A variant with a mistake: a write that fails is not counted as done.
WriteTo_WaitsForFailed(c) ==
    /\ stage = "write" /\ c \in writing
    /\ \/ /\ c \notin closed
          /\ writing' = writing \ {c}
          /\ shown' = [shown EXCEPT ![c] = current.version]
          /\ heard' = [heard EXCEPT ![c] = Append(@, current)]
          /\ UNCHANGED lossy
       \/ /\ deliverySetting.slow \/ c \in closed
          /\ lossy' = TRUE
          /\ UNCHANGED <<writing, shown, heard>>
    /\ UNCHANGED <<deliverySetting, hall, closed, stored, handler, channel, stage, current, log>>

\* Conn.Write of one client, in a goroutine of its own; a failure is logged.
WriteTo(c) ==
    /\ stage = "write" /\ c \in writing
    /\ writing' = writing \ {c}
    /\ \/ /\ c \notin closed
          /\ shown' = [shown EXCEPT ![c] = current.version]
          /\ heard' = [heard EXCEPT ![c] = Append(@, current)]
          /\ UNCHANGED lossy
       \/ /\ deliverySetting.slow \/ c \in closed
          /\ lossy' = TRUE
          /\ UNCHANGED <<shown, heard>>
    /\ UNCHANGED <<deliverySetting, hall, closed, stored, handler, channel, stage, current, log>>

\* wg.Wait, and the next message.
AllWritten ==
    /\ stage = "write" /\ writing = {}
    /\ stage' = "receive" /\ current' = Nothing
    /\ UNCHANGED <<deliverySetting, hall, closed, stored, handler, channel, writing, clientVars,
                   log>>

Run == Receive \/ LookIntoRoom \/ AllWritten

DeliveryNext ==
    \/ Run
    \/ \E c \in Clients :
         SetClientRoom(c) \/ ReadState(c) \/ SendRoomJoined(c) \/ SetState(c)
         \/ BroadcastToRoomExcept(c) \/ CloseClient(c) \/ WriteTo(c)

\* Run has a goroutine of its own and so has every write, and a write never blocks.
DeliveryFairness == WF_deliveryVars(Run) /\ \A c \in Clients : WF_deliveryVars(WriteTo(c))

DeliverySpec == DeliveryInit /\ [][DeliveryNext]_deliveryVars /\ DeliveryFairness

-----------------------------------------------------------------------------

Taken == Len(log) - Len(channel)

\* The place in the log a client is at: the message Run has taken is before it until it
\* is known to be for somebody else or has been written.
Place(c) ==
    IF stage = "lookRoom" \/ (stage = "write" /\ c \in writing) THEN Taken ELSE Taken + 1

TheFeed == INSTANCE Feed WITH next <- [c \in Clients |-> Place(c)]

\* The clients are served in the order in which messages got into the channel, each
\* message at most once and never to the client it excludes, whoever comes and goes.
FeedRefined == TheFeed!Spec

\* A message in the channel is heard by everybody in its room, except the one it
\* excludes and those who leave, if their sessions keep up.
EveryoneHears ==
    \A c \in Clients, v \in 1..MaxVersion :
      (/\ ~deliverySetting.slow
       /\ \E i \in DOMAIN channel : /\ channel[i].room = hall[c]
                                    /\ channel[i].version = v
                                    /\ channel[i].except # c)
      ~> (hall[c] = Nowhere \/ \E i \in DOMAIN heard[c] : heard[c][i].version = v)

\* When all is sent and done everybody is shown the state that is stored, but for who made
\* the last change and is excluded: if nothing was lost and handlers do not overlap, though
\* the state sent to who joins overtakes the channel.
ShowsNewest ==
    deliverySetting.inFlight = 1 /\ ~lossy /\ Handling = {} /\ channel = <<>> /\ stage = "receive" =>
      \A c \in Clients :
        hall[c] # Nowhere =>
          \/ shown[c] = stored[hall[c]]
          \/ \E i \in DOMAIN log : /\ log[i].room = hall[c]
                                   /\ log[i].version = stored[hall[c]]
                                   /\ log[i].except = c
=============================================================================
