-------------------------- MODULE Delivery_proofs --------------------------
(***************************************************************************)
(* The delivery of messages implements a feed, for any number of clients,  *)
(* rooms and handlers and any size of the channel: the channel is the end  *)
(* of the log that Hub.Run has not taken yet (InStep).                     *)
(*                                                                         *)
(* With one handler at a time and nothing lost the messages of a room are  *)
(* in the log in the order of their versions, the newest of them being the *)
(* state that is stored (Orderly): so a client that is shown an older one, *)
(* because the state sent to it on joining overtook the channel, is at a   *)
(* place of the log before the newest (UpToDate).                          *)
(***************************************************************************)
EXTENDS Delivery, SequenceTheorems, FiniteSetTheorems, TLAPS

\* The channel and the message Hub.Run has taken are the end of the log.
InStep ==
    /\ Len(channel) <= Len(log)
    /\ \A i \in 1..Len(channel) : channel[i] = log[Taken + i]
    /\ stage # "receive" => Taken >= 1 /\ current = log[Taken]
    /\ writing # {} => stage = "write"
    /\ \A c \in writing : c # current.except

\* What a goroutine remembers.
Prepared(c) ==
    /\ handler[c].at = "broadcast" => handler[c].message \in Messages
    /\ handler[c].at = "readState" => hall[c] \in Halls

DeliveryInv == DeliveryTypeOK /\ InStep /\ \A c \in Clients : Prepared(c)

queueVars == <<channel, stage, current, writing, log>>

-----------------------------------------------------------------------------

\* The values a variable rests at are of its type.
LEMMA RestFacts ==
    /\ Nothing.version = 0 /\ AtRest \in Handler /\ AtRest.at = "idle" /\ 0 \in Versions
    /\ \A m \in Messages \cup {Nothing} : m.version \in Versions
    /\ \A m \in Messages : m.room \in Halls
  BY DeliveryAssumption DEF Nothing, AtRest, Handler, HandlerPoints, Versions, Messages

\* A step that leaves the queue alone changes nothing of what is in step.
LEMMA StaysInStep ==
    ASSUME InStep, UNCHANGED queueVars
    PROVE  InStep'
  BY DEF InStep, queueVars, Taken

\* One client's handler: the others keep what they remember, their room being the same.
LEMMA OneHandler ==
    ASSUME DeliveryInv, NEW c \in Clients, NEW j \in Handler, handler' = [handler EXCEPT ![c] = j],
           \A d \in Clients \ {c} : hall'[d] = hall[d],
           j.at = "broadcast" => j.message \in Messages,
           j.at = "readState" => hall'[c] \in Halls
    PROVE  handler' \in [Clients -> Handler] /\ \A d \in Clients : Prepared(d)'
<1>1. handler \in [Clients -> Handler] /\ \A d \in Clients : Prepared(d)
  BY DEF DeliveryInv, DeliveryTypeOK
<1>2. handler' \in [Clients -> Handler] /\ handler'[c] = j
      /\ \A d \in Clients \ {c} : handler'[d] = handler[d]
  BY <1>1
<1> QED
  BY <1>1, <1>2 DEF Prepared

\* The steps of a handler that do not touch the channel.
LEMMA HandlersKeep ==
    ASSUME DeliveryInv, NEW c \in Clients,
           SetClientRoom(c) \/ ReadState(c) \/ SendRoomJoined(c) \/ SetState(c) \/ CloseClient(c)
    PROVE  DeliveryInv' /\ UNCHANGED queueVars /\ UNCHANGED heard
<1> USE RestFacts
<1>1. DeliveryTypeOK /\ Prepared(c) /\ InStep /\ handler[c] \in Handler
  BY DEF DeliveryInv, DeliveryTypeOK
<1>2. CASE SetClientRoom(c)
  <2> DEFINE j == [handler[c] EXCEPT !.at = "readState"]
  <2>1. PICK r \in Halls : hall' = [hall EXCEPT ![c] = r]
    BY <1>2 DEF SetClientRoom
  <2>2. hall' \in [Clients -> Halls \cup {Nowhere}] /\ hall'[c] = r
        /\ \A d \in Clients \ {c} : hall'[d] = hall[d]
    BY <1>1, <2>1 DEF DeliveryTypeOK
  <2>3. j \in Handler /\ j.at = "readState"
    BY <1>1 DEF Handler, HandlerPoints
  <2>4. handler' = [handler EXCEPT ![c] = j]
    BY <1>2 DEF SetClientRoom
  <2> HIDE DEF j
  <2>5. handler' \in [Clients -> Handler] /\ \A d \in Clients : Prepared(d)'
    BY <2>2, <2>3, <2>4, OneHandler
  <2> QED
    BY <1>1, <1>2, <2>2, <2>5, StaysInStep
       DEF SetClientRoom, DeliveryInv, DeliveryTypeOK, runVars, clientVars, queueVars
<1>3. CASE ReadState(c)
  <2> DEFINE m == [room |-> hall[c], version |-> stored[hall[c]], except |-> Nowhere]
             j == [at |-> "roomJoined", message |-> m]
  <2>1. hall[c] \in Halls
    BY <1>1, <1>3 DEF ReadState, Prepared
  <2>2. m \in Messages
    BY <1>1, <2>1 DEF Messages, DeliveryTypeOK
  <2>3. handler' = [handler EXCEPT ![c] = j]
    BY <1>3 DEF ReadState
  <2> HIDE DEF m
  <2>4. j \in Handler /\ j.at = "roomJoined"
    BY <2>2 DEF Handler, HandlerPoints
  <2>5. UNCHANGED <<hall, closed, stored, runVars, clientVars, log>>
    BY <1>3 DEF ReadState
  <2> HIDE DEF j
  <2>6. handler' \in [Clients -> Handler] /\ \A d \in Clients : Prepared(d)'
    BY <2>3, <2>4, <2>5, OneHandler
  <2> QED
    BY <1>1, <2>5, <2>6, StaysInStep
       DEF DeliveryInv, DeliveryTypeOK, runVars, clientVars, queueVars
<1>4. CASE SendRoomJoined(c)
  <2>1. handler' = [handler EXCEPT ![c] = AtRest]
    BY <1>4 DEF SendRoomJoined
  <2>2. UNCHANGED <<hall, closed, stored, runVars, heard, log>>
    BY <1>4 DEF SendRoomJoined
  <2>3. handler[c].message.version \in Versions
    BY <1>1 DEF Handler
  <2>4. shown' \in [Clients -> Versions] /\ lossy' \in BOOLEAN
    BY <1>1, <1>4, <2>3 DEF SendRoomJoined, DeliveryTypeOK
  <2>5. handler' \in [Clients -> Handler] /\ \A d \in Clients : Prepared(d)'
    BY <2>1, <2>2, OneHandler
  <2> QED
    BY <1>1, <2>2, <2>4, <2>5, StaysInStep DEF DeliveryInv, DeliveryTypeOK, runVars, queueVars
<1>5. CASE SetState(c)
  <2>1. hall[c] \in Halls /\ stored[hall[c]] < MaxVersion
    BY <1>1, <1>5 DEF SetState, DeliveryTypeOK
  <2>2. stored[hall[c]] + 1 \in Versions
    BY <1>1, <2>1, DeliveryAssumption DEF DeliveryTypeOK, Versions
  <2>3. stored' \in [Halls -> Versions] /\ stored'[hall[c]] \in Versions
    BY <1>1, <1>5, <2>1, <2>2 DEF SetState, DeliveryTypeOK
  <2>4. PICK except \in {c, Nowhere} :
          handler' = [handler EXCEPT ![c] =
                        [at |-> "broadcast",
                         message |-> [room |-> hall[c], version |-> stored'[hall[c]],
                                      except |-> except]]]
    BY <1>5 DEF SetState
  <2> DEFINE m == [room |-> hall[c], version |-> stored'[hall[c]], except |-> except]
             j == [at |-> "broadcast", message |-> m]
  <2>5. m \in Messages
    BY <2>1, <2>3 DEF Messages
  <2> HIDE DEF m
  <2>6. j \in Handler /\ j.at = "broadcast" /\ j.message = m
    BY <2>5 DEF Handler, HandlerPoints
  <2>7. handler' = [handler EXCEPT ![c] = j]
    BY <2>4 DEF m
  <2>8. UNCHANGED <<hall, closed, runVars, clientVars, log>>
    BY <1>5 DEF SetState
  <2> HIDE DEF j
  <2>9. handler' \in [Clients -> Handler] /\ \A d \in Clients : Prepared(d)'
    BY <2>5, <2>6, <2>7, <2>8, OneHandler
  <2> QED
    BY <1>1, <2>3, <2>8, <2>9, StaysInStep
       DEF DeliveryInv, DeliveryTypeOK, runVars, clientVars, queueVars
<1>6. CASE CloseClient(c)
  <2>1. /\ hall' = [hall EXCEPT ![c] = Nowhere] /\ closed' = closed \cup {c}
        /\ handler[c] = AtRest
        /\ UNCHANGED <<stored, handler, runVars, clientVars, log>>
    BY <1>6 DEF CloseClient
  <2>2. hall' \in [Clients -> Halls \cup {Nowhere}] /\ closed' \subseteq Clients
        /\ \A d \in Clients \ {c} : hall'[d] = hall[d]
    BY <1>1, <2>1 DEF DeliveryTypeOK
  <2>3. \A d \in Clients : Prepared(d)'
    BY <2>1, <2>2 DEF DeliveryInv, Prepared
  <2> QED
    BY <1>1, <2>1, <2>2, <2>3, StaysInStep
       DEF DeliveryInv, DeliveryTypeOK, runVars, clientVars, queueVars
<1> QED
  BY <1>2, <1>3, <1>4, <1>5, <1>6

\* What is put into the channel is put at the end of the log.
LEMMA BroadcastKeeps ==
    ASSUME DeliveryInv, NEW c \in Clients, BroadcastToRoomExcept(c)
    PROVE  /\ DeliveryInv'
           /\ UNCHANGED <<stage, current, writing, heard>>
           /\ Taken' = Taken /\ Taken \in Nat /\ Taken <= Len(log)
           /\ \/ log' = log
              \/ \E m \in Messages : log' = Append(log, m)
<1> DEFINE m == handler[c].message
<1>1. /\ DeliveryTypeOK /\ Prepared(c) /\ InStep
      /\ handler' = [handler EXCEPT ![c] = AtRest]
      /\ UNCHANGED <<deliverySetting, hall, closed, stored, stage, current, writing, shown, heard>>
      /\ m \in Messages
  BY DEF DeliveryInv, BroadcastToRoomExcept, Prepared
<1>2. handler' \in [Clients -> Handler] /\ \A d \in Clients : Prepared(d)'
  BY <1>1, OneHandler, RestFacts
<1>3. /\ channel \in Seq(Messages) /\ log \in Seq(Messages)
      /\ Len(channel) \in Nat /\ Len(log) \in Nat /\ Len(channel) <= Len(log)
  BY <1>1 DEF DeliveryTypeOK, InStep
<1>4. Taken \in Nat /\ Taken <= Len(log)
  BY <1>3 DEF Taken
<1> HIDE DEF m
<1>5. CASE Len(channel) < ChannelSize /\ channel' = Append(channel, m) /\ log' = Append(log, m)
           /\ UNCHANGED lossy
  <2>1. /\ Len(channel') = Len(channel) + 1 /\ Len(log') = Len(log) + 1
        /\ channel' \in Seq(Messages) /\ log' \in Seq(Messages)
        /\ \A i \in 1..Len(channel) : channel'[i] = channel[i]
        /\ channel'[Len(channel) + 1] = m
        /\ \A i \in 1..Len(log) : log'[i] = log[i]
        /\ log'[Len(log) + 1] = m
    BY <1>1, <1>3, <1>5, AppendProperties
  <2>2. Taken' = Taken /\ Len(channel') <= Len(log')
    BY <1>3, <2>1 DEF Taken
  <2>3. ASSUME NEW i \in 1..Len(channel')
        PROVE  channel'[i] = log'[Taken' + i]
    <3>1. CASE i = Len(channel) + 1
      <4>1. Taken + i = Len(log) + 1
        BY <1>3, <3>1 DEF Taken
      <4> QED
        BY <2>1, <2>2, <3>1, <4>1
    <3>2. CASE i # Len(channel) + 1
      <4>1. i \in 1..Len(channel)
        BY <1>3, <2>1, <3>2
      <4>2. Taken + i \in 1..Len(log)
        BY <1>3, <4>1 DEF Taken
      <4> QED
        BY <1>1, <2>1, <2>2, <4>1, <4>2 DEF InStep
    <3> QED
      BY <3>1, <3>2
  <2>4. stage' # "receive" => Taken' >= 1 /\ current' = log'[Taken']
    BY <1>1, <1>4, <2>1, <2>2 DEF InStep
  <2>5. InStep'
    BY <1>1, <2>2, <2>3, <2>4 DEF InStep
  <2>6. DeliveryTypeOK'
    BY <1>1, <1>2, <1>3, <1>5, <2>1, DeliveryAssumption DEF DeliveryTypeOK
  <2> QED
    BY <1>1, <1>2, <1>4, <1>5, <2>2, <2>5, <2>6 DEF DeliveryInv
<1>6. CASE lossy' = TRUE /\ UNCHANGED <<channel, log>>
  <2>1. InStep'
    BY <1>1, <1>6, StaysInStep DEF queueVars
  <2>2. Taken' = Taken
    BY <1>6 DEF Taken
  <2>3. DeliveryTypeOK'
    BY <1>1, <1>2, <1>6 DEF DeliveryTypeOK
  <2> QED
    BY <1>1, <1>2, <1>4, <1>6, <2>1, <2>2, <2>3 DEF DeliveryInv
<1> QED
  BY <1>5, <1>6 DEF BroadcastToRoomExcept, m

\* Hub.Run takes the message after the last one it took.
LEMMA ReceiveKeeps ==
    ASSUME DeliveryInv, Receive
    PROVE  /\ DeliveryInv'
           /\ stage = "receive" /\ stage' = "lookRoom" /\ UNCHANGED <<log, heard>>
           /\ Taken' = Taken + 1 /\ Taken \in Nat /\ Taken' <= Len(log)
<1>1. /\ DeliveryTypeOK /\ InStep /\ stage = "receive" /\ channel # <<>> /\ writing = {}
      /\ current' = Head(channel) /\ channel' = Tail(channel) /\ stage' = "lookRoom"
      /\ UNCHANGED <<deliverySetting, hall, closed, stored, handler, writing, shown, heard, lossy,
                     log>>
  BY DEF DeliveryInv, Receive, clientVars, InStep
<1>2. /\ channel \in Seq(Messages) /\ log \in Seq(Messages) /\ Len(log) \in Nat
      /\ Len(channel) \in Nat \ {0} /\ Len(channel) <= Len(log)
  BY <1>1 DEF DeliveryTypeOK, InStep
<1>3. /\ channel' \in Seq(Messages) /\ Len(channel') = Len(channel) - 1
      /\ \A i \in 1..Len(channel') : channel'[i] = channel[i + 1]
      /\ current' = channel[1] /\ current' \in Messages
  BY <1>1, <1>2, HeadTailProperties
<1>4. Taken \in Nat /\ Taken' = Taken + 1 /\ Taken' <= Len(log)
  BY <1>1, <1>2, <1>3 DEF Taken
<1>5. \A i \in 1..Len(channel') : channel'[i] = log'[Taken' + i]
  <2> SUFFICES ASSUME NEW i \in 1..Len(channel') PROVE channel'[i] = log'[Taken' + i]
    OBVIOUS
  <2>1. i + 1 \in 1..Len(channel) /\ Taken' + i = Taken + (i + 1)
    BY <1>2, <1>3, <1>4
  <2> QED
    BY <1>1, <1>3, <2>1 DEF InStep
<1>6. current' = log'[Taken']
  BY <1>1, <1>2, <1>3, <1>4 DEF InStep
<1>7. InStep'
  BY <1>1, <1>2, <1>3, <1>4, <1>5, <1>6 DEF InStep
<1>8. DeliveryTypeOK'
  BY <1>1, <1>2, <1>3, DeliveryAssumption DEF DeliveryTypeOK
<1>9. \A c \in Clients : Prepared(c)'
  BY <1>1 DEF DeliveryInv, Prepared
<1> QED
  BY <1>1, <1>4, <1>7, <1>8, <1>9 DEF DeliveryInv

\* Whom it writes to is whom the message does not exclude.
LEMMA LookIntoRoomKeeps ==
    ASSUME DeliveryInv, LookIntoRoom
    PROVE  /\ DeliveryInv'
           /\ stage = "lookRoom" /\ stage' = "write" /\ writing' \subseteq Clients
           /\ UNCHANGED <<log, channel, heard>>
           /\ Taken \in Nat /\ 1 <= Taken /\ Taken <= Len(log)
<1>1. /\ DeliveryTypeOK /\ InStep /\ stage = "lookRoom" /\ stage' = "write"
      /\ writing' = {c \in Clients : hall[c] = current.room /\ c # current.except}
      /\ UNCHANGED <<deliverySetting, hall, closed, stored, handler, channel, current, shown, heard,
                     lossy, log>>
  BY DEF DeliveryInv, LookIntoRoom, clientVars
<1>2. Taken \in Nat /\ 1 <= Taken /\ Taken <= Len(log)
  BY <1>1 DEF Taken, InStep, DeliveryTypeOK
<1>3. InStep'
  BY <1>1, <1>2 DEF InStep, Taken
<1>4. DeliveryTypeOK'
  BY <1>1 DEF DeliveryTypeOK
<1>5. \A c \in Clients : Prepared(c)'
  BY <1>1 DEF DeliveryInv, Prepared
<1> QED
  BY <1>1, <1>2, <1>3, <1>4, <1>5 DEF DeliveryInv

\* A write takes one client off the list.
LEMMA WriteToKeeps ==
    ASSUME DeliveryInv, NEW c \in Clients, WriteTo(c)
    PROVE  /\ DeliveryInv'
           /\ stage = "write" /\ c \in writing /\ writing' = writing \ {c}
           /\ UNCHANGED <<log, channel, stage, current>>
           /\ Taken \in Nat /\ 1 <= Taken /\ Taken <= Len(log)
           /\ current = log[Taken] /\ current.except # c
           /\ \/ heard' = heard
              \/ heard' = [heard EXCEPT ![c] = Append(@, current)]
<1>1. /\ DeliveryTypeOK /\ InStep /\ stage = "write" /\ c \in writing /\ writing' = writing \ {c}
      /\ UNCHANGED <<deliverySetting, hall, closed, stored, handler, channel, stage, current, log>>
  BY DEF DeliveryInv, WriteTo
<1>2. Taken \in Nat /\ 1 <= Taken /\ Taken <= Len(log) /\ current = log[Taken] /\ current.except # c
  BY <1>1 DEF Taken, InStep, DeliveryTypeOK
<1>3. current \in Messages /\ current.version \in Versions
  BY <1>1, <1>2, RestFacts DEF DeliveryTypeOK
<1>4. \/ /\ shown' = [shown EXCEPT ![c] = current.version]
         /\ heard' = [heard EXCEPT ![c] = Append(@, current)]
         /\ UNCHANGED lossy
      \/ lossy' = TRUE /\ UNCHANGED <<shown, heard>>
  BY DEF WriteTo
<1>5. heard[c] \in Seq(Messages) /\ Append(heard[c], current) \in Seq(Messages)
  BY <1>1, <1>3, AppendProperties DEF DeliveryTypeOK
<1>6. shown' \in [Clients -> Versions] /\ heard' \in [Clients -> Seq(Messages)] /\ lossy' \in BOOLEAN
  BY <1>1, <1>3, <1>4, <1>5 DEF DeliveryTypeOK
<1>7. InStep'
  BY <1>1, <1>2 DEF InStep, Taken
<1>8. DeliveryTypeOK'
  BY <1>1, <1>6 DEF DeliveryTypeOK
<1>9. \A d \in Clients : Prepared(d)'
  BY <1>1 DEF DeliveryInv, Prepared
<1> QED
  BY <1>1, <1>2, <1>4, <1>7, <1>8, <1>9 DEF DeliveryInv

\* When nobody is left to write to, the message is done with.
LEMMA AllWrittenKeeps ==
    ASSUME DeliveryInv, AllWritten
    PROVE  /\ DeliveryInv'
           /\ stage = "write" /\ stage' = "receive" /\ writing = {}
           /\ UNCHANGED <<log, channel, heard, writing>>
<1>1. /\ DeliveryTypeOK /\ InStep /\ stage = "write" /\ stage' = "receive" /\ writing = {}
      /\ current' = Nothing
      /\ UNCHANGED <<deliverySetting, hall, closed, stored, handler, channel, writing, shown, heard,
                     lossy, log>>
  BY DEF DeliveryInv, AllWritten, clientVars
<1>2. InStep'
  BY <1>1 DEF InStep, Taken
<1>3. DeliveryTypeOK'
  BY <1>1 DEF DeliveryTypeOK
<1>4. \A c \in Clients : Prepared(c)'
  BY <1>1 DEF DeliveryInv, Prepared
<1> QED
  BY <1>1, <1>2, <1>3, <1>4 DEF DeliveryInv

\* At first nothing is in the channel and nobody has heard anything.
LEMMA DeliveryStarts == DeliveryInit => DeliveryInv
<1> SUFFICES ASSUME DeliveryInit PROVE DeliveryInv
  OBVIOUS
<1>1. Len(<<>>) = 0 /\ \A S : <<>> \in Seq(S)
  OBVIOUS
<1>2. DeliveryTypeOK
  <2>1. /\ hall = [c \in Clients |-> Nowhere] /\ closed = {} /\ stored = [r \in Halls |-> 0]
        /\ handler = [c \in Clients |-> AtRest] /\ channel = <<>> /\ stage = "receive"
        /\ current = Nothing /\ writing = {} /\ shown = [c \in Clients |-> 0] /\ log = <<>>
        /\ heard = [c \in Clients |-> <<>>] /\ lossy = FALSE
    BY DEF DeliveryInit
  <2>2. /\ hall \in [Clients -> Halls \cup {Nowhere}] /\ stored \in [Halls -> Versions]
        /\ handler \in [Clients -> Handler] /\ shown \in [Clients -> Versions]
    BY <2>1, RestFacts
  <2>3. heard \in [Clients -> Seq(Messages)] /\ channel \in Seq(Messages) /\ log \in Seq(Messages)
    BY <1>1, <2>1
  <2>4. Len(channel) <= ChannelSize
    BY <1>1, <2>1, DeliveryAssumption
  <2> QED
    BY <2>1, <2>2, <2>3, <2>4 DEF DeliveryTypeOK
<1>3. InStep
  BY <1>1 DEF DeliveryInit, InStep
<1>4. \A c \in Clients : Prepared(c)
  BY RestFacts DEF DeliveryInit, Prepared
<1> QED
  BY <1>2, <1>3, <1>4 DEF DeliveryInv

\* Every step keeps the channel the end of the log.
LEMMA DeliveryStep == DeliveryInv /\ [DeliveryNext]_deliveryVars => DeliveryInv'
<1> SUFFICES ASSUME DeliveryInv, [DeliveryNext]_deliveryVars PROVE DeliveryInv'
  OBVIOUS
<1>1. CASE Run
  BY <1>1, ReceiveKeeps, LookIntoRoomKeeps, AllWrittenKeeps DEF Run
<1>2. ASSUME NEW c \in Clients,
             SetClientRoom(c) \/ ReadState(c) \/ SendRoomJoined(c) \/ SetState(c) \/ CloseClient(c)
      PROVE  DeliveryInv'
  BY <1>2, HandlersKeep
<1>3. ASSUME NEW c \in Clients, BroadcastToRoomExcept(c) \/ WriteTo(c)
      PROVE  DeliveryInv'
  BY <1>3, BroadcastKeeps, WriteToKeeps
<1>4. CASE UNCHANGED deliveryVars
  BY <1>4 DEF deliveryVars, DeliveryInv, DeliveryTypeOK, InStep, Taken, Prepared
<1> QED
  BY <1>1, <1>2, <1>3, <1>4 DEF DeliveryNext

\* The channel is always the end of the log, the message taken is the one before it, and
\* every goroutine holds a message it can send.
THEOREM DeliveryInvariant == DeliverySpec => []DeliveryInv
  BY DeliveryStarts, DeliveryStep, PTL DEF DeliverySpec

\* The variables of the delivery are type-correct, whatever the number of clients and rooms
\* and the size of the channel.
THEOREM DeliveryTypeCorrect == DeliverySpec => []DeliveryTypeOK
<1>1. DeliveryInv => DeliveryTypeOK
  BY DEF DeliveryInv
<1> QED
  BY <1>1, DeliveryInvariant, PTL

-----------------------------------------------------------------------------
(* The refinement.                                                         *)

feedPlaces == [c \in Clients |-> Place(c)]

\* At first everybody is at the first message.
LEMMA FeedStarts == DeliveryInit => TheFeed!Init
<1> SUFFICES ASSUME DeliveryInit PROVE TheFeed!Init
  OBVIOUS
<1>1. Taken = 0
  BY DEF DeliveryInit, Taken
<1>2. \A c \in Clients : Place(c) = 1
  BY <1>1 DEF DeliveryInit, Place
<1> QED
  BY <1>2 DEF DeliveryInit, TheFeed!Init

\* What leaves the queue alone and is heard by nobody is nothing to the feed.
LEMMA FeedStutters ==
    ASSUME UNCHANGED queueVars, UNCHANGED heard
    PROVE  UNCHANGED TheFeed!feedVars
<1>1. \A c \in Clients : Place(c)' = Place(c)
  BY DEF queueVars, Place, Taken
<1>2. [c \in Clients |-> Place(c)]' = [c \in Clients |-> Place(c)]
  BY <1>1
<1> QED
  BY <1>2 DEF queueVars, TheFeed!feedVars

\* Every step of the delivery is a step of the feed, or none: a message that gets into the
\* channel is published; who is not in its room when Hub.Run looks misses it; a write is heard,
\* or missed when it fails.
LEMMA FeedSteps ==
    DeliveryInv /\ [DeliveryNext]_deliveryVars => [TheFeed!Next]_(TheFeed!feedVars)
<1> SUFFICES ASSUME DeliveryInv, [DeliveryNext]_deliveryVars
             PROVE  TheFeed!Next \/ UNCHANGED TheFeed!feedVars
  OBVIOUS
<1>1. ASSUME NEW c \in Clients,
             SetClientRoom(c) \/ ReadState(c) \/ SendRoomJoined(c) \/ SetState(c) \/ CloseClient(c)
      PROVE  UNCHANGED TheFeed!feedVars
  BY <1>1, HandlersKeep, FeedStutters
<1>2. ASSUME NEW c \in Clients, BroadcastToRoomExcept(c)
      PROVE  TheFeed!Publish \/ UNCHANGED TheFeed!feedVars
  <2>1. \A d \in Clients : Place(d)' = Place(d)
    BY <1>2, BroadcastKeeps DEF Place
  <2>2. [d \in Clients |-> Place(d)]' = [d \in Clients |-> Place(d)]
    BY <2>1
  <2> QED
    BY <1>2, <2>2, BroadcastKeeps DEF TheFeed!Publish, TheFeed!feedVars
<1>3. CASE Receive
  <2>1. \A d \in Clients : Place(d)' = Place(d)
    BY <1>3, ReceiveKeeps DEF Place
  <2>2. [d \in Clients |-> Place(d)]' = [d \in Clients |-> Place(d)]
    BY <2>1
  <2> QED
    BY <1>3, <2>2, ReceiveKeeps DEF TheFeed!feedVars
<1>4. CASE LookIntoRoom
  <2> DEFINE others == Clients \ writing'
  <2>1. Taken' = Taken
    BY <1>4, LookIntoRoomKeeps DEF Taken
  <2>2. \A d \in Clients : /\ Place(d) = Taken
                           /\ Place(d)' = IF d \in others THEN Place(d) + 1 ELSE Place(d)
    BY <1>4, <2>1, LookIntoRoomKeeps DEF Place
  <2>3. TheFeed!Miss(others)
    BY <1>4, <2>2, LookIntoRoomKeeps DEF TheFeed!Miss
  <2> QED
    BY <2>3 DEF TheFeed!Next
<1>5. ASSUME NEW c \in Clients, WriteTo(c)
      PROVE  TheFeed!Next
  <2>1. Taken' = Taken
    BY <1>5, WriteToKeeps DEF Taken
  <2>2. /\ \A d \in Clients : Place(d)' = IF d = c THEN Place(d) + 1 ELSE Place(d)
        /\ Place(c) = Taken
    BY <1>5, <2>1, WriteToKeeps DEF Place
  <2>3. CASE heard' = heard
    <3>1. TheFeed!Miss({c})
      BY <1>5, <2>2, <2>3, WriteToKeeps DEF TheFeed!Miss
    <3> QED
      BY <3>1 DEF TheFeed!Next
  <2>4. CASE heard' = [heard EXCEPT ![c] = Append(@, current)]
    <3>1. feedPlaces[c] = Taken /\ feedPlaces[c] <= Len(log) /\ log[feedPlaces[c]] = current
          /\ current.except # c
      BY <1>5, <2>2, WriteToKeeps DEF feedPlaces
    <3>2. feedPlaces' = [feedPlaces EXCEPT ![c] = @ + 1]
      BY <2>2 DEF feedPlaces
    <3>3. TheFeed!Hear(c)
      BY <1>5, <2>4, <3>1, <3>2, WriteToKeeps DEF TheFeed!Hear, feedPlaces
    <3> QED
      BY <3>3 DEF TheFeed!Next
  <2> QED
    BY <1>5, <2>3, <2>4, WriteToKeeps
<1>6. CASE AllWritten
  <2>1. Taken' = Taken
    BY <1>6, AllWrittenKeeps DEF Taken
  <2>2. \A d \in Clients : Place(d)' = Place(d)
    BY <1>6, <2>1, AllWrittenKeeps DEF Place
  <2>3. [d \in Clients |-> Place(d)]' = [d \in Clients |-> Place(d)]
    BY <2>2
  <2> QED
    BY <1>6, <2>3, AllWrittenKeeps DEF TheFeed!feedVars
<1>7. CASE UNCHANGED deliveryVars
  BY <1>7, FeedStutters DEF deliveryVars, queueVars
<1> QED
  BY <1>1, <1>2, <1>3, <1>4, <1>5, <1>6, <1>7 DEF DeliveryNext, Run, TheFeed!Next

\* The channel, the goroutines that write and the rooms that fill and empty meanwhile
\* implement a feed: no client hears a message twice, out of order or that excludes it.
THEOREM FeedImplemented == DeliverySpec => FeedRefined
  BY FeedStarts, FeedSteps, DeliveryInvariant, PTL DEF DeliverySpec, FeedRefined, TheFeed!Spec

-----------------------------------------------------------------------------
(* One handler at a time, and nothing lost.                                *)

\* A message with the state that is stored, ...
IsNewest(m, r) == m.room = r /\ m.version = stored[r]

\* ... and one that is about to get into the channel.
OnItsWay(r) == \E d \in Clients : handler[d].at = "broadcast" /\ IsNewest(handler[d].message, r)

Joining(c) == handler[c].at \in {"readState", "roomJoined"}

\* Who is in a room has not disconnected, and who is written to is in the room of the
\* message, or gone.
RoomsAgree ==
    \A c \in Clients :
      /\ hall[c] # Nowhere => c \notin closed
      /\ c \in writing => c \in closed \/ hall[c] = current.room
      /\ Joining(c) => hall[c] \in Halls

OneHandles == \A c, d \in Clients : handler[c] # AtRest /\ handler[d] # AtRest => c = d

\* The messages of a room are in the order of their versions, ...
LogInOrder ==
    /\ \A i \in DOMAIN log : log[i].version <= stored[log[i].room]
    /\ \A i, j \in DOMAIN log :
         i < j /\ log[i].room = log[j].room => log[i].version < log[j].version

\* ... what is stored has been sent or is about to be, ...
NewestIsSent ==
    \A r \in Halls : stored[r] = 0 \/ OnItsWay(r) \/ \E i \in DOMAIN log : IsNewest(log[i], r)

\* ... and what is about to be sent is newer than all that has been.
SendsNewest ==
    \A d \in Clients :
      /\ handler[d].at = "broadcast" =>
           /\ IsNewest(handler[d].message, handler[d].message.room)
           /\ \A i \in DOMAIN log :
                log[i].room = handler[d].message.room =>
                  log[i].version < handler[d].message.version
      /\ handler[d].at = "roomJoined" => handler[d].message.version = stored[hall[d]]

\* A client is shown what is stored, or will be, or is the one excluded.
UpToDate(c) ==
    \/ shown[c] = stored[hall[c]]
    \/ OnItsWay(hall[c])
    \/ \E i \in DOMAIN log :
         IsNewest(log[i], hall[c]) /\ (log[i].except = c \/ i >= Place(c))

AllUpToDate == \A c \in Clients : hall[c] # Nowhere /\ ~Joining(c) => UpToDate(c)

Undisturbed == deliverySetting.inFlight = 1 /\ ~lossy

Orderly == OneHandles /\ LogInOrder /\ NewestIsSent /\ SendsNewest /\ AllUpToDate

CalmDelivery == RoomsAgree /\ IsFiniteSet(Handling) /\ (Undisturbed => Orderly)

\* When one handler moves on, there are no more than before but for it.
LEMMA StaysFinite ==
    ASSUME IsFiniteSet(Handling), NEW c \in Clients,
           \A d \in Clients \ {c} : handler'[d] = handler[d]
    PROVE  IsFiniteSet(Handling')
<1>1. IsFiniteSet(Handling \cup {c})
  BY FS_AddElement
<1>2. Handling' \subseteq Handling \cup {c}
  BY DEF Handling
<1> QED
  BY <1>1, <1>2, FS_Subset

\* With one handler at a time, whoever begins finds all at rest.
LEMMA AllAtRest ==
    ASSUME CalmDelivery, Undisturbed, NEW c \in Clients, MayHandle(c)
    PROVE  \A d \in Clients : handler[d] = AtRest
<1>1. Cardinality(Handling) < 1 /\ IsFiniteSet(Handling)
  BY DEF MayHandle, CalmDelivery, Undisturbed
<1>2. Cardinality(Handling) \in Nat
  BY <1>1, FS_CardinalityType
<1>3. Cardinality(Handling) = 0
  BY <1>1, <1>2
<1>4. Handling = {}
  BY <1>1, <1>3, FS_EmptySet
<1> QED
  BY <1>4 DEF Handling

\* The places of the log, and where a client is in it.
LEMMA PlaceFacts ==
    ASSUME DeliveryInv
    PROVE  /\ Taken \in Nat /\ Taken <= Len(log) /\ Len(log) \in Nat /\ DOMAIN log = 1..Len(log)
           /\ \A c \in Clients : Place(c) \in Nat /\ Place(c) <= Len(log) + 1
           /\ \A i \in DOMAIN log : log[i] \in Messages
           /\ \A i \in DOMAIN log : log[i].room \in Halls /\ log[i].version \in Nat
           /\ \A r \in Halls : stored[r] \in Nat
           /\ \A c \in Clients : handler[c] \in Handler
<1>1. DeliveryTypeOK /\ InStep
  BY DEF DeliveryInv
<1>2. /\ log \in Seq(Messages) /\ channel \in Seq(Messages) /\ Len(channel) \in Nat /\ Len(log) \in Nat
      /\ DOMAIN log = 1..Len(log) /\ Len(channel) <= Len(log)
      /\ \A i \in DOMAIN log : log[i] \in Messages
  BY <1>1, ElementOfSeq DEF DeliveryTypeOK, InStep
<1>3. Taken \in Nat /\ Taken <= Len(log)
  BY <1>2 DEF Taken
<1>4. \A c \in Clients : Place(c) \in {Taken, Taken + 1}
  BY DEF Place
<1>5. \A c \in Clients : Place(c) \in Nat /\ Place(c) <= Len(log) + 1
  BY <1>2, <1>3, <1>4
<1>6. \A m \in Messages : m.room \in Halls /\ m.version \in Nat
  BY DeliveryAssumption DEF Messages, Versions
<1>7. \A r \in Halls : stored[r] \in Nat
  BY <1>1, DeliveryAssumption DEF DeliveryTypeOK, Versions
<1>8. \A c \in Clients : handler[c] \in Handler
  BY <1>1 DEF DeliveryTypeOK
<1> QED
  BY <1>2, <1>3, <1>5, <1>6, <1>7, <1>8

\* One handler moves from the call it is at.
LEMMA HandlerGoes ==
    ASSUME DeliveryInv, NEW c \in Clients, NEW j, handler' = [handler EXCEPT ![c] = j]
    PROVE  handler'[c] = j /\ \A d \in Clients \ {c} : handler'[d] = handler[d]
  BY DEF DeliveryInv, DeliveryTypeOK

\* At rest nobody is about to send or joining.
LEMMA NothingAtRest ==
    ASSUME NEW d \in Clients, handler[d] = AtRest
    PROVE  handler[d].at # "broadcast" /\ ~Joining(d) /\ handler[d].at # "roomJoined"
  BY DEF AtRest, Joining

\* A client comes into a room.
LEMMA SetClientRoomIsCalm ==
    ASSUME DeliveryInv, CalmDelivery, NEW c \in Clients, SetClientRoom(c)
    PROVE  CalmDelivery'
<1> DEFINE j == [handler[c] EXCEPT !.at = "readState"]
<1>1. PICK r \in Halls : hall' = [hall EXCEPT ![c] = r]
  BY DEF SetClientRoom
<1>2. /\ hall'[c] = r /\ r # Nowhere /\ \A d \in Clients \ {c} : hall'[d] = hall[d]
      /\ hall[c] = Nowhere /\ c \notin closed
      /\ UNCHANGED <<deliverySetting, closed, stored, channel, stage, current, writing, shown, lossy,
                     log>>
  BY <1>1, DeliveryAssumption DEF SetClientRoom, DeliveryInv, DeliveryTypeOK, runVars, clientVars
<1>3. j.at = "readState"
  BY PlaceFacts DEF Handler
<1>4. handler'[c] = j /\ \A d \in Clients \ {c} : handler'[d] = handler[d]
  BY HandlerGoes DEF SetClientRoom
<1> HIDE DEF j
<1>5. RoomsAgree /\ IsFiniteSet(Handling) /\ (Undisturbed => Orderly)
  BY DEF CalmDelivery
<1>6. c \notin writing
  <2>1. SUFFICES ASSUME c \in writing PROVE FALSE
    OBVIOUS
  <2>2. stage # "receive" /\ stage = "write" /\ hall[c] = current.room
    BY <1>2, <1>5, <2>1 DEF DeliveryInv, InStep, RoomsAgree
  <2>3. Taken >= 1 /\ current = log[Taken]
    BY <2>2 DEF DeliveryInv, InStep
  <2>4. current.room \in Halls
    BY <2>3, PlaceFacts
  <2> QED
    BY <1>2, <2>2, <2>4, DeliveryAssumption
<1>7. RoomsAgree'
  BY <1>2, <1>3, <1>4, <1>5, <1>6 DEF RoomsAgree, Joining
<1>8. IsFiniteSet(Handling')
  BY <1>4, <1>5, StaysFinite
<1>9. ASSUME Undisturbed' PROVE Orderly'
  <2>1. Orderly /\ \A d \in Clients : handler[d] = AtRest
    BY <1>2, <1>5, <1>9, AllAtRest DEF Undisturbed, SetClientRoom
  <2>2. OneHandles'
    BY <1>4, <2>1 DEF OneHandles
  <2>3. LogInOrder'
    BY <1>2, <2>1 DEF Orderly, LogInOrder
  <2>4. \A s : ~OnItsWay(s)
    BY <2>1, NothingAtRest DEF OnItsWay
  <2>5. NewestIsSent'
    BY <1>2, <2>1, <2>4 DEF Orderly, NewestIsSent, IsNewest
  <2>6. SendsNewest'
    BY <1>3, <1>4, <2>1 DEF SendsNewest, AtRest
  <2>7. AllUpToDate'
    <3> SUFFICES ASSUME NEW d \in Clients, hall'[d] # Nowhere, ~Joining(d)'
                 PROVE  UpToDate(d)'
      BY DEF AllUpToDate
    <3>1. d # c
      BY <1>3, <1>4 DEF Joining
    <3>2. UpToDate(d)
      BY <1>2, <2>1, <3>1, NothingAtRest DEF Orderly, AllUpToDate
    <3>3. Place(d)' = Place(d)
      BY <1>2 DEF Place, Taken
    <3> QED
      BY <1>2, <2>4, <3>1, <3>2, <3>3 DEF UpToDate, IsNewest
  <2> QED
    BY <2>2, <2>3, <2>5, <2>6, <2>7 DEF Orderly
<1> QED
  BY <1>7, <1>8, <1>9 DEF CalmDelivery

\* Whoever joins reads what is stored.
LEMMA ReadStateIsCalm ==
    ASSUME DeliveryInv, CalmDelivery, NEW c \in Clients, ReadState(c)
    PROVE  CalmDelivery'
<1> DEFINE m == [room |-> hall[c], version |-> stored[hall[c]], except |-> Nowhere]
           j == [at |-> "roomJoined", message |-> m]
<1>1. /\ handler[c].at = "readState"
      /\ UNCHANGED <<deliverySetting, hall, closed, stored, channel, stage, current, writing, shown,
                     lossy, log>>
  BY DEF ReadState, runVars, clientVars
<1>2. j.at = "roomJoined" /\ j.message.version = stored[hall[c]]
  OBVIOUS
<1>3. handler' = [handler EXCEPT ![c] = j]
  BY DEF ReadState
<1> HIDE DEF j
<1>4. handler'[c] = j /\ \A d \in Clients \ {c} : handler'[d] = handler[d]
  BY <1>3, HandlerGoes
<1>5. RoomsAgree /\ IsFiniteSet(Handling) /\ (Undisturbed => Orderly) /\ Joining(c)
  BY <1>1 DEF CalmDelivery, Joining
<1>6. RoomsAgree'
  BY <1>1, <1>4, <1>5 DEF RoomsAgree, Joining
<1>7. IsFiniteSet(Handling')
  BY <1>4, <1>5, StaysFinite
<1>8. ASSUME Undisturbed' PROVE Orderly'
  <2>1. Orderly /\ handler[c] # AtRest
    BY <1>1, <1>5, <1>8 DEF Undisturbed, AtRest
  <2>2. OneHandles'
    BY <1>4, <2>1 DEF Orderly, OneHandles
  <2>3. LogInOrder'
    BY <1>1, <2>1 DEF Orderly, LogInOrder
  <2>4. \A s : ~OnItsWay(s)
    BY <1>1, <2>1, NothingAtRest DEF Orderly, OneHandles, OnItsWay
  <2>5. NewestIsSent'
    BY <1>1, <2>1, <2>4 DEF Orderly, NewestIsSent, IsNewest
  <2>6. SendsNewest'
    BY <1>1, <1>2, <1>4, <2>1 DEF Orderly, SendsNewest, IsNewest
  <2>7. AllUpToDate'
    <3> SUFFICES ASSUME NEW d \in Clients, hall'[d] # Nowhere, ~Joining(d)'
                 PROVE  UpToDate(d)'
      BY DEF AllUpToDate
    <3>1. d # c
      BY <1>2, <1>4 DEF Joining
    <3>2. UpToDate(d)
      BY <1>1, <1>4, <2>1, <3>1 DEF Orderly, AllUpToDate, Joining
    <3>3. Place(d)' = Place(d)
      BY <1>1 DEF Place, Taken
    <3> QED
      BY <1>1, <2>4, <3>1, <3>2, <3>3 DEF UpToDate, IsNewest
  <2> QED
    BY <2>2, <2>3, <2>5, <2>6, <2>7 DEF Orderly
<1> QED
  BY <1>6, <1>7, <1>8 DEF CalmDelivery

\* Whoever joins is shown what is stored.
LEMMA SendRoomJoinedIsCalm ==
    ASSUME DeliveryInv, CalmDelivery, NEW c \in Clients, SendRoomJoined(c)
    PROVE  CalmDelivery'
<1>1. /\ handler[c].at = "roomJoined"
      /\ UNCHANGED <<deliverySetting, hall, closed, stored, channel, stage, current, writing, log>>
      /\ \/ shown' = [shown EXCEPT ![c] = handler[c].message.version] /\ lossy' = lossy
         \/ lossy' = TRUE
  BY DEF SendRoomJoined, runVars
<1>2. handler'[c] = AtRest /\ \A d \in Clients \ {c} : handler'[d] = handler[d]
  BY HandlerGoes DEF SendRoomJoined
<1>3. RoomsAgree /\ IsFiniteSet(Handling) /\ (Undisturbed => Orderly) /\ Joining(c)
  BY <1>1 DEF CalmDelivery, Joining
<1>4. RoomsAgree'
  BY <1>1, <1>2, <1>3, NothingAtRest DEF RoomsAgree, Joining, AtRest
<1>5. IsFiniteSet(Handling')
  BY <1>2, <1>3, StaysFinite
<1>6. ASSUME Undisturbed' PROVE Orderly'
  <2>1. /\ Orderly /\ handler[c] # AtRest
        /\ shown' = [shown EXCEPT ![c] = handler[c].message.version]
    BY <1>1, <1>3, <1>6 DEF Undisturbed, AtRest
  <2>2. OneHandles'
    BY <1>2, <2>1 DEF Orderly, OneHandles
  <2>3. LogInOrder'
    BY <1>1, <2>1 DEF Orderly, LogInOrder
  <2>4. \A s : ~OnItsWay(s)
    BY <1>1, <2>1, NothingAtRest DEF Orderly, OneHandles, OnItsWay
  <2>5. NewestIsSent'
    BY <1>1, <2>1, <2>4 DEF Orderly, NewestIsSent, IsNewest
  <2>6. SendsNewest'
    BY <1>1, <1>2, <2>1 DEF Orderly, SendsNewest, IsNewest, AtRest
  <2>7. AllUpToDate'
    <3> SUFFICES ASSUME NEW d \in Clients, hall'[d] # Nowhere, ~Joining(d)'
                 PROVE  UpToDate(d)'
      BY DEF AllUpToDate
    <3>1. CASE d = c
      <4>1. shown'[c] = stored[hall[c]]
        BY <1>1, <2>1 DEF DeliveryInv, DeliveryTypeOK, Orderly, SendsNewest
      <4> QED
        BY <1>1, <3>1, <4>1 DEF UpToDate
    <3>2. CASE d # c
      <4>1. UpToDate(d) /\ shown'[d] = shown[d]
        BY <1>1, <1>2, <2>1, <3>2 DEF Orderly, AllUpToDate, Joining, DeliveryInv, DeliveryTypeOK
      <4>2. Place(d)' = Place(d)
        BY <1>1 DEF Place, Taken
      <4> QED
        BY <1>1, <2>4, <4>1, <4>2 DEF UpToDate, IsNewest
    <3> QED
      BY <3>1, <3>2
  <2> QED
    BY <2>2, <2>3, <2>5, <2>6, <2>7 DEF Orderly
<1> QED
  BY <1>4, <1>5, <1>6 DEF CalmDelivery

\* A change of the room is about to be sent.
LEMMA SetStateIsCalm ==
    ASSUME DeliveryInv, CalmDelivery, NEW c \in Clients, SetState(c)
    PROVE  CalmDelivery'
<1>1. PICK r \in Halls : r = hall[c]
  BY DEF SetState, DeliveryInv, DeliveryTypeOK
<1>2. /\ MayHandle(c) /\ r \in Halls /\ hall[c] = r /\ stored' = [stored EXCEPT ![r] = stored[r] + 1]
      /\ UNCHANGED <<deliverySetting, hall, closed, channel, stage, current, writing, shown,
                     lossy, log>>
  BY <1>1 DEF SetState, runVars, clientVars
<1>3. /\ stored'[r] = stored[r] + 1 /\ \A s \in Halls \ {r} : stored'[s] = stored[s]
      /\ \A s \in Halls : stored[s] \in Nat
  BY <1>2, PlaceFacts DEF DeliveryInv, DeliveryTypeOK
<1>4. PICK except \in {c, Nowhere} :
        handler' = [handler EXCEPT ![c] =
                      [at |-> "broadcast",
                       message |-> [room |-> r, version |-> stored'[r],
                                    except |-> except]]]
  BY <1>2 DEF SetState
<1> DEFINE m == [room |-> r, version |-> stored'[r], except |-> except]
           j == [at |-> "broadcast", message |-> m]
<1>5. handler'[c] = j /\ \A d \in Clients \ {c} : handler'[d] = handler[d]
  BY <1>4, HandlerGoes
<1>6. j.at = "broadcast" /\ j.message.room = r /\ j.message.version = stored'[r]
  OBVIOUS
<1> HIDE DEF j
<1>7. RoomsAgree /\ IsFiniteSet(Handling) /\ (Undisturbed => Orderly)
  BY DEF CalmDelivery
<1>8. RoomsAgree'
  BY <1>2, <1>5, <1>6, <1>7 DEF RoomsAgree, Joining
<1>9. IsFiniteSet(Handling')
  BY <1>5, <1>7, StaysFinite
<1>10. ASSUME Undisturbed' PROVE Orderly'
  <2>1. Orderly /\ \A d \in Clients : handler[d] = AtRest
    BY <1>2, <1>7, <1>10, AllAtRest DEF Undisturbed
  <2>2. OneHandles'
    BY <1>5, <2>1 DEF OneHandles
  <2>3. /\ \A i \in DOMAIN log : log[i].room \in Halls /\ log[i].version \in Nat
        /\ \A i \in DOMAIN log : log[i].version <= stored[log[i].room]
    BY <2>1, PlaceFacts DEF Orderly, LogInOrder
  <2>4. \A i \in DOMAIN log : /\ log[i].version <= stored'[log[i].room]
                              /\ log[i].room = r => log[i].version < stored'[r]
    <3> SUFFICES ASSUME NEW i \in DOMAIN log
                 PROVE  /\ log[i].version <= stored'[log[i].room]
                        /\ log[i].room = r => log[i].version < stored'[r]
      OBVIOUS
    <3>1. CASE log[i].room = r
      BY <1>2, <1>3, <2>3, <3>1
    <3>2. CASE log[i].room # r
      BY <1>3, <2>3, <3>2
    <3> QED
      BY <3>1, <3>2
  <2>5. LogInOrder'
    BY <1>2, <2>1, <2>4 DEF Orderly, LogInOrder
  <2>6. (\A s : ~OnItsWay(s)) /\ OnItsWay(r)'
    BY <1>5, <1>6, <2>1, NothingAtRest DEF OnItsWay, IsNewest
  <2>7. NewestIsSent'
    <3> SUFFICES ASSUME NEW s \in Halls, s # r
                 PROVE  stored'[s] = 0 \/ \E i \in DOMAIN log : IsNewest(log[i], s)'
      BY <1>2, <2>6 DEF NewestIsSent
    <3>1. stored[s] = 0 \/ \E i \in DOMAIN log : IsNewest(log[i], s)
      BY <2>1, <2>6 DEF Orderly, NewestIsSent
    <3> QED
      BY <1>2, <1>3, <3>1 DEF IsNewest
  <2>8. SendsNewest'
    BY <1>2, <1>5, <1>6, <2>1, <2>4, NothingAtRest DEF SendsNewest, IsNewest, AtRest
  <2>9. AllUpToDate'
    <3> SUFFICES ASSUME NEW d \in Clients, hall'[d] # Nowhere PROVE UpToDate(d)'
      BY DEF AllUpToDate
    <3>1. CASE hall[d] = r
      BY <1>2, <2>6, <3>1 DEF UpToDate, OnItsWay, IsNewest
    <3>2. CASE hall[d] # r
      <4>1. UpToDate(d) /\ hall[d] \in Halls /\ stored'[hall[d]] = stored[hall[d]]
        BY <1>2, <1>3, <2>1, <3>2, NothingAtRest
           DEF Orderly, AllUpToDate, DeliveryInv, DeliveryTypeOK
      <4>2. Place(d)' = Place(d)
        BY <1>2 DEF Place, Taken
      <4> QED
        BY <1>2, <2>6, <4>1, <4>2 DEF UpToDate, IsNewest
    <3> QED
      BY <3>1, <3>2
  <2> QED
    BY <2>2, <2>5, <2>7, <2>8, <2>9 DEF Orderly
<1> QED
  BY <1>8, <1>9, <1>10 DEF CalmDelivery

\* What is about to be sent gets into the channel, or is lost.
LEMMA BroadcastIsCalm ==
    ASSUME DeliveryInv, CalmDelivery, NEW c \in Clients, BroadcastToRoomExcept(c)
    PROVE  CalmDelivery'
<1>1. PICK m \in Messages : m = handler[c].message
  BY DEF BroadcastToRoomExcept, DeliveryInv, Prepared
<1>2. /\ handler[c].at = "broadcast"
      /\ UNCHANGED <<deliverySetting, hall, closed, stored, stage, current, writing, shown>>
      /\ Taken' = Taken
      /\ \/ log' = Append(log, m) /\ lossy' = lossy
         \/ lossy' = TRUE
  BY <1>1, BroadcastKeeps DEF BroadcastToRoomExcept
<1>3. handler'[c] = AtRest /\ \A d \in Clients \ {c} : handler'[d] = handler[d]
  BY HandlerGoes DEF BroadcastToRoomExcept
<1>4. RoomsAgree /\ IsFiniteSet(Handling) /\ (Undisturbed => Orderly)
  BY DEF CalmDelivery
<1>5. RoomsAgree'
  BY <1>2, <1>3, <1>4 DEF RoomsAgree, Joining, AtRest
<1>6. IsFiniteSet(Handling')
  BY <1>3, <1>4, StaysFinite
<1>7. ASSUME Undisturbed' PROVE Orderly'
  <2>1. Orderly /\ handler[c] # AtRest /\ log' = Append(log, m)
    BY <1>2, <1>4, <1>7 DEF Undisturbed, AtRest
  <2>2. /\ log \in Seq(Messages) /\ Len(log) \in Nat /\ DOMAIN log = 1..Len(log)
        /\ \A i \in DOMAIN log : log[i].room \in Halls /\ log[i].version \in Nat
    BY PlaceFacts DEF DeliveryInv, DeliveryTypeOK
  <2>3. /\ DOMAIN log' = DOMAIN log \cup {Len(log) + 1} /\ log'[Len(log) + 1] = m
        /\ \A i \in DOMAIN log : log'[i] = log[i]
    BY <2>1, <2>2, AppendProperties
  <2>4. /\ IsNewest(m, m.room) /\ m.version \in Nat /\ m.room \in Halls
        /\ \A i \in DOMAIN log : log[i].room = m.room => log[i].version < m.version
    BY <1>1, <1>2, <2>1, DeliveryAssumption DEF Orderly, SendsNewest, Messages, Versions
  <2>5. OneHandles'
    BY <1>3, <2>1 DEF Orderly, OneHandles
  <2>6. LogInOrder'
    <3>1. \A i \in DOMAIN log' : log'[i].version <= stored[log'[i].room]
      <4> SUFFICES ASSUME NEW i \in DOMAIN log' PROVE log'[i].version <= stored[log'[i].room]
        OBVIOUS
      <4>1. CASE i \in DOMAIN log
        BY <2>1, <2>3, <4>1 DEF Orderly, LogInOrder
      <4>2. CASE i = Len(log) + 1
        BY <2>3, <2>4, <4>2 DEF IsNewest
      <4> QED
        BY <2>3, <4>1, <4>2
    <3>2. ASSUME NEW i \in DOMAIN log', NEW k \in DOMAIN log', i < k, log'[i].room = log'[k].room
          PROVE  log'[i].version < log'[k].version
      <4>1. i \in DOMAIN log
        BY <2>2, <2>3, <3>2
      <4>2. CASE k \in DOMAIN log
        BY <2>1, <2>3, <3>2, <4>1, <4>2 DEF Orderly, LogInOrder
      <4>3. CASE k = Len(log) + 1
        BY <2>3, <2>4, <3>2, <4>1, <4>3
      <4> QED
        BY <2>3, <4>2, <4>3
    <3> QED
      BY <1>2, <3>1, <3>2 DEF LogInOrder
  <2>7. \A s : OnItsWay(s) => IsNewest(m, s)
    BY <1>1, <1>2, <2>1, NothingAtRest DEF Orderly, OneHandles, OnItsWay
  <2>8. \A i, s : IsNewest(log[i], s) /\ i \in DOMAIN log => i \in DOMAIN log' /\ IsNewest(log[i], s)'
    BY <1>2, <2>3 DEF IsNewest
  <2>9. \A s : OnItsWay(s) =>
          Len(log) + 1 \in DOMAIN log' /\ log'[Len(log) + 1].room = s
          /\ log'[Len(log) + 1].version = stored'[s]
    BY <1>2, <2>3, <2>7 DEF IsNewest
  <2>10. NewestIsSent'
    BY <1>2, <2>1, <2>8, <2>9 DEF Orderly, NewestIsSent, IsNewest
  <2>11. SendsNewest'
    BY <1>3, <2>1, NothingAtRest DEF Orderly, OneHandles, SendsNewest, AtRest
  <2>12. AllUpToDate'
    <3> SUFFICES ASSUME NEW d \in Clients, hall'[d] # Nowhere, ~Joining(d)'
                 PROVE  UpToDate(d)'
      BY DEF AllUpToDate
    <3>1. Place(d)' = Place(d) /\ Place(d) \in Nat /\ Place(d) <= Len(log) + 1
      BY <1>2, PlaceFacts DEF Place
    <3>2. UpToDate(d)
      <4>1. ~Joining(d)
        BY <1>2, <1>3 DEF Joining
      <4> QED
        BY <1>2, <2>1, <4>1 DEF Orderly, AllUpToDate
    <3>3. CASE shown[d] = stored[hall[d]]
      BY <1>2, <3>3 DEF UpToDate
    <3>4. CASE OnItsWay(hall[d])
      <4>1. /\ Len(log) + 1 \in DOMAIN log' /\ log'[Len(log) + 1].room = hall'[d]
            /\ log'[Len(log) + 1].version = stored'[hall'[d]] /\ Len(log) + 1 >= Place(d)'
        BY <1>2, <2>2, <2>9, <3>1, <3>4
      <4> QED
        BY <4>1 DEF UpToDate, IsNewest
    <3>5. ASSUME NEW i \in DOMAIN log, IsNewest(log[i], hall[d]), log[i].except = d \/ i >= Place(d)
          PROVE  UpToDate(d)'
      <4>1. i \in DOMAIN log' /\ log'[i] = log[i]
        BY <2>3
      <4> QED
        BY <1>2, <3>1, <3>5, <4>1 DEF UpToDate, IsNewest
    <3> QED
      BY <3>2, <3>3, <3>4, <3>5 DEF UpToDate
  <2> QED
    BY <2>5, <2>6, <2>10, <2>11, <2>12 DEF Orderly
<1> QED
  BY <1>5, <1>6, <1>7 DEF CalmDelivery

\* A client leaves.
LEMMA CloseClientIsCalm ==
    ASSUME DeliveryInv, CalmDelivery, NEW c \in Clients, CloseClient(c)
    PROVE  CalmDelivery'
<1>1. /\ handler[c] = AtRest /\ closed' = closed \cup {c}
      /\ hall'[c] = Nowhere /\ \A d \in Clients \ {c} : hall'[d] = hall[d]
      /\ UNCHANGED <<deliverySetting, stored, handler, channel, stage, current, writing, shown,
                     lossy, log>>
  BY DEF CloseClient, runVars, clientVars, DeliveryInv, DeliveryTypeOK
<1>2. RoomsAgree /\ IsFiniteSet(Handling) /\ (Undisturbed => Orderly)
  BY DEF CalmDelivery
<1>3. RoomsAgree'
  BY <1>1, <1>2, NothingAtRest DEF RoomsAgree, Joining
<1>4. IsFiniteSet(Handling')
  BY <1>1, <1>2, StaysFinite
<1>5. ASSUME Undisturbed' PROVE Orderly'
  <2>1. Orderly
    BY <1>1, <1>2, <1>5 DEF Undisturbed
  <2>2. OneHandles' /\ LogInOrder' /\ NewestIsSent'
    BY <1>1, <2>1 DEF Orderly, OneHandles, LogInOrder, NewestIsSent, OnItsWay, IsNewest
  <2>3. SendsNewest'
    BY <1>1, <2>1, NothingAtRest DEF Orderly, SendsNewest, IsNewest
  <2>4. AllUpToDate'
    <3> SUFFICES ASSUME NEW d \in Clients, hall'[d] # Nowhere, ~Joining(d)'
                 PROVE  UpToDate(d)'
      BY DEF AllUpToDate
    <3>1. d # c
      BY <1>1
    <3>2. UpToDate(d)
      BY <1>1, <2>1, <3>1 DEF Orderly, AllUpToDate, Joining
    <3>3. Place(d)' = Place(d)
      BY <1>1 DEF Place, Taken
    <3> QED
      BY <1>1, <3>1, <3>2, <3>3 DEF UpToDate, OnItsWay, IsNewest
  <2> QED
    BY <2>1, <2>2, <2>3, <2>4 DEF Orderly
<1> QED
  BY <1>3, <1>4, <1>5 DEF CalmDelivery

\* A step of Hub.Run leaves what is in order in order.
LEMMA RunIsOrderly ==
    ASSUME Orderly, UNCHANGED <<hall, stored, handler, log>>
    PROVE  /\ OneHandles' /\ LogInOrder' /\ NewestIsSent' /\ SendsNewest'
           /\ \A s : OnItsWay(s)' <=> OnItsWay(s)
           /\ \A d : Joining(d)' <=> Joining(d)
           /\ \A m, s : IsNewest(m, s)' <=> IsNewest(m, s)
  BY DEF Orderly, OneHandles, LogInOrder, NewestIsSent, SendsNewest, OnItsWay, IsNewest, Joining

\* A message is taken.
LEMMA ReceiveIsCalm ==
    ASSUME DeliveryInv, CalmDelivery, Receive
    PROVE  CalmDelivery'
<1>1. UNCHANGED <<deliverySetting, hall, closed, stored, handler, writing, shown, lossy, log>>
  BY DEF Receive, clientVars
<1>2. \A d \in Clients : Place(d)' = Place(d)
  BY ReceiveKeeps DEF Place
<1>3. writing = {}
  BY DEF Receive, DeliveryInv, InStep
<1>4. RoomsAgree /\ IsFiniteSet(Handling) /\ (Undisturbed => Orderly)
  BY DEF CalmDelivery
<1>5. RoomsAgree' /\ IsFiniteSet(Handling')
  BY <1>1, <1>3, <1>4 DEF RoomsAgree, Joining, Handling
<1>6. ASSUME Undisturbed' PROVE Orderly'
  <2>1. Orderly
    BY <1>1, <1>4, <1>6 DEF Undisturbed
  <2>2. AllUpToDate'
    BY <1>1, <1>2, <2>1 DEF Orderly, AllUpToDate, UpToDate, OnItsWay, IsNewest, Joining
  <2> QED
    BY <1>1, <2>1, <2>2, RunIsOrderly DEF Orderly
<1> QED
  BY <1>5, <1>6 DEF CalmDelivery

\* The message is for all in its room but the one it excludes.
LEMMA LookIntoRoomIsCalm ==
    ASSUME DeliveryInv, CalmDelivery, LookIntoRoom
    PROVE  CalmDelivery'
<1>1. /\ stage = "lookRoom" /\ stage' = "write"
      /\ writing' = {c \in Clients : hall[c] = current.room /\ c # current.except}
      /\ UNCHANGED <<deliverySetting, hall, closed, stored, handler, current, shown, lossy, log,
                     channel>>
  BY DEF LookIntoRoom, clientVars
<1>2. Taken' = Taken /\ Taken \in Nat /\ current = log[Taken]
  BY <1>1, LookIntoRoomKeeps DEF Taken, DeliveryInv, InStep
<1>3. \A d \in Clients : /\ Place(d) = Taken
                         /\ d \in writing' => Place(d)' = Taken
                         /\ Place(d)' \in {Taken, Taken + 1}
  BY <1>1, <1>2 DEF Place
<1>4. RoomsAgree /\ IsFiniteSet(Handling) /\ (Undisturbed => Orderly)
  BY DEF CalmDelivery
<1>5. RoomsAgree' /\ IsFiniteSet(Handling')
  BY <1>1, <1>4 DEF RoomsAgree, Joining, Handling
<1>6. ASSUME Undisturbed' PROVE Orderly'
  <2>1. Orderly
    BY <1>1, <1>4, <1>6 DEF Undisturbed
  <2>2. AllUpToDate'
    <3> SUFFICES ASSUME NEW d \in Clients, hall'[d] # Nowhere, ~Joining(d)'
                 PROVE  UpToDate(d)'
      BY DEF AllUpToDate
    <3>1. UpToDate(d)
      BY <1>1, <2>1 DEF Orderly, AllUpToDate, Joining
    <3>2. ASSUME NEW i \in DOMAIN log, IsNewest(log[i], hall[d]), log[i].except = d \/ i >= Place(d)
          PROVE  UpToDate(d)'
      <4>1. i \in Nat
        BY PlaceFacts
      <4>2. log[i].except = d \/ i >= Place(d)'
        <5>1. CASE i = Taken
          <6>1. log[i].except # d => d \in writing'
            BY <1>1, <1>2, <3>2, <5>1 DEF IsNewest
          <6> QED
            BY <1>2, <1>3, <5>1, <6>1
        <5>2. CASE i # Taken
          BY <1>2, <1>3, <3>2, <4>1, <5>2
        <5> QED
          BY <5>1, <5>2
      <4> QED
        BY <1>1, <3>2, <4>2 DEF UpToDate, IsNewest
    <3> QED
      BY <1>1, <3>1, <3>2 DEF UpToDate, OnItsWay, IsNewest
  <2> QED
    BY <1>1, <2>1, <2>2, RunIsOrderly DEF Orderly
<1> QED
  BY <1>5, <1>6 DEF CalmDelivery

\* A client is shown the message, which is the newest or followed by it.
LEMMA WriteToIsCalm ==
    ASSUME DeliveryInv, CalmDelivery, NEW c \in Clients, WriteTo(c)
    PROVE  CalmDelivery'
<1>1. /\ stage = "write" /\ c \in writing /\ writing' = writing \ {c}
      /\ UNCHANGED <<deliverySetting, hall, closed, stored, handler, channel, stage, current, log>>
      /\ \/ c \notin closed /\ shown' = [shown EXCEPT ![c] = current.version] /\ lossy' = lossy
         \/ lossy' = TRUE
  BY DEF WriteTo
<1>2. /\ Taken' = Taken /\ Taken \in Nat /\ 1 <= Taken /\ Taken <= Len(log)
      /\ current = log[Taken] /\ current.except # c
  BY <1>1, WriteToKeeps DEF Taken
<1>3. /\ \A d \in Clients \ {c} : Place(d)' = Place(d)
      /\ Place(c)' = Taken + 1
  BY <1>1, <1>2 DEF Place
<1>4. RoomsAgree /\ IsFiniteSet(Handling) /\ (Undisturbed => Orderly)
  BY DEF CalmDelivery
<1>5. RoomsAgree' /\ IsFiniteSet(Handling')
  BY <1>1, <1>4 DEF RoomsAgree, Joining, Handling
<1>6. ASSUME Undisturbed' PROVE Orderly'
  <2>1. Orderly /\ c \notin closed /\ shown' = [shown EXCEPT ![c] = current.version]
    BY <1>1, <1>4, <1>6 DEF Undisturbed
  <2>2. shown'[c] = current.version /\ \A d \in Clients \ {c} : shown'[d] = shown[d]
    BY <2>1 DEF DeliveryInv, DeliveryTypeOK
  <2>3. hall[c] = current.room
    BY <1>1, <1>4, <2>1 DEF RoomsAgree
  <2>4. /\ Taken \in DOMAIN log /\ current.room \in Halls /\ current.version \in Nat
        /\ stored[current.room] \in Nat
        /\ \A i \in DOMAIN log : i \in Nat /\ log[i].version \in Nat
    BY <1>2, PlaceFacts
  <2>5. current.version <= stored[hall[c]]
    BY <1>2, <2>1, <2>3, <2>4 DEF Orderly, LogInOrder
  <2>6. UpToDate(c)'
    <3>1. stored[hall[c]] = 0 \/ OnItsWay(hall[c]) \/ \E i \in DOMAIN log : IsNewest(log[i], hall[c])
      BY <2>1, <2>3, <2>4 DEF Orderly, NewestIsSent
    <3>2. CASE stored[hall[c]] = 0
      <4>1. shown'[c] = stored[hall[c]]
        BY <2>2, <2>3, <2>4, <2>5, <3>2
      <4> QED
        BY <1>1, <4>1 DEF UpToDate
    <3>3. CASE OnItsWay(hall[c])
      BY <1>1, <3>3 DEF UpToDate, OnItsWay, IsNewest
    <3>4. ASSUME NEW i \in DOMAIN log, IsNewest(log[i], hall[c]) PROVE UpToDate(c)'
      <4>1. CASE i < Taken
        <5>1. log[i].version < log[Taken].version
          BY <1>2, <2>1, <2>3, <2>4, <3>4, <4>1 DEF Orderly, LogInOrder, IsNewest
        <5>2. log[i].version = stored[hall[c]] /\ log[i].version \in Nat
          BY <2>4, <3>4 DEF IsNewest
        <5> QED
          BY <1>2, <2>3, <2>4, <2>5, <5>1, <5>2
      <4>2. CASE i = Taken
        <5>1. shown'[c] = stored[hall[c]]
          BY <1>2, <2>2, <3>4, <4>2 DEF IsNewest
        <5> QED
          BY <1>1, <5>1 DEF UpToDate
      <4>3. CASE i > Taken
        <5>1. i >= Place(c)'
          BY <1>2, <1>3, <2>4, <4>3
        <5> QED
          BY <1>1, <3>4, <5>1 DEF UpToDate, IsNewest
      <4> QED
        BY <1>2, <2>4, <4>1, <4>2, <4>3
    <3> QED
      BY <3>1, <3>2, <3>3, <3>4
  <2>7. AllUpToDate'
    <3> SUFFICES ASSUME NEW d \in Clients, hall'[d] # Nowhere, ~Joining(d)', d # c
                 PROVE  UpToDate(d)'
      BY <2>6 DEF AllUpToDate
    <3>1. UpToDate(d)
      BY <1>1, <2>1 DEF Orderly, AllUpToDate, Joining
    <3> QED
      BY <1>1, <1>3, <2>2, <3>1 DEF UpToDate, OnItsWay, IsNewest
  <2> QED
    BY <1>1, <2>1, <2>7, RunIsOrderly DEF Orderly
<1> QED
  BY <1>5, <1>6 DEF CalmDelivery

\* Everybody has been written to.
LEMMA AllWrittenIsCalm ==
    ASSUME DeliveryInv, CalmDelivery, AllWritten
    PROVE  CalmDelivery'
<1>1. /\ stage = "write" /\ stage' = "receive" /\ writing = {}
      /\ UNCHANGED <<deliverySetting, hall, closed, stored, handler, channel, writing, shown, lossy,
                     log>>
  BY DEF AllWritten, clientVars
<1>2. \A d \in Clients : Place(d)' = Place(d)
  BY <1>1 DEF Place, Taken
<1>3. RoomsAgree /\ IsFiniteSet(Handling) /\ (Undisturbed => Orderly)
  BY DEF CalmDelivery
<1>4. RoomsAgree' /\ IsFiniteSet(Handling')
  BY <1>1, <1>3 DEF RoomsAgree, Joining, Handling
<1>5. ASSUME Undisturbed' PROVE Orderly'
  <2>1. Orderly
    BY <1>1, <1>3, <1>5 DEF Undisturbed
  <2>2. AllUpToDate'
    BY <1>1, <1>2, <2>1 DEF Orderly, AllUpToDate, UpToDate, OnItsWay, IsNewest, Joining
  <2> QED
    BY <1>1, <2>1, <2>2, RunIsOrderly DEF Orderly
<1> QED
  BY <1>4, <1>5 DEF CalmDelivery

\* At first everything is in order.
LEMMA CalmAtFirst == DeliveryInit => CalmDelivery
<1> SUFFICES ASSUME DeliveryInit PROVE CalmDelivery
  OBVIOUS
<1>1. /\ \A c \in Clients : handler[c] = AtRest /\ hall[c] = Nowhere
      /\ writing = {} /\ log = <<>> /\ \A r \in Halls : stored[r] = 0
  BY DEF DeliveryInit
<1>2. RoomsAgree
  BY <1>1, NothingAtRest DEF RoomsAgree, DeliveryInit
<1>3. Handling = {}
  BY <1>1 DEF Handling
<1>4. OneHandles /\ NewestIsSent /\ AllUpToDate
  BY <1>1 DEF OneHandles, NewestIsSent, AllUpToDate
<1>5. LogInOrder
  BY <1>1 DEF LogInOrder
<1>6. SendsNewest
  BY <1>1, NothingAtRest DEF SendsNewest
<1> QED
  BY <1>2, <1>3, <1>4, <1>5, <1>6, FS_EmptySet DEF CalmDelivery, Orderly

\* Every step leaves everything in order.
LEMMA CalmStaysSo == DeliveryInv /\ CalmDelivery /\ [DeliveryNext]_deliveryVars => CalmDelivery'
<1> SUFFICES ASSUME DeliveryInv, CalmDelivery, [DeliveryNext]_deliveryVars PROVE CalmDelivery'
  OBVIOUS
<1>1. CASE Run
  BY <1>1, ReceiveIsCalm, LookIntoRoomIsCalm, AllWrittenIsCalm DEF Run
<1>2. ASSUME NEW c \in Clients,
             \/ SetClientRoom(c) \/ ReadState(c) \/ SendRoomJoined(c) \/ SetState(c)
             \/ BroadcastToRoomExcept(c) \/ CloseClient(c) \/ WriteTo(c)
      PROVE  CalmDelivery'
  BY <1>2, SetClientRoomIsCalm, ReadStateIsCalm, SendRoomJoinedIsCalm, SetStateIsCalm,
     BroadcastIsCalm, CloseClientIsCalm, WriteToIsCalm
<1>3. CASE UNCHANGED deliveryVars
  <2>1. UNCHANGED <<deliverySetting, hall, closed, stored, handler, channel, stage, current, writing,
                    shown, lossy, log>>
    BY <1>3 DEF deliveryVars
  <2>2. RoomsAgree' /\ IsFiniteSet(Handling') /\ (Undisturbed' <=> Undisturbed)
    BY <2>1 DEF CalmDelivery, RoomsAgree, Joining, Handling, Undisturbed
  <2>3. \A d \in Clients : Place(d)' = Place(d)
    BY <2>1 DEF Place, Taken
  <2>4. AllUpToDate => AllUpToDate'
    BY <2>1, <2>3 DEF AllUpToDate, UpToDate, OnItsWay, IsNewest, Joining
  <2> QED
    BY <2>1, <2>2, <2>4, RunIsOrderly DEF CalmDelivery, Orderly
<1> QED
  BY <1>1, <1>2, <1>3 DEF DeliveryNext

\* When all is sent and done everybody is shown the state that is stored, but for the one the
\* last change excludes: nobody is left with an older one by joining while messages are on
\* their way, for any number of clients and rooms and any size of the channel.
THEOREM EverybodyIsUpToDate == DeliverySpec => []ShowsNewest
<1>1. DeliveryInv /\ CalmDelivery => ShowsNewest
  <2> SUFFICES ASSUME DeliveryInv, CalmDelivery,
                      deliverySetting.inFlight = 1, ~lossy, Handling = {}, channel = <<>>,
                      stage = "receive", NEW c \in Clients, hall[c] # Nowhere
               PROVE  \/ shown[c] = stored[hall[c]]
                      \/ \E i \in DOMAIN log : /\ log[i].room = hall[c]
                                               /\ log[i].version = stored[hall[c]]
                                               /\ log[i].except = c
    BY DEF ShowsNewest
  <2>1. \A d \in Clients : handler[d] = AtRest
    BY DEF Handling
  <2>2. UpToDate(c) /\ ~OnItsWay(hall[c])
    BY <2>1, NothingAtRest DEF CalmDelivery, Undisturbed, Orderly, AllUpToDate, OnItsWay
  <2>3. Place(c) = Len(log) + 1
    <3>1. Len(<<>>) = 0
      OBVIOUS
    <3> QED
      BY <3>1, PlaceFacts DEF Place, Taken
  <2>4. \A i \in DOMAIN log : ~(i >= Place(c))
    BY <2>3, PlaceFacts
  <2> QED
    BY <2>2, <2>4 DEF UpToDate, IsNewest
<1> QED
  BY <1>1, CalmAtFirst, CalmStaysSo, DeliveryInvariant, PTL DEF DeliverySpec
=============================================================================
