-------------------------------- MODULE Chat --------------------------------
(***************************************************************************)
(* The chat of a room and its pins.                                        *)
(*                                                                         *)
(* Both are Redis lists, newest first.  A new message is pushed and the    *)
(* list trimmed in one pipeline.  Everything else takes several calls: a   *)
(* message is found by reading the list, and written back at the index it  *)
(* was found at; a pin is a copy of the message, found by its id and       *)
(* removed by its value.  The handlers of other connections run between    *)
(* the calls.  A text is there or cleared; the reactions are those with    *)
(* one emoji; the reply a message quotes is left out.                      *)
(***************************************************************************)
EXTENDS Integers, Sequences, FiniteSets, Lists

CONSTANTS
    Writers,        \* users in the room, one connection each
    ChatSize,       \* maxChat
    PinSize,        \* maxPins
    MaxMessages,    \* bound: messages ever sent
    ChatSettings    \* see chatSetting

ASSUME ChatAssumption ==
    /\ ChatSize \in Nat \ {0} /\ PinSize \in Nat \ {0} /\ MaxMessages \in Nat
    /\ ChatSettings \subseteq 
         [inFlight : Nat, messages : 0..MaxMessages,
          traffic : SUBSET {"send", "delete", "react", "pin"}]

VARIABLES
    chatSetting,    \* inFlight: handlers between two calls at one time; messages:
                    \* how many are sent; traffic: the requests made
    chat,           \* the chat list in Redis
    pins,           \* the pins list in Redis
    chatJob,        \* the handler of every user
    sent,           \* messages sent so far
    condemned       \* history variable: messages their authors wanted deleted

chatVars == <<chatSetting, chat, pins, chatJob, sent, condemned>>

MessageID == 1..MaxMessages
Message == [id : MessageID, author : Writers, deleted : BOOLEAN, reactions : SUBSET Writers]
NoMessage == [id |-> 0]

ChatPoints == {"idle", "find", "set", "readPins", "findPin", "removePin", "pushPin"}

\* at: the call to come; op and id: what to do to which message; index, item: what to
\* write where, or the message to pin or the pin to remove.
ChatJob == [at : ChatPoints, op : {"none", "delete", "react"}, id : MessageID \cup {0},
            index : 0..ChatSize, item : Message \cup {NoMessage}]
ChatIdle == [at |-> "idle", op |-> "none", id |-> 0, index |-> 0, item |-> NoMessage]

\* The lists are as long as they may be and no longer, whatever is pushed when.
ChatTypeOK ==
    /\ chatSetting \in ChatSettings
    /\ chat \in Seq(Message) /\ Len(chat) <= ChatSize
    /\ pins \in Seq(Message) /\ Len(pins) <= PinSize
    /\ chatJob \in [Writers -> ChatJob]
    /\ sent \in 0..MaxMessages
    /\ condemned \subseteq MessageID

ChatInit ==
    /\ chatSetting \in ChatSettings
    /\ chat = <<>> /\ pins = <<>>
    /\ chatJob = [w \in Writers |-> ChatIdle]
    /\ sent = 0
    /\ condemned = {}

-----------------------------------------------------------------------------

\* LTRIM 0 n-1.
Newest(list, n) == SubSeq(list, 1, IF Len(list) < n THEN Len(list) ELSE n)

\* A variant with a mistake: LTRIM takes the last index for a length.
LPush_OneTooMany(list, x, n) == Newest(<<x>> \o list, n + 1)

\* LPUSH and LTRIM, in one pipeline.
LPush(list, x, n) == Newest(<<x>> \o list, n)

ChatRequest(w, kind) ==
    /\ kind \in chatSetting.traffic
    /\ chatJob[w] = ChatIdle
    /\ Cardinality({v \in Writers : chatJob[v] # ChatIdle}) < chatSetting.inFlight

ChatGoto(w, j) == chatJob' = [chatJob EXCEPT ![w] = j]

\* HandleSendMessage; a push that fails is logged, and the message is broadcast all the same.
SendMessage(w) ==
    /\ ChatRequest(w, "send")
    /\ sent < chatSetting.messages
    /\ sent' = sent + 1
    /\ \/ chat' = LPush(chat, [id |-> sent', author |-> w, deleted |-> FALSE, reactions |-> {}],
                        ChatSize)
       \/ UNCHANGED chat
    /\ UNCHANGED <<chatSetting, pins, chatJob, condemned>>

\* A variant with a mistake: anybody may delete.
DeleteMessage_Anybody(w) ==
    /\ ChatRequest(w, "delete")
    /\ \E i \in DOMAIN chat :
         /\ ChatGoto(w, [ChatIdle EXCEPT !.at = "find", !.op = "delete", !.id = chat[i].id])
         /\ condemned' = IF chat[i].author = w THEN condemned \cup {chat[i].id} ELSE condemned
    /\ UNCHANGED <<chatSetting, chat, pins, sent>>

\* HandleDeleteMessage, up to DeleteChatMessage: only the author may.
DeleteMessage(w) ==
    /\ ChatRequest(w, "delete")
    /\ \E i \in DOMAIN chat :
         /\ chat[i].author = w
         /\ ChatGoto(w, [ChatIdle EXCEPT !.at = "find", !.op = "delete", !.id = chat[i].id])
         /\ condemned' = condemned \cup {chat[i].id}
    /\ UNCHANGED <<chatSetting, chat, pins, sent>>

\* HandleReactMessage; the message may be gone from the list.
ReactMessage(w) ==
    /\ ChatRequest(w, "react")
    /\ \E id \in 1..sent :
         ChatGoto(w, [ChatIdle EXCEPT !.at = "find", !.op = "react", !.id = id])
    /\ UNCHANGED <<chatSetting, chat, pins, sent, condemned>>

\* The updater DeleteChatMessage or ToggleChatReaction hands over.
Updated(m, op, w) ==
    IF op = "delete" THEN [m EXCEPT !.deleted = TRUE]
    ELSE [m EXCEPT !.reactions = IF w \in @ THEN @ \ {w} ELSE @ \cup {w}]

\* updateChatMessage: LRANGE, and the first message with the id; none is an error, ...
FindMessage(w) ==
    /\ chatJob[w].at = "find"
    /\ LET found == {i \in DOMAIN chat : chat[i].id = chatJob[w].id}
       IN  \/ found = {} /\ ChatGoto(w, ChatIdle)
           \/ \E i \in found :
                /\ \A k \in found : i <= k
                /\ ChatGoto(w, [chatJob[w] EXCEPT !.at = "set", !.index = i,
                                !.item = Updated(chat[i], chatJob[w].op, w)])
    /\ UNCHANGED <<chatSetting, chat, pins, sent, condemned>>

\* A variant with a mistake: an index that counts from the other end.
SetMessage_FromTheEnd(w) ==
    /\ chatJob[w].at = "set"
    /\ chat' = [chat EXCEPT ![Len(chat) + 1 - chatJob[w].index] = chatJob[w].item]
    /\ ChatGoto(w, ChatIdle)
    /\ UNCHANGED <<chatSetting, pins, sent, condemned>>

\* ... then LSET: by now another message may be at the index.
SetMessage(w) ==
    /\ chatJob[w].at = "set"
    /\ chat' = [chat EXCEPT ![chatJob[w].index] = chatJob[w].item]
    /\ ChatGoto(w, ChatIdle)
    /\ UNCHANGED <<chatSetting, pins, sent, condemned>>

-----------------------------------------------------------------------------

\* HandlePinMessage, up to TogglePinMessage.
PinMessage(w) ==
    /\ ChatRequest(w, "pin")
    /\ \E i \in DOMAIN chat :
         /\ ~chat[i].deleted
         /\ ChatGoto(w, [ChatIdle EXCEPT !.at = "readPins", !.item = chat[i]])
    /\ UNCHANGED <<chatSetting, chat, pins, sent, condemned>>

Pinned(id) == {i \in DOMAIN pins : pins[i].id = id}

\* TogglePinMessage: GetPinnedMessages.
ReadPins(w) ==
    /\ chatJob[w].at = "readPins"
    /\ ChatGoto(w, [chatJob[w] EXCEPT
                      !.at = IF Pinned(chatJob[w].item.id) # {} THEN "findPin" ELSE "pushPin"])
    /\ UNCHANGED <<chatSetting, chat, pins, sent, condemned>>

\* To unpin, the list is read again for the copy that is pinned, ...
FindPin(w) ==
    /\ chatJob[w].at = "findPin"
    /\ LET found == Pinned(chatJob[w].item.id)
       IN  \/ found = {} /\ ChatGoto(w, ChatIdle)
           \/ \E i \in found :
                /\ \A k \in found : i <= k
                /\ ChatGoto(w, [chatJob[w] EXCEPT !.at = "removePin", !.item = pins[i]])
    /\ UNCHANGED <<chatSetting, chat, pins, sent, condemned>>

\* ... and LREM removes that value.
RemovePin(w) ==
    /\ chatJob[w].at = "removePin"
    /\ pins' = At(pins, {i \in DOMAIN pins : pins[i] # chatJob[w].item})
    /\ ChatGoto(w, ChatIdle)
    /\ UNCHANGED <<chatSetting, chat, sent, condemned>>

\* To pin, the copy is pushed.
PushPin(w) ==
    /\ chatJob[w].at = "pushPin"
    /\ pins' = LPush(pins, chatJob[w].item, PinSize)
    /\ ChatGoto(w, ChatIdle)
    /\ UNCHANGED <<chatSetting, chat, sent, condemned>>

\* Redis fails the next call: every handler gives up.
ChatCallFails(w) ==
    /\ chatJob[w] # ChatIdle
    /\ ChatGoto(w, ChatIdle)
    /\ UNCHANGED <<chatSetting, chat, pins, sent, condemned>>

ChatNext ==
    \E w \in Writers :
      SendMessage(w) \/ DeleteMessage(w) \/ ReactMessage(w) \/ FindMessage(w) \/ SetMessage(w)
      \/ PinMessage(w) \/ ReadPins(w) \/ FindPin(w) \/ RemovePin(w) \/ PushPin(w)
      \/ ChatCallFails(w)

ChatSpec == ChatInit /\ [][ChatNext]_chatVars

-----------------------------------------------------------------------------

\* A deleted message is one its author wanted deleted, whatever is written over what.
OnlyAuthorsDelete == \A i \in DOMAIN chat : chat[i].deleted => chat[i].id \in condemned

Board == INSTANCE ChatBoard
         WITH messages <- chat, pinned <- [i \in DOMAIN pins |-> pins[i].id]

\* As long as handlers do not overlap, the calls they are made of are one step of the
\* board each: the list is the newest messages in order, a deleted one stays deleted,
\* a reaction changes one message, and a pin is set by one request and gone by the next.
BoardRefined ==
    [][chatSetting.inFlight = 1 => Board!Next \/ UNCHANGED <<chat, pins>>]_chatVars
=============================================================================
