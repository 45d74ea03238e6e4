----------------------------- MODULE ChatBoard -----------------------------
(***************************************************************************)
(* What the chat of a room promises: a list of the newest messages, newest *)
(* first, and a list of pinned ones, each changed in one step.             *)
(***************************************************************************)
EXTENDS Integers, Sequences, Lists

CONSTANTS
    Writers,    \* users
    ChatSize,   \* how many messages are kept
    PinSize     \* how many pins are kept

VARIABLES messages, pinned

boardVars == <<messages, pinned>>

\* The first n of a list.
Newest(list, n) == SubSeq(list, 1, IF Len(list) < n THEN Len(list) ELSE n)

Ids(list) == {list[i].id : i \in DOMAIN list}

Toggled(w, set) == IF w \in set THEN set \ {w} ELSE set \cup {w}

Init == messages = <<>> /\ pinned = <<>>

\* A new message is the first; when there are too many the last one is gone.
Post ==
    /\ \E m \in {messages'[i] : i \in DOMAIN messages' \cap {1}} :
         /\ \A id \in Ids(messages) : m.id > id
         /\ ~m.deleted /\ m.reactions = {}
         /\ messages' = Newest(<<m>> \o messages, ChatSize)
    /\ UNCHANGED pinned

\* A message is deleted for good, and stays in its place.
Delete ==
    /\ \E i \in DOMAIN messages : messages' = [messages EXCEPT ![i].deleted = TRUE]
    /\ UNCHANGED pinned

\* A user puts a reaction to a message, or takes it back.
React ==
    /\ \E i \in DOMAIN messages, w \in Writers :
         messages' = [messages EXCEPT ![i].reactions = Toggled(w, @)]
    /\ UNCHANGED pinned

\* A message that is on the board and not deleted becomes the first of the pins, ...
Pin ==
    /\ \E i \in DOMAIN messages :
         /\ ~messages[i].deleted
         /\ messages[i].id \notin {pinned[j] : j \in DOMAIN pinned}
         /\ pinned' = Newest(<<messages[i].id>> \o pinned, PinSize)
    /\ UNCHANGED messages

\* ... or is one no longer.
Unpin ==
    /\ \E j \in DOMAIN pinned :
         pinned' = At(pinned, {i \in DOMAIN pinned : pinned[i] # pinned[j]})
    /\ UNCHANGED messages

Next == Post \/ Delete \/ React \/ Pin \/ Unpin

Spec == Init /\ [][Next]_boardVars
=============================================================================
