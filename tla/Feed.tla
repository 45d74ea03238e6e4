-------------------------------- MODULE Feed --------------------------------
(***************************************************************************)
(* What the broadcast loop promises to the clients: one log of messages,   *)
(* which every client goes through from its first to its last.  A client   *)
(* may miss a message, but it hears none twice, none out of order and none *)
(* that excludes it.                                                       *)
(***************************************************************************)
EXTENDS Integers, Sequences

CONSTANTS
    Clients,
    Messages    \* records with a field except, the client not to hear it

VARIABLES
    log,        \* the messages taken for broadcast
    next,       \* the place in the log every client is at
    heard       \* the messages every client has heard

feedVars == <<log, next, heard>>

Init ==
    /\ log = <<>>
    /\ next = [c \in Clients |-> 1]
    /\ heard = [c \in Clients |-> <<>>]

Publish ==
    /\ \E m \in Messages : log' = Append(log, m)
    /\ UNCHANGED <<next, heard>>

Hear(c) ==
    /\ next[c] <= Len(log)
    /\ log[next[c]].except # c
    /\ heard' = [heard EXCEPT ![c] = Append(@, log[next[c]])]
    /\ next' = [next EXCEPT ![c] = @ + 1]
    /\ UNCHANGED log

\* The message is not for these clients, or does not reach them.
Miss(clients) ==
    /\ \A c \in clients : next[c] <= Len(log)
    /\ next' = [c \in Clients |-> IF c \in clients THEN next[c] + 1 ELSE next[c]]
    /\ UNCHANGED <<log, heard>>

Next ==
    \/ Publish
    \/ \E c \in Clients : Hear(c)
    \/ \E clients \in SUBSET Clients : Miss(clients)

Spec == Init /\ [][Next]_feedVars
=============================================================================
