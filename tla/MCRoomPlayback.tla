--------------------------- MODULE MCRoomPlayback ---------------------------
(* Values of the constants of RoomPlayback for TLC. *)
EXTENDS RoomPlayback

CONSTANTS ann, ben, cat, cron, admin

\* Users with names of their own, and two who have given the same.
OwnNames == [u \in Users |-> u]
Namesakes == [u \in Users |-> IF u \in {ann, ben} THEN "Kim" ELSE u]

\* Rooms whose clients have set these modes while the queue was empty.
AutoplayRoom == [EmptyState EXCEPT !.Autoplay = TRUE]
RandomRoom == [AutoplayRoom EXCEPT !.RandomPlay = TRUE]

Rooms == {AutoplayRoom, RandomRoom}
Autoplaying == {AutoplayRoom}

QueueTraffic == {"add", "remove", "reorder", "report", "skip", "ended", "tick"}
BroadcastTraffic ==
    {"add", "skip", "ended", "report", "cast", "expire", "trigger", "adminSkip", "leave",
     "join", "crash"}
VoteTraffic == {"add", "skip", "remove", "ended", "cast", "expire", "trigger"}
CalmQueueTraffic ==
    {"add", "remove", "reorder", "mode", "speed", "report", "skip", "ended", "cast", "expire"}
CalmBroadcastTraffic ==
    {"add", "reorder", "ended", "trigger", "adminSkip", "report", "settings", "leave", "join",
     "tick"}
ListeningTraffic == {"add", "skip", "ended", "cast", "expire", "trigger", "settings"}

\* The few requests that show a disagreement between the code and what is said of it.
LoneTraffic == {"skip", "ended", "expire", "trigger"}
BrokenBroadcastTraffic == {"ended", "report", "trigger"}
AddTraffic == {"add"}

\* The users, and the goroutines of the staff, of an instance without liveness
\* properties are interchangeable.
Interchangeable == Permutations(Users) \cup Permutations(Staff)

\* Of Namesakes, only those who share a name are.
NamesakesInterchangeable == Permutations({ann, ben}) \cup Permutations(Staff)
=============================================================================
