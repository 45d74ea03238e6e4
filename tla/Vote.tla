-------------------------------- MODULE Vote --------------------------------
(***************************************************************************)
(* model.Vote: the one vote a room may have, kept under                    *)
(* synctune:room:<id>:vote with a time to live.  Song titles, the name of  *)
(* the initiator and ExpiresAt (only shown to clients) are left out.       *)
(***************************************************************************)
EXTENDS Integers, FiniteSets, Playlist

VoteAction == {"remove_song", "skip_song", "skip_broadcast"}

\* YesVoterIDs is a set: HasVoted keeps a user from appearing in it twice.
VoteRecord ==
    [ID : Nat \ {0}, Action : VoteAction, SongQueueID : QueueID,
     YesVoterIDs : SUBSET Users, TotalAtStart : Nat \ {0}]

\* What GetVote returns when the key is missing or has expired.
NoVote ==
    [ID |-> 0, Action |-> "none", SongQueueID |-> NoID, YesVoterIDs |-> {}, TotalAtStart |-> 0]

\* Everyone for a broadcast, half rounded up for the rest.
Required(v) ==
    IF v.Action = "skip_broadcast" THEN v.TotalAtStart ELSE (v.TotalAtStart + 1) \div 2

HasVoted(v, user) == user \in v.YesVoterIDs

Passes(v) == Cardinality(v.YesVoterIDs) >= Required(v)

\* startVote: the initiator votes yes.  An empty room counts as one user.
UserVote(id, action, song, user, online) ==
    [ID |-> id, Action |-> action, SongQueueID |-> song, YesVoterIDs |-> {user},
     TotalAtStart |-> IF online = {} THEN 1 ELSE Cardinality(online)]

\* startBroadcastSkipVote: nobody has voted yet and no song is named.
SchedulerVote(id, online) ==
    [ID |-> id, Action |-> "skip_broadcast", SongQueueID |-> NoID, YesVoterIDs |-> {},
     TotalAtStart |-> Cardinality(online)]

WithYes(v, user) == [v EXCEPT !.YesVoterIDs = @ \cup {user}]
=============================================================================
