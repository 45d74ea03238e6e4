---------------------------- MODULE RoomPlayback ----------------------------
(***************************************************************************)
(* One room, played by several goroutines at once.                         *)
(*                                                                         *)
(* Redis keeps the playlist document, the history, the vote, the           *)
(* song_ended claims and the settings; the hub keeps who is in the room    *)
(* and the vote mutex.  A handler reads the document, computes a new one   *)
(* in memory and writes it back whole, and other handlers run in between:  *)
(* a job is a handler between two of its calls to Redis, and the blob it   *)
(* holds is the document it is going to write.                             *)
(*                                                                         *)
(* The requests of one client run one after the other, its disconnect last *)
(* (melody calls the handlers from the session's read loop).  The cron     *)
(* goroutine and the admin's HTTP requests are Staff.  A request that the  *)
(* code rejects before it changes anything (a song_id that is not the      *)
(* current one, a vote_id that is not the active one, a rate limit, a bad  *)
(* payload, a song_ended within 4 seconds of the start of a broadcast, a   *)
(* failing read) is a step that changes nothing and is not written down.   *)
(***************************************************************************)
EXTENDS Integers, Sequences, FiniteSets, Playlist, Vote

CONSTANTS
    Staff,          \* the cron goroutine and admin HTTP requests
    HistoryLimit,   \* maxHistory, 50 in the code
    Traffic,        \* the kinds of requests and events of this instance
    InitialClients, \* who has joined at the start
    InitialStates,  \* the documents the room may start from
    InitialSkip,    \* the values AllowSkipBroadcast may start from
    MaxInFlight,    \* bound: handlers between two Redis calls at one time
    MaxSongs,       \* bound: queue ids ever made
    MaxVotes,       \* bound: clients call no more votes once this many were made
    MaxSeek,        \* bound: seek time
    MaxFaults       \* bound: Redis errors and crashes

None == "none"

\* Every connection is a user of its own: HandleJoin makes User.ID the Client.ID.
Clients == Users

ASSUME RoomAssumption ==
    /\ Clients \cap Staff = {}
    /\ None \notin Clients
    /\ InitialClients \subseteq Clients /\ IsFiniteSet(InitialClients)
    /\ InitialSkip \subseteq BOOLEAN
    /\ \A s \in InitialStates :
         /\ s \in PlaylistState /\ WellFormed(s)
         /\ s.CurrentQueue = <<>> /\ s.SeekTime = 0 /\ ~s.IsBroadcasting
    /\ {HistoryLimit, MaxInFlight, MaxSongs, MaxVotes, MaxSeek, MaxFaults} \subseteq Nat

VARIABLES
    store,      \* the document in Redis
    history,    \* the history list in Redis, oldest first
    vote,       \* the vote in Redis, or NoVote
    claimed,    \* queue ids whose song_ended key exists in Redis
    allowSkip,  \* AppSettings.AllowSkipBroadcast in Redis
    online,     \* the hub's clients of the room
    lock,       \* who holds the room's vote mutex
    job,        \* what every client and staff goroutine is doing
    minted,     \* queue ids made so far
    ballots,    \* votes made so far
    faults,     \* Redis errors and crashes so far
    ticked,     \* history variable: queue ids the seek time has advanced for
    passed,     \* history variable: the votes that passed, in order
    owed,       \* history variable: songs accepted and not yet written out of the queue
                \* as played, skipped or removed
    discarded   \* history variable: those of them that were in a broadcast's queue when
                \* it was given up

redis == <<store, history, vote, claimed, allowSkip>>
hub == <<online, lock>>
bounds == <<minted, ballots, faults>>
ghosts == <<ticked, passed, owed, discarded>>
vars == <<redis, hub, job, bounds, ghosts>>

Procs == Clients \cup Staff

Points ==
    {"idle", "write", "getVote", "setVote", "cast", "execute", "claim", "getClear", "delVote",
     "inject", "getSettings", "reset"}

Ops ==
    {"none", "add", "remove", "reorder", "mode", "speed", "report", "ended", "endBroadcast",
     "startBroadcast", "queueBroadcast", "restore"} \cup VoteAction

\* at: the call to come; op: whose; target: the song; blob: the document to
\* write; ballot: the vote to write.
Job == [at : Points, op : Ops, target : QueueID, blob : PlaylistState,
        ballot : VoteRecord \cup {NoVote}]

Idle == [at |-> "idle", op |-> "none", target |-> NoID, blob |-> EmptyState, ballot |-> NoVote]

HistorySong == [QueueID : QueueID, Status : {"played", "skipped"}]

TypeOK ==
    /\ store \in PlaylistState
    /\ history \in Seq(HistorySong)
    /\ vote \in VoteRecord \cup {NoVote}
    /\ claimed \subseteq QueueID
    /\ allowSkip \in BOOLEAN
    /\ online \subseteq Clients
    /\ lock \in Clients \cup {None}
    /\ job \in [Procs -> Job]
    /\ minted \in Nat /\ ballots \in Nat /\ faults \in Nat
    /\ ticked \subseteq QueueID
    /\ passed \in Seq(Nat)
    /\ owed \subseteq QueueID /\ discarded \subseteq QueueID

Init ==
    /\ store \in InitialStates
    /\ history = <<>>
    /\ vote = NoVote
    /\ claimed = {}
    /\ allowSkip \in InitialSkip
    /\ online = InitialClients
    /\ lock = None
    /\ job = [p \in Procs |-> Idle]
    /\ minted = 0 /\ ballots = 0 /\ faults = 0
    /\ ticked = {}
    /\ passed = <<>>
    /\ owed = {} /\ discarded = {}

-----------------------------------------------------------------------------
(* Pieces of handlers.                                                     *)

Busy == {p \in Procs : job[p] # Idle}

\* A process takes up something new.
Ready(p, kind) ==
    /\ kind \in Traffic
    /\ job[p] = Idle
    /\ Cardinality(Busy) < MaxInFlight

Request(c, kind) == c \in online /\ Ready(c, kind)

Goto(p, j) == job' = [job EXCEPT ![p] = j]

\* The handler has computed one of these documents and is about to write it.
WillWrite(p, op, target, blobs) ==
    \E b \in blobs :
      Goto(p, [Idle EXCEPT !.at = "write", !.op = op, !.target = target, !.blob = b])

\* The handler returns; HandleVoteCast releases the mutex.
Return(p) ==
    /\ Goto(p, Idle)
    /\ lock' = IF lock = p THEN None ELSE lock

Newest(entries) ==
    IF Len(entries) <= HistoryLimit THEN entries ELSE Tail(entries)

\* PushHistory, which trims the list; its failure is logged and the handler goes on.
PushHistory(id, status) ==
    \/ /\ history' = Newest(Append(history, [QueueID |-> id, Status |-> status]))
       /\ UNCHANGED faults
    \/ /\ faults < MaxFaults
       /\ faults' = faults + 1
       /\ UNCHANGED history

-----------------------------------------------------------------------------
(* Requests of a client, up to the first write.                            *)

\* HandleAddSong: the document is read before the metadata is fetched.
AddSong(c) ==
    /\ Request(c, "add")
    /\ minted < MaxSongs
    /\ Len(store.CurrentQueue) < MaxQueue
    /\ minted' = minted + 1
    /\ LET song == UserSong(minted + 1, c)
       IN  WillWrite(c, "add", song.QueueID, {WithSong(store, song)})
    /\ UNCHANGED <<redis, hub, ballots, faults, ghosts>>

\* What a client does to a song added under its name needs no vote.
OwnOrVote(song, c) == IF song.AddedBy = Username[c] THEN "execute" ELSE "getVote"

MayCallVote(at) == at = "getVote" => ballots < MaxVotes

\* HandleRemoveSong: the owner removes, the others vote.
RemoveSong(c) ==
    /\ Request(c, "remove")
    /\ \E i \in DOMAIN store.CurrentQueue \ {store.CurrentIndex + 1} :
         LET song == store.CurrentQueue[i]
         IN  /\ MayCallVote(OwnOrVote(song, c))
             /\ Goto(c, [Idle EXCEPT !.at = OwnOrVote(song, c), !.op = "remove_song",
                                     !.target = song.QueueID])
    /\ UNCHANGED <<redis, hub, bounds, ghosts>>

\* HandleReorderQueue.
ReorderQueue(c) ==
    /\ Request(c, "reorder")
    /\ \E from, to \in 0..(Len(store.CurrentQueue) - 1) :
         WillWrite(c, "reorder", NoID, {Reordered(store, from, to)})
    /\ UNCHANGED <<redis, hub, bounds, ghosts>>

\* HandleSetPlaybackMode: a mode the payload leaves out keeps its value.
SetPlaybackMode(c) ==
    /\ Request(c, "mode")
    /\ \E autoplay, shuffle, random \in BOOLEAN :
         WillWrite(c, "mode", NoID, ModeChanges(store, autoplay, shuffle, random))
    /\ UNCHANGED <<redis, hub, bounds, ghosts>>

\* HandleSetPlaybackSpeed.
SetPlaybackSpeed(c) ==
    /\ Request(c, "speed")
    /\ \E v \in Speeds : WillWrite(c, "speed", NoID, {[store EXCEPT !.PlaybackSpeed = v]})
    /\ UNCHANGED <<redis, hub, bounds, ghosts>>

\* HandleReportError (101, 150): nothing keeps two clients from reporting one song.
ReportError(c) ==
    /\ Request(c, "report")
    /\ store.CurrentQueue # <<>>
    /\ LET song == CurrentSong(store)
       IN  /\ PushHistory(song.QueueID, "skipped")
           /\ WillWrite(c, "report", song.QueueID,
                        {IF song.IsBroadcast THEN BroadcastErrorOutcome(store)
                         ELSE ErrorOutcome(store)})
    /\ UNCHANGED <<store, vote, claimed, allowSkip, hub, minted, ballots, ghosts>>

\* HandleSkipSong: the owner skips, the others vote; a broadcast is always voted
\* on.  Duration is never set, so the 50% limit never applies.
SkipSong(c) ==
    /\ Request(c, "skip")
    /\ store.CurrentQueue # <<>>
    /\ LET song == CurrentSong(store)
           op   == IF song.IsBroadcast THEN "skip_broadcast" ELSE "skip_song"
           next == IF song.IsBroadcast THEN "getVote" ELSE OwnOrVote(song, c)
       IN  /\ song.IsBroadcast => ~store.BroadcastSkipLocked /\ allowSkip
           /\ MayCallVote(next)
           /\ Goto(c, [Idle EXCEPT !.at = next, !.op = op, !.target = song.QueueID])
    /\ UNCHANGED <<redis, hub, bounds, ghosts>>

\* HandleSongEnded, up to the claim.
SongEnded(c) ==
    /\ Request(c, "ended")
    /\ store.CurrentQueue # <<>>
    /\ LET song == CurrentSong(store)
       IN  Goto(c, [Idle EXCEPT !.at = "claim", !.target = song.QueueID, !.blob = store,
                                !.op = IF song.IsBroadcast THEN "endBroadcast" ELSE "ended"])
    /\ UNCHANGED <<redis, hub, bounds, ghosts>>

\* A variant with a mistake: the mutex is not waited for.
VoteCast_NoMutex(c) ==
    /\ Request(c, "cast")
    /\ vote # NoVote
    /\ ~HasVoted(vote, c)
    /\ lock' = c
    /\ Goto(c, [Idle EXCEPT !.at = "cast", !.op = vote.Action, !.ballot = vote])
    /\ UNCHANGED <<redis, online, bounds, ghosts>>

\* HandleVoteCast: take the mutex, read the vote and check it.
VoteCast(c) ==
    /\ Request(c, "cast")
    /\ lock = None
    /\ vote # NoVote
    /\ ~HasVoted(vote, c)
    /\ lock' = c
    /\ Goto(c, [Idle EXCEPT !.at = "cast", !.op = vote.Action, !.ballot = vote])
    /\ UNCHANGED <<redis, online, bounds, ghosts>>

-----------------------------------------------------------------------------
(* The rest of the handlers, one call to Redis after the other.            *)

\* A variant with a mistake: everyone who asks gets the claim.
ClaimSongEnded_Always(c) ==
    /\ job[c].at = "claim"
    /\ claimed' = claimed \cup {job[c].target}
    /\ PushHistory(job[c].target, "played")
    /\ WillWrite(c, job[c].op, job[c].target,
                 IF job[c].op = "endBroadcast"
                 THEN {BroadcastEndOutcome(job[c].blob, allowSkip)} ELSE EndOutcomes(job[c].blob))
    /\ UNCHANGED <<store, vote, allowSkip, hub, minted, ballots, ghosts>>

\* ClaimSongEnded (SETNX) and what follows it up to the write: only the first to
\* claim goes on.  The settings decide whether a broadcast is replayed.
ClaimSongEnded(c) ==
    /\ job[c].at = "claim"
    /\ LET id   == job[c].target
           read == job[c].blob
       IN  \/ /\ id \in claimed
              /\ Goto(c, Idle)
              /\ UNCHANGED <<history, claimed, faults>>
           \/ /\ id \notin claimed
              /\ claimed' = claimed \cup {id}
              /\ PushHistory(id, "played")
              /\ WillWrite(c, job[c].op, id,
                           IF job[c].op = "endBroadcast"
                           THEN {BroadcastEndOutcome(read, allowSkip)} ELSE EndOutcomes(read))
    /\ UNCHANGED <<store, vote, allowSkip, hub, minted, ballots, ghosts>>

\* A variant with a mistake: the vote of a broadcast that ended stays open.
AfterWrite_VoteKept(op) == IF op = "startBroadcast" THEN "getSettings" ELSE "idle"

\* What comes after SetState: a broadcast that ended closes its vote, one that
\* started opens it.
AfterWrite(op) ==
    CASE op = "endBroadcast"   -> "getClear"
      [] op = "startBroadcast" -> "getSettings"
      [] OTHER                 -> "idle"

IDs(s) == {s.CurrentQueue[i].QueueID : i \in DOMAIN s.CurrentQueue}

\* The songs the users have coming after this job's write.
Owed(j) ==
    CASE j.op = "add" -> owed \cup {j.target}
      [] j.op \in {"ended", "skip_song", "report", "remove_song"} -> owed \ {j.target}
      [] OTHER -> owed

\* A broadcast that ends, or makes way for the next one, gives up its queue with the
\* songs that were added to it.
Discarded(j) ==
    IF store.IsBroadcasting /\ j.op \in {"endBroadcast", "report", "restore"}
    THEN discarded \cup (Owed(j) \cap (IDs(store) \ IDs(j.blob))) ELSE discarded

\* SetState.
WriteState(p) ==
    /\ job[p].at = "write"
    /\ store' = job[p].blob
    /\ LET next == AfterWrite(job[p].op)
       IN  \/ next = "idle" /\ Return(p)
           \/ next # "idle" /\ Goto(p, [Idle EXCEPT !.at = next]) /\ UNCHANGED lock
    /\ owed' = Owed(job[p])
    /\ discarded' = Discarded(job[p])
    /\ UNCHANGED <<history, vote, claimed, allowSkip, online, bounds, ticked, passed>>

\* clearActiveVote: GetVote, and DeleteVote if there is one.  It takes no mutex.
ClearActiveVote(c) ==
    /\ job[c].at = "getClear"
    /\ Goto(c, IF vote = NoVote THEN Idle ELSE [Idle EXCEPT !.at = "delVote"])
    /\ UNCHANGED <<redis, hub, bounds, ghosts>>

DeleteClearedVote(c) ==
    /\ job[c].at = "delVote"
    /\ vote' = NoVote
    /\ Goto(c, Idle)
    /\ UNCHANGED <<store, history, claimed, allowSkip, hub, bounds, ghosts>>

\* The step that follows a vote the initiator alone decides: HandleSkipSong runs
\* executeSkipSong whether or not the song is a broadcast.
DecidedAlone(op) == IF op = "remove_song" THEN "remove_song" ELSE "skip_song"

\* startVote, up to its SetVote.  It takes no mutex.
StartVote(c) ==
    /\ job[c].at = "getVote"
    /\ LET new == UserVote(ballots + 1, job[c].op, job[c].target, c, online)
       IN  \/ /\ vote # NoVote
              /\ Goto(c, Idle)
              /\ UNCHANGED ballots
           \/ /\ vote = NoVote
              /\ Passes(new)
              /\ Goto(c, [job[c] EXCEPT !.at = "execute", !.op = DecidedAlone(@)])
              /\ UNCHANGED ballots
           \/ /\ vote = NoVote
              /\ ~Passes(new)
              /\ ballots' = ballots + 1
              /\ Goto(c, [job[c] EXCEPT !.at = "setVote", !.ballot = new])
    /\ UNCHANGED <<redis, hub, minted, faults, ghosts>>

\* SetVote of startVote and startBroadcastSkipVote.
PublishVote(p) ==
    /\ job[p].at = "setVote"
    /\ vote' = job[p].ballot
    /\ Goto(p, Idle)
    /\ UNCHANGED <<store, history, claimed, allowSkip, hub, bounds, ghosts>>

\* HandleVoteCast, the vote counted: not enough yet.
RecordVote(c) ==
    /\ job[c].at = "cast"
    /\ ~Passes(WithYes(job[c].ballot, c))
    /\ vote' = WithYes(job[c].ballot, c)
    /\ Return(c)
    /\ UNCHANGED <<store, history, claimed, allowSkip, online, bounds, ghosts>>

\* HandleVoteCast, the vote passes: delete it (a failure is ignored) and go on to
\* resolveVote with the mutex held.
PassVote(c) ==
    /\ job[c].at = "cast"
    /\ Passes(WithYes(job[c].ballot, c))
    /\ \/ vote' = NoVote /\ UNCHANGED faults
       \/ faults < MaxFaults /\ faults' = faults + 1 /\ UNCHANGED vote
    /\ passed' = Append(passed, job[c].ballot.ID)
    /\ Goto(c, [Idle EXCEPT !.at = "execute", !.op = job[c].ballot.Action,
                            !.target = job[c].ballot.SongQueueID])
    /\ UNCHANGED <<store, history, claimed, allowSkip, hub, minted, ballots, ticked, owed, discarded>>

\* executeRemoveSong, up to the write.
ExecuteRemoveSong(c) ==
    /\ job[c].at = "execute" /\ job[c].op = "remove_song"
    /\ LET found == {i \in DOMAIN store.CurrentQueue \ {store.CurrentIndex + 1} :
                       store.CurrentQueue[i].QueueID = job[c].target}
       IN  \/ found = {} /\ Return(c)
           \/ /\ WillWrite(c, "remove_song", job[c].target,
                           {WithoutSong(store, i) : i \in found})
              /\ UNCHANGED lock
    /\ UNCHANGED <<redis, online, bounds, ghosts>>

\* A variant with a mistake: the song is not looked at again.
ExecuteSkipSong_Unchecked(c) ==
    /\ job[c].at = "execute" /\ job[c].op = "skip_song"
    /\ \/ store.CurrentQueue = <<>> /\ Return(c)
       \/ /\ store.CurrentQueue # <<>>
          /\ WillWrite(c, "skip_song", job[c].target, SkipOutcomes(store))
          /\ UNCHANGED lock
    /\ UNCHANGED <<redis, online, bounds, ghosts>>

\* executeSkipSong, up to the write.
ExecuteSkipSong(c) ==
    /\ job[c].at = "execute" /\ job[c].op = "skip_song"
    /\ \/ /\ ~IsCurrent(store, job[c].target)
          /\ Return(c)
          /\ UNCHANGED <<history, faults>>
       \/ /\ IsCurrent(store, job[c].target)
          /\ PushHistory(job[c].target, "skipped")
          /\ WillWrite(c, "skip_song", job[c].target, SkipOutcomes(store))
          /\ UNCHANGED lock
    /\ UNCHANGED <<store, vote, claimed, allowSkip, online, minted, ballots, ghosts>>

\* executeBroadcastSkip, up to the write: any broadcast will do.
ExecuteBroadcastSkip(c) ==
    /\ job[c].at = "execute" /\ job[c].op = "skip_broadcast"
    /\ \/ ~store.IsBroadcasting /\ Return(c)
       \/ /\ store.IsBroadcasting
          /\ WillWrite(c, "restore", NoID, {VotedAway(store)})
          /\ UNCHANGED lock
    /\ UNCHANGED <<redis, online, bounds, ghosts>>

-----------------------------------------------------------------------------
(* The scheduler and the admin.                                            *)

\* triggerBroadcast, as far as ActiveRooms: the room is on the list.
TriggerBroadcast(s) ==
    /\ Ready(s, "trigger")
    /\ online # {}
    /\ minted < MaxSongs
    /\ minted' = minted + 1
    /\ Goto(s, [Idle EXCEPT !.at = "inject", !.target = [uuid |-> minted + 1, replays |-> 0]])
    /\ UNCHANGED <<redis, hub, ballots, faults, ghosts>>

\* A variant with a mistake: a broadcast interrupts a broadcast.
TriggerInRoom_Always(s) ==
    /\ job[s].at = "inject"
    /\ WillWrite(s, "startBroadcast", job[s].target,
                 {Interrupted(store, BroadcastSong(job[s].target))})
    /\ UNCHANGED <<redis, hub, bounds, ghosts>>

\* triggerInRoom, up to the write.
TriggerInRoom(s) ==
    /\ job[s].at = "inject"
    /\ LET song == BroadcastSong(job[s].target)
       IN  IF store.IsBroadcasting
           THEN WillWrite(s, "queueBroadcast", job[s].target, {Queued(store, song)})
           ELSE WillWrite(s, "startBroadcast", job[s].target, {Interrupted(store, song)})
    /\ UNCHANGED <<redis, hub, bounds, ghosts>>

\* startBroadcastSkipVote, up to its SetVote.
StartBroadcastSkipVote(s) ==
    /\ job[s].at = "getSettings"
    /\ \/ /\ ~allowSkip \/ vote # NoVote \/ online = {}
          /\ Goto(s, Idle)
          /\ UNCHANGED ballots
       \/ /\ allowSkip /\ vote = NoVote /\ online # {}
          /\ ballots' = ballots + 1
          /\ Goto(s, [Idle EXCEPT !.at = "setVote", !.op = "skip_broadcast",
                                  !.ballot = SchedulerVote(ballots + 1, online)])
    /\ UNCHANGED <<redis, hub, minted, faults, ghosts>>

\* SkipCurrentBroadcast, up to the write.
SkipCurrentBroadcast(s) ==
    /\ Ready(s, "adminSkip")
    /\ online # {}
    /\ store.IsBroadcasting
    /\ WillWrite(s, "restore", NoID, {AdminRestored(store)})
    /\ UNCHANGED <<redis, hub, bounds, ghosts>>

\* The admin turns skipping of broadcasts on or off.
UpdateSettings(s) ==
    /\ Ready(s, "settings")
    /\ allowSkip' = ~allowSkip
    /\ UNCHANGED <<store, history, vote, claimed, hub, job, bounds, ghosts>>

-----------------------------------------------------------------------------
(* Clients come and go.                                                    *)

\* SetClientRoom and SetClientUser of HandleJoin.
Join(c) ==
    /\ Ready(c, "join")
    /\ c \notin online
    /\ online' = online \cup {c}
    /\ UNCHANGED <<redis, lock, job, bounds, ghosts>>

\* Unregister, under the hub's mutex: the last client goes on to reset the room.
Leave(c) ==
    /\ Ready(c, "leave")
    /\ c \in online
    /\ online' = online \ {c}
    /\ Goto(c, IF online = {c} THEN [Idle EXCEPT !.at = "reset"] ELSE Idle)
    /\ UNCHANGED <<redis, lock, bounds, ghosts>>

\* Unregister of the last client, up to the write.
ResetEmptyRoom(c) ==
    /\ job[c].at = "reset"
    /\ \/ ~store.IsBroadcasting /\ Goto(c, Idle)
       \/ store.IsBroadcasting /\ WillWrite(c, "restore", NoID, {RoomEmptied(store)})
    /\ UNCHANGED <<redis, hub, bounds, ghosts>>

-----------------------------------------------------------------------------
(* Time, and what goes wrong.                                              *)

\* IncrSeekTime: one script, atomic in Redis, for the rooms that have clients.
\* It counts as a handler in flight.
Tick ==
    /\ "tick" \in Traffic
    /\ Cardinality(Busy) < MaxInFlight
    /\ online # {}
    /\ store.IsPlaying
    /\ store.SeekTime < MaxSeek
    /\ store' = [store EXCEPT !.SeekTime = @ + 1]
    /\ ticked' = ticked \cup {CurrentSong(store).QueueID}
    /\ UNCHANGED <<history, vote, claimed, allowSkip, hub, job, bounds, passed, owed, discarded>>

\* The vote's time to live runs out.
VoteExpires ==
    /\ "expire" \in Traffic
    /\ vote # NoVote
    /\ vote' = NoVote
    /\ UNCHANGED <<store, history, claimed, allowSkip, hub, job, bounds, ghosts>>

\* So does a claim's, 60 seconds after it was made: long after the handler that
\* made it is done.
ClaimExpires ==
    /\ "expire" \in Traffic
    /\ \E id \in claimed :
         /\ \A p \in Procs : ~(job[p].at = "write" /\ job[p].target = id)
         /\ claimed' = claimed \ {id}
    /\ UNCHANGED <<store, history, vote, allowSkip, hub, job, bounds, ghosts>>

\* Redis fails a call of a handler, which returns.
StoreFails(p) ==
    /\ job[p] # Idle
    /\ job[p].at = "cast" => ~Passes(WithYes(job[p].ballot, p))
    /\ faults < MaxFaults
    /\ faults' = faults + 1
    /\ Return(p)
    /\ UNCHANGED <<redis, online, minted, ballots, ghosts>>

\* The server dies and is started again: Redis keeps what it has.
Crash ==
    /\ "crash" \in Traffic
    /\ faults < MaxFaults
    /\ faults' = faults + 1
    /\ job' = [p \in Procs |-> Idle]
    /\ online' = {}
    /\ lock' = None
    /\ UNCHANGED <<redis, minted, ballots, ghosts>>

-----------------------------------------------------------------------------

ClientStep(c) ==
    \/ AddSong(c) \/ RemoveSong(c) \/ ReorderQueue(c) \/ SetPlaybackMode(c)
    \/ SetPlaybackSpeed(c) \/ ReportError(c) \/ SkipSong(c) \/ SongEnded(c) \/ VoteCast(c)
    \/ Join(c) \/ Leave(c)

StaffStep(s) == TriggerBroadcast(s) \/ SkipCurrentBroadcast(s) \/ UpdateSettings(s)

\* A client's handler in flight goes on.
ClientGoesOn(c) ==
    \/ ClaimSongEnded(c) \/ ClearActiveVote(c) \/ DeleteClearedVote(c)
    \/ StartVote(c) \/ RecordVote(c) \/ PassVote(c)
    \/ ExecuteRemoveSong(c) \/ ExecuteSkipSong(c) \/ ExecuteBroadcastSkip(c)
    \/ ResetEmptyRoom(c) \/ WriteState(c) \/ PublishVote(c)

\* So does a staff goroutine.
StaffGoesOn(s) ==
    TriggerInRoom(s) \/ StartBroadcastSkipVote(s) \/ WriteState(s) \/ PublishVote(s)

Environment == Tick \/ VoteExpires \/ ClaimExpires \/ Crash \/ \E p \in Procs : StoreFails(p)

Next ==
    \/ \E c \in Clients : ClientStep(c) \/ ClientGoesOn(c)
    \/ \E s \in Staff : StaffStep(s) \/ StaffGoesOn(s)
    \/ Environment

Spec == Init /\ [][Next]_vars

\* Redis answers and the Go scheduler runs every goroutine: a handler in flight
\* goes on.  A client whose player has come to the end of the song being played
\* says so, and its messages are handled in their order: even when it is busy now
\* and then, its song_ended is handled in the end.
Fairness ==
    /\ \A c \in Clients : WF_vars(ClientGoesOn(c)) /\ SF_vars(SongEnded(c))
    /\ \A s \in Staff : WF_vars(StaffGoesOn(s))

FairSpec == Spec /\ Fairness

-----------------------------------------------------------------------------
(* Safety, whatever runs at the same time.                                 *)

Documents == {store} \cup {job[p].blob : p \in Procs}

\* No interleaving of handlers ever stores, or is about to store, a document whose
\* current index is outside its queue, that plays an empty queue, that has a
\* broadcast song anywhere but in front of a broadcasting room, that replays a
\* broadcast twice, that holds more songs than the limit, or that has both
\* exclusive modes on.
DocumentsWellFormed == \A s \in Documents : WellFormed(s)

SeekEarned(s) ==
    /\ s.SeekTime > 0 => s.CurrentQueue # <<>> /\ CurrentSong(s).QueueID \in ticked
    /\ s.IsBroadcasting /\ s.SavedSeekTime > 0 =>
         /\ s.SavedQueue # <<>>
         /\ s.SavedQueue[s.SavedCurrentIndex + 1].QueueID \in ticked

\* The seek time is that of the song it stands beside: a song that has just come
\* up, from the queue, from a broadcast or from a replay, never starts where
\* another one was.
SeekBelongsToSong == \A s \in Documents : SeekEarned(s)

\* The document p's handler computes its new one from.
ReadBy(p) == IF job[p].at = "claim" THEN job[p].blob ELSE store

Computes(p, ops) ==
    job[p].at # "write" /\ job'[p].at = "write" /\ job'[p].op \in ops

\* Adding, removing, moving and shuffling songs and changing modes never changes
\* which song is being played.
KeepsCurrentSong ==
    [][\A p \in Procs :
         Computes(p, {"add", "remove_song", "reorder", "mode", "speed"})
         /\ store.CurrentQueue # <<>>
           => CurrentSong(job'[p].blob) = CurrentSong(store)]_vars

\* A request takes out of the queue the song it was made for and no other, however
\* long ago it was decided (a vote, the wait for the claim), and the requests that
\* take out none leave all.
DropsOnlyItsSong ==
    [][\A p \in Procs :
         LET dropped == IDs(ReadBy(p)) \ IDs(job'[p].blob)
         IN  /\ Computes(p, {"add", "reorder", "mode", "speed"}) => dropped = {}
             /\ Computes(p, {"remove_song", "skip_song", "ended"}) =>
                  dropped = {job'[p].target}]_vars

\* However many clients report the end of a song, one handler at a time advances
\* the queue for it.
OneHandlerEndsASong ==
    LET ending == {p \in Procs : job[p].at = "write" /\ job[p].op \in {"ended", "endBroadcast"}}
    IN  \A p, q \in ending : p # q => job[p].target # job[q].target

\* A vote passes once: two last votes at the same time do not execute it twice.
PassesOnce == IsInjective(passed)

\* A vote that was counted stays counted as long as its vote runs.
CountedVotesStay ==
    [][vote # NoVote /\ vote'.ID = vote.ID => vote.YesVoterIDs \subseteq vote'.YesVoterIDs]_vote

-----------------------------------------------------------------------------
(* What holds when no two handlers overlap (MaxInFlight = 1).              *)

Playing(s) == <<s.CurrentQueue, s.CurrentIndex, s.SeekTime, s.IsPlaying>>

Saved(s) == <<s.SavedQueue, s.SavedCurrentIndex, s.SavedSeekTime, s.SavedIsPlaying>>

\* A broadcast is an interlude: it saves what was playing, nothing touches it in
\* the meantime, and whichever way it ends, that is what plays again.
BroadcastIsInterlude ==
    [][/\ ~store.IsBroadcasting /\ store'.IsBroadcasting => Saved(store') = Playing(store)
       /\ store.IsBroadcasting /\ store'.IsBroadcasting => Saved(store') = Saved(store)
       /\ store.IsBroadcasting /\ ~store'.IsBroadcasting => Playing(store') = Saved(store)]_store

\* A song that was accepted is in the queue, or saved during a broadcast, until it
\* is played, skipped or removed.  The exception are the songs accepted while a
\* broadcast plays: they stay in the queue of that broadcast and are discarded with
\* it, when the users' queue comes back or the next broadcast takes its place.
NoSongIsLost ==
    Busy = {} =>
      owed \ discarded \subseteq
        IDs(store) \cup {store.SavedQueue[i].QueueID : i \in DOMAIN store.SavedQueue}

\* A song leaves one entry in the history.
RecordedOnce == IsInjective([i \in DOMAIN history |-> history[i].QueueID])

\* A vote to skip a broadcast runs only while there is a broadcast that may be
\* skipped.
NoMootBroadcastVote ==
    Busy = {} /\ vote.Action = "skip_broadcast" =>
      store.IsBroadcasting /\ ~store.BroadcastSkipLocked

\* A vote to skip a song runs only while that song is being played.
NoMootSkipVote ==
    Busy = {} /\ vote.Action = "skip_song" => IsCurrent(store, vote.SongQueueID)

\* While a broadcast plays, skipping it is locked during its replay and only then.
LockedOnlyInReplay ==
    store.IsBroadcasting /\ store.BroadcastSkipLocked =>
      store.CurrentQueue # <<>> /\ CurrentSong(store).QueueID.replays > 0

\* A vote that runs is not replaced by another one.
VoteNotReplaced == [][vote # NoVote /\ vote' # NoVote => vote'.ID = vote.ID]_vote

\* A room without clients does not broadcast: no one would report the end.
EmptyRoomIsQuiet == online = {} /\ Busy = {} => ~store.IsBroadcasting

-----------------------------------------------------------------------------

\* As long as someone listens, a broadcast ends and the users' queue comes back.
BroadcastEnds == store.IsBroadcasting ~> (~store.IsBroadcasting \/ online = {})
=============================================================================
