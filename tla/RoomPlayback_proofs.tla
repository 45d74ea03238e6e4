------------------------- MODULE RoomPlayback_proofs -------------------------
(***************************************************************************)
(* Whatever handlers overlap, Redis fails or the server crashes: the state *)
(* is typed and every document is well-formed.                             *)
(*                                                                         *)
(* DocumentsWellFormed is not inductive alone: what a job in flight knows  *)
(* about the document it has read (JobOK), that the claims of a handler    *)
(* are about a song, and that the room is finite are needed besides.       *)
(***************************************************************************)
EXTENDS RoomPlayback, Playlist_proofs, FiniteSetTheorems

\* What a handler between two calls to Redis has found out and relies on.
JobOK(j) ==
    /\ WellFormed(j.blob)
    /\ j.at = "claim" =>
         /\ j.blob.CurrentQueue # <<>>
         /\ j.op \in {"ended", "endBroadcast"}
         /\ j.op = "endBroadcast" => CurrentSong(j.blob).IsBroadcast
    /\ j.at \in {"setVote", "cast"} => j.ballot \in VoteRecord
    /\ j.at = "getVote" => j.op \in VoteAction
    /\ j.at = "inject" => j.target.replays = 0

JobsOK == job \in [Procs -> Job] /\ \A p \in Procs : JobOK(job[p])

\* TypeOK without the jobs, a well-formed document and a finite room.
SharedOK ==
    /\ store \in PlaylistState /\ WellFormed(store)
    /\ history \in Seq(HistorySong)
    /\ vote \in VoteRecord \cup {NoVote}
    /\ claimed \subseteq QueueID
    /\ allowSkip \in BOOLEAN
    /\ online \subseteq Clients /\ IsFiniteSet(online)
    /\ lock \in Clients \cup {None}
    /\ minted \in Nat /\ ballots \in Nat /\ faults \in Nat
    /\ ticked \subseteq QueueID
    /\ passed \in Seq(Nat)
    /\ owed \subseteq QueueID /\ discarded \subseteq QueueID

IInv == SharedOK /\ JobsOK

-----------------------------------------------------------------------------
(* Jobs.                                                                   *)

\* A process with nothing to do is typed and knows nothing wrong.
LEMMA IdleGood == Idle \in Job /\ JobOK(Idle)
<1>1. EmptyState \in PlaylistState /\ WellFormed(EmptyState)
  BY EmptyStateGood
<1>2. NoID \in QueueID
  BY DEF NoID, QueueID
<1> QED
  BY <1>1, <1>2 DEF Idle, Job, JobOK, Points, Ops

\* A handler that goes on to a good job leaves the jobs good.
LEMMA GotoGood ==
    ASSUME JobsOK, NEW p \in Procs, NEW j \in Job, JobOK(j), Goto(p, j)
    PROVE  JobsOK'
BY DEF JobsOK, Goto

\* A handler that returns leaves the jobs good and gives the mutex back, if it has it.
LEMMA ReturnGood ==
    ASSUME SharedOK, JobsOK, NEW p \in Procs, Return(p)
    PROVE  JobsOK' /\ lock' \in Clients \cup {None}
<1>1. JobsOK'
  BY IdleGood, GotoGood DEF Return
<1> QED
  BY <1>1 DEF Return, SharedOK

\* A handler about to write one of some good documents leaves the jobs good.
LEMMA WillWriteGood ==
    ASSUME JobsOK, NEW p \in Procs, NEW op \in Ops, NEW target \in QueueID, NEW blobs,
           \A b \in blobs : b \in PlaylistState /\ WellFormed(b),
           WillWrite(p, op, target, blobs)
    PROVE  JobsOK'
<1>1. PICK b \in blobs :
        Goto(p, [Idle EXCEPT !.at = "write", !.op = op, !.target = target, !.blob = b])
  BY DEF WillWrite
<1> DEFINE j == [Idle EXCEPT !.at = "write", !.op = op, !.target = target, !.blob = b]
<1>2. j \in Job
  BY IdleGood DEF Job, Points
<1>3. j.at = "write" /\ j.blob = b
  BY IdleGood DEF Job
<1> HIDE DEF j
<1>4. JobOK(j)
  BY <1>3 DEF JobOK
<1> QED
  BY <1>1, <1>2, <1>4, GotoGood DEF j

\* What the job of p is made of.
LEMMA JobFacts ==
    ASSUME JobsOK, NEW p \in Procs
    PROVE  /\ job[p] \in Job /\ JobOK(job[p])
           /\ job[p].op \in Ops /\ job[p].target \in QueueID
           /\ job[p].blob \in PlaylistState /\ WellFormed(job[p].blob)
           /\ job[p].ballot \in VoteRecord \cup {NoVote}
BY DEF JobsOK, JobOK, Job

\* The history stays one.
LEMMA PushHistoryGood ==
    ASSUME SharedOK, NEW id \in QueueID, NEW status \in {"played", "skipped"},
           PushHistory(id, status)
    PROVE  history' \in Seq(HistorySong) /\ faults' \in Nat
<1> DEFINE entry == [QueueID |-> id, Status |-> status]
           h == Append(history, entry)
<1>1. entry \in HistorySong
  BY DEF HistorySong
<1> HIDE DEF entry
<1>2. h \in Seq(HistorySong) /\ Len(h) = Len(history) + 1 /\ Len(history) \in Nat
  BY <1>1 DEF SharedOK
<1> HIDE DEF h
<1>3. h # <<>>
  BY <1>2, EmptySeq
<1>4. Tail(h) \in Seq(HistorySong)
  BY <1>2, <1>3, HeadTailProperties
<1>5. Newest(h) \in Seq(HistorySong)
  BY <1>2, <1>4 DEF Newest
<1> QED
  BY <1>5 DEF PushHistory, SharedOK, h, entry

\* Nothing but jobs changes.
LEMMA SharedSame ==
    ASSUME SharedOK, UNCHANGED <<redis, hub, bounds, ghosts>>
    PROVE  SharedOK'
BY DEF SharedOK, redis, hub, bounds, ghosts

-----------------------------------------------------------------------------
(* Requests of a client, up to the first write.                            *)

\* HandleAddSong up to its write keeps the invariant: the song is appended below the limit.
LEMMA AddSongGood ==
    ASSUME IInv, NEW c \in Clients, AddSong(c)
    PROVE  IInv'
<1> DEFINE song == UserSong(minted + 1, c)
<1> USE DEF IInv
<1>1. song \in Song /\ ~song.IsBroadcast /\ song.QueueID.replays = 0 /\ song.QueueID \in QueueID
  BY DEF UserSong, Song, Names, QueueID, Clients, SharedOK
<1> HIDE DEF song
<1>2. \A b \in {WithSong(store, song)} : b \in PlaylistState /\ WellFormed(b)
  BY <1>1, WithSongGood DEF AddSong, SharedOK
<1>3. WillWrite(c, "add", song.QueueID, {WithSong(store, song)})
  BY DEF AddSong, song
<1>4. JobsOK'
  BY <1>1, <1>2, <1>3, WillWriteGood DEF Procs, Ops
<1>5. SharedOK'
  BY DEF AddSong, SharedOK, redis, hub, ghosts
<1> QED
  BY <1>4, <1>5

\* A handler that goes on to execute or to vote leaves the jobs good.
LEMMA OwnOrVoteGood ==
    ASSUME IInv, NEW c \in Clients, NEW song \in Song, NEW op \in VoteAction,
           NEW at \in {"execute", "getVote"},
           Goto(c, [Idle EXCEPT !.at = at, !.op = op, !.target = song.QueueID])
    PROVE  JobsOK'
<1> DEFINE j == [Idle EXCEPT !.at = at, !.op = op, !.target = song.QueueID]
<1>1. song.QueueID \in QueueID
  BY DEF Song
<1>2. j \in Job /\ j.at = at /\ j.op = op /\ j.blob = Idle.blob
  BY <1>1, IdleGood DEF Job, Points, Ops
<1>3. Goto(c, j)
  OBVIOUS
<1> HIDE DEF j
<1>4. JobOK(j)
  BY <1>2, IdleGood DEF JobOK
<1> QED
  BY <1>2, <1>3, <1>4, GotoGood DEF IInv, Procs

\* HandleRemoveSong keeps it, up to executing or voting.
LEMMA RemoveSongGood ==
    ASSUME IInv, NEW c \in Clients, RemoveSong(c)
    PROVE  IInv'
<1>1. PICK i \in DOMAIN store.CurrentQueue :
        Goto(c, [Idle EXCEPT !.at = OwnOrVote(store.CurrentQueue[i], c), !.op = "remove_song",
                             !.target = store.CurrentQueue[i].QueueID])
  BY DEF RemoveSong
<1>2. store.CurrentQueue[i] \in Song
  BY DEF IInv, SharedOK, PlaylistState
<1>3. JobsOK'
  <2>1. OwnOrVote(store.CurrentQueue[i], c) \in {"execute", "getVote"}
    BY DEF OwnOrVote
  <2> QED
    BY <1>1, <1>2, <2>1, OwnOrVoteGood DEF VoteAction
<1> QED
  BY <1>3, SharedSame DEF RemoveSong, IInv

\* A queue that is not empty has a song to be played.
LEMMA CurrentSongTyped ==
    ASSUME IInv, store.CurrentQueue # <<>>
    PROVE  CurrentSong(store) \in Song /\ CurrentSong(store).QueueID \in QueueID
<1>1. CurrentSong(store) \in Song
  <2> DEFINE q == store.CurrentQueue
             i == store.CurrentIndex
  <2>1. store \in PlaylistState /\ WellFormed(store)
    BY DEF IInv, SharedOK
  <2>2. /\ q \in Seq(Song) /\ Len(q) \in Nat /\ i \in Nat /\ Len(q) # 0
        /\ Len(q) > 0 => i < Len(q)
        /\ \A k \in 1..Len(q) : q[k] \in Song
    BY <2>1, QueueFacts
  <2>3. i + 1 \in 1..Len(q)
    BY <2>2
  <2> QED
    BY <2>2, <2>3 DEF CurrentSong
<1> QED
  BY <1>1 DEF Song

\* HandleSkipSong keeps it, up to executing or voting.
LEMMA SkipSongGood ==
    ASSUME IInv, NEW c \in Clients, SkipSong(c)
    PROVE  IInv'
<1>1. PICK op \in VoteAction, at \in {"execute", "getVote"} :
        Goto(c, [Idle EXCEPT !.at = at, !.op = op, !.target = CurrentSong(store).QueueID])
  BY DEF SkipSong, OwnOrVote, VoteAction
<1>2. JobsOK'
  BY <1>1, CurrentSongTyped, OwnOrVoteGood DEF SkipSong
<1> QED
  BY <1>2, SharedSame DEF SkipSong, IInv

\* HandleReorderQueue keeps it up to its write.
LEMMA ReorderQueueGood ==
    ASSUME IInv, NEW c \in Clients, ReorderQueue(c)
    PROVE  IInv'
<1>1. PICK from \in 0..(Len(store.CurrentQueue) - 1), to \in 0..(Len(store.CurrentQueue) - 1) :
        WillWrite(c, "reorder", NoID, {Reordered(store, from, to)})
  BY DEF ReorderQueue
<1>2. \A b \in {Reordered(store, from, to)} : b \in PlaylistState /\ WellFormed(b)
  BY ReorderedGood DEF IInv, SharedOK
<1>3. NoID \in QueueID
  BY DEF NoID, QueueID
<1>4. JobsOK'
  BY <1>1, <1>2, <1>3, WillWriteGood DEF IInv, Procs, Ops
<1> QED
  BY <1>4, SharedSame DEF ReorderQueue, IInv

\* HandleSetPlaybackMode does.
LEMMA SetPlaybackModeGood ==
    ASSUME IInv, NEW c \in Clients, SetPlaybackMode(c)
    PROVE  IInv'
<1>1. PICK autoplay \in BOOLEAN, shuffle \in BOOLEAN, random \in BOOLEAN :
        WillWrite(c, "mode", NoID, ModeChanges(store, autoplay, shuffle, random))
  BY DEF SetPlaybackMode
<1>2. \A b \in ModeChanges(store, autoplay, shuffle, random) : b \in PlaylistState /\ WellFormed(b)
  BY ModeChangesGood DEF IInv, SharedOK
<1>3. NoID \in QueueID
  BY DEF NoID, QueueID
<1>4. JobsOK'
  BY <1>1, <1>2, <1>3, WillWriteGood DEF IInv, Procs, Ops
<1> QED
  BY <1>4, SharedSame DEF SetPlaybackMode, IInv

\* HandleSetPlaybackSpeed does.
LEMMA SetPlaybackSpeedGood ==
    ASSUME IInv, NEW c \in Clients, SetPlaybackSpeed(c)
    PROVE  IInv'
<1>1. PICK v \in Speeds :
        WillWrite(c, "speed", NoID, {[store EXCEPT !.PlaybackSpeed = v]})
  BY DEF SetPlaybackSpeed
<1>2. \A b \in {[store EXCEPT !.PlaybackSpeed = v]} : b \in PlaylistState /\ WellFormed(b)
  BY SpeedGood DEF IInv, SharedOK
<1>3. NoID \in QueueID
  BY DEF NoID, QueueID
<1>4. JobsOK'
  BY <1>1, <1>2, <1>3, WillWriteGood DEF IInv, Procs, Ops
<1> QED
  BY <1>4, SharedSame DEF SetPlaybackSpeed, IInv

\* HandleReportError does, on a user's song and on a broadcast.
LEMMA ReportErrorGood ==
    ASSUME IInv, NEW c \in Clients, ReportError(c)
    PROVE  IInv'
<1> DEFINE song == CurrentSong(store)
           b == IF song.IsBroadcast THEN BroadcastErrorOutcome(store) ELSE ErrorOutcome(store)
<1>1. store.CurrentQueue # <<>> /\ song.QueueID \in QueueID
  BY CurrentSongTyped DEF ReportError
<1>2. b \in PlaylistState /\ WellFormed(b)
  BY <1>1, BroadcastPlays, BroadcastErrorOutcomeGood, ErrorOutcomeGood DEF IInv, SharedOK
<1>3. WillWrite(c, "report", song.QueueID, {b}) /\ PushHistory(song.QueueID, "skipped")
  BY DEF ReportError
<1> HIDE DEF song, b
<1>4. JobsOK'
  BY <1>1, <1>2, <1>3, WillWriteGood DEF IInv, Procs, Ops
<1>5. history' \in Seq(HistorySong) /\ faults' \in Nat
  BY <1>1, <1>3, PushHistoryGood DEF IInv
<1>6. SharedOK'
  BY <1>5 DEF ReportError, IInv, SharedOK, hub, ghosts
<1> QED
  BY <1>4, <1>6 DEF IInv

\* HandleSongEnded keeps it up to the claim, and remembers what it has read.
LEMMA SongEndedGood ==
    ASSUME IInv, NEW c \in Clients, SongEnded(c)
    PROVE  IInv'
<1> DEFINE song == CurrentSong(store)
           op == IF song.IsBroadcast THEN "endBroadcast" ELSE "ended"
           j == [Idle EXCEPT !.at = "claim", !.target = song.QueueID, !.blob = store, !.op = op]
<1>1. store.CurrentQueue # <<>> /\ song.QueueID \in QueueID /\ Goto(c, j)
  BY CurrentSongTyped DEF SongEnded
<1>2. /\ op \in Ops /\ op \in {"ended", "endBroadcast"}
      /\ store \in PlaylistState /\ WellFormed(store)
  BY DEF Ops, IInv, SharedOK
<1>3. op = "endBroadcast" => CurrentSong(store).IsBroadcast
  OBVIOUS
<1> HIDE DEF song, op
<1>4. j \in Job /\ j.at = "claim" /\ j.blob = store /\ j.op = op
  BY <1>1, <1>2, IdleGood DEF Job, Points
<1> HIDE DEF j
<1>5. JobOK(j)
  BY <1>1, <1>2, <1>3, <1>4 DEF JobOK
<1>6. JobsOK'
  BY <1>1, <1>4, <1>5, GotoGood DEF IInv, Procs
<1> QED
  BY <1>6, SharedSame DEF SongEnded, IInv

\* HandleVoteCast keeps it up to counting the vote it has read.
LEMMA VoteCastGood ==
    ASSUME IInv, NEW c \in Clients, VoteCast(c)
    PROVE  IInv'
<1> DEFINE j == [Idle EXCEPT !.at = "cast", !.op = vote.Action, !.ballot = vote]
<1>1. vote \in VoteRecord /\ vote.Action \in Ops /\ Goto(c, j)
  BY DEF VoteCast, IInv, SharedOK, VoteRecord, Ops
<1>2. j \in Job /\ j.at = "cast" /\ j.ballot = vote /\ j.blob = Idle.blob
  BY <1>1, IdleGood DEF Job, Points
<1> HIDE DEF j
<1>3. JobOK(j)
  BY <1>1, <1>2, IdleGood DEF JobOK
<1>4. JobsOK'
  BY <1>1, <1>2, <1>3, GotoGood DEF IInv, Procs
<1>5. SharedOK'
  BY DEF VoteCast, IInv, SharedOK, redis, bounds, ghosts
<1> QED
  BY <1>4, <1>5 DEF IInv

-----------------------------------------------------------------------------
(* The rest of the handlers.                                               *)

\* ClaimSongEnded keeps it: what the winner computes comes from what it has read.
LEMMA ClaimSongEndedGood ==
    ASSUME IInv, NEW c \in Clients, ClaimSongEnded(c)
    PROVE  IInv'
<1> DEFINE id == job[c].target
           read == job[c].blob
           op == job[c].op
           blobs == IF op = "endBroadcast" THEN {BroadcastEndOutcome(read, allowSkip)}
                    ELSE EndOutcomes(read)
<1>1. /\ id \in QueueID /\ op \in Ops /\ read \in PlaylistState /\ WellFormed(read)
      /\ read.CurrentQueue # <<>>
      /\ op = "endBroadcast" => CurrentSong(read).IsBroadcast
  BY JobFacts DEF IInv, JobOK, ClaimSongEnded, Procs
<1>2. CASE id \in claimed /\ Goto(c, Idle) /\ UNCHANGED <<history, claimed, faults>>
  <2>1. JobsOK'
    BY <1>2, IdleGood, GotoGood DEF IInv, Procs
  <2>2. SharedOK'
    BY <1>2 DEF ClaimSongEnded, IInv, SharedOK, hub, ghosts
  <2> QED
    BY <2>1, <2>2 DEF IInv
<1>3. CASE claimed' = claimed \cup {id} /\ PushHistory(id, "played") /\ WillWrite(c, op, id, blobs)
  <2>1. \A b \in blobs : b \in PlaylistState /\ WellFormed(b)
    <3>1. CASE op = "endBroadcast"
      BY <1>1, <3>1, BroadcastEndOutcomeGood DEF IInv, SharedOK
    <3>2. CASE op # "endBroadcast"
      <4>1. read.Autoplay \in BOOLEAN
        BY <1>1 DEF PlaylistState
      <4>2. blobs = Advances(read, read.Autoplay)
        BY <3>2 DEF EndOutcomes
      <4> HIDE DEF read, blobs
      <4> QED
        BY <1>1, <4>1, <4>2, AdvancesGood
    <3> QED
      BY <3>1, <3>2
  <2> HIDE DEF id, op, blobs
  <2>2. JobsOK'
    BY <1>1, <1>3, <2>1, WillWriteGood DEF IInv, Procs
  <2>3. history' \in Seq(HistorySong) /\ faults' \in Nat
    BY <1>1, <1>3, PushHistoryGood DEF IInv
  <2>4. SharedOK'
    BY <1>1, <1>3, <2>3 DEF ClaimSongEnded, IInv, SharedOK, hub, ghosts
  <2> QED
    BY <2>2, <2>4 DEF IInv
<1> QED
  BY <1>2, <1>3 DEF ClaimSongEnded

\* SetState keeps it: what is written was well-formed when it was computed.
LEMMA WriteStateGood ==
    ASSUME IInv, NEW p \in Procs, WriteState(p)
    PROVE  IInv'
<1>1. store' \in PlaylistState /\ WellFormed(store')
  BY JobFacts DEF WriteState, IInv
<1>2. owed' \subseteq QueueID /\ discarded' \subseteq QueueID
  <2>1. Owed(job[p]) \subseteq QueueID
    BY JobFacts DEF Owed, IInv, SharedOK
  <2>2. Discarded(job[p]) \subseteq QueueID
    BY <2>1 DEF Discarded, IInv, SharedOK
  <2> QED
    BY <2>1, <2>2 DEF WriteState
<1>3. JobsOK' /\ lock' \in Clients \cup {None}
  <2>1. CASE Return(p)
    BY <2>1, ReturnGood DEF IInv
  <2>2. CASE /\ Goto(p, [Idle EXCEPT !.at = AfterWrite(job[p].op)])
             /\ AfterWrite(job[p].op) # "idle" /\ UNCHANGED lock
    <3> DEFINE at == AfterWrite(job[p].op)
               j == [Idle EXCEPT !.at = at]
    <3>1. at \in {"getClear", "getSettings"}
      BY <2>2 DEF AfterWrite
    <3> HIDE DEF at
    <3>2. j \in Job /\ j.at = at /\ j.blob = Idle.blob
      BY <3>1, IdleGood DEF Job, Points
    <3>3. Goto(p, j)
      BY <2>2 DEF at
    <3> HIDE DEF j
    <3>4. JobOK(j)
      BY <3>1, <3>2, IdleGood DEF JobOK
    <3> QED
      BY <2>2, <3>2, <3>3, <3>4, GotoGood DEF IInv, SharedOK
  <2> QED
    BY <2>1, <2>2 DEF WriteState
<1>4. SharedOK'
  BY <1>1, <1>2, <1>3 DEF WriteState, IInv, SharedOK, bounds
<1> QED
  BY <1>3, <1>4 DEF IInv

\* clearActiveVote keeps it up to its DeleteVote,
LEMMA ClearActiveVoteGood ==
    ASSUME IInv, NEW c \in Clients, ClearActiveVote(c)
    PROVE  IInv'
<1> DEFINE j == [Idle EXCEPT !.at = "delVote"]
<1>1. j \in Job /\ j.at = "delVote" /\ j.blob = Idle.blob
  BY IdleGood DEF Job, Points
<1>2. Goto(c, Idle) \/ Goto(c, j)
  BY DEF ClearActiveVote
<1> HIDE DEF j
<1>3. JobOK(j)
  BY <1>1, IdleGood DEF JobOK
<1>4. JobsOK'
  BY <1>1, <1>2, <1>3, IdleGood, GotoGood DEF IInv, Procs
<1> QED
  BY <1>4, SharedSame DEF ClearActiveVote, IInv

\* and from there.
LEMMA DeleteClearedVoteGood ==
    ASSUME IInv, NEW c \in Clients, DeleteClearedVote(c)
    PROVE  IInv'
<1>1. JobsOK'
  BY IdleGood, GotoGood DEF DeleteClearedVote, IInv, Procs
<1>2. SharedOK'
  BY DEF DeleteClearedVote, IInv, SharedOK, hub, bounds, ghosts
<1> QED
  BY <1>1, <1>2 DEF IInv

\* The votes that startVote and the scheduler make are votes.
LEMMA NewVotes ==
    ASSUME IInv, NEW action \in VoteAction, NEW song \in QueueID, NEW c \in Clients
    PROVE  /\ UserVote(ballots + 1, action, song, c, online) \in VoteRecord
           /\ online # {} => SchedulerVote(ballots + 1, online) \in VoteRecord
<1>1. ballots + 1 \in Nat \ {0}
  BY DEF IInv, SharedOK
<1>2. Cardinality(online) \in Nat
  BY FS_CardinalityType DEF IInv, SharedOK
<1>3. online # {} => Cardinality(online) # 0
  BY FS_EmptySet DEF IInv, SharedOK
<1>4. online # {} => Cardinality(online) \in Nat \ {0}
  BY <1>2, <1>3
<1>5. UserVote(ballots + 1, action, song, c, online) \in VoteRecord
  <2> DEFINE total == IF online = {} THEN 1 ELSE Cardinality(online)
             n == ballots + 1
  <2>1. total \in Nat \ {0}
    BY <1>4
  <2> HIDE DEF total
  <2>2. n \in Nat \ {0} /\ {c} \subseteq Users
    BY <1>1 DEF Clients
  <2> HIDE DEF n
  <2>3. [ID |-> n, Action |-> action, SongQueueID |-> song, YesVoterIDs |-> {c},
         TotalAtStart |-> total] \in VoteRecord
    BY <2>1, <2>2 DEF VoteRecord
  <2> QED
    BY <2>3 DEF UserVote, total, n
<1>6. ASSUME online # {}
      PROVE  SchedulerVote(ballots + 1, online) \in VoteRecord
  <2> DEFINE total == Cardinality(online)
             n == ballots + 1
  <2>1. total \in Nat \ {0} /\ n \in Nat \ {0} /\ NoID \in QueueID
    BY <1>1, <1>4, <1>6 DEF NoID, QueueID
  <2> HIDE DEF total, n
  <2>2. [ID |-> n, Action |-> "skip_broadcast", SongQueueID |-> NoID, YesVoterIDs |-> {},
         TotalAtStart |-> total] \in VoteRecord
    BY <2>1 DEF VoteRecord, VoteAction
  <2> QED
    BY <2>2 DEF SchedulerVote, total, n
<1> QED
  BY <1>5, <1>6

\* startVote keeps it up to its SetVote.
LEMMA StartVoteGood ==
    ASSUME IInv, NEW c \in Clients, StartVote(c)
    PROVE  IInv'
<1> DEFINE new == UserVote(ballots + 1, job[c].op, job[c].target, c, online)
           alone == [job[c] EXCEPT !.at = "execute", !.op = DecidedAlone(@)]
           ballot == [job[c] EXCEPT !.at = "setVote", !.ballot = new]
<1>1. /\ job[c] \in Job /\ WellFormed(job[c].blob)
      /\ job[c].op \in VoteAction /\ job[c].target \in QueueID
  BY JobFacts DEF StartVote, IInv, JobOK, Procs
<1>2. new \in VoteRecord
  BY <1>1, NewVotes
<1>3. /\ Goto(c, Idle) \/ Goto(c, alone) \/ Goto(c, ballot)
      /\ ballots' \in Nat
  BY DEF StartVote, IInv, SharedOK
<1> HIDE DEF new
<1>4. alone \in Job /\ alone.at = "execute" /\ alone.blob = job[c].blob
  <2> DEFINE op == DecidedAlone(job[c].op)
  <2>1. op \in Ops
    BY DEF DecidedAlone, Ops, VoteAction
  <2>2. alone = [job[c] EXCEPT !.at = "execute", !.op = op]
    OBVIOUS
  <2> HIDE DEF op
  <2> QED
    BY <1>1, <2>1, <2>2 DEF Job, Points
<1>5. /\ ballot \in Job /\ ballot.at = "setVote" /\ ballot.blob = job[c].blob
      /\ ballot.ballot = new
  BY <1>1, <1>2 DEF Job, Points
<1> HIDE DEF alone, ballot
<1>6. JobOK(alone) /\ JobOK(ballot)
  BY <1>1, <1>2, <1>4, <1>5 DEF JobOK
<1>7. JobsOK'
  BY <1>3, <1>4, <1>5, <1>6, IdleGood, GotoGood DEF IInv, Procs
<1>8. SharedOK'
  BY <1>3 DEF StartVote, IInv, SharedOK, redis, hub, ghosts
<1> QED
  BY <1>7, <1>8 DEF IInv

\* SetVote keeps it.
LEMMA PublishVoteGood ==
    ASSUME IInv, NEW p \in Procs, PublishVote(p)
    PROVE  IInv'
<1>1. vote' \in VoteRecord
  BY JobFacts DEF PublishVote, IInv, JobOK
<1>2. JobsOK'
  BY IdleGood, GotoGood DEF PublishVote, IInv
<1>3. SharedOK'
  BY <1>1 DEF PublishVote, IInv, SharedOK, hub, bounds, ghosts
<1> QED
  BY <1>2, <1>3 DEF IInv

\* HandleVoteCast keeps it when the vote is counted,
LEMMA RecordVoteGood ==
    ASSUME IInv, NEW c \in Clients, RecordVote(c)
    PROVE  IInv'
<1>1. job[c].ballot \in VoteRecord
  BY JobFacts DEF RecordVote, IInv, JobOK, Procs
<1>2. vote' \in VoteRecord
  BY <1>1 DEF RecordVote, WithYes, VoteRecord, Clients
<1>3. JobsOK' /\ lock' \in Clients \cup {None}
  BY ReturnGood DEF RecordVote, IInv, Procs
<1>4. SharedOK'
  BY <1>2, <1>3 DEF RecordVote, IInv, SharedOK, bounds, ghosts
<1> QED
  BY <1>3, <1>4 DEF IInv

\* and when it passes.
LEMMA PassVoteGood ==
    ASSUME IInv, NEW c \in Clients, PassVote(c)
    PROVE  IInv'
<1> DEFINE v == job[c].ballot
           j == [Idle EXCEPT !.at = "execute", !.op = v.Action, !.target = v.SongQueueID]
<1>1. v \in VoteRecord
  BY JobFacts DEF PassVote, IInv, JobOK, Procs
<1>2. v.ID \in Nat /\ v.Action \in Ops /\ v.SongQueueID \in QueueID
  BY <1>1 DEF VoteRecord, VoteAction, Ops
<1>3. Goto(c, j)
  BY DEF PassVote
<1>4. vote' \in VoteRecord \cup {NoVote} /\ faults' \in Nat
  BY DEF PassVote, IInv, SharedOK
<1>5. passed' \in Seq(Nat)
  BY <1>2 DEF PassVote, IInv, SharedOK
<1> HIDE DEF v
<1>6. j \in Job /\ j.at = "execute" /\ j.blob = Idle.blob
  BY <1>2, IdleGood DEF Job, Points
<1> HIDE DEF j
<1>7. JobOK(j)
  BY <1>6, IdleGood DEF JobOK
<1>8. JobsOK'
  BY <1>3, <1>6, <1>7, GotoGood DEF IInv, Procs
<1>9. SharedOK'
  BY <1>4, <1>5 DEF PassVote, IInv, SharedOK, hub
<1> QED
  BY <1>8, <1>9 DEF IInv

\* executeRemoveSong keeps it up to its write.
LEMMA ExecuteRemoveSongGood ==
    ASSUME IInv, NEW c \in Clients, ExecuteRemoveSong(c)
    PROVE  IInv'
<1> DEFINE found == {i \in DOMAIN store.CurrentQueue \ {store.CurrentIndex + 1} :
                       store.CurrentQueue[i].QueueID = job[c].target}
<1>1. JobsOK' /\ lock' \in Clients \cup {None}
  <2>1. CASE Return(c)
    BY <2>1, ReturnGood DEF IInv, Procs
  <2>2. CASE /\ WillWrite(c, "remove_song", job[c].target, {WithoutSong(store, i) : i \in found})
             /\ UNCHANGED lock
    <3>1. \A b \in {WithoutSong(store, i) : i \in found} : b \in PlaylistState /\ WellFormed(b)
      <4>1. store \in PlaylistState /\ WellFormed(store)
        BY DEF IInv, SharedOK
      <4>2. \A i \in found : i \in 1..Len(store.CurrentQueue) /\ i # store.CurrentIndex + 1
        BY <4>1 DEF PlaylistState
      <4> HIDE DEF found
      <4> QED
        BY <4>1, <4>2, WithoutSongGood
    <3>2. job[c].target \in QueueID
      BY JobFacts DEF IInv, Procs
    <3>3. JobsOK'
      BY <2>2, <3>1, <3>2, WillWriteGood DEF IInv, Procs, Ops, VoteAction
    <3> QED
      BY <2>2, <3>3 DEF IInv, SharedOK
  <2> QED
    BY <2>1, <2>2 DEF ExecuteRemoveSong
<1>2. SharedOK'
  BY <1>1 DEF ExecuteRemoveSong, IInv, SharedOK, redis, bounds, ghosts
<1> QED
  BY <1>1, <1>2 DEF IInv

\* executeSkipSong does.
LEMMA ExecuteSkipSongGood ==
    ASSUME IInv, NEW c \in Clients, ExecuteSkipSong(c)
    PROVE  IInv'
<1>1. job[c].target \in QueueID
  BY JobFacts DEF IInv, Procs
<1>2. CASE Return(c) /\ UNCHANGED <<history, faults>>
  <2>1. JobsOK' /\ lock' \in Clients \cup {None}
    BY <1>2, ReturnGood DEF IInv, Procs
  <2>2. SharedOK'
    BY <1>2, <2>1 DEF ExecuteSkipSong, IInv, SharedOK, ghosts
  <2> QED
    BY <2>1, <2>2 DEF IInv
<1>3. CASE /\ IsCurrent(store, job[c].target) /\ PushHistory(job[c].target, "skipped")
           /\ WillWrite(c, "skip_song", job[c].target, SkipOutcomes(store)) /\ UNCHANGED lock
  <2>1. \A b \in SkipOutcomes(store) : b \in PlaylistState /\ WellFormed(b)
    BY <1>3, AdvancesGood DEF SkipOutcomes, IsCurrent, IInv, SharedOK
  <2>2. JobsOK'
    BY <1>1, <1>3, <2>1, WillWriteGood DEF IInv, Procs, Ops, VoteAction
  <2>3. history' \in Seq(HistorySong) /\ faults' \in Nat
    BY <1>1, <1>3, PushHistoryGood DEF IInv
  <2>4. SharedOK'
    BY <1>3, <2>3 DEF ExecuteSkipSong, IInv, SharedOK, ghosts
  <2> QED
    BY <2>2, <2>4 DEF IInv
<1> QED
  BY <1>2, <1>3 DEF ExecuteSkipSong

\* executeBroadcastSkip does.
LEMMA ExecuteBroadcastSkipGood ==
    ASSUME IInv, NEW c \in Clients, ExecuteBroadcastSkip(c)
    PROVE  IInv'
<1>1. JobsOK' /\ lock' \in Clients \cup {None}
  <2>1. CASE Return(c)
    BY <2>1, ReturnGood DEF IInv, Procs
  <2>2. CASE /\ store.IsBroadcasting
             /\ WillWrite(c, "restore", NoID, {VotedAway(store)}) /\ UNCHANGED lock
    <3>1. \A b \in {VotedAway(store)} : b \in PlaylistState /\ WellFormed(b)
      BY <2>2, VotedAwayGood DEF IInv, SharedOK
    <3>2. NoID \in QueueID
      BY DEF NoID, QueueID
    <3>3. JobsOK'
      BY <2>2, <3>1, <3>2, WillWriteGood DEF IInv, Procs, Ops
    <3> QED
      BY <2>2, <3>3 DEF IInv, SharedOK
  <2> QED
    BY <2>1, <2>2 DEF ExecuteBroadcastSkip
<1>2. SharedOK'
  BY <1>1 DEF ExecuteBroadcastSkip, IInv, SharedOK, redis, bounds, ghosts
<1> QED
  BY <1>1, <1>2 DEF IInv

-----------------------------------------------------------------------------
(* The scheduler and the admin, clients that come and go, time and faults. *)

\* triggerBroadcast keeps it: its song has never been replayed.
LEMMA TriggerBroadcastGood ==
    ASSUME IInv, NEW s \in Staff, TriggerBroadcast(s)
    PROVE  IInv'
<1> DEFINE id == [uuid |-> minted + 1, replays |-> 0]
           j == [Idle EXCEPT !.at = "inject", !.target = id]
<1>1. id \in QueueID /\ id.replays = 0 /\ Goto(s, j)
  BY DEF TriggerBroadcast, QueueID, IInv, SharedOK
<1> HIDE DEF id
<1>2. j \in Job /\ j.at = "inject" /\ j.target = id /\ j.blob = Idle.blob
  BY <1>1, IdleGood DEF Job, Points
<1> HIDE DEF j
<1>3. JobOK(j)
  BY <1>1, <1>2, IdleGood DEF JobOK
<1>4. JobsOK'
  BY <1>1, <1>2, <1>3, GotoGood DEF IInv, Procs
<1>5. SharedOK'
  BY DEF TriggerBroadcast, IInv, SharedOK, redis, hub, ghosts
<1> QED
  BY <1>4, <1>5 DEF IInv

\* triggerInRoom keeps it up to its write, whether it starts the broadcast or queues it.
LEMMA TriggerInRoomGood ==
    ASSUME IInv, NEW s \in Staff, TriggerInRoom(s)
    PROVE  IInv'
<1> DEFINE song == BroadcastSong(job[s].target)
<1>1. job[s].target \in QueueID /\ job[s].target.replays = 0
  BY JobFacts DEF TriggerInRoom, IInv, JobOK, Procs
<1>2. song \in Song /\ song.IsBroadcast /\ song.QueueID.replays = 0
  BY <1>1 DEF BroadcastSong, Song, Names
<1>3. \/ store.IsBroadcasting /\ WillWrite(s, "queueBroadcast", job[s].target, {Queued(store, song)})
      \/ /\ ~store.IsBroadcasting
         /\ WillWrite(s, "startBroadcast", job[s].target, {Interrupted(store, song)})
  BY DEF TriggerInRoom
<1> HIDE DEF song
<1>4. CASE store.IsBroadcasting
  <2>1. \A b \in {Queued(store, song)} : b \in PlaylistState /\ WellFormed(b)
    BY <1>2, <1>4, QueuedGood DEF IInv, SharedOK
  <2> QED
    BY <1>1, <1>3, <1>4, <2>1, WillWriteGood, SharedSame DEF TriggerInRoom, IInv, Procs, Ops
<1>5. CASE ~store.IsBroadcasting
  <2>1. \A b \in {Interrupted(store, song)} : b \in PlaylistState /\ WellFormed(b)
    BY <1>2, <1>5, InterruptedGood DEF IInv, SharedOK
  <2> QED
    BY <1>1, <1>3, <1>5, <2>1, WillWriteGood, SharedSame DEF TriggerInRoom, IInv, Procs, Ops
<1> QED
  BY <1>4, <1>5

\* startBroadcastSkipVote keeps it up to its SetVote.
LEMMA StartBroadcastSkipVoteGood ==
    ASSUME IInv, NEW s \in Staff, StartBroadcastSkipVote(s)
    PROVE  IInv'
<1>1. CASE Goto(s, Idle) /\ UNCHANGED ballots
  <2>1. JobsOK'
    BY <1>1, IdleGood, GotoGood DEF IInv, Procs
  <2>2. SharedOK'
    BY <1>1 DEF StartBroadcastSkipVote, IInv, SharedOK, redis, hub, ghosts
  <2> QED
    BY <2>1, <2>2 DEF IInv
<1>2. CASE /\ online # {} /\ ballots' = ballots + 1
           /\ Goto(s, [Idle EXCEPT !.at = "setVote", !.op = "skip_broadcast",
                                   !.ballot = SchedulerVote(ballots + 1, online)])
  <2> DEFINE v == SchedulerVote(ballots + 1, online)
             j == [Idle EXCEPT !.at = "setVote", !.op = "skip_broadcast", !.ballot = v]
  <2>1. v \in VoteRecord
    <3>1. PICK c : c \in online
      BY <1>2
    <3>2. c \in Clients
      BY <3>1 DEF IInv, SharedOK
    <3>3. NoID \in QueueID /\ "skip_broadcast" \in VoteAction
      BY DEF NoID, QueueID, VoteAction
    <3> QED
      BY <1>2, <3>2, <3>3, NewVotes
  <2> HIDE DEF v
  <2>2. j \in Job /\ j.at = "setVote" /\ j.ballot = v /\ j.blob = Idle.blob
    BY <2>1, IdleGood DEF Job, Points, Ops, VoteAction
  <2>3. Goto(s, j)
    BY <1>2 DEF v
  <2> HIDE DEF j
  <2>4. JobOK(j)
    BY <2>1, <2>2, IdleGood DEF JobOK
  <2>5. JobsOK'
    BY <2>2, <2>3, <2>4, GotoGood DEF IInv, Procs
  <2>6. SharedOK'
    BY <1>2 DEF StartBroadcastSkipVote, IInv, SharedOK, redis, hub, ghosts
  <2> QED
    BY <2>5, <2>6 DEF IInv
<1> QED
  BY <1>1, <1>2 DEF StartBroadcastSkipVote

\* SkipCurrentBroadcast keeps it up to its write.
LEMMA SkipCurrentBroadcastGood ==
    ASSUME IInv, NEW s \in Staff, SkipCurrentBroadcast(s)
    PROVE  IInv'
<1>1. \A b \in {AdminRestored(store)} : b \in PlaylistState /\ WellFormed(b)
  BY AdminRestoredGood DEF SkipCurrentBroadcast, IInv, SharedOK
<1>2. WillWrite(s, "restore", NoID, {AdminRestored(store)}) /\ NoID \in QueueID
  BY DEF SkipCurrentBroadcast, NoID, QueueID
<1>3. JobsOK'
  BY <1>1, <1>2, WillWriteGood DEF IInv, Procs, Ops
<1> QED
  BY <1>3, SharedSame DEF SkipCurrentBroadcast, IInv

\* Unregister keeps it up to the reset of the room.
LEMMA LeaveGood ==
    ASSUME IInv, NEW c \in Clients, Leave(c)
    PROVE  IInv'
<1> DEFINE j == [Idle EXCEPT !.at = "reset"]
<1>1. j \in Job /\ j.at = "reset" /\ j.blob = Idle.blob
  BY IdleGood DEF Job, Points
<1>2. Goto(c, Idle) \/ Goto(c, j)
  BY DEF Leave
<1> HIDE DEF j
<1>3. JobOK(j)
  BY <1>1, IdleGood DEF JobOK
<1>4. JobsOK'
  BY <1>1, <1>2, <1>3, IdleGood, GotoGood DEF IInv, Procs
<1>5. IsFiniteSet(online \ {c})
  BY FS_RemoveElement DEF IInv, SharedOK
<1>6. SharedOK'
  BY <1>5 DEF Leave, IInv, SharedOK, redis, bounds, ghosts
<1> QED
  BY <1>4, <1>6 DEF IInv

\* HandleJoin keeps it.
LEMMA JoinGood ==
    ASSUME IInv, NEW c \in Clients, Join(c)
    PROVE  IInv'
<1>1. IsFiniteSet(online \cup {c})
  BY FS_AddElement DEF IInv, SharedOK
<1>2. SharedOK'
  BY <1>1 DEF Join, IInv, SharedOK, redis, bounds, ghosts
<1> QED
  BY <1>2 DEF Join, IInv, JobsOK

\* The reset of an empty room keeps it up to its write.
LEMMA ResetEmptyRoomGood ==
    ASSUME IInv, NEW c \in Clients, ResetEmptyRoom(c)
    PROVE  IInv'
<1>1. CASE Goto(c, Idle)
  BY <1>1, IdleGood, GotoGood, SharedSame DEF ResetEmptyRoom, IInv, Procs
<1>2. CASE store.IsBroadcasting /\ WillWrite(c, "restore", NoID, {RoomEmptied(store)})
  <2>1. \A b \in {RoomEmptied(store)} : b \in PlaylistState /\ WellFormed(b)
    BY <1>2, RoomEmptiedGood DEF IInv, SharedOK
  <2>2. NoID \in QueueID
    BY DEF NoID, QueueID
  <2>3. JobsOK'
    BY <1>2, <2>1, <2>2, WillWriteGood DEF IInv, Procs, Ops
  <2> QED
    BY <2>3, SharedSame DEF ResetEmptyRoom, IInv
<1> QED
  BY <1>1, <1>2 DEF ResetEmptyRoom

\* IncrSeekTime keeps it: what is playing has a song.
LEMMA TickGood ==
    ASSUME IInv, Tick
    PROVE  IInv'
<1>1. store' \in PlaylistState /\ WellFormed(store')
  BY SeekGood DEF Tick, IInv, SharedOK
<1>2. store.CurrentQueue # <<>>
  BY QueueFacts DEF Tick, IInv, SharedOK
<1>3. ticked' \subseteq QueueID
  BY <1>2, CurrentSongTyped DEF Tick, IInv, SharedOK
<1>4. SharedOK'
  BY <1>1, <1>3 DEF Tick, IInv, SharedOK, hub, bounds
<1> QED
  BY <1>4 DEF Tick, IInv, JobsOK

\* A call to Redis that fails keeps it.
LEMMA StoreFailsGood ==
    ASSUME IInv, NEW p \in Procs, StoreFails(p)
    PROVE  IInv'
<1>1. JobsOK' /\ lock' \in Clients \cup {None}
  BY ReturnGood DEF StoreFails, IInv
<1>2. SharedOK'
  BY <1>1 DEF StoreFails, IInv, SharedOK, redis, ghosts
<1> QED
  BY <1>1, <1>2 DEF IInv

\* So does a crash of the server.
LEMMA CrashGood ==
    ASSUME IInv, Crash
    PROVE  IInv'
<1>1. JobsOK'
  BY IdleGood DEF Crash, JobsOK
<1>2. IsFiniteSet({})
  BY FS_EmptySet
<1>3. SharedOK'
  BY <1>2 DEF Crash, IInv, SharedOK, redis, ghosts
<1> QED
  BY <1>1, <1>3 DEF IInv

-----------------------------------------------------------------------------
(* The invariant.                                                          *)

\* The invariant holds at the start.
LEMMA InitGood == Init => IInv
<1> SUFFICES ASSUME Init
             PROVE  IInv
  OBVIOUS
<1>1. store \in PlaylistState /\ WellFormed(store)
  BY RoomAssumption DEF Init
<1>2. online \subseteq Clients /\ IsFiniteSet(online) /\ allowSkip \in BOOLEAN
  BY RoomAssumption DEF Init
<1>3. JobsOK
  BY IdleGood DEF Init, JobsOK
<1>4. SharedOK
  BY <1>1, <1>2 DEF Init, SharedOK
<1> QED
  BY <1>3, <1>4 DEF IInv

\* Every step keeps it.
LEMMA NextGood == IInv /\ [Next]_vars => IInv'
<1> SUFFICES ASSUME IInv, [Next]_vars
             PROVE  IInv'
  OBVIOUS
<1>1. ASSUME NEW c \in Clients, ClientStep(c)
      PROVE  IInv'
  BY <1>1, AddSongGood, RemoveSongGood, ReorderQueueGood, SetPlaybackModeGood,
     SetPlaybackSpeedGood, ReportErrorGood, SkipSongGood, SongEndedGood, VoteCastGood,
     JoinGood, LeaveGood DEF ClientStep
<1>2. ASSUME NEW c \in Clients, ClientGoesOn(c)
      PROVE  IInv'
  BY <1>2, ClaimSongEndedGood, ClearActiveVoteGood, DeleteClearedVoteGood, StartVoteGood,
     RecordVoteGood, PassVoteGood, ExecuteRemoveSongGood, ExecuteSkipSongGood,
     ExecuteBroadcastSkipGood, ResetEmptyRoomGood, WriteStateGood, PublishVoteGood
     DEF ClientGoesOn, Procs
<1>3. ASSUME NEW s \in Staff, StaffStep(s)
      PROVE  IInv'
  <2>1. CASE UpdateSettings(s)
    BY <2>1 DEF UpdateSettings, IInv, SharedOK, JobsOK, hub, bounds, ghosts
  <2> QED
    BY <1>3, <2>1, TriggerBroadcastGood, SkipCurrentBroadcastGood DEF StaffStep
<1>4. ASSUME NEW s \in Staff, StaffGoesOn(s)
      PROVE  IInv'
  BY <1>4, TriggerInRoomGood, StartBroadcastSkipVoteGood, WriteStateGood, PublishVoteGood
     DEF StaffGoesOn, Procs
<1>5. CASE Environment
  <2>1. CASE VoteExpires
    BY <2>1 DEF VoteExpires, IInv, SharedOK, JobsOK, hub, bounds, ghosts
  <2>2. CASE ClaimExpires
    <3>1. claimed' \subseteq claimed
      BY <2>2 DEF ClaimExpires
    <3> QED
      BY <2>2, <3>1 DEF ClaimExpires, IInv, SharedOK, JobsOK, hub, bounds, ghosts
  <2> QED
    BY <1>5, <2>1, <2>2, TickGood, CrashGood, StoreFailsGood DEF Environment
<1>6. CASE UNCHANGED vars
  BY <1>6 DEF vars, redis, hub, bounds, ghosts, IInv, SharedOK, JobsOK
<1> QED
  BY <1>1, <1>2, <1>3, <1>4, <1>5, <1>6 DEF Next

\* The invariant always holds.
LEMMA Inductive == Spec => []IInv
BY InitGood, NextGood, PTL DEF Spec

\* Every variable keeps its type, whatever runs at the same time and whatever
\* fails: in particular every document the handlers compute has a current index
\* and a seek time that are not negative and every vote names a user of the room.
THEOREM TypeCorrect == Spec => []TypeOK
<1>1. IInv => TypeOK
  BY DEF IInv, SharedOK, JobsOK, TypeOK
<1> QED
  BY <1>1, Inductive, PTL

\* No interleaving of the handlers, for any number of clients, songs, votes and
\* faults and any number of handlers in flight, stores or is about to store a
\* document that some handler could not work with.
THEOREM DocumentsStayWellFormed == Spec => []DocumentsWellFormed
<1>1. IInv => DocumentsWellFormed
  BY DEF IInv, SharedOK, JobsOK, JobOK, DocumentsWellFormed, Documents
<1> QED
  BY <1>1, Inductive, PTL
=============================================================================
