-------------------------- MODULE RoomSteps_proofs --------------------------
(***************************************************************************)
(* Most steps of a room bring no handler to the point of writing (Quiet);  *)
(* the others bring one there, with a document it has just computed.  From *)
(* this follow what such a computation does to the song being played and   *)
(* that one handler ends a song; and from who holds the mutex of votes and *)
(* what, that no counted vote is lost and that a vote passes once.         *)
(***************************************************************************)
EXTENDS RoomPlayback_proofs

\* A queue keeps its current song when one is appended,
LEMMA WithSongKeeps ==
    ASSUME NEW s \in PlaylistState, WellFormed(s), s.CurrentQueue # <<>>, NEW song \in Song
    PROVE  CurrentSong(WithSong(s, song)) = CurrentSong(s)
<1> DEFINE q == s.CurrentQueue
           r == Append(q, song)
<1>1. q \in Seq(Song) /\ Len(q) \in Nat /\ s.CurrentIndex + 1 \in 1..Len(q) /\ Len(q) > 0
  BY QueueFacts
<1>2. Len(r) = Len(q) + 1 /\ \A i \in 1..Len(q) : r[i] = q[i]
  BY <1>1, AppendProperties
<1>3. WithSong(s, song) = [s EXCEPT !.CurrentQueue = r]
  BY <1>1, <1>2 DEF WithSong
<1> HIDE DEF r
<1>4. WithSong(s, song).CurrentQueue = r /\ WithSong(s, song).CurrentIndex = s.CurrentIndex
  BY <1>3 DEF PlaylistState
<1> QED
  BY <1>1, <1>2, <1>4 DEF CurrentSong

\* when another one is removed,
LEMMA WithoutSongKeeps ==
    ASSUME NEW s \in PlaylistState, WellFormed(s),
           NEW i \in 1..Len(s.CurrentQueue), i # s.CurrentIndex + 1
    PROVE  CurrentSong(WithoutSong(s, i)) = CurrentSong(s)
<1> DEFINE q == s.CurrentQueue
           r == RemoveAt(q, i)
           c == IF i - 1 < s.CurrentIndex THEN s.CurrentIndex - 1 ELSE s.CurrentIndex
           t == WithoutSong(s, i)
<1>1. q \in Seq(Song) /\ Len(q) \in Nat /\ s.CurrentIndex \in Nat /\ s.CurrentIndex < Len(q)
  BY QueueFacts
<1>2. \A j \in 1..(Len(q) - 1) : r[j] = IF j < i THEN q[j] ELSE q[j + 1]
  BY <1>1, RemoveAtProperties
<1>3. t = [s EXCEPT !.CurrentQueue = r, !.CurrentIndex = c]
  BY DEF WithoutSong
<1> HIDE DEF r, t
<1>4. t.CurrentQueue = r /\ t.CurrentIndex = c
  BY <1>3 DEF PlaylistState
<1>5. c + 1 \in 1..(Len(q) - 1) /\ s.CurrentIndex + 1 = IF c + 1 < i THEN c + 1 ELSE c + 2
  BY <1>1
<1> HIDE DEF c
<1>6. r[c + 1] = q[s.CurrentIndex + 1]
  <2>1. CASE c + 1 < i
    BY <1>2, <1>5, <2>1
  <2>2. CASE ~(c + 1 < i)
    <3>1. c \in Int /\ (c + 1) + 1 = c + 2
      BY <1>1 DEF c
    <3> QED
      BY <1>2, <1>5, <2>2, <3>1
  <2> QED
    BY <2>1, <2>2
<1> QED
  BY <1>4, <1>6 DEF CurrentSong, t

\* when it or another one is moved,
LEMMA ReorderedKeeps ==
    ASSUME NEW s \in PlaylistState, WellFormed(s),
           NEW from \in 0..(Len(s.CurrentQueue) - 1), NEW to \in 0..(Len(s.CurrentQueue) - 1)
    PROVE  CurrentSong(Reordered(s, from, to)) = CurrentSong(s)
<1> DEFINE q == s.CurrentQueue
           n == Len(q)
           cur == s.CurrentIndex
           a == from + 1
           b == to + 1
           u == Moved(q, a, b)
           c == CASE from = cur              -> to
                  [] from < cur /\ to >= cur -> cur - 1
                  [] from > cur /\ to <= cur -> cur + 1
                  [] OTHER                   -> cur
           t == Reordered(s, from, to)
<1>1. q \in Seq(Song) /\ n \in Nat /\ cur \in Nat /\ cur < n
  BY QueueFacts
<1>2. a \in 1..n /\ b \in 1..n
  BY <1>1
<1>3. t = [s EXCEPT !.CurrentQueue = u, !.CurrentIndex = c]
  BY DEF Reordered, Moved
<1>4. Origin(c + 1, a, b) = cur + 1
  BY <1>1 DEF Origin
<1> HIDE DEF a, b
<1>5. \A k \in 1..n : u[k] = q[Origin(k, a, b)]
  BY <1>1, <1>2, MoveProperties
<1> HIDE DEF n, u, t
<1>6. c + 1 \in 1..n
  BY <1>1 DEF n
<1> HIDE DEF c
<1>7. t.CurrentQueue = u /\ t.CurrentIndex = c
  BY <1>3 DEF PlaylistState
<1>8. u[c + 1] = q[cur + 1]
  BY <1>6, <1>4, <1>5
<1> QED
  BY <1>7, <1>8 DEF CurrentSong, t

\* when those after it are shuffled,
LEMMA ShufflesKeep ==
    ASSUME NEW s \in PlaylistState, s.CurrentIndex < Len(s.CurrentQueue), NEW t \in Shuffles(s)
    PROVE  CurrentSong(t) = CurrentSong(s)
<1> DEFINE q == s.CurrentQueue
           n == Len(q)
<1>1. n \in Nat /\ s.CurrentIndex \in Nat /\ s.CurrentIndex + 1 \in 1..n
  BY DEF PlaylistState
<1>2. PICK p \in Bijection(1..n, 1..n) :
        /\ \A i \in 1..n : i <= s.CurrentIndex + 1 => p[i] = i
        /\ t = [s EXCEPT !.CurrentQueue = [i \in 1..n |-> q[p[i]]]]
  BY DEF Shuffles
<1> DEFINE r == [i \in 1..n |-> q[p[i]]]
<1>3. r[s.CurrentIndex + 1] = q[s.CurrentIndex + 1]
  BY <1>1, <1>2
<1>4. t = [s EXCEPT !.CurrentQueue = r]
  BY <1>2
<1> HIDE DEF r
<1>5. t.CurrentQueue = r /\ t.CurrentIndex = s.CurrentIndex
  BY <1>4 DEF PlaylistState
<1> QED
  BY <1>3, <1>5 DEF CurrentSong

\* when the mode is set,
LEMMA ModeChangesKeep ==
    ASSUME NEW s \in PlaylistState, WellFormed(s), s.CurrentQueue # <<>>,
           NEW autoplay \in BOOLEAN, NEW shuffle \in BOOLEAN, NEW random \in BOOLEAN,
           NEW t \in ModeChanges(s, autoplay, shuffle, random)
    PROVE  CurrentSong(t) = CurrentSong(s)
<1> DEFINE u == [s EXCEPT !.Autoplay = autoplay, !.Shuffle = shuffle, !.RandomPlay = random]
<1>1. t = u \/ t \in Shuffles(u)
  BY DEF ModeChanges
<1>2. u \in PlaylistState /\ u.CurrentQueue = s.CurrentQueue /\ u.CurrentIndex = s.CurrentIndex
  BY DEF PlaylistState
<1>3. s.CurrentIndex < Len(s.CurrentQueue)
  BY QueueFacts
<1> HIDE DEF u
<1> QED
  BY <1>1, <1>2, <1>3, ShufflesKeep DEF CurrentSong

\* and when the speed is.
LEMMA SpeedKeeps ==
    ASSUME NEW s \in PlaylistState, NEW v
    PROVE  CurrentSong([s EXCEPT !.PlaybackSpeed = v]) = CurrentSong(s)
BY DEF CurrentSong, PlaylistState

-----------------------------------------------------------------------------
(* Which steps bring a handler to the point of writing.                    *)

\* None.
Quiet == \A p \in Procs : job'[p].at = "write" => job'[p] = job[p]

\* The handler of c, with one of these documents.
Writes(c, op, target, blobs) ==
    /\ \A p \in Procs \ {c} : job'[p] = job[p]
    /\ job'[c].at = "write" /\ job'[c].op = op /\ job'[c].target = target
    /\ job'[c].blob \in blobs

\* The actions that do.
Computing ==
    \/ \E c \in Clients :
         \/ AddSong(c) \/ ReorderQueue(c) \/ SetPlaybackMode(c) \/ SetPlaybackSpeed(c)
         \/ ReportError(c) \/ ClaimSongEnded(c) \/ ExecuteRemoveSong(c)
         \/ ExecuteSkipSong(c) \/ ExecuteBroadcastSkip(c) \/ ResetEmptyRoom(c)
    \/ \E s \in Staff : TriggerInRoom(s) \/ SkipCurrentBroadcast(s)

\* A handler that goes on to anything but a write.
LEMMA GotoQuiet ==
    ASSUME JobsOK, NEW p \in Procs, NEW j, Goto(p, j), j.at # "write"
    PROVE  Quiet
BY DEF JobsOK, Goto, Quiet

\* A handler that returns.
LEMMA ReturnQuiet ==
    ASSUME JobsOK, NEW p \in Procs, Return(p)
    PROVE  Quiet
<1>1. Idle.at # "write"
  BY DEF Idle
<1> QED
  BY <1>1, GotoQuiet DEF Return

\* A handler that is about to write.
LEMMA WillWriteWrites ==
    ASSUME JobsOK, NEW p \in Procs, NEW op, NEW target, NEW blobs,
           WillWrite(p, op, target, blobs)
    PROVE  Writes(p, op, target, blobs)
<1>1. PICK b \in blobs :
        Goto(p, [Idle EXCEPT !.at = "write", !.op = op, !.target = target, !.blob = b])
  BY DEF WillWrite
<1> DEFINE j == [Idle EXCEPT !.at = "write", !.op = op, !.target = target, !.blob = b]
<1>2. j.at = "write" /\ j.op = op /\ j.target = target /\ j.blob = b
  BY DEF Idle
<1>3. Goto(p, j)
  BY <1>1
<1> HIDE DEF j
<1>4. job'[p] = j /\ \A q \in Procs \ {p} : job'[q] = job[q]
  BY <1>3 DEF Goto, JobsOK
<1> QED
  BY <1>2, <1>4 DEF Writes

\* Requests that are not about to write yet.
LEMMA RequestsQuiet ==
    ASSUME IInv, NEW c \in Clients,
           \/ RemoveSong(c) \/ SkipSong(c) \/ SongEnded(c) \/ VoteCast(c) \/ Join(c) \/ Leave(c)
    PROVE  Quiet /\ claimed' = claimed
<1>1. ASSUME NEW at, at # "write", NEW op, NEW target,
             Goto(c, [Idle EXCEPT !.at = at, !.op = op, !.target = target])
      PROVE  Quiet
  <2>1. [Idle EXCEPT !.at = at, !.op = op, !.target = target].at # "write"
    BY <1>1 DEF Idle
  <2> QED
    BY <1>1, <2>1, GotoQuiet DEF IInv, Procs
<1>2. \A song : OwnOrVote(song, c) # "write"
  BY DEF OwnOrVote
<1>3. CASE RemoveSong(c)
  BY <1>1, <1>2, <1>3 DEF RemoveSong, redis
<1>4. CASE SkipSong(c)
  BY <1>1, <1>2, <1>4 DEF SkipSong, redis
<1>5. CASE SongEnded(c)
  <2> DEFINE song == CurrentSong(store)
             op == IF song.IsBroadcast THEN "endBroadcast" ELSE "ended"
             j == [Idle EXCEPT !.at = "claim", !.target = song.QueueID, !.blob = store, !.op = op]
  <2>1. Goto(c, j) /\ claimed' = claimed
    BY <1>5 DEF SongEnded, redis
  <2>2. j.at # "write"
    BY DEF Idle
  <2> HIDE DEF j
  <2> QED
    BY <2>1, <2>2, GotoQuiet DEF IInv, Procs
<1>6. CASE VoteCast(c)
  <2> DEFINE j == [Idle EXCEPT !.at = "cast", !.op = vote.Action, !.ballot = vote]
  <2>1. Goto(c, j) /\ claimed' = claimed
    BY <1>6 DEF VoteCast, redis
  <2>2. j.at # "write"
    BY DEF Idle
  <2> HIDE DEF j
  <2> QED
    BY <2>1, <2>2, GotoQuiet DEF IInv, Procs
<1>7. CASE Join(c)
  BY <1>7 DEF Join, redis, Quiet
<1>8. CASE Leave(c)
  <2> DEFINE j == IF online = {c} THEN [Idle EXCEPT !.at = "reset"] ELSE Idle
  <2>1. Goto(c, j) /\ claimed' = claimed
    BY <1>8 DEF Leave, redis
  <2>2. j.at # "write"
    BY DEF Idle
  <2> HIDE DEF j
  <2> QED
    BY <2>1, <2>2, GotoQuiet DEF IInv, Procs
<1> QED
  BY <1>3, <1>4, <1>5, <1>6, <1>7, <1>8

\* Handlers in flight that are not about to write yet, and those that have written.
LEMMA GoingOnQuiet ==
    ASSUME IInv, NEW c \in Procs,
           \/ ClearActiveVote(c) \/ DeleteClearedVote(c) \/ StartVote(c) \/ RecordVote(c)
           \/ PassVote(c) \/ WriteState(c) \/ PublishVote(c)
    PROVE  Quiet /\ claimed' = claimed
<1> USE DEF IInv
<1>1. Idle.at # "write"
  BY DEF Idle
<1>2. CASE ClearActiveVote(c)
  <2>1. \/ Goto(c, Idle)
        \/ Goto(c, [Idle EXCEPT !.at = "delVote"])
    BY <1>2 DEF ClearActiveVote
  <2>2. [Idle EXCEPT !.at = "delVote"].at # "write"
    BY DEF Idle
  <2> QED
    BY <1>1, <1>2, <2>1, <2>2, GotoQuiet DEF ClearActiveVote, redis
<1>3. CASE DeleteClearedVote(c)
  BY <1>1, <1>3, GotoQuiet DEF DeleteClearedVote
<1>4. CASE StartVote(c)
  <2>1. job[c] \in Job
    BY JobFacts
  <2> DEFINE new == UserVote(ballots + 1, job[c].op, job[c].target, c, online)
             decided == [job[c] EXCEPT !.at = "execute", !.op = DecidedAlone(@)]
             open == [job[c] EXCEPT !.at = "setVote", !.ballot = new]
  <2>2. (Goto(c, Idle) \/ Goto(c, decided) \/ Goto(c, open)) /\ claimed' = claimed
    BY <1>4 DEF StartVote, redis
  <2>3. decided.at # "write" /\ open.at # "write"
    BY <2>1 DEF Job
  <2> HIDE DEF decided, open
  <2> QED
    BY <1>1, <2>2, <2>3, GotoQuiet
<1>5. CASE RecordVote(c)
  BY <1>5, ReturnQuiet DEF RecordVote
<1>6. CASE PassVote(c)
  <2> DEFINE j == [Idle EXCEPT !.at = "execute", !.op = job[c].ballot.Action,
                               !.target = job[c].ballot.SongQueueID]
  <2>1. Goto(c, j) /\ claimed' = claimed
    BY <1>6 DEF PassVote
  <2>2. j.at # "write"
    BY DEF Idle
  <2> HIDE DEF j
  <2> QED
    BY <2>1, <2>2, GotoQuiet
<1>7. CASE WriteState(c)
  <2> DEFINE at == AfterWrite(job[c].op)
             j == [Idle EXCEPT !.at = at]
  <2>1. Return(c) \/ Goto(c, j)
    BY <1>7 DEF WriteState
  <2>2. at # "write"
    BY DEF AfterWrite
  <2> HIDE DEF at
  <2>3. j.at # "write"
    BY <2>2 DEF Idle
  <2> HIDE DEF j
  <2> QED
    BY <1>7, <2>1, <2>3, GotoQuiet, ReturnQuiet DEF WriteState
<1>8. CASE PublishVote(c)
  BY <1>1, <1>8, GotoQuiet DEF PublishVote
<1> QED
  BY <1>2, <1>3, <1>4, <1>5, <1>6, <1>7, <1>8

\* The scheduler and the admin.
LEMMA StaffQuiet ==
    ASSUME IInv, NEW s \in Staff,
           TriggerBroadcast(s) \/ UpdateSettings(s) \/ StartBroadcastSkipVote(s)
    PROVE  Quiet /\ claimed' = claimed
<1>1. CASE TriggerBroadcast(s)
  <2> DEFINE j == [Idle EXCEPT !.at = "inject", !.target = [uuid |-> minted + 1, replays |-> 0]]
  <2>1. Goto(s, j) /\ claimed' = claimed
    BY <1>1 DEF TriggerBroadcast, redis
  <2>2. j.at # "write"
    BY DEF Idle
  <2> HIDE DEF j
  <2> QED
    BY <2>1, <2>2, GotoQuiet DEF IInv, Procs
<1>2. CASE UpdateSettings(s)
  BY <1>2 DEF UpdateSettings, Quiet
<1>3. CASE StartBroadcastSkipVote(s)
  <2> DEFINE j == [Idle EXCEPT !.at = "setVote", !.op = "skip_broadcast",
                               !.ballot = SchedulerVote(ballots + 1, online)]
  <2>1. (Goto(s, Idle) \/ Goto(s, j)) /\ claimed' = claimed
    BY <1>3 DEF StartBroadcastSkipVote, redis
  <2>2. j.at # "write" /\ Idle.at # "write"
    BY DEF Idle
  <2> HIDE DEF j
  <2> QED
    BY <2>1, <2>2, GotoQuiet DEF IInv, Procs
<1> QED
  BY <1>1, <1>2, <1>3

\* Time and faults.
LEMMA EnvironmentQuiet ==
    ASSUME IInv, Environment
    PROVE  Quiet /\ (claimed' = claimed \/ ClaimExpires)
<1>1. Tick \/ VoteExpires \/ ClaimExpires => Quiet /\ (claimed' = claimed \/ ClaimExpires)
  BY DEF Tick, VoteExpires, ClaimExpires, Quiet
<1>2. Crash => Quiet /\ claimed' = claimed
  BY DEF Crash, redis, Quiet, Idle
<1>3. ASSUME NEW p \in Procs, StoreFails(p)
      PROVE  Quiet /\ claimed' = claimed
  BY <1>3, ReturnQuiet DEF StoreFails, redis, IInv
<1> QED
  BY <1>1, <1>2, <1>3 DEF Environment

\* Every step is quiet or computes a document.
LEMMA Steps ==
    ASSUME IInv, [Next]_vars
    PROVE  (Quiet /\ (claimed' = claimed \/ ClaimExpires)) \/ Computing
<1>1. ASSUME NEW c \in Clients, ClientStep(c)
      PROVE  (Quiet /\ claimed' = claimed) \/ Computing
  BY <1>1, RequestsQuiet DEF ClientStep, Computing
<1>2. ASSUME NEW c \in Clients, ClientGoesOn(c)
      PROVE  (Quiet /\ claimed' = claimed) \/ Computing
  BY <1>2, GoingOnQuiet DEF ClientGoesOn, Computing, Procs
<1>3. ASSUME NEW s \in Staff, StaffStep(s) \/ StaffGoesOn(s)
      PROVE  (Quiet /\ claimed' = claimed) \/ Computing
  BY <1>3, StaffQuiet, GoingOnQuiet DEF StaffStep, StaffGoesOn, Computing, Procs
<1>4. CASE UNCHANGED vars
  BY <1>4 DEF vars, redis, Quiet
<1> QED
  BY <1>1, <1>2, <1>3, <1>4, EnvironmentQuiet DEF Next

-----------------------------------------------------------------------------
(* What is computed.                                                       *)

\* Only the handler that comes to the point of writing computes a document.
LEMMA OnlyItComputes ==
    ASSUME NEW c, NEW op, NEW target, NEW blobs, Writes(c, op, target, blobs),
           NEW p \in Procs, NEW ops, Computes(p, ops)
    PROVE  p = c /\ op \in ops /\ job'[p].target = target /\ job'[p].blob \in blobs
<1>1. p = c
  BY DEF Computes, Writes
<1> QED
  BY <1>1 DEF Computes, Writes

\* The computation of a handler whose requests keep the song being played keeps it.
LEMMA ComputingKeeps ==
    ASSUME IInv, Computing, store.CurrentQueue # <<>>,
           NEW p \in Procs, Computes(p, {"add", "remove_song", "reorder", "mode", "speed"})
    PROVE  CurrentSong(job'[p].blob) = CurrentSong(store)
<1> DEFINE ops == {"add", "remove_song", "reorder", "mode", "speed"}
<1>1. JobsOK /\ store \in PlaylistState /\ WellFormed(store) /\ Computes(p, ops)
  BY DEF IInv, SharedOK
<1>2. ASSUME NEW c \in Procs, NEW op, NEW target, NEW blobs, WillWrite(c, op, target, blobs)
      PROVE  op \in ops /\ job'[p].blob \in blobs
  BY <1>1, <1>2, WillWriteWrites, OnlyItComputes
<1>3. ASSUME NEW c \in Procs, NEW op, NEW target, NEW blobs, WillWrite(c, op, target, blobs),
             op \notin ops
      PROVE  FALSE
  BY <1>2, <1>3
<1> HIDE DEF ops
<1>4. ASSUME NEW c \in Clients, AddSong(c)
      PROVE  CurrentSong(job'[p].blob) = CurrentSong(store)
  <2> DEFINE song == UserSong(minted + 1, c)
  <2>1. song \in Song
    BY DEF UserSong, Song, Names, QueueID, Clients, IInv, SharedOK
  <2>2. WillWrite(c, "add", song.QueueID, {WithSong(store, song)})
    BY <1>4 DEF AddSong
  <2> HIDE DEF song
  <2>3. job'[p].blob = WithSong(store, song)
    BY <1>2, <2>2 DEF Procs
  <2> QED
    BY <1>1, <2>1, <2>3, WithSongKeeps
<1>5. ASSUME NEW c \in Clients, ReorderQueue(c)
      PROVE  CurrentSong(job'[p].blob) = CurrentSong(store)
  <2>1. PICK from \in 0..(Len(store.CurrentQueue) - 1), to \in 0..(Len(store.CurrentQueue) - 1) :
          WillWrite(c, "reorder", NoID, {Reordered(store, from, to)})
    BY <1>5 DEF ReorderQueue
  <2>2. job'[p].blob = Reordered(store, from, to)
    BY <1>2, <2>1 DEF Procs
  <2> QED
    BY <1>1, <2>2, ReorderedKeeps
<1>6. ASSUME NEW c \in Clients, SetPlaybackMode(c)
      PROVE  CurrentSong(job'[p].blob) = CurrentSong(store)
  <2>1. PICK autoplay \in BOOLEAN, shuffle \in BOOLEAN, random \in BOOLEAN :
          WillWrite(c, "mode", NoID, ModeChanges(store, autoplay, shuffle, random))
    BY <1>6 DEF SetPlaybackMode
  <2>2. job'[p].blob \in ModeChanges(store, autoplay, shuffle, random)
    BY <1>2, <2>1 DEF Procs
  <2> QED
    BY <1>1, <2>2, ModeChangesKeep
<1>7. ASSUME NEW c \in Clients, SetPlaybackSpeed(c)
      PROVE  CurrentSong(job'[p].blob) = CurrentSong(store)
  <2>1. PICK v \in Speeds : WillWrite(c, "speed", NoID, {[store EXCEPT !.PlaybackSpeed = v]})
    BY <1>7 DEF SetPlaybackSpeed
  <2>2. job'[p].blob = [store EXCEPT !.PlaybackSpeed = v]
    BY <1>2, <2>1 DEF Procs
  <2> QED
    BY <1>1, <2>2, SpeedKeeps
<1>8. ASSUME NEW c \in Clients, ExecuteRemoveSong(c)
      PROVE  CurrentSong(job'[p].blob) = CurrentSong(store)
  <2> DEFINE found == {i \in DOMAIN store.CurrentQueue \ {store.CurrentIndex + 1} :
                         store.CurrentQueue[i].QueueID = job[c].target}
  <2>1. CASE Return(c)
    <3>1. Quiet
      BY <1>1, <2>1, ReturnQuiet DEF Procs
    <3> QED
      BY <1>1, <3>1 DEF Quiet, Computes
  <2>2. CASE WillWrite(c, "remove_song", job[c].target, {WithoutSong(store, i) : i \in found})
    <3>1. PICK i \in found : job'[p].blob = WithoutSong(store, i)
      <4> HIDE DEF found
      <4> QED
        BY <1>2, <2>2 DEF Procs
    <3>2. i \in 1..Len(store.CurrentQueue) /\ i # store.CurrentIndex + 1
      BY <1>1 DEF PlaylistState
    <3> QED
      BY <1>1, <3>1, <3>2, WithoutSongKeeps
  <2> QED
    BY <1>8, <2>1, <2>2 DEF ExecuteRemoveSong
<1>9. ASSUME NEW c \in Clients, ReportError(c)
      PROVE  FALSE
  BY <1>3, <1>9 DEF ReportError, Procs, ops
<1>10. ASSUME NEW c \in Clients, ClaimSongEnded(c)
       PROVE  FALSE
  <2>1. CASE Goto(c, Idle)
    <3>1. Quiet
      BY <1>1, <2>1, GotoQuiet DEF Procs, Idle
    <3> QED
      BY <1>1, <3>1 DEF Quiet, Computes
  <2>2. CASE ~Goto(c, Idle)
    <3>1. PICK blobs : WillWrite(c, job[c].op, job[c].target, blobs)
      BY <1>10, <2>2 DEF ClaimSongEnded
    <3> QED
      BY <1>1, <1>3, <1>10, <3>1 DEF ClaimSongEnded, JobsOK, JobOK, Procs, ops
  <2> QED
    BY <2>1, <2>2
<1>11. ASSUME NEW c \in Clients, ExecuteSkipSong(c) \/ ExecuteBroadcastSkip(c) \/ ResetEmptyRoom(c)
       PROVE  FALSE
  <2>1. CASE Goto(c, Idle)
    <3>1. Quiet
      BY <1>1, <2>1, GotoQuiet DEF Procs, Idle
    <3> QED
      BY <1>1, <3>1 DEF Quiet, Computes
  <2>2. CASE ~Goto(c, Idle)
    <3>1. PICK op \in {"skip_song", "restore"} :
            \E target, blobs : WillWrite(c, op, target, blobs)
      BY <1>11, <2>2 DEF ExecuteSkipSong, ExecuteBroadcastSkip, ResetEmptyRoom, Return
    <3> QED
      BY <1>3, <3>1 DEF Procs, ops
  <2> QED
    BY <2>1, <2>2
<1>12. ASSUME NEW s \in Staff, TriggerInRoom(s) \/ SkipCurrentBroadcast(s)
       PROVE  FALSE
  <2>1. PICK op \in {"queueBroadcast", "startBroadcast", "restore"} :
          \E target, blobs : WillWrite(s, op, target, blobs)
    BY <1>12 DEF TriggerInRoom, SkipCurrentBroadcast
  <2> QED
    BY <1>3, <2>1 DEF Procs, ops
<1> QED
  BY <1>4, <1>5, <1>6, <1>7, <1>8, <1>9, <1>10, <1>11, <1>12 DEF Computing

\* Adding, removing, moving and shuffling songs and changing modes never changes
\* which song is being played: no document a handler computes for such a request
\* has another current song than the document it has read.
THEOREM CurrentSongKept == Spec => KeepsCurrentSong
<1> DEFINE Kept ==
      \A p \in Procs :
         Computes(p, {"add", "remove_song", "reorder", "mode", "speed"})
         /\ store.CurrentQueue # <<>>
           => CurrentSong(job'[p].blob) = CurrentSong(store)
<1>1. IInv /\ [Next]_vars => Kept
  BY Steps, ComputingKeeps DEF Quiet, Computes
<1>2. KeepsCurrentSong <=> [][Kept]_vars
  BY DEF KeepsCurrentSong
<1> QED
  BY <1>1, <1>2, Inductive, PTL DEF Spec

-----------------------------------------------------------------------------
(* Who ends a song.                                                        *)

\* The handler of p is about to write the document in which the song has ended.
Ending(p) == job[p].at = "write" /\ job[p].op \in {"ended", "endBroadcast"}

\* It got the claim, and the claim is still there: this makes the property inductive.
ClaimsHeld == \A p \in Procs : Ending(p) => job[p].target \in claimed

\* No two of them are about the same song.
EndersDiffer ==
    \A p, q \in Procs : Ending(p) /\ Ending(q) /\ p # q => job[p].target # job[q].target

\* A step that brings no handler to this point and takes no claim of one that is there.
LEMMA NoNewEnd ==
    ASSUME ClaimsHeld, EndersDiffer,
           \A p \in Procs : Ending(p)' => Ending(p) /\ job'[p] = job[p] /\ job[p].target \in claimed'
    PROVE  ClaimsHeld' /\ EndersDiffer'
<1>1. ClaimsHeld'
  BY DEF ClaimsHeld
<1>2. EndersDiffer'
  BY DEF EndersDiffer
<1> QED
  BY <1>1, <1>2

\* A step that is quiet, or writes something else, is one.
LEMMA QuietEndsNothing ==
    ASSUME IInv, ClaimsHeld, EndersDiffer,
           \/ Quiet /\ (claimed' = claimed \/ ClaimExpires)
           \/ /\ \E c, op, target, blobs :
                   Writes(c, op, target, blobs) /\ op \notin {"ended", "endBroadcast"}
              /\ claimed' = claimed
    PROVE  ClaimsHeld' /\ EndersDiffer'
<1>1. \A p \in Procs : Ending(p)' => Ending(p) /\ job'[p] = job[p]
  BY DEF Quiet, Writes, Ending
<1>2. \A p \in Procs : Ending(p) => job[p].target \in claimed'
  BY DEF ClaimsHeld, ClaimExpires, Ending
<1> QED
  BY <1>1, <1>2, NoNewEnd

\* The handler that gets the claim is the only one for its song.
LEMMA ClaimEndsOnce ==
    ASSUME IInv, ClaimsHeld, EndersDiffer, NEW c \in Clients, ClaimSongEnded(c)
    PROVE  ClaimsHeld' /\ EndersDiffer'
<1> DEFINE id == job[c].target
<1>1. JobsOK /\ c \in Procs
  BY DEF IInv, Procs
<1>2. CASE Goto(c, Idle) /\ UNCHANGED claimed
  <2>1. Quiet
    BY <1>1, <1>2, GotoQuiet DEF Idle
  <2> QED
    BY <1>2, <2>1, QuietEndsNothing
<1>3. CASE /\ id \notin claimed /\ claimed' = claimed \cup {id}
           /\ \E blobs : WillWrite(c, job[c].op, id, blobs)
  <2>1. job'[c].target = id /\ \A p \in Procs \ {c} : job'[p] = job[p]
    BY <1>1, <1>3, WillWriteWrites DEF Writes
  <2>2. \A p \in Procs \ {c} : Ending(p)' =>
          Ending(p) /\ job'[p].target = job[p].target /\ job'[p].target # id
    BY <1>3, <2>1 DEF Ending, ClaimsHeld
  <2> HIDE DEF id
  <2>3. ClaimsHeld'
    BY <1>3, <2>1, <2>2 DEF ClaimsHeld
  <2>4. EndersDiffer'
    BY <2>1, <2>2 DEF EndersDiffer
  <2> QED
    BY <2>3, <2>4
<1> QED
  BY <1>2, <1>3 DEF ClaimSongEnded

\* Every other step that computes a document computes another one.
LEMMA OthersEndNothing ==
    ASSUME IInv, ClaimsHeld, EndersDiffer, Computing, \A c \in Clients : ~ClaimSongEnded(c)
    PROVE  ClaimsHeld' /\ EndersDiffer'
<1> DEFINE ends == {"ended", "endBroadcast"}
<1>1. ASSUME NEW c \in Procs, claimed' = claimed,
             \/ Goto(c, Idle)
             \/ \E op, target, blobs : op \notin ends /\ WillWrite(c, op, target, blobs)
      PROVE  ClaimsHeld' /\ EndersDiffer'
  <2>1. JobsOK
    BY DEF IInv
  <2>2. CASE Goto(c, Idle)
    <3>1. Quiet
      BY <2>1, <2>2, GotoQuiet DEF Idle
    <3> QED
      BY <1>1, <3>1, QuietEndsNothing
  <2>3. CASE \E op, target, blobs : op \notin ends /\ WillWrite(c, op, target, blobs)
    <3>1. \E op, target, blobs : op \notin ends /\ Writes(c, op, target, blobs)
      BY <2>1, <2>3, WillWriteWrites
    <3> QED
      BY <1>1, <3>1, QuietEndsNothing
  <2> QED
    BY <1>1, <2>2, <2>3
<1>2. ASSUME NEW c \in Clients,
             \/ AddSong(c) \/ ReorderQueue(c) \/ SetPlaybackMode(c) \/ SetPlaybackSpeed(c)
             \/ ReportError(c)
      PROVE  ClaimsHeld' /\ EndersDiffer'
  <2>1. PICK op \in {"add", "reorder", "mode", "speed", "report"} :
          claimed' = claimed /\ \E target, blobs : WillWrite(c, op, target, blobs)
    BY <1>2 DEF AddSong, ReorderQueue, SetPlaybackMode, SetPlaybackSpeed, ReportError, redis
  <2> QED
    BY <1>1, <2>1 DEF Procs
<1>3. ASSUME NEW c \in Clients,
             \/ ExecuteRemoveSong(c) \/ ExecuteSkipSong(c) \/ ExecuteBroadcastSkip(c)
             \/ ResetEmptyRoom(c)
      PROVE  ClaimsHeld' /\ EndersDiffer'
  <2>1. /\ claimed' = claimed
        /\ \/ Goto(c, Idle)
           \/ \E op \in {"remove_song", "skip_song", "restore"} :
                \E target, blobs : WillWrite(c, op, target, blobs)
    BY <1>3 DEF ExecuteRemoveSong, ExecuteSkipSong, ExecuteBroadcastSkip, ResetEmptyRoom,
                Return, redis
  <2> QED
    BY <1>1, <2>1 DEF Procs
<1>4. ASSUME NEW s \in Staff, TriggerInRoom(s) \/ SkipCurrentBroadcast(s)
      PROVE  ClaimsHeld' /\ EndersDiffer'
  <2>1. PICK op \in {"queueBroadcast", "startBroadcast", "restore"} :
          claimed' = claimed /\ \E target, blobs : WillWrite(s, op, target, blobs)
    BY <1>4 DEF TriggerInRoom, SkipCurrentBroadcast, redis
  <2> QED
    BY <1>1, <2>1 DEF Procs
<1> QED
  BY <1>2, <1>3, <1>4 DEF Computing

\* However many clients report the end of a song, for any number of them, one
\* handler at a time goes on to advance the queue for it: it holds the claim, and a
\* claim is given once and expires only after the handler is done.
THEOREM SongEndedOnce == Spec => []OneHandlerEndsASong
<1>1. Init => ClaimsHeld /\ EndersDiffer
  BY DEF Init, Idle, ClaimsHeld, EndersDiffer, Ending
<1>2. IInv /\ ClaimsHeld /\ EndersDiffer /\ [Next]_vars => ClaimsHeld' /\ EndersDiffer'
  BY Steps, QuietEndsNothing, ClaimEndsOnce, OthersEndNothing
<1>3. ClaimsHeld /\ EndersDiffer => OneHandlerEndsASong
  BY DEF EndersDiffer, Ending, OneHandlerEndsASong
<1> QED
  BY <1>1, <1>2, <1>3, Inductive, PTL DEF Spec

-----------------------------------------------------------------------------
(* Votes.                                                                  *)

\* The handler of p has read the vote and counts one more, under the mutex;
\* it is about to publish a new vote, without it.
Counting(p) == job[p].at = "cast"
Publishing(p) == job[p].at = "setVote"

\* What makes the properties of votes inductive: ids are made once, a vote that is
\* about to be published is no other one, and a handler that counts holds the mutex
\* and has read what is still there, unless the vote was deleted or replaced.
VotesApart ==
    /\ vote.ID <= ballots
    /\ \A p \in Procs : Counting(p) \/ Publishing(p) => job[p].ballot.ID <= ballots
    /\ \A p \in Procs : Publishing(p) => job[p].ballot.ID # vote.ID
    /\ \A p, q \in Procs : Publishing(p) /\ (Publishing(q) \/ Counting(q)) /\ p # q =>
         job[p].ballot.ID # job[q].ballot.ID
    /\ \A p \in Procs : Counting(p) =>
         /\ p \in Clients /\ lock = p
         /\ vote.ID = job[p].ballot.ID => vote = job[p].ballot

\* As long as Redis deletes the votes that pass, none of them is left, being counted
\* or about to be published.
Over(id) == \E i \in DOMAIN passed : passed[i] = id

PassedApart ==
    faults = 0 =>
      /\ IsInjective(passed)
      /\ ~Over(vote.ID)
      /\ \A i \in DOMAIN passed : passed[i] # 0 /\ passed[i] <= ballots
      /\ \A p \in Procs : Counting(p) \/ Publishing(p) => ~Over(job[p].ballot.ID)

VotesInv == VotesApart /\ PassedApart

\* Nothing comes to be counted or published, and the mutex stays with who counts.
VotesQuiet ==
    /\ vote' \in {vote, NoVote} /\ ballots' = ballots /\ passed' = passed
    /\ faults' \in {faults, faults + 1}
    /\ \A p \in Procs : (Counting(p) \/ Publishing(p))' =>
         job'[p] = job[p] /\ (lock = p => lock' = p)

\* The actions that are not like that.
Polling ==
    \/ \E c \in Clients : VoteCast(c) \/ StartVote(c) \/ RecordVote(c) \/ PassVote(c)
    \/ \E s \in Staff : StartBroadcastSkipVote(s)
    \/ \E p \in Procs : PublishVote(p)

\* A handler that goes on to something else, keeping the mutex or giving it back.
LEMMA GotoPollsNothing ==
    ASSUME JobsOK, NEW p \in Procs, NEW j, Goto(p, j), j.at \notin {"cast", "setVote"},
           lock' = lock \/ lock = p
    PROVE  \A q \in Procs : (Counting(q) \/ Publishing(q))' =>
             job'[q] = job[q] /\ (lock = q => lock' = q)
BY DEF JobsOK, Goto, Counting, Publishing

\* The same for one that returns,
LEMMA ReturnPollsNothing ==
    ASSUME JobsOK, NEW p \in Procs, Return(p)
    PROVE  \A q \in Procs : (Counting(q) \/ Publishing(q))' =>
             job'[q] = job[q] /\ (lock = q => lock' = q)
<1>1. Idle.at \notin {"cast", "setVote"}
  BY DEF Idle
<1>2. lock' = lock \/ lock = p
  BY DEF Return
<1> QED
  BY <1>1, <1>2, GotoPollsNothing DEF Return

\* and for one that is about to write a document.
LEMMA WillWritePollsNothing ==
    ASSUME JobsOK, NEW p \in Procs, NEW op, NEW target, NEW blobs,
           WillWrite(p, op, target, blobs), lock' = lock
    PROVE  \A q \in Procs : (Counting(q) \/ Publishing(q))' =>
             job'[q] = job[q] /\ (lock = q => lock' = q)
<1>1. PICK b \in blobs :
        Goto(p, [Idle EXCEPT !.at = "write", !.op = op, !.target = target, !.blob = b])
  BY DEF WillWrite
<1>2. [Idle EXCEPT !.at = "write", !.op = op, !.target = target, !.blob = b].at = "write"
  BY DEF Idle
<1> QED
  BY <1>1, <1>2, GotoPollsNothing

\* The history entry leaves the votes alone.
LEMMA PushHistoryFaults ==
    ASSUME NEW id, NEW status, PushHistory(id, status)
    PROVE  faults' \in {faults, faults + 1}
BY DEF PushHistory

\* Requests up to their first write.
LEMMA RequestsPollNothing ==
    ASSUME IInv, NEW c \in Clients,
           \/ AddSong(c) \/ RemoveSong(c) \/ ReorderQueue(c) \/ SetPlaybackMode(c)
           \/ SetPlaybackSpeed(c) \/ ReportError(c) \/ SkipSong(c) \/ SongEnded(c)
           \/ Join(c) \/ Leave(c)
    PROVE  VotesQuiet
<1>1. JobsOK /\ c \in Procs
  BY DEF IInv, Procs
<1>2. CASE AddSong(c)
  <2>1. \E target, blobs : WillWrite(c, "add", target, blobs)
    BY <1>2 DEF AddSong
  <2> QED
    BY <1>1, <1>2, <2>1, WillWritePollsNothing DEF AddSong, VotesQuiet, redis, hub, ghosts
<1>3. CASE RemoveSong(c)
  <2>1. PICK song : Goto(c, [Idle EXCEPT !.at = OwnOrVote(song, c), !.op = "remove_song",
                                         !.target = song.QueueID])
    BY <1>3 DEF RemoveSong
  <2> DEFINE at == OwnOrVote(song, c)
             j == [Idle EXCEPT !.at = at, !.op = "remove_song", !.target = song.QueueID]
  <2>2. at \notin {"cast", "setVote"}
    BY DEF OwnOrVote
  <2>3. j.at = at
    BY DEF Idle
  <2>4. Goto(c, j)
    BY <2>1
  <2> HIDE DEF at, j
  <2> QED
    BY <1>1, <1>3, <2>2, <2>3, <2>4, GotoPollsNothing
       DEF RemoveSong, VotesQuiet, redis, hub, bounds, ghosts
<1>4. CASE ReorderQueue(c)
  <2>1. \E target, blobs : WillWrite(c, "reorder", target, blobs)
    BY <1>4 DEF ReorderQueue
  <2> QED
    BY <1>1, <1>4, <2>1, WillWritePollsNothing
       DEF ReorderQueue, VotesQuiet, redis, hub, bounds, ghosts
<1>5. CASE SetPlaybackMode(c)
  <2>1. \E target, blobs : WillWrite(c, "mode", target, blobs)
    BY <1>5 DEF SetPlaybackMode
  <2> QED
    BY <1>1, <1>5, <2>1, WillWritePollsNothing
       DEF SetPlaybackMode, VotesQuiet, redis, hub, bounds, ghosts
<1>6. CASE SetPlaybackSpeed(c)
  <2>1. \E target, blobs : WillWrite(c, "speed", target, blobs)
    BY <1>6 DEF SetPlaybackSpeed
  <2> QED
    BY <1>1, <1>6, <2>1, WillWritePollsNothing
       DEF SetPlaybackSpeed, VotesQuiet, redis, hub, bounds, ghosts
<1>7. CASE ReportError(c)
  <2>1. \E target, blobs : WillWrite(c, "report", target, blobs)
    BY <1>7 DEF ReportError
  <2>2. faults' \in {faults, faults + 1}
    BY <1>7, PushHistoryFaults DEF ReportError
  <2> QED
    BY <1>1, <1>7, <2>1, <2>2, WillWritePollsNothing DEF ReportError, VotesQuiet, hub, ghosts
<1>8. CASE SkipSong(c)
  <2> DEFINE song == CurrentSong(store)
             op == IF song.IsBroadcast THEN "skip_broadcast" ELSE "skip_song"
             at == IF song.IsBroadcast THEN "getVote" ELSE OwnOrVote(song, c)
             j == [Idle EXCEPT !.at = at, !.op = op, !.target = song.QueueID]
  <2>1. Goto(c, j)
    BY <1>8 DEF SkipSong
  <2>2. at \notin {"cast", "setVote"}
    BY DEF OwnOrVote
  <2>3. j.at = at
    BY DEF Idle
  <2> HIDE DEF at, j
  <2> QED
    BY <1>1, <1>8, <2>1, <2>2, <2>3, GotoPollsNothing
       DEF SkipSong, VotesQuiet, redis, hub, bounds, ghosts
<1>9. CASE SongEnded(c)
  <2>1. PICK op, id : Goto(c, [Idle EXCEPT !.at = "claim", !.target = id, !.blob = store, !.op = op])
    BY <1>9 DEF SongEnded
  <2> DEFINE j == [Idle EXCEPT !.at = "claim", !.target = id, !.blob = store, !.op = op]
  <2>2. j.at = "claim" /\ Goto(c, j)
    BY <2>1 DEF Idle
  <2> HIDE DEF j
  <2> QED
    BY <1>1, <1>9, <2>2, GotoPollsNothing
       DEF SongEnded, VotesQuiet, redis, hub, bounds, ghosts
<1>10. CASE Join(c)
  BY <1>10 DEF Join, VotesQuiet, Counting, Publishing, redis, bounds, ghosts
<1>11. CASE Leave(c)
  <2> DEFINE j == IF online = {c} THEN [Idle EXCEPT !.at = "reset"] ELSE Idle
  <2>1. j.at \notin {"cast", "setVote"} /\ Goto(c, j)
    BY <1>11 DEF Leave, Idle
  <2> HIDE DEF j
  <2> QED
    BY <1>1, <1>11, <2>1, GotoPollsNothing DEF Leave, VotesQuiet, redis, bounds, ghosts
<1> QED
  BY <1>2, <1>3, <1>4, <1>5, <1>6, <1>7, <1>8, <1>9, <1>10, <1>11

\* Handlers in flight.
LEMMA GoingOnPollsNothing ==
    ASSUME IInv, NEW c \in Procs,
           \/ ClaimSongEnded(c) \/ ClearActiveVote(c) \/ DeleteClearedVote(c)
           \/ ExecuteRemoveSong(c) \/ ExecuteSkipSong(c) \/ ExecuteBroadcastSkip(c)
           \/ ResetEmptyRoom(c) \/ WriteState(c)
    PROVE  VotesQuiet
<1>1. JobsOK /\ Idle.at \notin {"cast", "setVote"}
  BY DEF IInv, Idle
<1>2. CASE ClaimSongEnded(c)
  <2>1. \/ Goto(c, Idle) /\ UNCHANGED faults
        \/ (\E op, target, blobs : WillWrite(c, op, target, blobs))
           /\ faults' \in {faults, faults + 1}
    BY <1>2, PushHistoryFaults DEF ClaimSongEnded
  <2> QED
    BY <1>1, <1>2, <2>1, GotoPollsNothing, WillWritePollsNothing
       DEF ClaimSongEnded, VotesQuiet, hub, ghosts
<1>3. CASE ClearActiveVote(c)
  <2>1. Goto(c, Idle) \/ Goto(c, [Idle EXCEPT !.at = "delVote"])
    BY <1>3 DEF ClearActiveVote
  <2>2. [Idle EXCEPT !.at = "delVote"].at \notin {"cast", "setVote"}
    BY DEF Idle
  <2> QED
    BY <1>1, <1>3, <2>1, <2>2, GotoPollsNothing
       DEF ClearActiveVote, VotesQuiet, redis, hub, bounds, ghosts
<1>4. CASE DeleteClearedVote(c)
  BY <1>1, <1>4, GotoPollsNothing DEF DeleteClearedVote, VotesQuiet, hub, bounds, ghosts
<1>5. CASE ExecuteRemoveSong(c)
  <2>1. \/ Return(c)
        \/ (\E op, target, blobs : WillWrite(c, op, target, blobs)) /\ UNCHANGED lock
    BY <1>5 DEF ExecuteRemoveSong
  <2> QED
    BY <1>1, <1>5, <2>1, ReturnPollsNothing, WillWritePollsNothing
       DEF ExecuteRemoveSong, VotesQuiet, redis, bounds, ghosts
<1>6. CASE ExecuteSkipSong(c)
  <2>1. \/ Return(c) /\ UNCHANGED faults
        \/ (\E op, target, blobs : WillWrite(c, op, target, blobs)) /\ UNCHANGED lock
           /\ faults' \in {faults, faults + 1}
    BY <1>6, PushHistoryFaults DEF ExecuteSkipSong
  <2> QED
    BY <1>1, <1>6, <2>1, ReturnPollsNothing, WillWritePollsNothing
       DEF ExecuteSkipSong, VotesQuiet, ghosts
<1>7. CASE ExecuteBroadcastSkip(c)
  <2>1. \/ Return(c)
        \/ (\E op, target, blobs : WillWrite(c, op, target, blobs)) /\ UNCHANGED lock
    BY <1>7 DEF ExecuteBroadcastSkip
  <2> QED
    BY <1>1, <1>7, <2>1, ReturnPollsNothing, WillWritePollsNothing
       DEF ExecuteBroadcastSkip, VotesQuiet, redis, bounds, ghosts
<1>8. CASE ResetEmptyRoom(c)
  <2>1. Goto(c, Idle) \/ \E op, target, blobs : WillWrite(c, op, target, blobs)
    BY <1>8 DEF ResetEmptyRoom
  <2> QED
    BY <1>1, <1>8, <2>1, GotoPollsNothing, WillWritePollsNothing
       DEF ResetEmptyRoom, VotesQuiet, redis, hub, bounds, ghosts
<1>9. CASE WriteState(c)
  <2> DEFINE at == AfterWrite(job[c].op)
             j == [Idle EXCEPT !.at = at]
  <2>1. Return(c) \/ (Goto(c, j) /\ UNCHANGED lock)
    BY <1>9 DEF WriteState
  <2>2. at \notin {"cast", "setVote"}
    BY DEF AfterWrite
  <2> HIDE DEF at
  <2>3. j.at \notin {"cast", "setVote"}
    BY <2>2 DEF Idle
  <2> HIDE DEF j
  <2> QED
    BY <1>1, <1>9, <2>1, <2>3, ReturnPollsNothing, GotoPollsNothing
       DEF WriteState, VotesQuiet, bounds
<1> QED
  BY <1>2, <1>3, <1>4, <1>5, <1>6, <1>7, <1>8, <1>9

\* The scheduler and the admin.
LEMMA StaffPollsNothing ==
    ASSUME IInv, NEW s \in Staff,
           TriggerBroadcast(s) \/ SkipCurrentBroadcast(s) \/ UpdateSettings(s) \/ TriggerInRoom(s)
    PROVE  VotesQuiet
<1>1. JobsOK /\ s \in Procs
  BY DEF IInv, Procs
<1>2. CASE TriggerBroadcast(s)
  <2> DEFINE id == [uuid |-> minted + 1, replays |-> 0]
             j == [Idle EXCEPT !.at = "inject", !.target = id]
  <2>1. Goto(s, j)
    BY <1>2 DEF TriggerBroadcast
  <2> HIDE DEF id
  <2>2. j.at = "inject"
    BY DEF Idle
  <2> HIDE DEF j
  <2> QED
    BY <1>1, <1>2, <2>1, <2>2, GotoPollsNothing
       DEF TriggerBroadcast, VotesQuiet, redis, hub, ghosts
<1>3. CASE SkipCurrentBroadcast(s)
  <2>1. \E op, target, blobs : WillWrite(s, op, target, blobs)
    BY <1>3 DEF SkipCurrentBroadcast
  <2> QED
    BY <1>1, <1>3, <2>1, WillWritePollsNothing
       DEF SkipCurrentBroadcast, VotesQuiet, redis, hub, bounds, ghosts
<1>4. CASE UpdateSettings(s)
  BY <1>4 DEF UpdateSettings, VotesQuiet, Counting, Publishing, hub, bounds, ghosts
<1>5. CASE TriggerInRoom(s)
  <2>1. \E op, target, blobs : WillWrite(s, op, target, blobs)
    BY <1>5 DEF TriggerInRoom
  <2> QED
    BY <1>1, <1>5, <2>1, WillWritePollsNothing
       DEF TriggerInRoom, VotesQuiet, redis, hub, bounds, ghosts
<1> QED
  BY <1>2, <1>3, <1>4, <1>5

\* Time and faults.
LEMMA EnvironmentPollsNothing ==
    ASSUME IInv, Environment
    PROVE  VotesQuiet
<1>1. CASE Tick
  BY <1>1 DEF Tick, VotesQuiet, Counting, Publishing, hub, bounds, ghosts
<1>2. CASE VoteExpires
  BY <1>2 DEF VoteExpires, VotesQuiet, Counting, Publishing, hub, bounds, ghosts
<1>3. CASE ClaimExpires
  BY <1>3 DEF ClaimExpires, VotesQuiet, Counting, Publishing, hub, bounds, ghosts
<1>4. CASE Crash
  <2>1. \A p \in Procs : job'[p].at = "idle"
    BY <1>4 DEF Crash, Idle
  <2> QED
    BY <1>4, <2>1 DEF Crash, VotesQuiet, Counting, Publishing, redis, ghosts
<1>5. ASSUME NEW p \in Procs, StoreFails(p)
      PROVE  VotesQuiet
  BY <1>5, ReturnPollsNothing DEF StoreFails, IInv, VotesQuiet, redis, ghosts
<1> QED
  BY <1>1, <1>2, <1>3, <1>4, <1>5 DEF Environment

\* Every step is quiet for the votes or polls.
LEMMA VoteSteps ==
    ASSUME IInv, [Next]_vars
    PROVE  VotesQuiet \/ Polling
<1>1. ASSUME NEW c \in Clients, ClientStep(c)
      PROVE  VotesQuiet \/ Polling
  BY <1>1, RequestsPollNothing DEF ClientStep, Polling
<1>2. ASSUME NEW c \in Clients, ClientGoesOn(c)
      PROVE  VotesQuiet \/ Polling
  BY <1>2, GoingOnPollsNothing DEF ClientGoesOn, Polling, Procs
<1>3. ASSUME NEW s \in Staff, StaffStep(s) \/ StaffGoesOn(s)
      PROVE  VotesQuiet \/ Polling
  BY <1>3, StaffPollsNothing, GoingOnPollsNothing DEF StaffStep, StaffGoesOn, Polling, Procs
<1>4. CASE UNCHANGED vars
  BY <1>4 DEF vars, redis, hub, bounds, ghosts, VotesQuiet, Counting, Publishing
<1> QED
  BY <1>1, <1>2, <1>3, <1>4, EnvironmentPollsNothing DEF Next

\* Ids of votes are numbers, and no vote there is or comes has that of NoVote.
LEMMA VoteIDs ==
    ASSUME IInv
    PROVE  /\ ballots \in Nat /\ faults \in Nat /\ vote.ID \in Nat /\ NoVote.ID = 0
           /\ vote # NoVote => vote \in VoteRecord /\ vote.ID # 0
           /\ \A p \in Procs : Counting(p) \/ Publishing(p) =>
                job[p].ballot \in VoteRecord /\ job[p].ballot.ID \in Nat \ {0}
<1>1. NoVote.ID = 0
  BY DEF NoVote
<1>2. \A v \in VoteRecord : v.ID \in Nat \ {0}
  BY DEF VoteRecord
<1>3. \A p \in Procs : Counting(p) \/ Publishing(p) => job[p].ballot \in VoteRecord
  BY DEF IInv, JobsOK, JobOK, Counting, Publishing
<1> QED
  BY <1>1, <1>2, <1>3 DEF IInv, SharedOK

\* A quiet step keeps the invariant.
LEMMA QuietKeepsVotes ==
    ASSUME IInv, VotesInv, VotesQuiet
    PROVE  VotesInv'
<1>1. /\ ballots \in Nat /\ faults \in Nat /\ vote.ID \in Nat /\ NoVote.ID = 0
      /\ \A p \in Procs : Counting(p) \/ Publishing(p) => job[p].ballot.ID \in Nat \ {0}
  BY VoteIDs
<1>2. \A p \in Procs : /\ Counting(p)' => Counting(p)
                       /\ Publishing(p)' => Publishing(p)
                       /\ Counting(p)' \/ Publishing(p)' => job'[p] = job[p]
                       /\ Counting(p)' => (lock = p => lock' = p)
  BY DEF VotesQuiet, Counting, Publishing
<1>3. vote'.ID \in {0, vote.ID} /\ (vote' = vote \/ vote'.ID = 0)
  BY <1>1 DEF VotesQuiet
<1>4. ballots' = ballots /\ passed' = passed /\ (faults' = 0 => faults = 0)
  BY <1>1 DEF VotesQuiet
<1>5. VotesApart'
  <2>1. vote'.ID <= ballots'
    BY <1>1, <1>3, <1>4 DEF VotesInv, VotesApart
  <2>2. \A p \in Procs : Counting(p)' \/ Publishing(p)' => job'[p].ballot.ID <= ballots'
    BY <1>2, <1>4 DEF VotesInv, VotesApart
  <2>3. \A p \in Procs : Publishing(p)' => job'[p].ballot.ID # vote'.ID
    BY <1>1, <1>2, <1>3 DEF VotesInv, VotesApart
  <2>4. \A p, q \in Procs : Publishing(p)' /\ (Publishing(q)' \/ Counting(q)') /\ p # q =>
          job'[p].ballot.ID # job'[q].ballot.ID
    BY <1>2 DEF VotesInv, VotesApart
  <2>5. \A p \in Procs : Counting(p)' =>
          /\ p \in Clients /\ lock' = p
          /\ vote'.ID = job'[p].ballot.ID => vote' = job'[p].ballot
    BY <1>1, <1>2, <1>3 DEF VotesInv, VotesApart
  <2> QED
    BY <2>1, <2>2, <2>3, <2>4, <2>5 DEF VotesApart
<1>6. PassedApart'
  <2> SUFFICES ASSUME faults' = 0
               PROVE  /\ IsInjective(passed')
                      /\ ~Over(vote.ID)'
                      /\ \A i \in DOMAIN passed' : passed'[i] # 0 /\ passed'[i] <= ballots'
                      /\ \A p \in Procs : Counting(p)' \/ Publishing(p)' => ~Over(job[p].ballot.ID)'
    BY DEF PassedApart
  <2> QED
    BY <1>2, <1>3, <1>4 DEF VotesInv, PassedApart, Over
<1> QED
  BY <1>5, <1>6 DEF VotesInv

\* A vote about to be published, with an id of its own, keeps the invariant.
LEMMA NewVoteApart ==
    ASSUME IInv, VotesInv, NEW p \in Procs, NEW j, Goto(p, j),
           j.at = "setVote", j.ballot.ID = ballots + 1, ballots' = ballots + 1,
           UNCHANGED <<vote, passed, lock, faults>>
    PROVE  VotesInv'
<1>1. /\ ballots \in Nat /\ vote.ID \in Nat
      /\ \A q \in Procs : Counting(q) \/ Publishing(q) => job[q].ballot.ID \in Nat \ {0}
  BY VoteIDs
<1>2. job'[p] = j /\ \A q \in Procs \ {p} : job'[q] = job[q]
  BY DEF Goto, IInv, JobsOK
<1>3. \A q \in Procs : Counting(q) \/ Publishing(q) => job[q].ballot.ID # ballots + 1
  BY <1>1 DEF VotesInv, VotesApart
<1>4. VotesApart'
  BY <1>1, <1>2, <1>3 DEF VotesInv, VotesApart, Counting, Publishing
<1>5. PassedApart'
  <2> SUFFICES ASSUME faults' = 0
               PROVE  /\ IsInjective(passed')
                      /\ ~Over(vote.ID)'
                      /\ \A i \in DOMAIN passed' : passed'[i] # 0 /\ passed'[i] <= ballots'
                      /\ \A q \in Procs : Counting(q)' \/ Publishing(q)' => ~Over(job[q].ballot.ID)'
    BY DEF PassedApart
  <2>1. \A i \in DOMAIN passed : passed[i] \in Nat /\ passed[i] # 0 /\ passed[i] <= ballots
    BY DEF VotesInv, PassedApart, IInv, SharedOK
  <2>2. ~Over(ballots + 1)
    BY <1>1, <2>1 DEF Over
  <2>3. \A i \in DOMAIN passed' : passed'[i] # 0 /\ passed'[i] <= ballots'
    BY <1>1, <2>1
  <2>4. \A q \in Procs : Counting(q)' \/ Publishing(q)' => ~Over(job[q].ballot.ID)'
    BY <1>2, <2>2 DEF VotesInv, PassedApart, Counting, Publishing, Over
  <2> QED
    BY <2>3, <2>4 DEF VotesInv, PassedApart, Over
<1> QED
  BY <1>4, <1>5 DEF VotesInv

\* startVote keeps it: nothing is published yet.
LEMMA StartVoteKeepsVotes ==
    ASSUME IInv, VotesInv, NEW c \in Clients, StartVote(c)
    PROVE  VotesInv'
<1> DEFINE new == UserVote(ballots + 1, job[c].op, job[c].target, c, online)
           alone == [job[c] EXCEPT !.at = "execute", !.op = DecidedAlone(@)]
           open == [job[c] EXCEPT !.at = "setVote", !.ballot = new]
<1>1. c \in Procs /\ JobsOK /\ job[c] \in Job
  BY JobFacts DEF IInv, Procs
<1>2. \/ (Goto(c, Idle) \/ Goto(c, alone)) /\ ballots' = ballots
      \/ Goto(c, open) /\ ballots' = ballots + 1
  BY DEF StartVote
<1>3. new.ID = ballots + 1
  BY DEF UserVote
<1> HIDE DEF new
<1>4. alone.at = "execute" /\ open.at = "setVote" /\ open.ballot = new /\ Idle.at = "idle"
  BY <1>1 DEF Job, Idle
<1> HIDE DEF alone, open
<1>5. UNCHANGED <<vote, passed, lock, faults>>
  BY DEF StartVote, redis, hub, ghosts
<1>6. CASE (Goto(c, Idle) \/ Goto(c, alone)) /\ ballots' = ballots
  <2>1. VotesQuiet
    BY <1>1, <1>4, <1>5, <1>6, GotoPollsNothing DEF VotesQuiet
  <2> QED
    BY <2>1, QuietKeepsVotes
<1> QED
  BY <1>1, <1>2, <1>3, <1>4, <1>5, <1>6, NewVoteApart

\* The scheduler's vote does.
LEMMA StartBroadcastSkipVoteKeepsVotes ==
    ASSUME IInv, VotesInv, NEW s \in Staff, StartBroadcastSkipVote(s)
    PROVE  VotesInv'
<1> DEFINE new == SchedulerVote(ballots + 1, online)
           open == [Idle EXCEPT !.at = "setVote", !.op = "skip_broadcast", !.ballot = new]
<1>1. s \in Procs /\ JobsOK
  BY DEF IInv, Procs
<1>2. \/ Goto(s, Idle) /\ ballots' = ballots
      \/ Goto(s, open) /\ ballots' = ballots + 1
  BY DEF StartBroadcastSkipVote
<1>3. new.ID = ballots + 1
  BY DEF SchedulerVote
<1> HIDE DEF new
<1>4. open.at = "setVote" /\ open.ballot = new /\ Idle.at = "idle"
  BY DEF Idle
<1> HIDE DEF open
<1>5. UNCHANGED <<vote, passed, lock, faults>>
  BY DEF StartBroadcastSkipVote, redis, hub, ghosts
<1>6. CASE Goto(s, Idle) /\ ballots' = ballots
  <2>1. VotesQuiet
    BY <1>1, <1>4, <1>5, <1>6, GotoPollsNothing DEF VotesQuiet
  <2> QED
    BY <2>1, QuietKeepsVotes
<1> QED
  BY <1>1, <1>2, <1>3, <1>4, <1>5, <1>6, NewVoteApart

\* The vote that a handler publishes, records or deletes, and the others.
LEMMA HandlerDone ==
    ASSUME IInv, NEW p \in Procs, NEW j, Goto(p, j), j.at \notin {"cast", "setVote"}
    PROVE  /\ ~Counting(p)' /\ ~Publishing(p)'
           /\ \A q \in Procs \ {p} :
                /\ Counting(q)' => Counting(q)
                /\ Publishing(q)' => Publishing(q)
                /\ job'[q] = job[q]
<1>1. job'[p] = j /\ \A q \in Procs \ {p} : job'[q] = job[q]
  BY DEF Goto, IInv, JobsOK
<1> QED
  BY <1>1 DEF Counting, Publishing

\* SetVote does: no handler counts or publishes the same vote.
LEMMA PublishVoteKeepsVotes ==
    ASSUME IInv, VotesInv, NEW p \in Procs, PublishVote(p)
    PROVE  VotesInv'
<1>1. /\ ~Counting(p)' /\ ~Publishing(p)'
      /\ \A q \in Procs \ {p} : /\ Counting(q)' => Counting(q)
                                /\ Publishing(q)' => Publishing(q)
                                /\ job'[q] = job[q]
  BY HandlerDone DEF PublishVote, Idle
<1>2. /\ Publishing(p) /\ vote' = job[p].ballot
      /\ UNCHANGED <<passed, lock, faults, ballots>>
  BY DEF PublishVote, Publishing, hub, bounds, ghosts
<1>3. VotesApart'
  BY <1>1, <1>2 DEF VotesInv, VotesApart
<1>4. PassedApart'
  BY <1>1, <1>2 DEF VotesInv, PassedApart, Over
<1> QED
  BY <1>3, <1>4 DEF VotesInv

\* A vote counted does: who counts it holds the mutex.
LEMMA RecordVoteKeepsVotes ==
    ASSUME IInv, VotesInv, NEW c \in Clients, RecordVote(c)
    PROVE  VotesInv'
<1>1. /\ ~Counting(c)' /\ ~Publishing(c)'
      /\ \A q \in Procs \ {c} : /\ Counting(q)' => Counting(q)
                                /\ Publishing(q)' => Publishing(q)
                                /\ job'[q] = job[q]
  BY HandlerDone DEF RecordVote, Return, Idle, Procs
<1>2. /\ c \in Procs /\ Counting(c) /\ vote' = WithYes(job[c].ballot, c)
      /\ UNCHANGED <<passed, faults, ballots>>
  BY DEF RecordVote, Counting, bounds, ghosts, Procs
<1>3. vote'.ID = job[c].ballot.ID
  BY <1>2, VoteIDs DEF WithYes, VoteRecord
<1>4. \A q \in Procs : ~Counting(q)'
  BY <1>1, <1>2 DEF VotesInv, VotesApart
<1>5. VotesApart'
  BY <1>1, <1>2, <1>3, <1>4 DEF VotesInv, VotesApart
<1>6. PassedApart'
  BY <1>1, <1>2, <1>3 DEF VotesInv, PassedApart, Over
<1> QED
  BY <1>5, <1>6 DEF VotesInv

\* A vote that passes does: it is not left anywhere.
LEMMA PassVoteKeepsVotes ==
    ASSUME IInv, VotesInv, NEW c \in Clients, PassVote(c)
    PROVE  VotesInv'
<1> DEFINE id == job[c].ballot.ID
           j == [Idle EXCEPT !.at = "execute", !.op = job[c].ballot.Action,
                             !.target = job[c].ballot.SongQueueID]
<1>0. Goto(c, j)
  BY DEF PassVote
<1>a. j.at = "execute"
  BY DEF Idle
<1> HIDE DEF j
<1>1. /\ ~Counting(c)' /\ ~Publishing(c)'
      /\ \A q \in Procs \ {c} : /\ Counting(q)' => Counting(q)
                                /\ Publishing(q)' => Publishing(q)
                                /\ job'[q] = job[q]
  BY <1>0, <1>a, HandlerDone DEF Procs
<1>2. /\ c \in Procs /\ Counting(c) /\ passed' = Append(passed, id) /\ ballots' = ballots
      /\ \/ vote' = NoVote /\ faults' = faults
         \/ vote' = vote /\ faults' = faults + 1
  BY DEF PassVote, Counting, Procs
<1>3. /\ ballots \in Nat /\ faults \in Nat /\ vote.ID \in Nat /\ NoVote.ID = 0
      /\ id \in Nat \ {0} /\ passed \in Seq(Nat)
      /\ \A p \in Procs : Counting(p) \/ Publishing(p) => job[p].ballot.ID \in Nat \ {0}
  BY <1>2, VoteIDs DEF IInv, SharedOK
<1>4. \A q \in Procs : ~Counting(q)'
  BY <1>1, <1>2 DEF VotesInv, VotesApart
<1>5. VotesApart'
  <2>1. vote'.ID \in {0, vote.ID} /\ vote'.ID <= ballots'
    BY <1>2, <1>3 DEF VotesInv, VotesApart
  <2>2. \A p \in Procs : Publishing(p)' => Publishing(p) /\ job'[p] = job[p]
    BY <1>1
  <2>3. \A p \in Procs : Publishing(p) => job[p].ballot.ID \in Nat \ {0}
    BY <1>3
  <2> QED
    BY <1>2, <1>4, <2>1, <2>2, <2>3 DEF VotesInv, VotesApart
<1>6. PassedApart'
  <2> SUFFICES ASSUME faults' = 0
               PROVE  /\ IsInjective(passed')
                      /\ ~Over(vote.ID)'
                      /\ \A i \in DOMAIN passed' : passed'[i] # 0 /\ passed'[i] <= ballots'
                      /\ \A p \in Procs : Counting(p)' \/ Publishing(p)' => ~Over(job[p].ballot.ID)'
    BY DEF PassedApart
  <2>1. faults = 0 /\ vote' = NoVote
    BY <1>2, <1>3
  <2>2. /\ IsInjective(passed) /\ ~Over(id) /\ id <= ballots
        /\ \A i \in DOMAIN passed : passed[i] # 0 /\ passed[i] <= ballots
        /\ \A p \in Procs : Publishing(p) => ~Over(job[p].ballot.ID) /\ (p # c => job[p].ballot.ID # id)
    BY <1>2, <2>1 DEF VotesInv, VotesApart, PassedApart
  <2> HIDE DEF id
  <2>3. /\ DOMAIN passed = 1..Len(passed) /\ Len(passed) \in Nat
        /\ DOMAIN passed' = 1..(Len(passed) + 1)
        /\ passed'[Len(passed) + 1] = id
        /\ \A i \in 1..Len(passed) : passed'[i] = passed[i]
    BY <1>2, <1>3
  <2>4. \A n : Over(n)' => Over(n) \/ n = id
    BY <2>3 DEF Over
  <2>5. \A i \in DOMAIN passed' : passed'[i] # 0 /\ passed'[i] <= ballots'
    BY <1>2, <1>3, <2>2, <2>3
  <2>6. IsInjective(passed')
    BY <2>2, <2>3 DEF IsInjective, Over
  <2>7. ~Over(vote.ID)'
    BY <1>3, <2>1, <2>5 DEF Over
  <2>8. \A p \in Procs : Counting(p)' \/ Publishing(p)' => ~Over(job[p].ballot.ID)'
    BY <1>1, <1>4, <2>2, <2>4 DEF Over
  <2> QED
    BY <2>5, <2>6, <2>7, <2>8
<1> QED
  BY <1>5, <1>6 DEF VotesInv

\* A vote that has just been read is the one that runs.
LEMMA VoteCastKeepsVotes ==
    ASSUME IInv, VotesInv, NEW c \in Clients, VoteCast(c)
    PROVE  VotesInv'
<1> DEFINE j == [Idle EXCEPT !.at = "cast", !.op = vote.Action, !.ballot = vote]
<1>0. Goto(c, j)
  BY DEF VoteCast
<1>1. j.at = "cast" /\ j.ballot = vote
  BY DEF Idle
<1> HIDE DEF j
<1>2. /\ c \in Procs /\ lock = None /\ lock' = c /\ vote # NoVote
      /\ UNCHANGED <<vote, passed, faults, ballots>>
  BY DEF VoteCast, redis, bounds, ghosts, Procs
<1>3. job'[c] = j /\ \A q \in Procs \ {c} : job'[q] = job[q]
  BY <1>0, <1>2 DEF Goto, IInv, JobsOK
<1>4. \A q \in Procs : ~Counting(q)
  BY <1>2, RoomAssumption DEF VotesInv, VotesApart
<1>5. VotesApart'
  BY <1>1, <1>2, <1>3, <1>4 DEF VotesInv, VotesApart, Counting, Publishing
<1>6. PassedApart'
  BY <1>1, <1>2, <1>3, <1>4 DEF VotesInv, PassedApart, Counting, Publishing, Over
<1> QED
  BY <1>5, <1>6 DEF VotesInv

\* The invariant of the votes always holds.
LEMMA VotesInvariant == Spec => []VotesInv
<1>1. Init => VotesInv
  BY DEF Init, Idle, NoVote, VotesInv, VotesApart, PassedApart, Counting, Publishing, Over,
         IsInjective
<1>2. IInv /\ VotesInv /\ [Next]_vars => VotesInv'
  BY VoteSteps, QuietKeepsVotes, StartVoteKeepsVotes, StartBroadcastSkipVoteKeepsVotes,
     PublishVoteKeepsVotes, RecordVoteKeepsVotes, PassVoteKeepsVotes, VoteCastKeepsVotes
     DEF Polling
<1> QED
  BY <1>1, <1>2, Inductive, PTL DEF Spec

\* Who has voted is never forgotten while the vote runs, however many cast their
\* votes at once: what a handler writes back has everyone in it whom it read, the
\* mutex lets no other handler count in between, and a vote that was replaced has
\* another id.
THEOREM VotesStayCounted == Spec => CountedVotesStay
<1> DEFINE Kept == vote # NoVote /\ vote'.ID = vote.ID => vote.YesVoterIDs \subseteq vote'.YesVoterIDs
<1>1. IInv /\ VotesInv /\ [Next]_vars => Kept
  <2> SUFFICES ASSUME IInv, VotesInv, [Next]_vars, vote # NoVote, vote'.ID = vote.ID
               PROVE  vote.YesVoterIDs \subseteq vote'.YesVoterIDs
    OBVIOUS
  <2>1. vote.ID # 0 /\ NoVote.ID = 0
    BY VoteIDs
  <2>2. CASE vote' \in {vote, NoVote}
    BY <2>1, <2>2
  <2>3. ASSUME NEW p \in Procs, PublishVote(p)
        PROVE  FALSE
    BY <2>3 DEF PublishVote, Publishing, VotesInv, VotesApart
  <2>4. ASSUME NEW c \in Clients, RecordVote(c)
        PROVE  vote.YesVoterIDs \subseteq vote'.YesVoterIDs
    <3>1. c \in Procs /\ Counting(c) /\ vote' = WithYes(job[c].ballot, c)
      BY <2>4 DEF RecordVote, Counting, Procs
    <3>2. job[c].ballot \in VoteRecord
      BY <3>1, VoteIDs
    <3>3. /\ vote'.ID = job[c].ballot.ID
          /\ vote'.YesVoterIDs = job[c].ballot.YesVoterIDs \cup {c}
      BY <3>1, <3>2 DEF WithYes, VoteRecord
    <3>4. vote = job[c].ballot
      BY <3>1, <3>3 DEF VotesInv, VotesApart
    <3> QED
      BY <3>3, <3>4
  <2>5. VotesQuiet \/ Polling
    BY VoteSteps
  <2>6. ASSUME NEW c \in Clients, VoteCast(c) \/ StartVote(c) \/ PassVote(c)
        PROVE  vote' \in {vote, NoVote}
    BY <2>6 DEF VoteCast, StartVote, PassVote, redis
  <2>7. ASSUME NEW s \in Staff, StartBroadcastSkipVote(s)
        PROVE  vote' \in {vote, NoVote}
    BY <2>7 DEF StartBroadcastSkipVote, redis
  <2> QED
    BY <2>2, <2>3, <2>4, <2>5, <2>6, <2>7 DEF VotesQuiet, Polling
<1>2. CountedVotesStay <=> [][Kept]_vote
  BY DEF CountedVotesStay
<1>3. [Kept]_vars => [Kept]_vote
  BY DEF vars, redis
<1> HIDE DEF Kept
<1> QED
  BY <1>1, <1>2, <1>3, Inductive, VotesInvariant, PTL DEF Spec

\* As long as no call to Redis has failed, a vote passes once, however many last
\* votes are cast at the same time: the handler that makes it pass holds the mutex
\* and deletes it before another one can read it.
THEOREM VotePassesOnce == Spec => [](faults = 0 => PassesOnce)
<1>1. VotesInv => (faults = 0 => PassesOnce)
  BY DEF VotesInv, PassedApart, PassesOnce
<1> QED
  BY <1>1, VotesInvariant, PTL
=============================================================================
