------------------------------ MODULE Playlist ------------------------------
(***************************************************************************)
(* The playlist of one room: model.PlaylistState, the JSON document kept   *)
(* under synctune:room:<id>:state, and what every handler computes from    *)
(* the document it has read.  The module has no variables: RoomPlayback    *)
(* says which handler reads and writes the document when.                  *)
(*                                                                         *)
(* Positions: CurrentIndex counts from 0 as in the code; a position of a   *)
(* TLA+ sequence is one more.  Titles, thumbnails, video ids, platforms    *)
(* and live streams (whose seek time stays 0) are left out.                *)
(***************************************************************************)
EXTENDS Integers, Sequences, FiniteSets, SequencesExt

CONSTANTS
    Users,      \* the users of the room, who are its connections
    Username,   \* the name each joins with; nothing keeps two users from having the same
    MaxQueue,   \* maxQueueSize, 100 in the code
    Speeds      \* the playback speeds a client may ask for

ASSUME PlaylistAssumption ==
    /\ MaxQueue \in Nat \ {0}
    /\ Speeds \subseteq Nat
    /\ DOMAIN Username = Users

\* queue_id: a fresh uuid, with "_replay" appended once for every replay.
QueueID == [uuid : Nat, replays : Nat]

NoID == [uuid |-> 0, replays |-> 0]

Names == {Username[u] : u \in Users} \cup {"Broadcast"}

Song == [QueueID : QueueID, AddedBy : Names, IsBroadcast : BOOLEAN]

PlaylistState ==
    [CurrentQueue : Seq(Song), CurrentIndex : Nat, SeekTime : Nat, IsPlaying : BOOLEAN,
     Autoplay : BOOLEAN, Shuffle : BOOLEAN, RandomPlay : BOOLEAN,
     PlaybackSpeed : Speeds \cup {0},
     IsBroadcasting : BOOLEAN, BroadcastQueue : Seq(Song),
     SavedQueue : Seq(Song), SavedCurrentIndex : Nat, SavedSeekTime : Nat,
     SavedIsPlaying : BOOLEAN,
     BroadcastVoteReplayDone : BOOLEAN, BroadcastSkipLocked : BOOLEAN]

\* What GetState returns for a room that has no document yet.
EmptyState ==
    [CurrentQueue |-> <<>>, CurrentIndex |-> 0, SeekTime |-> 0, IsPlaying |-> FALSE,
     Autoplay |-> FALSE, Shuffle |-> FALSE, RandomPlay |-> FALSE, PlaybackSpeed |-> 0,
     IsBroadcasting |-> FALSE, BroadcastQueue |-> <<>>,
     SavedQueue |-> <<>>, SavedCurrentIndex |-> 0, SavedSeekTime |-> 0,
     SavedIsPlaying |-> FALSE,
     BroadcastVoteReplayDone |-> FALSE, BroadcastSkipLocked |-> FALSE]

UserSong(n, user) ==
    [QueueID |-> [uuid |-> n, replays |-> 0], AddedBy |-> Username[user], IsBroadcast |-> FALSE]

BroadcastSong(id) ==
    [QueueID |-> id, AddedBy |-> "Broadcast", IsBroadcast |-> TRUE]

CurrentSong(s) == s.CurrentQueue[s.CurrentIndex + 1]

\* currentSong is what the client's song_id names: the check of every handler
\* that acts on the song being played.
IsCurrent(s, id) == s.CurrentQueue # <<>> /\ CurrentSong(s).QueueID = id

-----------------------------------------------------------------------------
(* The handlers of a user's queue.                                         *)

\* HandleAddSong: append, and start playing when the queue was empty.
WithSong(s, song) ==
    LET queue == Append(s.CurrentQueue, song)
    IN  IF ~s.IsPlaying /\ Len(queue) = 1
        THEN [s EXCEPT !.CurrentQueue = queue, !.IsPlaying = TRUE,
                       !.CurrentIndex = 0, !.SeekTime = 0]
        ELSE [s EXCEPT !.CurrentQueue = queue]

\* A variant with a mistake: the current index is not moved along.
WithoutSong_Unshifted(s, i) == [s EXCEPT !.CurrentQueue = RemoveAt(@, i)]

\* executeRemoveSong: drop the song at position i, which is not the current one.
WithoutSong(s, i) ==
    [s EXCEPT !.CurrentQueue = RemoveAt(@, i),
              !.CurrentIndex = IF i - 1 < @ THEN @ - 1 ELSE @]

\* A variant with a mistake: a song put exactly on the current one's place.
Reordered_OffByOne(s, from, to) ==
    LET cur == s.CurrentIndex
    IN  [s EXCEPT !.CurrentQueue = InsertAt(RemoveAt(@, from + 1), to + 1, s.CurrentQueue[from + 1]),
                  !.CurrentIndex = CASE from = cur                -> to
                                     [] from < cur /\ to > cur    -> cur - 1
                                     [] from > cur /\ to <= cur   -> cur + 1
                                     [] OTHER                     -> cur]

\* HandleReorderQueue: take the song at index from out and put it at index to.
Reordered(s, from, to) ==
    LET song == s.CurrentQueue[from + 1]
        cur  == s.CurrentIndex
    IN  [s EXCEPT !.CurrentQueue = InsertAt(RemoveAt(@, from + 1), to + 1, song),
                  !.CurrentIndex = CASE from = cur                 -> to
                                     [] from < cur /\ to >= cur    -> cur - 1
                                     [] from > cur /\ to <= cur    -> cur + 1
                                     [] OTHER                      -> cur]

\* A variant with a mistake: the current song is shuffled with the others.
Shuffles_FromCurrent(s) ==
    LET D == 1..Len(s.CurrentQueue)
        P == {p \in Bijection(D, D) : \A i \in D : i <= s.CurrentIndex => p[i] = i}
    IN  {[s EXCEPT !.CurrentQueue = [i \in D |-> s.CurrentQueue[p[i]]]] : p \in P}

\* shuffleQueueAfterCurrent: any permutation of the songs after the current one.
Shuffles(s) ==
    LET D == 1..Len(s.CurrentQueue)
        P == {p \in Bijection(D, D) : \A i \in D : i <= s.CurrentIndex + 1 => p[i] = i}
    IN  {[s EXCEPT !.CurrentQueue = [i \in D |-> s.CurrentQueue[p[i]]]] : p \in P}

\* HandleSetPlaybackMode: nothing is written when both modes would be on.
ModeChanges(s, autoplay, shuffle, random) ==
    LET t == [s EXCEPT !.Autoplay = autoplay, !.Shuffle = shuffle, !.RandomPlay = random]
    IN  CASE shuffle /\ random -> {}
          [] shuffle /\ ~random -> Shuffles(t)
          [] OTHER -> {t}

\* Variants with a mistake: the next song starts where the last one was; a room
\* that does not play on forgets its queue.
Advances_SeekKept(s, goOn) ==
    LET queue == RemoveAt(s.CurrentQueue, s.CurrentIndex + 1)
    IN  {[s EXCEPT !.CurrentQueue = queue, !.IsPlaying = goOn /\ queue # <<>>,
                   !.CurrentIndex = IF goOn /\ @ < Len(queue) THEN @ ELSE 0]}

Advances_QueueDropped(s, goOn) ==
    LET queue == RemoveAt(s.CurrentQueue, s.CurrentIndex + 1)
        on    == goOn /\ queue # <<>>
    IN  {[s EXCEPT !.CurrentQueue = IF on THEN queue ELSE <<>>, !.SeekTime = 0,
                   !.IsPlaying = on,
                   !.CurrentIndex = IF on /\ @ < Len(queue) THEN @ ELSE 0]}

\* The current song leaves the queue: where playback goes on, if it does.
\* pseudoRandIntn may return any index.
Advances(s, goOn) ==
    LET queue == RemoveAt(s.CurrentQueue, s.CurrentIndex + 1)
        n     == Len(queue)
        next  == IF s.RandomPlay THEN 0..(n - 1)
                 ELSE {IF s.CurrentIndex >= n THEN 0 ELSE s.CurrentIndex}
    IN  IF goOn /\ n > 0
        THEN {[s EXCEPT !.CurrentQueue = queue, !.SeekTime = 0, !.IsPlaying = TRUE,
                        !.CurrentIndex = i] : i \in next}
        ELSE {[s EXCEPT !.CurrentQueue = queue, !.SeekTime = 0, !.IsPlaying = FALSE,
                        !.CurrentIndex = 0]}

\* executeSkipSong plays on whatever Autoplay says; HandleSongEnded asks it.
SkipOutcomes(s) == Advances(s, TRUE)

EndOutcomes(s) == Advances(s, s.Autoplay)

\* Variants with a mistake: at the end, back to the last song; the song stays.
ErrorOutcome_StepsBack(s) ==
    LET queue == RemoveAt(s.CurrentQueue, s.CurrentIndex + 1)
    IN  [s EXCEPT !.CurrentQueue = queue, !.SeekTime = 0,
                  !.CurrentIndex = IF @ >= Len(queue) THEN Len(queue) - 1 ELSE @]

ErrorOutcome_SongStays(s) == [s EXCEPT !.SeekTime = 0, !.IsPlaying = FALSE]

\* HandleReportError for a user's song: play the one that moves up, stop at the end.
ErrorOutcome(s) ==
    LET queue == RemoveAt(s.CurrentQueue, s.CurrentIndex + 1)
        past  == s.CurrentIndex >= Len(queue)
    IN  [s EXCEPT !.CurrentQueue = queue, !.SeekTime = 0,
                  !.IsPlaying = @ /\ ~past,
                  !.CurrentIndex = IF past THEN 0 ELSE @]

-----------------------------------------------------------------------------
(* Broadcasts: a song the scheduler puts over the users' queue.            *)

\* A variant with a mistake: a queue that is not playing is not saved.
Interrupted_OnlyIfPlaying(s, song) ==
    [s EXCEPT !.SavedQueue = IF s.IsPlaying THEN s.CurrentQueue ELSE <<>>,
              !.SavedCurrentIndex = IF s.IsPlaying THEN s.CurrentIndex ELSE 0,
              !.SavedSeekTime = s.SeekTime, !.SavedIsPlaying = s.IsPlaying,
              !.IsBroadcasting = TRUE, !.CurrentQueue = <<song>>, !.CurrentIndex = 0,
              !.SeekTime = 0, !.IsPlaying = TRUE]

\* triggerInRoom, in a room that is not broadcasting: save and start.
Interrupted(s, song) ==
    [s EXCEPT !.SavedQueue = s.CurrentQueue, !.SavedCurrentIndex = s.CurrentIndex,
              !.SavedSeekTime = s.SeekTime, !.SavedIsPlaying = s.IsPlaying,
              !.IsBroadcasting = TRUE, !.CurrentQueue = <<song>>, !.CurrentIndex = 0,
              !.SeekTime = 0, !.IsPlaying = TRUE,
              !.BroadcastVoteReplayDone = FALSE, !.BroadcastSkipLocked = FALSE]

\* triggerInRoom, in a room that is: wait for the one being played.
Queued(s, song) == [s EXCEPT !.BroadcastQueue = Append(@, song)]

\* The next waiting broadcast, as both HandleReportError and HandleSongEnded take it.
NextBroadcast(s) ==
    [s EXCEPT !.CurrentQueue = <<Head(s.BroadcastQueue)>>, !.CurrentIndex = 0,
              !.SeekTime = 0, !.IsPlaying = TRUE, !.BroadcastQueue = Tail(@)]

\* A variant with a mistake: the seek time is not restored.
Restored_FromStart(s) ==
    [s EXCEPT !.IsBroadcasting = FALSE, !.CurrentQueue = s.SavedQueue,
              !.CurrentIndex = s.SavedCurrentIndex, !.SeekTime = 0,
              !.IsPlaying = s.SavedIsPlaying, !.SavedQueue = <<>>]

\* The restore every way out of a broadcast shares.
Restored(s) ==
    [s EXCEPT !.IsBroadcasting = FALSE, !.CurrentQueue = s.SavedQueue,
              !.CurrentIndex = s.SavedCurrentIndex, !.SeekTime = s.SavedSeekTime,
              !.IsPlaying = s.SavedIsPlaying, !.SavedQueue = <<>>]

\* HandleReportError on a broadcast: the replay flags stay as they are.
BroadcastErrorOutcome(s) ==
    IF s.BroadcastQueue # <<>> THEN NextBroadcast(s)
    ELSE [Restored(s) EXCEPT !.SavedIsPlaying = FALSE]

FlagsReset(s) ==
    [s EXCEPT !.BroadcastVoteReplayDone = FALSE, !.BroadcastSkipLocked = FALSE]

\* A variant with a mistake: the replay keeps its queue_id.
Replayed_SameID(s) ==
    [s EXCEPT !.SeekTime = 0, !.BroadcastVoteReplayDone = TRUE, !.BroadcastSkipLocked = TRUE]

\* HandleSongEnded, first round over: the same song once more under a new
\* queue_id, and skip_song locked.
Replayed(s) ==
    [s EXCEPT !.SeekTime = 0, !.BroadcastVoteReplayDone = TRUE, !.BroadcastSkipLocked = TRUE,
              !.CurrentQueue[s.CurrentIndex + 1].QueueID.replays = @ + 1]

\* HandleSongEnded on a broadcast: the next one, the replay, or the users' queue.
BroadcastEndOutcome(s, allowSkip) ==
    CASE s.BroadcastQueue # <<>> -> FlagsReset(NextBroadcast(s))
      [] s.BroadcastQueue = <<>> /\ allowSkip /\ ~s.BroadcastVoteReplayDone -> Replayed(s)
      [] OTHER -> [FlagsReset(Restored(s)) EXCEPT !.SavedIsPlaying = FALSE]

\* executeBroadcastSkip: the users voted the broadcast away, and those waiting.
VotedAway(s) ==
    [FlagsReset(Restored(s)) EXCEPT !.SavedIsPlaying = FALSE, !.BroadcastQueue = <<>>]

\* restoreSavedState: the admin did.
AdminRestored(s) == [Restored(s) EXCEPT !.BroadcastQueue = <<>>]

\* Unregister of the last client of the room.
RoomEmptied(s) == [AdminRestored(s) EXCEPT !.SavedIsPlaying = FALSE]

-----------------------------------------------------------------------------
(* What every document ever written must satisfy.                          *)

\* The handlers index the queue by CurrentIndex without looking at its length,
\* and incrSeekScript re-encodes an empty queue as an object no one can decode:
\* a queue that is not empty has its current song, an empty one is not playing.
CursorInQueue(queue, index, playing) ==
    IF queue = <<>> THEN index = 0 /\ ~playing ELSE index < Len(queue)

CursorsValid(s) ==
    /\ CursorInQueue(s.CurrentQueue, s.CurrentIndex, s.IsPlaying)
    /\ s.IsBroadcasting =>
         CursorInQueue(s.SavedQueue, s.SavedCurrentIndex, s.SavedIsPlaying)

\* A broadcast song is in the queue of a broadcasting room only, and there it is
\* the one being played: nothing that reorders, removes or shuffles puts another
\* song before it.  What is saved is the users', what waits is the scheduler's.
BroadcastsInPlace(s) ==
    /\ \A i \in DOMAIN s.CurrentQueue : s.CurrentQueue[i].IsBroadcast =>
         s.IsBroadcasting /\ i = s.CurrentIndex + 1
    /\ \A i \in DOMAIN s.SavedQueue : ~s.SavedQueue[i].IsBroadcast
    /\ \A i \in DOMAIN s.BroadcastQueue : s.BroadcastQueue[i].IsBroadcast
    /\ ~s.IsBroadcasting => s.BroadcastQueue = <<>> /\ s.SavedQueue = <<>>

\* A broadcast is replayed once, a user's song never.
ReplayedOnce(s) ==
    /\ \A i \in DOMAIN s.CurrentQueue : s.CurrentQueue[i].QueueID.replays # 0 =>
         /\ s.CurrentQueue[i].QueueID.replays = 1
         /\ s.CurrentQueue[i].IsBroadcast
         /\ s.BroadcastVoteReplayDone
    /\ \A i \in DOMAIN s.SavedQueue : s.SavedQueue[i].QueueID.replays = 0
    /\ \A i \in DOMAIN s.BroadcastQueue : s.BroadcastQueue[i].QueueID.replays = 0

\* No queue grows past the limit, however many requests read it just below.
QueuesBounded(s) == Len(s.CurrentQueue) <= MaxQueue /\ Len(s.SavedQueue) <= MaxQueue

\* Shuffle and random play exclude each other.
ModesExclusive(s) == ~(s.Shuffle /\ s.RandomPlay)

WellFormed(s) ==
    /\ CursorsValid(s)
    /\ BroadcastsInPlace(s)
    /\ ReplayedOnce(s)
    /\ QueuesBounded(s)
    /\ ModesExclusive(s)
=============================================================================
