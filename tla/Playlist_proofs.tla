--------------------------- MODULE Playlist_proofs ---------------------------
(***************************************************************************)
(* What every handler computes from a well-formed document is well-formed: *)
(* the lemmas about Playlist that the proofs about RoomPlayback rest on.   *)
(***************************************************************************)
EXTENDS Playlist, SequenceTheorems, TLAPS

\* Taking an element out of a sequence moves those behind it up by one.
LEMMA RemoveAtProperties ==
    ASSUME NEW S, NEW q \in Seq(S), NEW i \in 1..Len(q)
    PROVE  /\ RemoveAt(q, i) \in Seq(S)
           /\ Len(RemoveAt(q, i)) = Len(q) - 1
           /\ \A j \in 1..(Len(q) - 1) :
                RemoveAt(q, i)[j] = IF j < i THEN q[j] ELSE q[j + 1]
<1> DEFINE front == SubSeq(q, 1, i - 1)
           back  == SubSeq(q, i + 1, Len(q))
<1>1. /\ front \in Seq(S)
      /\ Len(front) = i - 1
      /\ \A j \in 1..(i - 1) : front[j] = q[j]
  <2>1. \A j \in 1..(i - 1) : q[j] \in S
    BY LenProperties, ElementOfSeq
  <2>2. 1 \in Int /\ i - 1 \in Int
    OBVIOUS
  <2> QED
    BY <2>1, <2>2, SubSeqProperties, LenProperties
<1>2. /\ back \in Seq(S)
      /\ Len(back) = Len(q) - i
      /\ \A j \in 1..(Len(q) - i) : back[j] = q[i + j]
  <2>1. \A j \in (i + 1)..Len(q) : q[j] \in S
    BY LenProperties, ElementOfSeq
  <2>2. i + 1 \in Int /\ Len(q) \in Int
    BY LenProperties
  <2> QED
    BY <2>1, <2>2, SubSeqProperties, LenProperties
<1>3. RemoveAt(q, i) = front \o back
  BY DEF RemoveAt
<1> HIDE DEF front, back
<1>4. /\ front \o back \in Seq(S)
      /\ Len(front \o back) = Len(front) + Len(back)
      /\ \A j \in 1..(Len(front) + Len(back)) :
           (front \o back)[j] = IF j <= Len(front) THEN front[j] ELSE back[j - Len(front)]
  BY <1>1, <1>2, ConcatProperties
<1>5. Len(q) \in Nat
  BY LenProperties
<1> QED
  BY <1>1, <1>2, <1>3, <1>4, <1>5

\* Putting one in moves them down.
LEMMA InsertAtProperties ==
    ASSUME NEW S, NEW q \in Seq(S), NEW i \in 1..(Len(q) + 1), NEW e \in S
    PROVE  /\ InsertAt(q, i, e) \in Seq(S)
           /\ Len(InsertAt(q, i, e)) = Len(q) + 1
           /\ \A j \in 1..(Len(q) + 1) :
                InsertAt(q, i, e)[j] = IF j < i THEN q[j] ELSE IF j = i THEN e ELSE q[j - 1]
<1> DEFINE front == SubSeq(q, 1, i - 1)
           back  == SubSeq(q, i, Len(q))
<1>1. /\ front \in Seq(S)
      /\ Len(front) = i - 1
      /\ \A j \in 1..(i - 1) : front[j] = q[j]
  <2>1. \A j \in 1..(i - 1) : q[j] \in S
    BY LenProperties, ElementOfSeq
  <2>2. 1 \in Int /\ i - 1 \in Int
    OBVIOUS
  <2> QED
    BY <2>1, <2>2, SubSeqProperties, LenProperties
<1>2. /\ back \in Seq(S)
      /\ Len(back) = Len(q) - i + 1
      /\ \A j \in 1..(Len(q) - i + 1) : back[j] = q[i + j - 1]
  <2>1. \A j \in i..Len(q) : q[j] \in S
    BY LenProperties, ElementOfSeq
  <2>2. i \in Int /\ Len(q) \in Int
    BY LenProperties
  <2> QED
    BY <2>1, <2>2, SubSeqProperties, LenProperties
<1>3. /\ front \o <<e>> \in Seq(S)
      /\ Len(front \o <<e>>) = i
      /\ \A j \in 1..i : (front \o <<e>>)[j] = IF j < i THEN q[j] ELSE e
  <2>1. <<e>> \in Seq(S) /\ Len(<<e>>) = 1 /\ <<e>>[1] = e
    OBVIOUS
  <2> HIDE DEF front
  <2> QED
    BY <1>1, <2>1, ConcatProperties
<1>4. InsertAt(q, i, e) = (front \o <<e>>) \o back
  BY DEF InsertAt
<1> DEFINE head == front \o <<e>>
<1> HIDE DEF front, back, head
<1>5. /\ head \in Seq(S)
      /\ Len(head) = i
      /\ \A j \in 1..i : head[j] = IF j < i THEN q[j] ELSE e
  BY <1>3 DEF head
<1>6. InsertAt(q, i, e) = head \o back
  BY <1>4 DEF head
<1>7. /\ head \o back \in Seq(S)
      /\ Len(head \o back) = Len(head) + Len(back)
      /\ \A j \in 1..(Len(head) + Len(back)) :
           (head \o back)[j] = IF j <= Len(head) THEN head[j] ELSE back[j - Len(head)]
  BY <1>2, <1>5, ConcatProperties
<1>8. Len(q) \in Nat
  BY LenProperties
<1> QED
  BY <1>2, <1>5, <1>6, <1>7, <1>8

\* The element at a goes to b.
Moved(q, a, b) == InsertAt(RemoveAt(q, a), b, q[a])

\* Where the k-th element was before the one at a was moved to b.
Origin(k, a, b) ==
    IF k = b THEN a
    ELSE LET m == IF k < b THEN k ELSE k - 1
         IN  IF m < a THEN m ELSE m + 1

\* What moving an element does to a sequence.
LEMMA MoveProperties ==
    ASSUME NEW S, NEW q \in Seq(S), NEW a \in 1..Len(q), NEW b \in 1..Len(q)
    PROVE  /\ Moved(q, a, b) \in Seq(S)
           /\ Len(Moved(q, a, b)) = Len(q)
           /\ \A k \in 1..Len(q) : Origin(k, a, b) \in 1..Len(q)
           /\ \A k \in 1..Len(q) : Moved(q, a, b)[k] = q[Origin(k, a, b)]
<1> DEFINE r == RemoveAt(q, a)
           e == q[a]
           n == Len(r)
           u == InsertAt(r, b, e)
<1>1. Len(q) \in Nat /\ e \in S
  BY LenProperties, ElementOfSeq
<1>2. /\ r \in Seq(S)
      /\ n = Len(q) - 1
      /\ \A j \in 1..(Len(q) - 1) : r[j] = IF j < a THEN q[j] ELSE q[j + 1]
  BY RemoveAtProperties
<1> HIDE DEF r, e
<1>3. r \in Seq(S) /\ b \in 1..(Len(r) + 1) /\ e \in S
  BY <1>1, <1>2
<1>4. /\ u \in Seq(S)
      /\ Len(u) = n + 1
      /\ \A j \in 1..(n + 1) :
           u[j] = IF j < b THEN r[j] ELSE IF j = b THEN e ELSE r[j - 1]
  <2>1. u \in Seq(S) /\ Len(u) = n + 1
    BY <1>3, InsertAtProperties
  <2>2. \A j \in 1..(n + 1) :
          u[j] = IF j < b THEN r[j] ELSE IF j = b THEN e ELSE r[j - 1]
    BY <1>3, InsertAtProperties
  <2> QED
    BY <2>1, <2>2
<1> HIDE DEF u, n
<1>5. ASSUME NEW k \in 1..Len(q)
      PROVE  Origin(k, a, b) \in 1..Len(q)
  BY <1>1, <1>5 DEF Origin
<1>6. ASSUME NEW k \in 1..Len(q)
      PROVE  u[k] = q[Origin(k, a, b)]
  <2>1. CASE k = b
    BY <1>1, <1>2, <1>4, <2>1 DEF e, Origin
  <2>2. CASE k # b
    <3> DEFINE m == IF k < b THEN k ELSE k - 1
    <3>1. m \in 1..(Len(q) - 1)
      BY <1>1, <1>6, <2>2
    <3>2. u[k] = r[m]
      BY <1>1, <1>2, <1>4, <1>6, <2>2
    <3>3. Origin(k, a, b) = IF m < a THEN m ELSE m + 1
      BY <2>2 DEF Origin
    <3> HIDE DEF m
    <3> QED
      BY <1>1, <1>2, <3>1, <3>2, <3>3
  <2> QED
    BY <2>1, <2>2
<1>7. Len(u) = Len(q)
  BY <1>1, <1>2, <1>4
<1> QED
  BY <1>4, <1>5, <1>6, <1>7 DEF u, r, e, Moved
-----------------------------------------------------------------------------

\* Every song of the queue q, played at index i, is one the document allows.
SongsFit(q, i, broadcasting, replayed) ==
    \A k \in 1..Len(q) :
      /\ q[k].IsBroadcast => broadcasting /\ k = i + 1
      /\ q[k].QueueID.replays # 0 => q[k].QueueID.replays = 1 /\ q[k].IsBroadcast /\ replayed

\* t is in the same broadcast as s, if any.
SameBroadcast(s, t) ==
    /\ t.IsBroadcasting = s.IsBroadcasting
    /\ t.BroadcastQueue = s.BroadcastQueue
    /\ t.SavedQueue = s.SavedQueue
    /\ t.SavedCurrentIndex = s.SavedCurrentIndex
    /\ t.SavedIsPlaying = s.SavedIsPlaying
    /\ t.BroadcastVoteReplayDone = s.BroadcastVoteReplayDone

\* A document of which only the song queue, the place in it and what is playing
\* have changed is well-formed if the new queue is.
LEMMA QueueChanged ==
    ASSUME NEW s \in PlaylistState, WellFormed(s), NEW t \in PlaylistState,
           SameBroadcast(s, t),
           ~(t.Shuffle /\ t.RandomPlay),
           CursorInQueue(t.CurrentQueue, t.CurrentIndex, t.IsPlaying),
           Len(t.CurrentQueue) <= MaxQueue,
           SongsFit(t.CurrentQueue, t.CurrentIndex, s.IsBroadcasting, s.BroadcastVoteReplayDone)
    PROVE  WellFormed(t)
<1>1. DOMAIN t.CurrentQueue = 1..Len(t.CurrentQueue)
  BY DEF PlaylistState
<1>2. CursorsValid(t)
  BY DEF WellFormed, CursorsValid, SameBroadcast
<1>3. BroadcastsInPlace(t)
  BY <1>1 DEF WellFormed, BroadcastsInPlace, SameBroadcast, SongsFit
<1>4. ReplayedOnce(t)
  BY <1>1 DEF WellFormed, ReplayedOnce, SameBroadcast, SongsFit
<1>5. QueuesBounded(t) /\ ModesExclusive(t)
  BY DEF WellFormed, QueuesBounded, ModesExclusive, SameBroadcast
<1> QED
  BY <1>2, <1>3, <1>4, <1>5 DEF WellFormed

\* What a well-formed document says about its queue, in arithmetic.
LEMMA QueueFacts ==
    ASSUME NEW s \in PlaylistState, WellFormed(s)
    PROVE  LET n == Len(s.CurrentQueue)
           IN  /\ s.CurrentQueue \in Seq(Song) /\ n \in 0..MaxQueue /\ s.CurrentIndex \in Nat
               /\ s.CurrentQueue = <<>> <=> n = 0
               /\ n = 0 => s.CurrentIndex = 0 /\ ~s.IsPlaying
               /\ n > 0 => s.CurrentIndex < n
               /\ ~(s.Shuffle /\ s.RandomPlay)
               /\ \A i \in 1..n : s.CurrentQueue[i] \in Song
               /\ SongsFit(s.CurrentQueue, s.CurrentIndex, s.IsBroadcasting,
                           s.BroadcastVoteReplayDone)
<1> DEFINE q == s.CurrentQueue
<1>1. /\ q \in Seq(Song) /\ s.CurrentIndex \in Nat
      /\ Len(q) \in Nat
      /\ DOMAIN q = 1..Len(q)
      /\ q = <<>> <=> Len(q) = 0
      /\ \A i \in 1..Len(q) : q[i] \in Song
  BY DEF PlaylistState
<1>2. Len(q) <= MaxQueue /\ ~(s.Shuffle /\ s.RandomPlay)
  BY DEF WellFormed, QueuesBounded, ModesExclusive
<1>3. /\ Len(q) = 0 => s.CurrentIndex = 0 /\ ~s.IsPlaying
      /\ Len(q) > 0 => s.CurrentIndex < Len(q)
  BY <1>1 DEF WellFormed, CursorsValid, CursorInQueue
<1>4. SongsFit(q, s.CurrentIndex, s.IsBroadcasting, s.BroadcastVoteReplayDone)
  BY <1>1 DEF WellFormed, BroadcastsInPlace, ReplayedOnce, SongsFit
<1> QED
  BY <1>1, <1>2, <1>3, <1>4, PlaylistAssumption

\* A place in a queue, in arithmetic, is one the handlers can index.
LEMMA CursorFits ==
    ASSUME NEW q \in Seq(Song), NEW i \in Nat, NEW playing,
           Len(q) = 0 => i = 0 /\ ~playing,
           Len(q) > 0 => i < Len(q)
    PROVE  CursorInQueue(q, i, playing)
BY EmptySeq, LenProperties DEF CursorInQueue

-----------------------------------------------------------------------------
(* The handlers of a user's queue.                                         *)

\* HandleAddSong keeps documents well-formed.
LEMMA WithSongGood ==
    ASSUME NEW s \in PlaylistState, WellFormed(s), Len(s.CurrentQueue) < MaxQueue,
           NEW song \in Song, ~song.IsBroadcast, song.QueueID.replays = 0
    PROVE  WithSong(s, song) \in PlaylistState /\ WellFormed(WithSong(s, song))
<1> DEFINE q == s.CurrentQueue
           t == WithSong(s, song)
<1>1. q \in Seq(Song) /\ Len(q) \in Nat
  BY DEF PlaylistState
<1>2. /\ Append(q, song) \in Seq(Song)
      /\ Len(Append(q, song)) = Len(q) + 1
      /\ \A i \in 1..Len(q) : Append(q, song)[i] = q[i]
      /\ Append(q, song)[Len(q) + 1] = song
  BY <1>1, AppendProperties
<1>3. t \in PlaylistState
  BY <1>2 DEF WithSong, PlaylistState
<1>4. /\ t.CurrentQueue = Append(q, song)
      /\ t.CurrentIndex = s.CurrentIndex \/ (Len(q) = 0 /\ t.CurrentIndex = 0)
  BY <1>1, <1>2 DEF WithSong, PlaylistState
<1>5. SameBroadcast(s, t) /\ t.Shuffle = s.Shuffle /\ t.RandomPlay = s.RandomPlay
  BY DEF WithSong, PlaylistState, SameBroadcast
<1> HIDE DEF t
<1>6. CursorInQueue(t.CurrentQueue, t.CurrentIndex, t.IsPlaying)
  <2>1. t.CurrentIndex \in Nat /\ t.CurrentIndex < Len(t.CurrentQueue)
    BY <1>1, <1>2, <1>4, QueueFacts
  <2>2. t.CurrentQueue \in Seq(Song) /\ ~(Len(t.CurrentQueue) = 0)
    BY <1>1, <1>2, <1>4
  <2> QED
    BY <2>1, <2>2 DEF CursorInQueue
<1>7. SongsFit(t.CurrentQueue, t.CurrentIndex, s.IsBroadcasting, s.BroadcastVoteReplayDone)
  <2>1. SongsFit(q, s.CurrentIndex, s.IsBroadcasting, s.BroadcastVoteReplayDone)
    BY QueueFacts
  <2> QED
    BY <2>1, <1>1, <1>2, <1>4 DEF SongsFit
<1>8. Len(t.CurrentQueue) <= MaxQueue /\ ~(t.Shuffle /\ t.RandomPlay)
  BY <1>1, <1>2, <1>4, <1>5, QueueFacts, PlaylistAssumption
<1>9. WellFormed(t)
  BY <1>3, <1>5, <1>6, <1>7, <1>8, QueueChanged
<1> QED
  BY <1>3, <1>9 DEF t

\* executeRemoveSong does.
LEMMA WithoutSongGood ==
    ASSUME NEW s \in PlaylistState, WellFormed(s),
           NEW i \in 1..Len(s.CurrentQueue), i # s.CurrentIndex + 1
    PROVE  WithoutSong(s, i) \in PlaylistState /\ WellFormed(WithoutSong(s, i))
<1> DEFINE q == s.CurrentQueue
           r == RemoveAt(q, i)
           c == IF i - 1 < s.CurrentIndex THEN s.CurrentIndex - 1 ELSE s.CurrentIndex
           t == WithoutSong(s, i)
<1>1. /\ q \in Seq(Song) /\ Len(q) \in 0..MaxQueue /\ s.CurrentIndex \in Nat
      /\ s.CurrentIndex < Len(q)
      /\ ~(s.Shuffle /\ s.RandomPlay)
      /\ SongsFit(q, s.CurrentIndex, s.IsBroadcasting, s.BroadcastVoteReplayDone)
  BY QueueFacts
<1>2. /\ r \in Seq(Song)
      /\ Len(r) = Len(q) - 1
      /\ \A j \in 1..(Len(q) - 1) : r[j] = IF j < i THEN q[j] ELSE q[j + 1]
  BY <1>1, RemoveAtProperties
<1>3. c \in Nat /\ c < Len(q) - 1
  BY <1>1
<1>4. t = [s EXCEPT !.CurrentQueue = r, !.CurrentIndex = c]
  BY DEF WithoutSong
<1> HIDE DEF r, c, t
<1>5. t \in PlaylistState /\ t.CurrentQueue = r /\ t.CurrentIndex = c
  BY <1>2, <1>3, <1>4 DEF PlaylistState
<1>6. SameBroadcast(s, t) /\ t.Shuffle = s.Shuffle /\ t.RandomPlay = s.RandomPlay
  BY <1>4 DEF PlaylistState, SameBroadcast
<1>7. CursorInQueue(r, c, t.IsPlaying)
  BY <1>2, <1>3, <1>1, CursorFits
<1>8. SongsFit(r, c, s.IsBroadcasting, s.BroadcastVoteReplayDone)
  <2> SUFFICES ASSUME NEW k \in 1..Len(r)
               PROVE  /\ r[k].IsBroadcast => s.IsBroadcasting /\ k = c + 1
                      /\ r[k].QueueID.replays # 0 => r[k].QueueID.replays = 1
                           /\ r[k].IsBroadcast /\ s.BroadcastVoteReplayDone
    BY DEF SongsFit
  <2> DEFINE j == IF k < i THEN k ELSE k + 1
  <2>1. j \in 1..Len(q) /\ r[k] = q[j]
    BY <1>1, <1>2
  <2>2. j = s.CurrentIndex + 1 => k = c + 1
    BY <1>1 DEF c
  <2> HIDE DEF j
  <2> QED
    BY <1>1, <2>1, <2>2 DEF SongsFit
<1>9. WellFormed(t)
  BY <1>1, <1>2, <1>5, <1>6, <1>7, <1>8, PlaylistAssumption, QueueChanged
<1> QED
  BY <1>5, <1>9 DEF t

\* HandleReorderQueue does.
LEMMA ReorderedGood ==
    ASSUME NEW s \in PlaylistState, WellFormed(s),
           NEW from \in 0..(Len(s.CurrentQueue) - 1), NEW to \in 0..(Len(s.CurrentQueue) - 1)
    PROVE  Reordered(s, from, to) \in PlaylistState /\ WellFormed(Reordered(s, from, to))
<1> DEFINE q == s.CurrentQueue
           n == Len(q)
           cur == s.CurrentIndex
           a == from + 1
           b == to + 1
           u == Moved(q, a, b)
           c == CASE from = cur              -> to
                  [] from < cur /\ to >= cur -> cur - 1
                  [] from > cur /\ to <= cur -> cur + 1
                  [] OTHER                   -> cur
           t == Reordered(s, from, to)
<1>1. /\ q \in Seq(Song) /\ n \in 0..MaxQueue /\ cur \in Nat /\ cur < n
      /\ ~(s.Shuffle /\ s.RandomPlay)
      /\ \A i \in 1..n : q[i] \in Song
      /\ SongsFit(q, cur, s.IsBroadcasting, s.BroadcastVoteReplayDone)
  BY QueueFacts
<1>2. a \in 1..n /\ b \in 1..n
  BY <1>1
<1>3. t = [s EXCEPT !.CurrentQueue = u, !.CurrentIndex = c]
  BY DEF Reordered, Moved
<1> HIDE DEF a, b
<1>4. /\ u \in Seq(Song)
      /\ Len(u) = n
      /\ \A k \in 1..n : Origin(k, a, b) \in 1..n /\ u[k] = q[Origin(k, a, b)]
  <2>1. u \in Seq(Song) /\ Len(u) = n
    BY <1>1, <1>2, MoveProperties
  <2>2. \A k \in 1..n : Origin(k, a, b) \in 1..n
    BY <1>1, <1>2, MoveProperties
  <2>3. \A k \in 1..n : u[k] = q[Origin(k, a, b)]
    BY <1>1, <1>2, MoveProperties
  <2> QED
    BY <2>1, <2>2, <2>3
<1> HIDE DEF n
<1>5. c \in Nat /\ c < n
  BY <1>1 DEF n
<1> HIDE DEF u, c, t
<1>6. t \in PlaylistState /\ t.CurrentQueue = u /\ t.CurrentIndex = c
  BY <1>3, <1>4, <1>5 DEF PlaylistState
<1>7. SameBroadcast(s, t) /\ t.Shuffle = s.Shuffle /\ t.RandomPlay = s.RandomPlay
  BY <1>3 DEF PlaylistState, SameBroadcast
<1>8. CursorInQueue(u, c, t.IsPlaying)
  BY <1>1, <1>4, <1>5, CursorFits
<1>9. SongsFit(u, c, s.IsBroadcasting, s.BroadcastVoteReplayDone)
  <2> SUFFICES ASSUME NEW k \in 1..n
               PROVE  /\ u[k].IsBroadcast => s.IsBroadcasting /\ k = c + 1
                      /\ u[k].QueueID.replays # 0 => u[k].QueueID.replays = 1
                           /\ u[k].IsBroadcast /\ s.BroadcastVoteReplayDone
    BY <1>4 DEF SongsFit
  <2> DEFINE j == Origin(k, a, b)
  <2>1. j \in 1..n /\ u[k] = q[j]
    BY <1>4
  <2>2. j = cur + 1 => k = c + 1
    BY <1>1, <1>2 DEF a, b, c, Origin
  <2> HIDE DEF j
  <2> QED
    BY <1>1, <2>1, <2>2 DEF SongsFit, n
<1>10. WellFormed(t)
  <2>1. ~(t.Shuffle /\ t.RandomPlay)
    BY <1>1, <1>7
  <2>2. CursorInQueue(t.CurrentQueue, t.CurrentIndex, t.IsPlaying)
    BY <1>6, <1>8
  <2>3. Len(t.CurrentQueue) <= MaxQueue
    BY <1>1, <1>4, <1>6, PlaylistAssumption
  <2>4. SongsFit(t.CurrentQueue, t.CurrentIndex, s.IsBroadcasting, s.BroadcastVoteReplayDone)
    BY <1>6, <1>9
  <2> QED
    BY <1>6, <1>7, <2>1, <2>2, <2>3, <2>4, QueueChanged
<1> QED
  BY <1>6, <1>10 DEF t

\* Any shuffle of the songs after the current one does.
LEMMA ShufflesGood ==
    ASSUME NEW s \in PlaylistState, WellFormed(s), NEW t \in Shuffles(s)
    PROVE  t \in PlaylistState /\ WellFormed(t)
<1> DEFINE q == s.CurrentQueue
           n == Len(q)
           cur == s.CurrentIndex
<1>1. /\ q \in Seq(Song) /\ n \in 0..MaxQueue /\ cur \in Nat
      /\ n = 0 => cur = 0 /\ ~s.IsPlaying
      /\ n > 0 => cur < n
      /\ ~(s.Shuffle /\ s.RandomPlay)
      /\ \A i \in 1..n : q[i] \in Song
      /\ SongsFit(q, cur, s.IsBroadcasting, s.BroadcastVoteReplayDone)
  BY QueueFacts
<1>2. PICK p \in Bijection(1..n, 1..n) :
        /\ \A i \in 1..n : i <= cur + 1 => p[i] = i
        /\ t = [s EXCEPT !.CurrentQueue = [i \in 1..n |-> q[p[i]]]]
  BY DEF Shuffles
<1>3. /\ \A i \in 1..n : p[i] \in 1..n
      /\ \A i, j \in 1..n : p[i] = p[j] => i = j
  BY <1>2 DEF Bijection, Injection, IsInjective
<1> DEFINE r == [i \in 1..n |-> q[p[i]]]
<1>4. r \in Seq(Song) /\ Len(r) = n /\ \A i \in 1..n : r[i] = q[p[i]]
  <2>1. \A i \in 1..n : q[p[i]] \in Song
    BY <1>1, <1>3
  <2>2. n \in Nat
    BY <1>1
  <2> HIDE DEF n, q
  <2> QED
    BY <2>1, <2>2
<1>5. t = [s EXCEPT !.CurrentQueue = r]
  BY <1>2
<1> HIDE DEF r
<1>6. t \in PlaylistState /\ t.CurrentQueue = r /\ t.CurrentIndex = cur
  BY <1>4, <1>5 DEF PlaylistState
<1>7. /\ SameBroadcast(s, t) /\ t.IsPlaying = s.IsPlaying
      /\ t.Shuffle = s.Shuffle /\ t.RandomPlay = s.RandomPlay
  BY <1>5 DEF PlaylistState, SameBroadcast
<1>8. CursorInQueue(r, cur, t.IsPlaying)
  BY <1>1, <1>4, <1>7, CursorFits
<1>9. SongsFit(r, cur, s.IsBroadcasting, s.BroadcastVoteReplayDone)
  <2> SUFFICES ASSUME NEW k \in 1..n
               PROVE  /\ r[k].IsBroadcast => s.IsBroadcasting /\ k = cur + 1
                      /\ r[k].QueueID.replays # 0 => r[k].QueueID.replays = 1
                           /\ r[k].IsBroadcast /\ s.BroadcastVoteReplayDone
    BY <1>4 DEF SongsFit
  <2>1. p[k] = cur + 1 => k = cur + 1
    BY <1>1, <1>2, <1>3
  <2>2. r[k] = q[p[k]] /\ p[k] \in 1..n
    BY <1>3, <1>4
  <2> QED
    BY <1>1, <2>1, <2>2 DEF SongsFit
<1> QED
  BY <1>1, <1>4, <1>6, <1>7, <1>8, <1>9, QueueChanged

\* HandleSetPlaybackMode does.
LEMMA ModeChangesGood ==
    ASSUME NEW s \in PlaylistState, WellFormed(s),
           NEW autoplay \in BOOLEAN, NEW shuffle \in BOOLEAN, NEW random \in BOOLEAN,
           NEW t \in ModeChanges(s, autoplay, shuffle, random)
    PROVE  t \in PlaylistState /\ WellFormed(t)
<1> DEFINE u == [s EXCEPT !.Autoplay = autoplay, !.Shuffle = shuffle, !.RandomPlay = random]
<1>1. ~(shuffle /\ random) /\ (t = u \/ t \in Shuffles(u))
  BY DEF ModeChanges
<1>2. /\ u \in PlaylistState
      /\ u.CurrentQueue = s.CurrentQueue /\ u.CurrentIndex = s.CurrentIndex
      /\ u.IsPlaying = s.IsPlaying /\ u.Shuffle = shuffle /\ u.RandomPlay = random
  BY DEF PlaylistState
<1>3. SameBroadcast(s, u)
  BY DEF PlaylistState, SameBroadcast
<1>4. WellFormed(u)
  <2> HIDE DEF u
  <2>1. Len(u.CurrentQueue) <= MaxQueue
    BY <1>2 DEF WellFormed, QueuesBounded
  <2>2. CursorInQueue(u.CurrentQueue, u.CurrentIndex, u.IsPlaying)
    BY <1>2 DEF WellFormed, CursorsValid
  <2> QED
    BY <1>1, <1>2, <1>3, <2>1, <2>2, QueueFacts, QueueChanged
<1> QED
  BY <1>1, <1>2, <1>4, ShufflesGood

\* A document in which nothing but the seek time, the speed or Autoplay changes.
LEMMA SettingChanged ==
    ASSUME NEW s \in PlaylistState, WellFormed(s), NEW t \in PlaylistState,
           SameBroadcast(s, t),
           t.CurrentQueue = s.CurrentQueue, t.CurrentIndex = s.CurrentIndex,
           t.IsPlaying = s.IsPlaying, t.Shuffle = s.Shuffle, t.RandomPlay = s.RandomPlay
    PROVE  WellFormed(t)
<1>1. Len(t.CurrentQueue) <= MaxQueue /\ ~(t.Shuffle /\ t.RandomPlay)
  BY DEF WellFormed, QueuesBounded, ModesExclusive
<1>2. CursorInQueue(t.CurrentQueue, t.CurrentIndex, t.IsPlaying)
  BY DEF WellFormed, CursorsValid
<1>3. SongsFit(t.CurrentQueue, t.CurrentIndex, s.IsBroadcasting, s.BroadcastVoteReplayDone)
  BY QueueFacts
<1> QED
  BY <1>1, <1>2, <1>3, QueueChanged

\* HandleSetPlaybackSpeed keeps documents well-formed.
LEMMA SpeedGood ==
    ASSUME NEW s \in PlaylistState, WellFormed(s), NEW v \in Speeds
    PROVE  /\ [s EXCEPT !.PlaybackSpeed = v] \in PlaylistState
           /\ WellFormed([s EXCEPT !.PlaybackSpeed = v])
<1> DEFINE t == [s EXCEPT !.PlaybackSpeed = v]
<1>1. t \in PlaylistState
  BY DEF PlaylistState
<1>2. /\ SameBroadcast(s, t) /\ t.CurrentQueue = s.CurrentQueue
      /\ t.CurrentIndex = s.CurrentIndex /\ t.IsPlaying = s.IsPlaying
      /\ t.Shuffle = s.Shuffle /\ t.RandomPlay = s.RandomPlay
  BY DEF PlaylistState, SameBroadcast
<1> HIDE DEF t
<1>3. WellFormed(t)
  BY <1>1, <1>2, SettingChanged
<1> QED
  BY <1>1, <1>3 DEF t

\* IncrSeekTime does.
LEMMA SeekGood ==
    ASSUME NEW s \in PlaylistState, WellFormed(s)
    PROVE  /\ [s EXCEPT !.SeekTime = @ + 1] \in PlaylistState
           /\ WellFormed([s EXCEPT !.SeekTime = @ + 1])
<1> DEFINE seek == s.SeekTime + 1
           t == [s EXCEPT !.SeekTime = seek]
<1>1. t \in PlaylistState
  <2>1. seek \in Nat
    BY DEF PlaylistState
  <2> HIDE DEF seek
  <2> QED
    BY <2>1 DEF PlaylistState
<1>2. /\ SameBroadcast(s, t) /\ t.CurrentQueue = s.CurrentQueue
      /\ t.CurrentIndex = s.CurrentIndex /\ t.IsPlaying = s.IsPlaying
      /\ t.Shuffle = s.Shuffle /\ t.RandomPlay = s.RandomPlay
  BY DEF PlaylistState, SameBroadcast
<1> HIDE DEF t
<1>3. WellFormed(t)
  BY <1>1, <1>2, SettingChanged
<1> QED
  BY <1>1, <1>3 DEF t

\* A queue of users' songs.
UsersOnly(q) == \A k \in 1..Len(q) : ~q[k].IsBroadcast /\ q[k].QueueID.replays = 0

\* What is left of a queue without its current song is the users'.
LEMMA WithoutCurrent ==
    ASSUME NEW s \in PlaylistState, WellFormed(s), s.CurrentQueue # <<>>
    PROVE  LET r == RemoveAt(s.CurrentQueue, s.CurrentIndex + 1)
           IN  r \in Seq(Song) /\ Len(r) \in Nat /\ Len(r) <= MaxQueue /\ UsersOnly(r)
<1> DEFINE q == s.CurrentQueue
           i == s.CurrentIndex + 1
           r == RemoveAt(q, i)
<1>1. /\ q \in Seq(Song) /\ Len(q) \in 0..MaxQueue /\ i \in 1..Len(q)
      /\ SongsFit(q, s.CurrentIndex, s.IsBroadcasting, s.BroadcastVoteReplayDone)
  BY QueueFacts
<1>2. /\ r \in Seq(Song)
      /\ Len(r) = Len(q) - 1
      /\ \A j \in 1..(Len(q) - 1) : r[j] = IF j < i THEN q[j] ELSE q[j + 1]
  BY <1>1, RemoveAtProperties
<1>3. UsersOnly(r)
  <2> SUFFICES ASSUME NEW k \in 1..Len(r)
               PROVE  ~r[k].IsBroadcast /\ r[k].QueueID.replays = 0
    BY DEF UsersOnly
  <2> DEFINE j == IF k < i THEN k ELSE k + 1
  <2> HIDE DEF r
  <2>1. j \in 1..Len(q) /\ j # s.CurrentIndex + 1 /\ r[k] = q[j]
    BY <1>1, <1>2
  <2> HIDE DEF j
  <2> QED
    BY <1>1, <2>1 DEF SongsFit
<1> HIDE DEF r
<1> QED
  BY <1>1, <1>2, <1>3, PlaylistAssumption DEF r

\* A document whose queue has become one of users' songs is well-formed if its
\* current index is.
LEMMA UsersQueueChanged ==
    ASSUME NEW s \in PlaylistState, WellFormed(s), NEW t \in PlaylistState,
           SameBroadcast(s, t), t.Shuffle = s.Shuffle, t.RandomPlay = s.RandomPlay,
           UsersOnly(t.CurrentQueue), Len(t.CurrentQueue) <= MaxQueue,
           CursorInQueue(t.CurrentQueue, t.CurrentIndex, t.IsPlaying)
    PROVE  WellFormed(t)
<1>1. ~(t.Shuffle /\ t.RandomPlay)
  BY QueueFacts
<1>2. SongsFit(t.CurrentQueue, t.CurrentIndex, s.IsBroadcasting, s.BroadcastVoteReplayDone)
  BY DEF SongsFit, UsersOnly
<1> QED
  BY <1>1, <1>2, QueueChanged

\* The queue becomes one of users' songs, played at i from the start, or not.
LEMMA PlayedAt ==
    ASSUME NEW s \in PlaylistState, WellFormed(s),
           NEW r \in Seq(Song), UsersOnly(r), Len(r) <= MaxQueue,
           NEW i \in Nat, NEW playing \in BOOLEAN, CursorInQueue(r, i, playing),
           NEW t,
           t = [s EXCEPT !.CurrentQueue = r, !.SeekTime = 0, !.IsPlaying = playing,
                         !.CurrentIndex = i]
    PROVE  t \in PlaylistState /\ WellFormed(t)
<1>1. /\ t \in PlaylistState
      /\ t.CurrentQueue = r /\ t.CurrentIndex = i /\ t.IsPlaying = playing
  BY DEF PlaylistState
<1>2. SameBroadcast(s, t) /\ t.Shuffle = s.Shuffle /\ t.RandomPlay = s.RandomPlay
  BY DEF PlaylistState, SameBroadcast
<1> QED
  BY <1>1, <1>2, UsersQueueChanged

\* executeSkipSong and HandleSongEnded on a user's song do.
LEMMA AdvancesGood ==
    ASSUME NEW s \in PlaylistState, WellFormed(s), s.CurrentQueue # <<>>,
           NEW goOn \in BOOLEAN, NEW t \in Advances(s, goOn)
    PROVE  t \in PlaylistState /\ WellFormed(t)
<1> DEFINE r == RemoveAt(s.CurrentQueue, s.CurrentIndex + 1)
           next == IF s.RandomPlay THEN 0..(Len(r) - 1)
                   ELSE {IF s.CurrentIndex >= Len(r) THEN 0 ELSE s.CurrentIndex}
<1>1. /\ r \in Seq(Song) /\ Len(r) \in Nat /\ Len(r) <= MaxQueue /\ UsersOnly(r)
      /\ s.CurrentIndex \in Nat
  BY WithoutCurrent, QueueFacts
<1>2. CASE goOn /\ Len(r) > 0
  <2>1. t \in {[s EXCEPT !.CurrentQueue = r, !.SeekTime = 0, !.IsPlaying = TRUE,
                         !.CurrentIndex = i] : i \in next}
    BY <1>2 DEF Advances
  <2>2. PICK i \in next : t = [s EXCEPT !.CurrentQueue = r, !.SeekTime = 0, !.IsPlaying = TRUE,
                                        !.CurrentIndex = i]
    BY <2>1
  <2>3. i \in Nat /\ i < Len(r)
    BY <1>1, <1>2
  <2> HIDE DEF r
  <2>4. CursorInQueue(r, i, TRUE)
    BY <1>1, <1>2, <2>3 DEF CursorInQueue
  <2> QED
    BY <1>1, <2>2, <2>3, <2>4, PlayedAt
<1>3. CASE ~(goOn /\ Len(r) > 0)
  <2>1. t = [s EXCEPT !.CurrentQueue = r, !.SeekTime = 0, !.IsPlaying = FALSE,
                      !.CurrentIndex = 0]
    BY <1>3 DEF Advances
  <2> HIDE DEF r
  <2>2. CursorInQueue(r, 0, FALSE)
    BY <1>1, CursorFits
  <2> QED
    BY <1>1, <2>1, <2>2, PlayedAt
<1> QED
  BY <1>2, <1>3

\* HandleReportError on a user's song does.
LEMMA ErrorOutcomeGood ==
    ASSUME NEW s \in PlaylistState, WellFormed(s), s.CurrentQueue # <<>>
    PROVE  ErrorOutcome(s) \in PlaylistState /\ WellFormed(ErrorOutcome(s))
<1> DEFINE r == RemoveAt(s.CurrentQueue, s.CurrentIndex + 1)
           past == s.CurrentIndex >= Len(r)
           i == IF past THEN 0 ELSE s.CurrentIndex
           playing == s.IsPlaying /\ ~past
<1>1. /\ r \in Seq(Song) /\ Len(r) \in Nat /\ Len(r) <= MaxQueue /\ UsersOnly(r)
      /\ s.CurrentIndex \in Nat /\ s.IsPlaying \in BOOLEAN
  BY WithoutCurrent, QueueFacts DEF PlaylistState
<1>2. ErrorOutcome(s) = [s EXCEPT !.CurrentQueue = r, !.SeekTime = 0, !.IsPlaying = playing,
                                  !.CurrentIndex = i]
  BY DEF ErrorOutcome
<1> HIDE DEF r
<1>3. i \in Nat /\ playing \in BOOLEAN
  BY <1>1
<1>4. /\ Len(r) = 0 => i = 0 /\ ~playing
      /\ Len(r) > 0 => i < Len(r)
  BY <1>1
<1> HIDE DEF i, playing
<1>5. CursorInQueue(r, i, playing)
  BY <1>1, <1>3, <1>4, CursorFits
<1> DEFINE t == ErrorOutcome(s)
<1>6. t = [s EXCEPT !.CurrentQueue = r, !.SeekTime = 0, !.IsPlaying = playing,
                    !.CurrentIndex = i]
  BY <1>2
<1> HIDE DEF t
<1>7. t \in PlaylistState /\ WellFormed(t)
  BY <1>1, <1>3, <1>5, <1>6, PlayedAt
<1> QED
  BY <1>7 DEF t

-----------------------------------------------------------------------------
(* Broadcasts.                                                             *)

\* What a well-formed document says about the queue a broadcast interrupted.
LEMMA SavedFacts ==
    ASSUME NEW s \in PlaylistState, WellFormed(s)
    PROVE  /\ s.SavedQueue \in Seq(Song) /\ Len(s.SavedQueue) <= MaxQueue
           /\ UsersOnly(s.SavedQueue)
           /\ s.IsBroadcasting =>
                CursorInQueue(s.SavedQueue, s.SavedCurrentIndex, s.SavedIsPlaying)
           /\ \A k \in 1..Len(s.BroadcastQueue) :
                /\ s.BroadcastQueue[k].IsBroadcast
                /\ s.BroadcastQueue[k].QueueID.replays = 0
           /\ ~s.IsBroadcasting => s.BroadcastQueue = <<>> /\ s.SavedQueue = <<>>
           /\ ~s.IsBroadcasting => UsersOnly(s.CurrentQueue)
<1>1. /\ s.SavedQueue \in Seq(Song)
      /\ DOMAIN s.SavedQueue = 1..Len(s.SavedQueue)
      /\ DOMAIN s.BroadcastQueue = 1..Len(s.BroadcastQueue)
  BY DEF PlaylistState
<1>2. Len(s.SavedQueue) <= MaxQueue
  BY DEF WellFormed, QueuesBounded
<1>3. UsersOnly(s.SavedQueue)
  BY <1>1 DEF WellFormed, BroadcastsInPlace, ReplayedOnce, UsersOnly
<1>4. s.IsBroadcasting => CursorInQueue(s.SavedQueue, s.SavedCurrentIndex, s.SavedIsPlaying)
  BY DEF WellFormed, CursorsValid
<1>5. \A k \in 1..Len(s.BroadcastQueue) :
        s.BroadcastQueue[k].IsBroadcast /\ s.BroadcastQueue[k].QueueID.replays = 0
  BY <1>1 DEF WellFormed, BroadcastsInPlace, ReplayedOnce
<1>6. ~s.IsBroadcasting => s.BroadcastQueue = <<>> /\ s.SavedQueue = <<>>
  BY DEF WellFormed, BroadcastsInPlace
<1>7. ~s.IsBroadcasting => UsersOnly(s.CurrentQueue)
  BY QueueFacts DEF SongsFit, UsersOnly
<1> QED
  BY <1>1, <1>2, <1>3, <1>4, <1>5, <1>6, <1>7

\* The current song is a broadcast only in a room that is broadcasting.
LEMMA BroadcastPlays ==
    ASSUME NEW s \in PlaylistState, WellFormed(s), s.CurrentQueue # <<>>,
           CurrentSong(s).IsBroadcast
    PROVE  s.IsBroadcasting
BY QueueFacts DEF SongsFit, CurrentSong

\* triggerInRoom keeps the document of a room that is not broadcasting well-formed.
LEMMA InterruptedGood ==
    ASSUME NEW s \in PlaylistState, WellFormed(s), ~s.IsBroadcasting,
           NEW song \in Song, song.IsBroadcast, song.QueueID.replays = 0
    PROVE  Interrupted(s, song) \in PlaylistState /\ WellFormed(Interrupted(s, song))
<1> DEFINE q == <<song>>
           t == Interrupted(s, song)
<1>1. q \in Seq(Song) /\ Len(q) = 1 /\ q[1] = song /\ q # <<>> /\ DOMAIN q = {1}
  OBVIOUS
<1>2. t = [s EXCEPT !.SavedQueue = s.CurrentQueue, !.SavedCurrentIndex = s.CurrentIndex,
                    !.SavedSeekTime = s.SeekTime, !.SavedIsPlaying = s.IsPlaying,
                    !.IsBroadcasting = TRUE, !.CurrentQueue = q, !.CurrentIndex = 0,
                    !.SeekTime = 0, !.IsPlaying = TRUE,
                    !.BroadcastVoteReplayDone = FALSE, !.BroadcastSkipLocked = FALSE]
  BY DEF Interrupted
<1> HIDE DEF q, t
<1>3. t \in PlaylistState
  BY <1>1, <1>2 DEF PlaylistState
<1>4. /\ t.CurrentQueue = q /\ t.CurrentIndex = 0 /\ t.IsBroadcasting
      /\ t.SavedQueue = s.CurrentQueue /\ t.SavedCurrentIndex = s.CurrentIndex
      /\ t.SavedIsPlaying = s.IsPlaying /\ t.BroadcastQueue = s.BroadcastQueue
      /\ t.Shuffle = s.Shuffle /\ t.RandomPlay = s.RandomPlay
  BY <1>2 DEF PlaylistState
<1>5. CursorsValid(t)
  BY <1>1, <1>4 DEF WellFormed, CursorsValid, CursorInQueue
<1>6. /\ DOMAIN s.CurrentQueue = 1..Len(s.CurrentQueue)
      /\ UsersOnly(s.CurrentQueue) /\ s.BroadcastQueue = <<>>
  BY SavedFacts DEF PlaylistState
<1>7. BroadcastsInPlace(t)
  BY <1>1, <1>4, <1>6 DEF BroadcastsInPlace, UsersOnly
<1>8. ReplayedOnce(t)
  BY <1>1, <1>4, <1>6 DEF ReplayedOnce, UsersOnly
<1>9. QueuesBounded(t) /\ ModesExclusive(t)
  <2>1. MaxQueue \in Nat /\ 1 <= MaxQueue
    BY PlaylistAssumption
  <2> QED
    BY <1>1, <1>4, <2>1 DEF WellFormed, QueuesBounded, ModesExclusive
<1>10. WellFormed(t)
  BY <1>5, <1>7, <1>8, <1>9 DEF WellFormed
<1> QED
  BY <1>3, <1>10 DEF t

\* So it does when the room is.
LEMMA QueuedGood ==
    ASSUME NEW s \in PlaylistState, WellFormed(s), s.IsBroadcasting,
           NEW song \in Song, song.IsBroadcast, song.QueueID.replays = 0
    PROVE  Queued(s, song) \in PlaylistState /\ WellFormed(Queued(s, song))
<1> DEFINE b == s.BroadcastQueue
           q == Append(b, song)
           t == Queued(s, song)
<1>1. b \in Seq(Song) /\ Len(b) \in Nat
  BY DEF PlaylistState
<1>2. /\ q \in Seq(Song) /\ Len(q) = Len(b) + 1 /\ q[Len(b) + 1] = song
      /\ DOMAIN q = 1..(Len(b) + 1)
      /\ \A i \in 1..Len(b) : q[i] = b[i]
  BY <1>1, AppendProperties
<1>3. t = [s EXCEPT !.BroadcastQueue = q]
  BY DEF Queued
<1> HIDE DEF q, t
<1>4. t \in PlaylistState /\ t.BroadcastQueue = q
  BY <1>2, <1>3 DEF PlaylistState
<1>5. /\ t.CurrentQueue = s.CurrentQueue /\ t.CurrentIndex = s.CurrentIndex
      /\ t.IsPlaying = s.IsPlaying /\ t.IsBroadcasting = s.IsBroadcasting
      /\ t.SavedQueue = s.SavedQueue /\ t.SavedCurrentIndex = s.SavedCurrentIndex
      /\ t.SavedIsPlaying = s.SavedIsPlaying
      /\ t.BroadcastVoteReplayDone = s.BroadcastVoteReplayDone
      /\ t.Shuffle = s.Shuffle /\ t.RandomPlay = s.RandomPlay
  BY <1>3 DEF PlaylistState
<1>6. CursorsValid(t) /\ QueuesBounded(t) /\ ModesExclusive(t)
  BY <1>5 DEF WellFormed, CursorsValid, QueuesBounded, ModesExclusive
<1>7. \A i \in DOMAIN q : q[i].IsBroadcast /\ q[i].QueueID.replays = 0
  <2>1. \A k \in 1..Len(b) : b[k].IsBroadcast /\ b[k].QueueID.replays = 0
    BY SavedFacts
  <2> HIDE DEF b
  <2> QED
    BY <1>1, <1>2, <2>1
<1>8. BroadcastsInPlace(t)
  BY <1>4, <1>5, <1>7 DEF WellFormed, BroadcastsInPlace
<1>9. ReplayedOnce(t)
  BY <1>4, <1>5, <1>7 DEF WellFormed, ReplayedOnce
<1>10. WellFormed(t)
  BY <1>6, <1>8, <1>9 DEF WellFormed
<1> QED
  BY <1>4, <1>10 DEF t

\* t is s with the users' queue playing again.
IsRestore(s, t) ==
    /\ t \in PlaylistState
    /\ ~t.IsBroadcasting /\ t.SavedQueue = <<>>
    /\ t.CurrentQueue = s.SavedQueue /\ t.CurrentIndex = s.SavedCurrentIndex
    /\ t.SeekTime = s.SavedSeekTime /\ t.IsPlaying = s.SavedIsPlaying
    /\ t.Shuffle = s.Shuffle /\ t.RandomPlay = s.RandomPlay

\* The end of a broadcast with none waiting keeps documents well-formed.
LEMMA RestoreGood ==
    ASSUME NEW s \in PlaylistState, WellFormed(s), s.IsBroadcasting,
           NEW t, IsRestore(s, t), t.BroadcastQueue = <<>>
    PROVE  t \in PlaylistState /\ WellFormed(t)
<1>1. /\ DOMAIN s.SavedQueue = 1..Len(s.SavedQueue)
      /\ UsersOnly(s.SavedQueue) /\ Len(s.SavedQueue) <= MaxQueue
  BY SavedFacts DEF PlaylistState
<1>2. CursorsValid(t)
  BY SavedFacts DEF IsRestore, CursorsValid
<1>3. BroadcastsInPlace(t) /\ ReplayedOnce(t)
  BY <1>1 DEF IsRestore, BroadcastsInPlace, ReplayedOnce, UsersOnly
<1>4. Len(t.SavedQueue) = 0 /\ MaxQueue \in Nat
  BY PlaylistAssumption DEF IsRestore
<1>5. QueuesBounded(t) /\ ModesExclusive(t)
  BY <1>1, <1>4 DEF IsRestore, WellFormed, QueuesBounded, ModesExclusive
<1> QED
  BY <1>2, <1>3, <1>5 DEF IsRestore, WellFormed

\* The restore every way out of a broadcast shares is one.
LEMMA RestoredIs ==
    ASSUME NEW s \in PlaylistState
    PROVE  IsRestore(s, Restored(s)) /\ Restored(s).BroadcastQueue = s.BroadcastQueue
<1> DEFINE none == <<>>
           t == Restored(s)
<1>1. none \in Seq(Song)
  OBVIOUS
<1>2. t = [s EXCEPT !.IsBroadcasting = FALSE, !.CurrentQueue = s.SavedQueue,
                    !.CurrentIndex = s.SavedCurrentIndex, !.SeekTime = s.SavedSeekTime,
                    !.IsPlaying = s.SavedIsPlaying, !.SavedQueue = none]
  BY DEF Restored
<1> HIDE DEF none, t
<1>3. t \in PlaylistState
  BY <1>1, <1>2 DEF PlaylistState
<1>4. /\ ~t.IsBroadcasting
      /\ t.CurrentQueue = s.SavedQueue /\ t.CurrentIndex = s.SavedCurrentIndex
      /\ t.SeekTime = s.SavedSeekTime /\ t.IsPlaying = s.SavedIsPlaying /\ t.SavedQueue = none
      /\ t.BroadcastQueue = s.BroadcastQueue
      /\ t.Shuffle = s.Shuffle /\ t.RandomPlay = s.RandomPlay
  BY <1>2 DEF PlaylistState
<1> QED
  BY <1>3, <1>4 DEF none, t, IsRestore

\* What the ways out do on top of it leaves it one: the flags,
LEMMA FlagsResetIs ==
    ASSUME NEW s, NEW t, IsRestore(s, t)
    PROVE  IsRestore(s, FlagsReset(t)) /\ FlagsReset(t).BroadcastQueue = t.BroadcastQueue
BY DEF FlagsReset, IsRestore, PlaylistState

\* the saved playing flag,
LEMMA SavedFlagClearedIs ==
    ASSUME NEW s, NEW t, IsRestore(s, t)
    PROVE  /\ IsRestore(s, [t EXCEPT !.SavedIsPlaying = FALSE])
           /\ [t EXCEPT !.SavedIsPlaying = FALSE].BroadcastQueue = t.BroadcastQueue
BY DEF IsRestore, PlaylistState

\* the broadcasts that wait.
LEMMA WaitingDroppedIs ==
    ASSUME NEW s, NEW t, IsRestore(s, t)
    PROVE  /\ IsRestore(s, [t EXCEPT !.BroadcastQueue = <<>>])
           /\ [t EXCEPT !.BroadcastQueue = <<>>].BroadcastQueue = <<>>
<1> DEFINE none == <<>>
<1>1. none \in Seq(Song)
  OBVIOUS
<1> HIDE DEF none
<1>2. /\ IsRestore(s, [t EXCEPT !.BroadcastQueue = none])
      /\ [t EXCEPT !.BroadcastQueue = none].BroadcastQueue = none
  BY <1>1 DEF IsRestore, PlaylistState
<1> QED
  BY <1>2 DEF none

\* executeBroadcastSkip keeps documents well-formed.
LEMMA VotedAwayGood ==
    ASSUME NEW s \in PlaylistState, WellFormed(s), s.IsBroadcasting
    PROVE  /\ VotedAway(s) \in PlaylistState /\ WellFormed(VotedAway(s))
           /\ IsRestore(s, VotedAway(s)) /\ VotedAway(s).BroadcastQueue = <<>>
<1>1. IsRestore(s, [FlagsReset(Restored(s)) EXCEPT !.SavedIsPlaying = FALSE])
  BY RestoredIs, FlagsResetIs, SavedFlagClearedIs
<1>2. VotedAway(s) = [[FlagsReset(Restored(s)) EXCEPT !.SavedIsPlaying = FALSE]
                        EXCEPT !.BroadcastQueue = <<>>]
  BY DEF VotedAway
<1>3. IsRestore(s, VotedAway(s)) /\ VotedAway(s).BroadcastQueue = <<>>
  BY <1>1, <1>2, WaitingDroppedIs
<1> QED
  BY <1>3, RestoreGood

\* restoreSavedState does.
LEMMA AdminRestoredGood ==
    ASSUME NEW s \in PlaylistState, WellFormed(s), s.IsBroadcasting
    PROVE  /\ AdminRestored(s) \in PlaylistState /\ WellFormed(AdminRestored(s))
           /\ IsRestore(s, AdminRestored(s)) /\ AdminRestored(s).BroadcastQueue = <<>>
<1>1. IsRestore(s, AdminRestored(s)) /\ AdminRestored(s).BroadcastQueue = <<>>
  BY RestoredIs, WaitingDroppedIs DEF AdminRestored
<1> QED
  BY <1>1, RestoreGood

\* The reset of an empty room does.
LEMMA RoomEmptiedGood ==
    ASSUME NEW s \in PlaylistState, WellFormed(s), s.IsBroadcasting
    PROVE  /\ RoomEmptied(s) \in PlaylistState /\ WellFormed(RoomEmptied(s))
           /\ IsRestore(s, RoomEmptied(s)) /\ RoomEmptied(s).BroadcastQueue = <<>>
<1>1. IsRestore(s, AdminRestored(s)) /\ AdminRestored(s).BroadcastQueue = <<>>
  BY RestoredIs, WaitingDroppedIs DEF AdminRestored
<1>2. IsRestore(s, RoomEmptied(s)) /\ RoomEmptied(s).BroadcastQueue = <<>>
  BY <1>1, SavedFlagClearedIs DEF RoomEmptied
<1> QED
  BY <1>2, RestoreGood

\* The next waiting broadcast starts, whatever becomes of the flags.
LEMMA NextBroadcastGood ==
    ASSUME NEW s \in PlaylistState, WellFormed(s), s.IsBroadcasting, s.BroadcastQueue # <<>>
    PROVE  /\ NextBroadcast(s) \in PlaylistState /\ WellFormed(NextBroadcast(s))
           /\ FlagsReset(NextBroadcast(s)) \in PlaylistState
           /\ WellFormed(FlagsReset(NextBroadcast(s)))
<1> DEFINE b == s.BroadcastQueue
           song == Head(b)
           rest == Tail(b)
           q == <<song>>
           t == NextBroadcast(s)
           u == FlagsReset(t)
<1>1. b \in Seq(Song) /\ Len(b) \in Nat /\ b # <<>> /\ Len(b) > 0
  BY EmptySeq DEF PlaylistState
<1>2. \A k \in 1..Len(b) : b[k].IsBroadcast /\ b[k].QueueID.replays = 0
  BY SavedFacts
<1> HIDE DEF b
<1>3. /\ song \in Song /\ song = b[1]
      /\ rest \in Seq(Song) /\ Len(rest) = Len(b) - 1
      /\ \A k \in 1..Len(rest) : rest[k] = b[k + 1]
  BY <1>1, HeadTailProperties
<1>4. song.IsBroadcast /\ song.QueueID.replays = 0
  BY <1>1, <1>2, <1>3
<1>5. \A k \in DOMAIN rest : rest[k].IsBroadcast /\ rest[k].QueueID.replays = 0
  <2> HIDE DEF rest, song
  <2>1. DOMAIN rest = 1..Len(rest)
    BY <1>3, LenProperties
  <2> QED
    BY <1>1, <1>2, <1>3, <2>1
<1> HIDE DEF song, rest
<1>6. q \in Seq(Song) /\ Len(q) = 1 /\ q[1] = song /\ q # <<>> /\ DOMAIN q = {1}
  BY <1>3
<1>7. t = [s EXCEPT !.CurrentQueue = q, !.CurrentIndex = 0,
                    !.SeekTime = 0, !.IsPlaying = TRUE, !.BroadcastQueue = rest]
  BY DEF NextBroadcast, b, song, rest
<1>8. /\ u = [t EXCEPT !.BroadcastVoteReplayDone = FALSE, !.BroadcastSkipLocked = FALSE]
  BY DEF FlagsReset
<1> HIDE DEF q, t, u
<1>9. t \in PlaylistState
  BY <1>3, <1>6, <1>7 DEF PlaylistState
<1>10. u \in PlaylistState
  BY <1>8, <1>9 DEF PlaylistState
<1>11. /\ t.CurrentQueue = q /\ t.CurrentIndex = 0 /\ t.BroadcastQueue = rest
       /\ t.IsBroadcasting = s.IsBroadcasting
       /\ t.SavedQueue = s.SavedQueue /\ t.SavedCurrentIndex = s.SavedCurrentIndex
       /\ t.SavedIsPlaying = s.SavedIsPlaying
       /\ t.Shuffle = s.Shuffle /\ t.RandomPlay = s.RandomPlay
  BY <1>7 DEF PlaylistState
<1>12. ASSUME NEW v, v = t \/ v = u
       PROVE  WellFormed(v)
  <2>1. /\ v.CurrentQueue = q /\ v.CurrentIndex = 0 /\ v.BroadcastQueue = rest
        /\ v.IsBroadcasting
        /\ v.SavedQueue = s.SavedQueue /\ v.SavedCurrentIndex = s.SavedCurrentIndex
        /\ v.SavedIsPlaying = s.SavedIsPlaying
        /\ v.Shuffle = s.Shuffle /\ v.RandomPlay = s.RandomPlay
    <3>1. CASE v = t
      BY <1>11, <3>1
    <3>2. CASE v = u
      BY <1>8, <1>9, <1>11, <3>2 DEF PlaylistState
    <3> QED
      BY <1>12, <3>1, <3>2
  <2>2. CursorsValid(v)
    BY <1>6, <2>1 DEF WellFormed, CursorsValid, CursorInQueue
  <2>3. BroadcastsInPlace(v)
    BY <1>5, <1>6, <2>1 DEF WellFormed, BroadcastsInPlace
  <2>4. ReplayedOnce(v)
    BY <1>4, <1>5, <1>6, <2>1 DEF WellFormed, ReplayedOnce
  <2>5. MaxQueue \in Nat /\ 1 <= MaxQueue
    BY PlaylistAssumption
  <2>6. QueuesBounded(v) /\ ModesExclusive(v)
    BY <1>6, <2>1, <2>5 DEF WellFormed, QueuesBounded, ModesExclusive
  <2> QED
    BY <2>2, <2>3, <2>4, <2>6 DEF WellFormed
<1> QED
  BY <1>9, <1>10, <1>12 DEF t, u

\* HandleReportError on a broadcast keeps documents well-formed.
LEMMA BroadcastErrorOutcomeGood ==
    ASSUME NEW s \in PlaylistState, WellFormed(s), s.IsBroadcasting
    PROVE  /\ BroadcastErrorOutcome(s) \in PlaylistState /\ WellFormed(BroadcastErrorOutcome(s))
           /\ IF s.BroadcastQueue # <<>> THEN BroadcastErrorOutcome(s) = NextBroadcast(s)
              ELSE /\ IsRestore(s, BroadcastErrorOutcome(s))
                   /\ BroadcastErrorOutcome(s).BroadcastQueue = <<>>
<1>1. CASE s.BroadcastQueue # <<>>
  BY <1>1, NextBroadcastGood DEF BroadcastErrorOutcome
<1>2. CASE s.BroadcastQueue = <<>>
  <2>1. BroadcastErrorOutcome(s) = [Restored(s) EXCEPT !.SavedIsPlaying = FALSE]
    BY <1>2 DEF BroadcastErrorOutcome
  <2>2. /\ IsRestore(s, BroadcastErrorOutcome(s))
        /\ BroadcastErrorOutcome(s).BroadcastQueue = <<>>
    BY <1>2, <2>1, RestoredIs, SavedFlagClearedIs
  <2> QED
    BY <1>2, <2>2, RestoreGood
<1> QED
  BY <1>1, <1>2

\* The replay of a broadcast keeps documents well-formed.
LEMMA ReplayedGood ==
    ASSUME NEW s \in PlaylistState, WellFormed(s), s.CurrentQueue # <<>>,
           CurrentSong(s).IsBroadcast, ~s.BroadcastVoteReplayDone
    PROVE  Replayed(s) \in PlaylistState /\ WellFormed(Replayed(s))
<1> DEFINE q == s.CurrentQueue
           i == s.CurrentIndex + 1
           song == [q[i] EXCEPT !.QueueID.replays = @ + 1]
           r == [q EXCEPT ![i] = song]
           t == Replayed(s)
<1>1. /\ q \in Seq(Song) /\ Len(q) \in 0..MaxQueue /\ i \in 1..Len(q)
      /\ s.CurrentIndex \in Nat /\ q[i] \in Song
      /\ SongsFit(q, s.CurrentIndex, s.IsBroadcasting, s.BroadcastVoteReplayDone)
      /\ ~(s.Shuffle /\ s.RandomPlay)
  BY QueueFacts
<1>2. s.IsBroadcasting /\ q[i].IsBroadcast /\ q[i].QueueID.replays = 0
  BY <1>1, BroadcastPlays DEF SongsFit, CurrentSong
<1>3. song \in Song /\ song.IsBroadcast /\ song.QueueID.replays = 1
  <2> DEFINE old == q[i]
             id == [old.QueueID EXCEPT !.replays = old.QueueID.replays + 1]
  <2>1. old \in Song /\ old.QueueID \in QueueID
    BY <1>1 DEF Song
  <2>2. id \in QueueID /\ id.replays = 1
    BY <1>2, <2>1 DEF QueueID
  <2>3. song = [old EXCEPT !.QueueID = id]
    BY <2>1 DEF Song
  <2> HIDE DEF id, song
  <2> QED
    BY <1>2, <2>1, <2>2, <2>3 DEF Song
<1>4. t = [s EXCEPT !.SeekTime = 0, !.BroadcastVoteReplayDone = TRUE,
                    !.BroadcastSkipLocked = TRUE, !.CurrentQueue = r]
  BY DEF Replayed
<1> HIDE DEF song, t
<1>5. /\ r \in Seq(Song) /\ Len(r) = Len(q)
      /\ \A j \in 1..Len(q) : r[j] = IF j = i THEN song ELSE q[j]
  BY <1>1, <1>3, ExceptSeq
<1> HIDE DEF r
<1>6. t \in PlaylistState
  BY <1>4, <1>5 DEF PlaylistState
<1>7. /\ t.CurrentQueue = r /\ t.CurrentIndex = s.CurrentIndex
      /\ t.IsPlaying = s.IsPlaying /\ t.IsBroadcasting = s.IsBroadcasting
      /\ t.BroadcastVoteReplayDone /\ t.BroadcastQueue = s.BroadcastQueue
      /\ t.SavedQueue = s.SavedQueue /\ t.SavedCurrentIndex = s.SavedCurrentIndex
      /\ t.SavedIsPlaying = s.SavedIsPlaying
      /\ t.Shuffle = s.Shuffle /\ t.RandomPlay = s.RandomPlay
  BY <1>4 DEF PlaylistState
<1>8. /\ DOMAIN r = 1..Len(q) /\ DOMAIN s.SavedQueue = 1..Len(s.SavedQueue)
      /\ DOMAIN s.BroadcastQueue = 1..Len(s.BroadcastQueue)
  BY <1>5, LenProperties DEF PlaylistState
<1>9. CursorInQueue(r, s.CurrentIndex, s.IsPlaying)
  <2>1. r # <<>>
    BY <1>1, <1>5
  <2> QED
    BY <1>1, <1>5, <2>1 DEF CursorInQueue
<1>10. CursorsValid(t)
  BY <1>7, <1>9 DEF WellFormed, CursorsValid
<1>11. \A k \in 1..Len(q) :
         /\ r[k].IsBroadcast => k = i
         /\ r[k].QueueID.replays # 0 => r[k].QueueID.replays = 1 /\ r[k].IsBroadcast
  BY <1>1, <1>2, <1>3, <1>5 DEF SongsFit
<1>12. BroadcastsInPlace(t)
  BY <1>2, <1>7, <1>8, <1>11 DEF WellFormed, BroadcastsInPlace
<1>13. ReplayedOnce(t)
  BY <1>7, <1>8, <1>11 DEF WellFormed, ReplayedOnce
<1>14. QueuesBounded(t) /\ ModesExclusive(t)
  BY <1>5, <1>7 DEF WellFormed, QueuesBounded, ModesExclusive
<1>15. WellFormed(t)
  BY <1>10, <1>12, <1>13, <1>14 DEF WellFormed
<1> QED
  BY <1>6, <1>15 DEF t

\* HandleSongEnded on a broadcast does.
LEMMA BroadcastEndOutcomeGood ==
    ASSUME NEW s \in PlaylistState, WellFormed(s), s.CurrentQueue # <<>>,
           CurrentSong(s).IsBroadcast, NEW allowSkip \in BOOLEAN
    PROVE  /\ BroadcastEndOutcome(s, allowSkip) \in PlaylistState
           /\ WellFormed(BroadcastEndOutcome(s, allowSkip))
           /\ LET t == BroadcastEndOutcome(s, allowSkip)
              IN  \/ s.BroadcastQueue # <<>> /\ t = FlagsReset(NextBroadcast(s))
                  \/ ~s.BroadcastVoteReplayDone /\ t = Replayed(s)
                  \/ IsRestore(s, t) /\ t.BroadcastQueue = <<>>
<1> DEFINE t == BroadcastEndOutcome(s, allowSkip)
<1>1. s.IsBroadcasting
  BY BroadcastPlays
<1>2. CASE s.BroadcastQueue # <<>>
  <2>1. t = FlagsReset(NextBroadcast(s))
    BY <1>2 DEF BroadcastEndOutcome
  <2> QED
    BY <1>1, <1>2, <2>1, NextBroadcastGood
<1>3. CASE s.BroadcastQueue = <<>> /\ allowSkip /\ ~s.BroadcastVoteReplayDone
  <2>1. t = Replayed(s)
    BY <1>3 DEF BroadcastEndOutcome
  <2> QED
    BY <1>3, <2>1, ReplayedGood
<1>4. CASE s.BroadcastQueue = <<>> /\ ~(allowSkip /\ ~s.BroadcastVoteReplayDone)
  <2>1. t = [FlagsReset(Restored(s)) EXCEPT !.SavedIsPlaying = FALSE]
    BY <1>4 DEF BroadcastEndOutcome
  <2>2. IsRestore(s, FlagsReset(Restored(s))) /\ FlagsReset(Restored(s)).BroadcastQueue = <<>>
    BY <1>4, RestoredIs, FlagsResetIs
  <2>3. IsRestore(s, t) /\ t.BroadcastQueue = <<>>
    BY <2>1, <2>2, SavedFlagClearedIs
  <2> QED
    BY <1>1, <2>3, RestoreGood
<1> QED
  BY <1>2, <1>3, <1>4

\* The document of a new room is well-formed.
LEMMA EmptyStateGood == EmptyState \in PlaylistState /\ WellFormed(EmptyState)
<1>1. EmptyState \in PlaylistState
  BY DEF EmptyState, PlaylistState
<1>2. CursorsValid(EmptyState) /\ BroadcastsInPlace(EmptyState) /\ ReplayedOnce(EmptyState)
  BY DEF EmptyState, CursorsValid, CursorInQueue, BroadcastsInPlace, ReplayedOnce
<1>3. QueuesBounded(EmptyState) /\ ModesExclusive(EmptyState)
  BY PlaylistAssumption DEF EmptyState, QueuesBounded, ModesExclusive
<1> QED
  BY <1>1, <1>2, <1>3 DEF WellFormed
=============================================================================
