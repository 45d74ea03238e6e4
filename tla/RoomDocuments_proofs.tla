------------------------ MODULE RoomDocuments_proofs ------------------------
(***************************************************************************)
(* What becomes of the songs.  Every document of a room is computed from   *)
(* one that was there before (Makes), and what a request does to the queue *)
(* ids in it is one of eight things.  From this follow which songs a       *)
(* request takes out, whose seek time stands in a document and, as long as *)
(* no two handlers overlap, that no song is lost, that a broadcast is an   *)
(* interlude, that a song is recorded once and that the vote on a          *)
(* broadcast does not outlive it.                                          *)
(***************************************************************************)
EXTENDS RoomSteps_proofs

-----------------------------------------------------------------------------
(* The queue ids of a queue.                                               *)

IDsOf(q) == {q[i].QueueID : i \in DOMAIN q}

Uuids(q) == {id.uuid : id \in IDsOf(q)}

\* No two songs of the queue come from one request, replays included.
Distinct(q) == \A i, j \in DOMAIN q : q[i].QueueID.uuid = q[j].QueueID.uuid => i = j

\* An empty queue has none.
LEMMA EmptyIDs == IDsOf(<<>>) = {} /\ Distinct(<<>>)
BY DEF IDsOf, Distinct

\* A queue of one song has one.
LEMMA SingleIDs ==
    ASSUME NEW song
    PROVE  IDsOf(<<song>>) = {song.QueueID} /\ Distinct(<<song>>)
BY DEF IDsOf, Distinct

\* A song appended brings its id.
LEMMA AppendIDs ==
    ASSUME NEW q \in Seq(Song), NEW song \in Song
    PROVE  /\ IDsOf(Append(q, song)) = IDsOf(q) \cup {song.QueueID}
           /\ Distinct(q) /\ song.QueueID.uuid \notin Uuids(q) => Distinct(Append(q, song))
<1> DEFINE n == Len(q)
           r == Append(q, song)
<1>1. /\ n \in Nat /\ DOMAIN q = 1..n /\ DOMAIN r = 1..(n + 1)
      /\ r[n + 1] = song /\ \A i \in 1..n : r[i] = q[i]
  BY AppendProperties
<1> HIDE DEF n, r
<1>2. 1..(n + 1) = (1..n) \cup {n + 1}
  BY <1>1
<1>3. IDsOf(r) = IDsOf(q) \cup {song.QueueID}
  BY <1>1, <1>2 DEF IDsOf
<1>4. ASSUME Distinct(q), song.QueueID.uuid \notin Uuids(q)
      PROVE  Distinct(r)
  <2>1. \A i \in 1..n : q[i].QueueID.uuid # song.QueueID.uuid
    BY <1>1, <1>4 DEF Uuids, IDsOf
  <2> QED
    BY <1>1, <1>2, <1>4, <2>1 DEF Distinct
<1> QED
  BY <1>3, <1>4 DEF r

\* A song removed takes its id with it and no other.
LEMMA RemoveIDs ==
    ASSUME NEW q \in Seq(Song), NEW i \in 1..Len(q), Distinct(q)
    PROVE  /\ q[i].QueueID \in IDsOf(q)
           /\ IDsOf(RemoveAt(q, i)) = IDsOf(q) \ {q[i].QueueID}
           /\ Distinct(RemoveAt(q, i))
<1> DEFINE n == Len(q)
           r == RemoveAt(q, i)
<1>1. /\ n \in Nat /\ DOMAIN q = 1..n /\ DOMAIN r = 1..(n - 1)
      /\ \A j \in 1..(n - 1) : r[j] = IF j < i THEN q[j] ELSE q[j + 1]
  BY RemoveAtProperties
<1> HIDE DEF n, r
<1>2. i \in 1..n
  BY DEF n
<1> DEFINE from(j) == IF j < i THEN j ELSE j + 1
<1>3. \A j \in 1..(n - 1) : from(j) \in 1..n /\ from(j) # i /\ r[j] = q[from(j)]
  BY <1>1, <1>2
<1>4. \A k \in 1..n : k # i => \E j \in 1..(n - 1) : from(j) = k
  <2> TAKE k \in 1..n
  <2> HAVE k # i
  <2>1. CASE k < i
    <3>1. k \in 1..(n - 1) /\ from(k) = k
      BY <1>1, <1>2, <2>1
    <3> QED
      BY <3>1
  <2>2. CASE k > i
    <3>1. k - 1 \in 1..(n - 1) /\ from(k - 1) = k
      BY <1>1, <1>2, <2>2
    <3> QED
      BY <3>1
  <2> QED
    BY <1>1, <1>2, <2>1, <2>2
<1>5. \A j, k \in 1..(n - 1) : from(j) = from(k) => j = k
  BY <1>1, <1>2
<1> HIDE DEF from
<1>6. q[i].QueueID \in IDsOf(q)
  BY <1>1, <1>2 DEF IDsOf
<1>7. \A k \in 1..n : q[k].QueueID = q[i].QueueID => k = i
  BY <1>1, <1>2 DEF Distinct
<1>8. IDsOf(r) = IDsOf(q) \ {q[i].QueueID}
  <2>1. \A id \in IDsOf(r) : id \in IDsOf(q) /\ id # q[i].QueueID
    BY <1>1, <1>3, <1>7 DEF IDsOf
  <2>2. \A id \in IDsOf(q) : id # q[i].QueueID => id \in IDsOf(r)
    <3> TAKE id \in IDsOf(q)
    <3> HAVE id # q[i].QueueID
    <3>1. PICK k \in 1..n : id = q[k].QueueID
      BY <1>1 DEF IDsOf
    <3>2. PICK j \in 1..(n - 1) : from(j) = k
      BY <1>4, <3>1
    <3> QED
      BY <1>1, <1>3, <3>1, <3>2 DEF IDsOf
  <2> QED
    BY <2>1, <2>2
<1>9. Distinct(r)
  BY <1>1, <1>3, <1>5 DEF Distinct
<1> QED
  BY <1>6, <1>8, <1>9 DEF r

\* Songs that change places keep their ids.
LEMMA PermutedIDs ==
    ASSUME NEW q \in Seq(Song), NEW r \in Seq(Song), Len(r) = Len(q),
           NEW f \in Bijection(1..Len(q), 1..Len(q)),
           \A k \in 1..Len(q) : r[k] = q[f[k]]
    PROVE  /\ IDsOf(r) = IDsOf(q)
           /\ Distinct(q) => Distinct(r)
<1> DEFINE n == Len(q)
<1>1. DOMAIN q = 1..n /\ DOMAIN r = 1..n
  OBVIOUS
<1> HIDE DEF n
<1>2. /\ \A k \in 1..n : f[k] \in 1..n /\ r[k] = q[f[k]]
      /\ \A j, k \in 1..n : f[j] = f[k] => j = k
      /\ \A m \in 1..n : \E k \in 1..n : f[k] = m
  BY DEF n, Bijection, Injection, Surjection, IsInjective
<1>3. \A id \in IDsOf(r) : id \in IDsOf(q)
  BY <1>1, <1>2 DEF IDsOf
<1>4. \A id \in IDsOf(q) : id \in IDsOf(r)
  <2> TAKE id \in IDsOf(q)
  <2>1. PICK m \in 1..n : id = q[m].QueueID
    BY <1>1 DEF IDsOf
  <2>2. PICK k \in 1..n : f[k] = m
    BY <1>2, <2>1
  <2>3. r[k].QueueID = id
    BY <1>2, <2>1, <2>2
  <2> QED
    BY <1>1, <2>3 DEF IDsOf
<1>5. Distinct(q) => Distinct(r)
  <2> SUFFICES ASSUME Distinct(q), NEW j \in 1..n, NEW k \in 1..n,
                      r[j].QueueID.uuid = r[k].QueueID.uuid
               PROVE  j = k
    BY <1>1 DEF Distinct
  <2>1. f[j] \in 1..n /\ f[k] \in 1..n /\ r[j] = q[f[j]] /\ r[k] = q[f[k]]
    BY <1>2
  <2>2. f[j] = f[k]
    BY <1>1, <2>1 DEF Distinct
  <2> QED
    BY <1>2, <2>2
<1> QED
  BY <1>3, <1>4, <1>5

\* So does a song that is moved.
LEMMA MovedIDs ==
    ASSUME NEW q \in Seq(Song), NEW a \in 1..Len(q), NEW b \in 1..Len(q)
    PROVE  /\ IDsOf(Moved(q, a, b)) = IDsOf(q)
           /\ Distinct(q) => Distinct(Moved(q, a, b))
<1> DEFINE n == Len(q)
           r == Moved(q, a, b)
           f == [k \in 1..n |-> Origin(k, a, b)]
<1>1. /\ r \in Seq(Song) /\ Len(r) = n /\ n \in Nat
      /\ \A k \in 1..n : f[k] \in 1..n /\ r[k] = q[f[k]]
  BY MoveProperties
<1>2. \A j, k \in 1..n : f[j] = f[k] => j = k
  BY <1>1 DEF Origin
<1>3. \A m \in 1..n : \E k \in 1..n : f[k] = m
  <2> TAKE m \in 1..n
  <2> DEFINE p == IF m < a THEN m ELSE m - 1
             k == IF m = a THEN b ELSE IF p < b THEN p ELSE p + 1
  <2>1. k \in 1..n /\ Origin(k, a, b) = m
    BY <1>1 DEF Origin
  <2> WITNESS k \in 1..n
  <2> QED
    BY <2>1
<1>4. f \in Bijection(1..n, 1..n)
  <2>1. f \in [1..n -> 1..n]
    BY <1>1
  <2> HIDE DEF f, n
  <2> QED
    BY <1>2, <1>3, <2>1 DEF Bijection, Injection, Surjection, IsInjective
<1> HIDE DEF f, r
<1> QED
  BY <1>1, <1>4, PermutedIDs DEF r

\* The first of a queue that is not empty, and the rest.
LEMMA HeadTailIDs ==
    ASSUME NEW q \in Seq(Song), q # <<>>
    PROVE  /\ Head(q) \in Song /\ Head(q).QueueID \in IDsOf(q)
           /\ IDsOf(Tail(q)) \subseteq IDsOf(q)
           /\ Distinct(q) => Distinct(Tail(q)) /\ Head(q).QueueID.uuid \notin Uuids(Tail(q))
<1> DEFINE n == Len(q)
           r == Tail(q)
<1>1. /\ n \in Nat /\ n > 0 /\ DOMAIN q = 1..n /\ Head(q) = q[1]
      /\ DOMAIN r = 1..(n - 1) /\ \A i \in 1..(n - 1) : r[i] = q[i + 1]
  BY HeadTailProperties, EmptySeq
<1>2. 1 \in 1..n /\ \A i \in 1..(n - 1) : i + 1 \in 1..n
  BY <1>1
<1>3. Head(q) \in Song
  BY <1>1, <1>2, ElementOfSeq
<1> HIDE DEF n, r
<1>4. Head(q).QueueID \in IDsOf(q) /\ IDsOf(r) \subseteq IDsOf(q)
  <2>1. \A id \in IDsOf(r) : \E i \in 1..(n - 1) : id = q[i + 1].QueueID
    <3> TAKE id \in IDsOf(r)
    <3>1. PICK i \in 1..(n - 1) : id = r[i].QueueID
      BY <1>1 DEF IDsOf
    <3> QED
      BY <1>1, <3>1
  <2> QED
    BY <1>1, <1>2, <2>1 DEF IDsOf
<1>5. ASSUME Distinct(q)
      PROVE  Distinct(r) /\ Head(q).QueueID.uuid \notin Uuids(r)
  <2>1. \A i, j \in 1..(n - 1) : r[i].QueueID.uuid = r[j].QueueID.uuid => i + 1 = j + 1
    <3> TAKE i \in 1..(n - 1), j \in 1..(n - 1)
    <3>1. r[i] = q[i + 1] /\ r[j] = q[j + 1] /\ i + 1 \in DOMAIN q /\ j + 1 \in DOMAIN q
      BY <1>1, <1>2
    <3> QED
      BY <1>5, <3>1 DEF Distinct
  <2>2. Distinct(r)
    BY <1>1, <2>1 DEF Distinct
  <2>3. \A i \in 1..(n - 1) : i + 1 # 1 /\ r[i].QueueID.uuid # q[1].QueueID.uuid
    BY <1>1, <1>2, <1>5 DEF Distinct
  <2> QED
    BY <1>1, <2>2, <2>3 DEF Uuids, IDsOf
<1> QED
  BY <1>3, <1>4, <1>5 DEF r

-----------------------------------------------------------------------------
(* What a request does to the songs of a document.                         *)

\* What stands beside the queue being played.
Beside(s) ==
    <<s.IsBroadcasting, s.SavedQueue, s.SavedCurrentIndex, s.SavedSeekTime, s.SavedIsPlaying,
      s.BroadcastQueue>>

\* The seek time starts over or stays with the current song.
SeekKept(s, t) ==
    \/ t.SeekTime = 0
    \/ /\ t.SeekTime = s.SeekTime
       /\ s.CurrentQueue # <<>> => t.CurrentQueue # <<>> /\ CurrentSong(t) = CurrentSong(s)

\* A song more, the same songs, a song less, the song once more.
Gains(s, t, id) ==
    /\ Beside(t) = Beside(s) /\ SeekKept(s, t)
    /\ IDsOf(t.CurrentQueue) = IDsOf(s.CurrentQueue) \cup {id}
    /\ Distinct(s.CurrentQueue) /\ id.uuid \notin Uuids(s.CurrentQueue) => Distinct(t.CurrentQueue)

Rearranges(s, t) ==
    /\ Beside(t) = Beside(s) /\ SeekKept(s, t)
    /\ IDsOf(t.CurrentQueue) = IDsOf(s.CurrentQueue)
    /\ Distinct(s.CurrentQueue) => Distinct(t.CurrentQueue)

Loses(s, t, id) ==
    /\ Beside(t) = Beside(s) /\ SeekKept(s, t)
    /\ Distinct(s.CurrentQueue) =>
         /\ id \in IDsOf(s.CurrentQueue)
         /\ IDsOf(t.CurrentQueue) = IDsOf(s.CurrentQueue) \ {id}
         /\ Distinct(t.CurrentQueue)

Again(id) == [uuid |-> id.uuid, replays |-> id.replays + 1]

PlaysAgain(s, t, id) ==
    /\ s.IsBroadcasting /\ Beside(t) = Beside(s) /\ t.SeekTime = 0
    /\ Distinct(s.CurrentQueue) =>
         /\ id \in IDsOf(s.CurrentQueue)
         /\ IDsOf(t.CurrentQueue) = (IDsOf(s.CurrentQueue) \ {id}) \cup {Again(id)}
         /\ Distinct(t.CurrentQueue)

\* The next broadcast, the users' queue, a broadcast instead, a broadcast that waits.
GoesOn(s, t) ==
    /\ s.IsBroadcasting /\ t.IsBroadcasting /\ Saved(t) = Saved(s)
    /\ s.BroadcastQueue # <<>> /\ t.BroadcastQueue = Tail(s.BroadcastQueue)
    /\ t.CurrentQueue = <<Head(s.BroadcastQueue)>> /\ t.SeekTime = 0

Restores(s, t) ==
    /\ s.IsBroadcasting /\ ~t.IsBroadcasting /\ Playing(t) = Saved(s)
    /\ t.SavedQueue = <<>> /\ t.BroadcastQueue = <<>>

Interrupts(s, t, id) ==
    /\ ~s.IsBroadcasting /\ t.IsBroadcasting /\ Saved(t) = Playing(s)
    /\ t.CurrentQueue = <<BroadcastSong(id)>> /\ t.SeekTime = 0
    /\ t.BroadcastQueue = s.BroadcastQueue

Waits(s, t, id) ==
    /\ s.IsBroadcasting /\ t.IsBroadcasting /\ Playing(t) = Playing(s) /\ Saved(t) = Saved(s)
    /\ t.BroadcastQueue = Append(s.BroadcastQueue, BroadcastSong(id))

\* HandleAddSong adds its song.
LEMMA WithSongGains ==
    ASSUME NEW s \in PlaylistState, WellFormed(s), NEW song \in Song
    PROVE  Gains(s, WithSong(s, song), song.QueueID)
<1> DEFINE q == s.CurrentQueue
           r == Append(q, song)
           t == WithSong(s, song)
<1>1. q \in Seq(Song) /\ Len(q) \in Nat /\ (q = <<>> <=> Len(q) = 0) /\ (q = <<>> => ~s.IsPlaying)
  BY QueueFacts
<1>2. /\ IDsOf(r) = IDsOf(q) \cup {song.QueueID} /\ Len(r) = Len(q) + 1
      /\ Distinct(q) /\ song.QueueID.uuid \notin Uuids(q) => Distinct(r)
  BY <1>1, AppendIDs, AppendProperties
<1>3. \/ t = [s EXCEPT !.CurrentQueue = r, !.IsPlaying = TRUE, !.CurrentIndex = 0, !.SeekTime = 0]
      \/ q # <<>> /\ t = [s EXCEPT !.CurrentQueue = r]
  BY <1>1, <1>2 DEF WithSong
<1>4. r # <<>>
  BY <1>1, <1>2
<1> HIDE DEF r, t
<1>5. t.CurrentQueue = r /\ Beside(t) = Beside(s)
  BY <1>3 DEF PlaylistState, Beside
<1>6. SeekKept(s, t)
  <2>1. t.SeekTime = 0 \/ (q # <<>> /\ t.SeekTime = s.SeekTime)
    BY <1>3 DEF PlaylistState
  <2>2. q # <<>> => CurrentSong(t) = CurrentSong(s)
    BY WithSongKeeps DEF t
  <2> QED
    BY <1>4, <1>5, <2>1, <2>2 DEF SeekKept
<1>7. Gains(s, t, song.QueueID)
  BY <1>2, <1>5, <1>6 DEF Gains
<1> QED
  BY <1>7 DEF t

\* executeRemoveSong takes its song out.
LEMMA WithoutSongLoses ==
    ASSUME NEW s \in PlaylistState, WellFormed(s),
           NEW i \in 1..Len(s.CurrentQueue), i # s.CurrentIndex + 1
    PROVE  Loses(s, WithoutSong(s, i), s.CurrentQueue[i].QueueID)
<1> DEFINE q == s.CurrentQueue
           r == RemoveAt(q, i)
           c == IF i - 1 < s.CurrentIndex THEN s.CurrentIndex - 1 ELSE s.CurrentIndex
           t == WithoutSong(s, i)
<1>1. q \in Seq(Song) /\ Len(q) \in Nat /\ s.CurrentIndex \in Nat /\ s.CurrentIndex < Len(q)
  BY QueueFacts
<1>2. Len(r) = Len(q) - 1 /\ r \in Seq(Song)
  BY <1>1, RemoveAtProperties
<1>3. Len(r) > 0
  BY <1>1, <1>2
<1>4. r # <<>>
  BY <1>2, <1>3
<1>5. t = [s EXCEPT !.CurrentQueue = r, !.CurrentIndex = c]
  BY DEF WithoutSong
<1>6. Distinct(q) => /\ q[i].QueueID \in IDsOf(q)
                     /\ IDsOf(r) = IDsOf(q) \ {q[i].QueueID} /\ Distinct(r)
  BY <1>1, RemoveIDs
<1>7. CurrentSong(t) = CurrentSong(s)
  BY WithoutSongKeeps
<1> HIDE DEF r, t, c
<1>8. t.CurrentQueue = r /\ Beside(t) = Beside(s) /\ t.SeekTime = s.SeekTime
  BY <1>5 DEF PlaylistState, Beside
<1>9. Loses(s, t, q[i].QueueID)
  BY <1>4, <1>6, <1>7, <1>8 DEF Loses, SeekKept
<1> QED
  BY <1>9 DEF t

\* HandleReorderQueue only moves one.
LEMMA ReorderedRearranges ==
    ASSUME NEW s \in PlaylistState, WellFormed(s),
           NEW from \in 0..(Len(s.CurrentQueue) - 1), NEW to \in 0..(Len(s.CurrentQueue) - 1)
    PROVE  Rearranges(s, Reordered(s, from, to))
<1> DEFINE q == s.CurrentQueue
           a == from + 1
           b == to + 1
           u == Moved(q, a, b)
           cur == s.CurrentIndex
           c == CASE from = cur              -> to
                  [] from < cur /\ to >= cur -> cur - 1
                  [] from > cur /\ to <= cur -> cur + 1
                  [] OTHER                   -> cur
           t == Reordered(s, from, to)
<1>1. q \in Seq(Song) /\ Len(q) \in Nat /\ a \in 1..Len(q) /\ b \in 1..Len(q)
  BY QueueFacts
<1>2. t = [s EXCEPT !.CurrentQueue = u, !.CurrentIndex = c]
  BY DEF Reordered, Moved
<1> HIDE DEF a, b
<1>3. /\ IDsOf(u) = IDsOf(q) /\ (Distinct(q) => Distinct(u))
      /\ u \in Seq(Song) /\ Len(u) = Len(q)
  BY <1>1, MovedIDs, MoveProperties
<1>4. u # <<>>
  BY <1>1, <1>3
<1>5. CurrentSong(t) = CurrentSong(s)
  BY ReorderedKeeps
<1> HIDE DEF u, t, c
<1>6. t.CurrentQueue = u /\ Beside(t) = Beside(s) /\ t.SeekTime = s.SeekTime
  BY <1>2 DEF PlaylistState, Beside
<1>7. Rearranges(s, t)
  BY <1>3, <1>4, <1>5, <1>6 DEF Rearranges, SeekKept
<1> QED
  BY <1>7 DEF t

\* HandleSetPlaybackMode at most shuffles.
LEMMA ModeChangesRearrange ==
    ASSUME NEW s \in PlaylistState, WellFormed(s),
           NEW autoplay \in BOOLEAN, NEW shuffle \in BOOLEAN, NEW random \in BOOLEAN,
           NEW t \in ModeChanges(s, autoplay, shuffle, random)
    PROVE  Rearranges(s, t)
<1> DEFINE u == [s EXCEPT !.Autoplay = autoplay, !.Shuffle = shuffle, !.RandomPlay = random]
           q == s.CurrentQueue
           n == Len(q)
<1>1. t = u \/ t \in Shuffles(u)
  BY DEF ModeChanges
<1>2. /\ u \in PlaylistState /\ u.CurrentQueue = q /\ u.CurrentIndex = s.CurrentIndex
      /\ Beside(u) = Beside(s) /\ u.SeekTime = s.SeekTime
  BY DEF PlaylistState, Beside
<1>3. q \in Seq(Song) /\ n \in Nat /\ (q = <<>> <=> n = 0)
  BY QueueFacts
<1>4. q # <<>> => CurrentSong(t) = CurrentSong(s)
  BY ModeChangesKeep
<1> HIDE DEF u
<1>5. CASE t = u
  BY <1>2, <1>4, <1>5 DEF Rearranges, SeekKept
<1>6. CASE t \in Shuffles(u)
  <2>1. PICK p \in Bijection(1..n, 1..n) :
          t = [u EXCEPT !.CurrentQueue = [i \in 1..n |-> q[p[i]]]]
    BY <1>2, <1>6 DEF Shuffles
  <2> DEFINE r == [i \in 1..n |-> q[p[i]]]
  <2>2. \A i \in 1..n : p[i] \in 1..n
    BY DEF Bijection, Injection, Surjection
  <2>3. \A i \in 1..n : q[p[i]] \in Song
    BY <1>3, <2>2, ElementOfSeq
  <2>4. r \in Seq(Song) /\ Len(r) = n /\ \A i \in 1..n : r[i] = q[p[i]]
    BY <1>3, <2>3
  <2> HIDE DEF r
  <2>5. IDsOf(r) = IDsOf(q) /\ (Distinct(q) => Distinct(r))
    BY <1>3, <2>4, PermutedIDs
  <2>6. t.CurrentQueue = r /\ Beside(t) = Beside(u) /\ t.SeekTime = u.SeekTime
    BY <1>2, <2>1 DEF PlaylistState, Beside, r
  <2>7. q # <<>> => r # <<>>
    BY <1>3, <2>4
  <2> QED
    BY <1>2, <1>4, <2>5, <2>6, <2>7 DEF Rearranges, SeekKept
<1> QED
  BY <1>1, <1>5, <1>6

\* HandleSetPlaybackSpeed touches none.
LEMMA SpeedRearranges ==
    ASSUME NEW s \in PlaylistState, NEW v
    PROVE  Rearranges(s, [s EXCEPT !.PlaybackSpeed = v])
BY DEF PlaylistState, Rearranges, SeekKept, Beside, CurrentSong

\* The current song leaves the queue and the next one starts, if any.
LEMMA CurrentLeaves ==
    ASSUME NEW s \in PlaylistState, WellFormed(s), s.CurrentQueue # <<>>,
           NEW i \in Nat, NEW playing \in BOOLEAN, NEW t,
           t = [s EXCEPT !.CurrentQueue = RemoveAt(s.CurrentQueue, s.CurrentIndex + 1),
                         !.SeekTime = 0, !.IsPlaying = playing, !.CurrentIndex = i]
    PROVE  Loses(s, t, CurrentSong(s).QueueID)
<1> DEFINE q == s.CurrentQueue
           c == s.CurrentIndex + 1
           r == RemoveAt(q, c)
<1>1. q \in Seq(Song) /\ c \in 1..Len(q)
  BY QueueFacts
<1>2. Distinct(q) => /\ q[c].QueueID \in IDsOf(q)
                     /\ IDsOf(r) = IDsOf(q) \ {q[c].QueueID} /\ Distinct(r)
  BY <1>1, RemoveIDs
<1> HIDE DEF r
<1>3. t.CurrentQueue = r /\ Beside(t) = Beside(s) /\ t.SeekTime = 0
  BY DEF PlaylistState, Beside, r
<1> QED
  BY <1>2, <1>3 DEF Loses, SeekKept, CurrentSong

\* executeSkipSong and HandleSongEnded on a user's song take it out.
LEMMA AdvancesLose ==
    ASSUME NEW s \in PlaylistState, WellFormed(s), s.CurrentQueue # <<>>,
           NEW goOn \in BOOLEAN, NEW t \in Advances(s, goOn)
    PROVE  Loses(s, t, CurrentSong(s).QueueID)
<1> DEFINE r == RemoveAt(s.CurrentQueue, s.CurrentIndex + 1)
           next == IF s.RandomPlay THEN 0..(Len(r) - 1)
                   ELSE {IF s.CurrentIndex >= Len(r) THEN 0 ELSE s.CurrentIndex}
<1>1. Len(r) \in Nat /\ s.CurrentIndex \in Nat
  BY WithoutCurrent, QueueFacts
<1>2. CASE goOn /\ Len(r) > 0
  <2>1. t \in {[s EXCEPT !.CurrentQueue = r, !.SeekTime = 0, !.IsPlaying = TRUE,
                         !.CurrentIndex = i] : i \in next}
    BY <1>2 DEF Advances
  <2>2. PICK i \in next : t = [s EXCEPT !.CurrentQueue = r, !.SeekTime = 0, !.IsPlaying = TRUE,
                                        !.CurrentIndex = i]
    BY <2>1
  <2>3. i \in Nat
    BY <1>1, <1>2
  <2> QED
    BY <2>2, <2>3, CurrentLeaves
<1>3. CASE ~(goOn /\ Len(r) > 0)
  <2>1. t = [s EXCEPT !.CurrentQueue = r, !.SeekTime = 0, !.IsPlaying = FALSE,
                      !.CurrentIndex = 0]
    BY <1>3 DEF Advances
  <2> QED
    BY <2>1, CurrentLeaves
<1> QED
  BY <1>2, <1>3

\* HandleReportError takes a user's song out.
LEMMA ErrorOutcomeLoses ==
    ASSUME NEW s \in PlaylistState, WellFormed(s), s.CurrentQueue # <<>>
    PROVE  Loses(s, ErrorOutcome(s), CurrentSong(s).QueueID)
<1> DEFINE r == RemoveAt(s.CurrentQueue, s.CurrentIndex + 1)
           past == s.CurrentIndex >= Len(r)
           i == IF past THEN 0 ELSE s.CurrentIndex
           playing == s.IsPlaying /\ ~past
           t == ErrorOutcome(s)
<1>1. i \in Nat /\ playing \in BOOLEAN
  BY WithoutCurrent, QueueFacts DEF PlaylistState
<1>2. t = [s EXCEPT !.CurrentQueue = r, !.SeekTime = 0, !.IsPlaying = playing,
                    !.CurrentIndex = i]
  BY DEF ErrorOutcome
<1> HIDE DEF t, i, playing
<1>3. Loses(s, t, CurrentSong(s).QueueID)
  BY <1>1, <1>2, CurrentLeaves
<1> QED
  BY <1>3 DEF t

\* The next waiting broadcast comes up, whatever becomes of the flags.
LEMMA NextBroadcastGoesOn ==
    ASSUME NEW s \in PlaylistState, s.IsBroadcasting, s.BroadcastQueue # <<>>
    PROVE  GoesOn(s, NextBroadcast(s)) /\ GoesOn(s, FlagsReset(NextBroadcast(s)))
<1> DEFINE b == s.BroadcastQueue
           q == <<Head(b)>>
           rest == Tail(b)
           t == NextBroadcast(s)
           u == FlagsReset(t)
<1>1. t = [s EXCEPT !.CurrentQueue = q, !.CurrentIndex = 0, !.SeekTime = 0, !.IsPlaying = TRUE,
                    !.BroadcastQueue = rest]
  BY DEF NextBroadcast
<1>2. u = [t EXCEPT !.BroadcastVoteReplayDone = FALSE, !.BroadcastSkipLocked = FALSE]
  BY DEF FlagsReset
<1> HIDE DEF t, u, q, rest
<1>3. /\ t.IsBroadcasting /\ Saved(t) = Saved(s) /\ t.BroadcastQueue = rest
      /\ t.CurrentQueue = q /\ t.SeekTime = 0
  BY <1>1 DEF PlaylistState, Saved
<1>4. /\ u.IsBroadcasting = t.IsBroadcasting /\ Saved(u) = Saved(t)
      /\ u.BroadcastQueue = t.BroadcastQueue
      /\ u.CurrentQueue = t.CurrentQueue /\ u.SeekTime = t.SeekTime
  BY <1>1, <1>2 DEF PlaylistState, Saved
<1>5. GoesOn(s, t)
  BY <1>3 DEF GoesOn, q, rest
<1>6. GoesOn(s, u)
  BY <1>3, <1>4 DEF GoesOn, q, rest
<1> QED
  BY <1>5, <1>6 DEF t, u

\* A document that differs from the restored one in what is saved beside its queue
\* and in the flags only plays what was saved.
LEMMA RestoreRestores ==
    ASSUME NEW s \in PlaylistState, s.IsBroadcasting, NEW t, IsRestore(s, t),
           t.BroadcastQueue = <<>>
    PROVE  Restores(s, t)
BY DEF Restores, IsRestore, Playing, Saved

\* The replay of a broadcast puts the song back under a new id.
LEMMA ReplayedPlaysAgain ==
    ASSUME NEW s \in PlaylistState, WellFormed(s), s.CurrentQueue # <<>>, s.IsBroadcasting
    PROVE  PlaysAgain(s, Replayed(s), CurrentSong(s).QueueID)
<1> DEFINE q == s.CurrentQueue
           n == Len(q)
           i == s.CurrentIndex + 1
           song == [q[i] EXCEPT !.QueueID.replays = @ + 1]
           r == [q EXCEPT ![i] = song]
           t == Replayed(s)
<1>1. q \in Seq(Song) /\ n \in Nat /\ i \in 1..n /\ q[i] \in Song
  BY QueueFacts
<1>2. song.QueueID = Again(q[i].QueueID) /\ song.QueueID.uuid = q[i].QueueID.uuid
  BY <1>1 DEF Song, QueueID, Again
<1>3. t = [s EXCEPT !.SeekTime = 0, !.BroadcastVoteReplayDone = TRUE,
                    !.BroadcastSkipLocked = TRUE, !.CurrentQueue = r]
  BY DEF Replayed
<1> HIDE DEF song, t
<1>4. DOMAIN q = 1..n /\ DOMAIN r = 1..n /\ \A j \in 1..n : r[j] = IF j = i THEN song ELSE q[j]
  BY <1>1
<1> HIDE DEF n, i, r
<1>5. Beside(t) = Beside(s) /\ t.SeekTime = 0 /\ t.CurrentQueue = r
  BY <1>3 DEF PlaylistState, Beside
<1>6. ASSUME Distinct(q)
      PROVE  /\ q[i].QueueID \in IDsOf(q)
             /\ IDsOf(r) = (IDsOf(q) \ {q[i].QueueID}) \cup {song.QueueID}
             /\ Distinct(r)
  <2>1. q[i].QueueID \in IDsOf(q)
    BY <1>1, <1>4 DEF IDsOf
  <2>2. \A j \in 1..n : j # i => q[j].QueueID # q[i].QueueID
    BY <1>1, <1>4, <1>6 DEF Distinct
  <2>3. \A id \in IDsOf(r) : id \in (IDsOf(q) \ {q[i].QueueID}) \cup {song.QueueID}
    <3> TAKE id \in IDsOf(r)
    <3>1. PICK j \in 1..n : id = r[j].QueueID
      BY <1>4 DEF IDsOf
    <3>2. j # i => q[j].QueueID \in IDsOf(q) /\ id = q[j].QueueID
      BY <1>4, <3>1 DEF IDsOf
    <3> QED
      BY <1>4, <2>2, <3>1, <3>2
  <2>4. song.QueueID \in IDsOf(r)
    BY <1>1, <1>4 DEF IDsOf
  <2>5. \A id \in IDsOf(q) : id # q[i].QueueID => id \in IDsOf(r)
    <3> TAKE id \in IDsOf(q)
    <3>1. PICK j \in 1..n : id = q[j].QueueID
      BY <1>4 DEF IDsOf
    <3>2. j # i => r[j].QueueID \in IDsOf(r) /\ id = r[j].QueueID
      BY <1>4, <3>1 DEF IDsOf
    <3> QED
      BY <3>1, <3>2
  <2>6. \A j \in 1..n : r[j].QueueID.uuid = q[j].QueueID.uuid
    BY <1>2, <1>4
  <2>7. Distinct(r)
    BY <1>4, <1>6, <2>6 DEF Distinct
  <2> QED
    BY <2>1, <2>3, <2>4, <2>5, <2>7
<1>7. PlaysAgain(s, t, q[i].QueueID)
  BY <1>2, <1>5, <1>6 DEF PlaysAgain
<1> QED
  BY <1>7 DEF t, i, CurrentSong

\* triggerInRoom puts its song over the queue of a room that is not broadcasting,
LEMMA InterruptedInterrupts ==
    ASSUME NEW s \in PlaylistState, ~s.IsBroadcasting, NEW id
    PROVE  Interrupts(s, Interrupted(s, BroadcastSong(id)), id)
<1> DEFINE q == <<BroadcastSong(id)>>
           t == Interrupted(s, BroadcastSong(id))
<1>1. t = [s EXCEPT !.SavedQueue = s.CurrentQueue, !.SavedCurrentIndex = s.CurrentIndex,
              !.SavedSeekTime = s.SeekTime, !.SavedIsPlaying = s.IsPlaying,
              !.IsBroadcasting = TRUE, !.CurrentQueue = q, !.CurrentIndex = 0,
              !.SeekTime = 0, !.IsPlaying = TRUE,
              !.BroadcastVoteReplayDone = FALSE, !.BroadcastSkipLocked = FALSE]
  BY DEF Interrupted
<1> HIDE DEF t, q
<1>2. /\ t.IsBroadcasting /\ Saved(t) = Playing(s) /\ t.CurrentQueue = q /\ t.SeekTime = 0
      /\ t.BroadcastQueue = s.BroadcastQueue
  BY <1>1 DEF PlaylistState, Saved, Playing
<1> QED
  BY <1>2 DEF Interrupts, t, q

\* and has it wait in one that is.
LEMMA QueuedWaits ==
    ASSUME NEW s \in PlaylistState, s.IsBroadcasting, NEW id
    PROVE  Waits(s, Queued(s, BroadcastSong(id)), id)
<1> DEFINE b == Append(s.BroadcastQueue, BroadcastSong(id))
           t == Queued(s, BroadcastSong(id))
<1>1. t = [s EXCEPT !.BroadcastQueue = b]
  BY DEF Queued
<1> HIDE DEF t, b
<1>2. /\ t.IsBroadcasting = s.IsBroadcasting /\ Playing(t) = Playing(s) /\ Saved(t) = Saved(s)
      /\ t.BroadcastQueue = b
  BY <1>1 DEF PlaylistState, Saved, Playing
<1> QED
  BY <1>2 DEF Waits, t, b

\* What a request of this kind made for song id makes of s.
Does(op, s, t, id) ==
    \/ op = "add" /\ Gains(s, t, id)
    \/ op \in {"reorder", "mode", "speed"} /\ Rearranges(s, t)
    \/ op \in {"remove_song", "skip_song", "ended"} /\ Loses(s, t, id)
    \/ op = "report" /\ (Loses(s, t, id) \/ GoesOn(s, t) \/ Restores(s, t))
    \/ op = "endBroadcast" /\ (PlaysAgain(s, t, id) \/ GoesOn(s, t) \/ Restores(s, t))
    \/ op = "restore" /\ Restores(s, t)
    \/ op = "startBroadcast" /\ Interrupts(s, t, id)
    \/ op = "queueBroadcast" /\ Waits(s, t, id)

\* HandleReportError does one of three things.
LEMMA ReportDoes ==
    ASSUME NEW s \in PlaylistState, WellFormed(s), s.CurrentQueue # <<>>,
           NEW t, t = IF CurrentSong(s).IsBroadcast THEN BroadcastErrorOutcome(s)
                      ELSE ErrorOutcome(s)
    PROVE  Does("report", s, t, CurrentSong(s).QueueID)
<1>1. CASE CurrentSong(s).IsBroadcast
  <2>1. s.IsBroadcasting
    BY <1>1, BroadcastPlays
  <2>2. GoesOn(s, t) \/ Restores(s, t)
    BY <1>1, <2>1, BroadcastErrorOutcomeGood, NextBroadcastGoesOn, RestoreRestores
  <2> QED
    BY <2>2 DEF Does
<1>2. CASE ~CurrentSong(s).IsBroadcast
  BY <1>2, ErrorOutcomeLoses DEF Does
<1> QED
  BY <1>1, <1>2

\* So does HandleSongEnded on a broadcast.
LEMMA EndBroadcastDoes ==
    ASSUME NEW s \in PlaylistState, WellFormed(s), s.CurrentQueue # <<>>,
           CurrentSong(s).IsBroadcast, NEW skip \in BOOLEAN
    PROVE  Does("endBroadcast", s, BroadcastEndOutcome(s, skip), CurrentSong(s).QueueID)
<1> DEFINE t == BroadcastEndOutcome(s, skip)
<1>1. s.IsBroadcasting
  BY BroadcastPlays
<1>2. \/ s.BroadcastQueue # <<>> /\ t = FlagsReset(NextBroadcast(s))
      \/ t = Replayed(s)
      \/ IsRestore(s, t) /\ t.BroadcastQueue = <<>>
  BY BroadcastEndOutcomeGood
<1> HIDE DEF t
<1>3. GoesOn(s, t) \/ PlaysAgain(s, t, CurrentSong(s).QueueID) \/ Restores(s, t)
  BY <1>1, <1>2, NextBroadcastGoesOn, ReplayedPlaysAgain, RestoreRestores
<1>4. Does("endBroadcast", s, t, CurrentSong(s).QueueID)
  BY <1>3 DEF Does
<1> QED
  BY <1>4 DEF t

-----------------------------------------------------------------------------
(* What a step does to the documents.                                      *)

\* Only the job of p changes, and one that starts finds room.
Alone(p) ==
    /\ \A q \in Procs \ {p} : job'[q] = job[q]
    /\ job[p] = Idle /\ job'[p] # Idle => Cardinality(Busy) < MaxInFlight

\* The points at which a handler holds a document or a song that matters.
Held == {"write", "claim", "inject"}

\* The songs stay what they are.
Same == UNCHANGED <<store, history, minted, owed, discarded, ticked>>

\* The handler of p waits for another call, or is done.
Rests(p) ==
    /\ Alone(p)
    /\ job'[p].at \notin Held
    /\ job'[p].blob \in {EmptyState, job[p].blob}

\* It has read the document and goes on to claim the end of the current song.
Reads(p) ==
    /\ Alone(p) /\ job[p] = Idle /\ Same
    /\ job'[p].at = "claim" /\ job'[p].blob = store
    /\ store.CurrentQueue # <<>> /\ job'[p].target = CurrentSong(store).QueueID

\* The queue id made next.
NextID == [uuid |-> minted + 1, replays |-> 0]

\* The scheduler has a song for the room.
Sends(p) ==
    /\ Alone(p) /\ job[p] = Idle
    /\ UNCHANGED <<store, history, owed, discarded, ticked>> /\ minted' = minted + 1
    /\ job'[p].at = "inject" /\ job'[p].blob = EmptyState /\ job'[p].target = NextID

\* The requests that leave an entry in the history.
Recording == {"report", "skip_song", "ended", "endBroadcast"}

\* The handler of p has computed a document.
Makes(p, op, id) ==
    /\ Alone(p) /\ UNCHANGED <<store, owed, discarded, ticked>>
    /\ job[p].at # "write"
    /\ job'[p].at = "write" /\ job'[p].op = op /\ job'[p].target = id
    /\ Does(op, ReadBy(p), job'[p].blob, id)
    /\ IF op = "add" THEN id = NextID /\ minted' = minted + 1 ELSE minted' = minted
    /\ op \in {"startBroadcast", "queueBroadcast"} => job[p].at = "inject" /\ id = job[p].target
    /\ op \in Recording =>
         ReadBy(p).CurrentQueue # <<>> /\ id = CurrentSong(ReadBy(p)).QueueID
    /\ \/ history' = history
       \/ /\ op \in Recording
          /\ \E status : history' = Newest(Append(history, [QueueID |-> id, Status |-> status]))

\* A handler that claims the end of a song knows which.
ClaimsKnown ==
    \A p \in Procs : job[p].at = "claim" => job[p].target = CurrentSong(job[p].blob).QueueID

\* A handler that goes on.
LEMMA GotoRests ==
    ASSUME JobsOK, NEW p \in Procs, NEW j, Goto(p, j), j.at \notin Held,
           j.blob \in {EmptyState, job[p].blob},
           job[p] # Idle \/ j = Idle \/ Cardinality(Busy) < MaxInFlight
    PROVE  Rests(p)
<1>1. job'[p] = j /\ \A q \in Procs \ {p} : job'[q] = job[q]
  BY DEF JobsOK, Goto
<1> QED
  BY <1>1 DEF Rests, Alone

\* A handler that returns.
LEMMA ReturnRests ==
    ASSUME JobsOK, NEW p \in Procs, Return(p) \/ Goto(p, Idle)
    PROVE  Rests(p)
<1>1. Goto(p, Idle)
  BY DEF Return
<1>2. Idle.at \notin Held /\ Idle.blob = EmptyState
  BY DEF Idle, Held
<1> QED
  BY <1>1, <1>2, GotoRests

\* Requests that compute nothing yet.
LEMMA RequestsRest ==
    ASSUME IInv, NEW c \in Clients,
           RemoveSong(c) \/ SkipSong(c) \/ VoteCast(c) \/ Join(c) \/ Leave(c)
    PROVE  Same /\ (job' = job \/ (Rests(c) /\ job[c].at # "write"))
<1>1. JobsOK /\ c \in Procs
  BY DEF IInv, Procs
<1>2. Idle.at # "write" /\ \A kind : Ready(c, kind) => job[c] = Idle /\ Cardinality(Busy) < MaxInFlight
  BY DEF Ready, Idle
<1>3. ASSUME NEW j, Goto(c, j), j.at \notin Held, j.blob = EmptyState,
             \E kind : Ready(c, kind)
      PROVE  Rests(c) /\ job[c].at # "write"
  BY <1>1, <1>2, <1>3, GotoRests
<1>4. ASSUME NEW at, NEW op, NEW target, at \notin Held, \E kind : Ready(c, kind),
             Goto(c, [Idle EXCEPT !.at = at, !.op = op, !.target = target])
      PROVE  Rests(c) /\ job[c].at # "write"
  <2> DEFINE j == [Idle EXCEPT !.at = at, !.op = op, !.target = target]
  <2>1. j.at \notin Held /\ j.blob = EmptyState
    BY <1>4 DEF Idle
  <2>2. Goto(c, j)
    BY <1>4
  <2> HIDE DEF j
  <2> QED
    BY <1>3, <1>4, <2>1, <2>2
<1>5. \A song : OwnOrVote(song, c) \notin Held
  BY DEF OwnOrVote, Held
<1>6. CASE RemoveSong(c)
  <2>1. Ready(c, "remove") /\ Same
    BY <1>6 DEF RemoveSong, Request, redis, bounds, ghosts, Same
  <2>2. PICK song : Goto(c, [Idle EXCEPT !.at = OwnOrVote(song, c), !.op = "remove_song",
                                         !.target = song.QueueID])
    BY <1>6 DEF RemoveSong
  <2> QED
    BY <1>4, <1>5, <2>1, <2>2
<1>7. CASE SkipSong(c)
  <2>1. Ready(c, "skip") /\ Same
    BY <1>7 DEF SkipSong, Request, redis, bounds, ghosts, Same
  <2> DEFINE song == CurrentSong(store)
             op == IF song.IsBroadcast THEN "skip_broadcast" ELSE "skip_song"
             at == IF song.IsBroadcast THEN "getVote" ELSE OwnOrVote(song, c)
  <2>2. Goto(c, [Idle EXCEPT !.at = at, !.op = op, !.target = song.QueueID])
    BY <1>7 DEF SkipSong
  <2>3. at \notin Held
    BY DEF Held, OwnOrVote
  <2> HIDE DEF op, at
  <2> QED
    BY <1>4, <2>1, <2>2, <2>3
<1>8. CASE VoteCast(c)
  <2> DEFINE j == [Idle EXCEPT !.at = "cast", !.op = vote.Action, !.ballot = vote]
  <2>1. Goto(c, j) /\ Ready(c, "cast") /\ Same
    BY <1>8 DEF VoteCast, Request, redis, bounds, ghosts, Same
  <2>2. j.at \notin Held /\ j.blob = EmptyState
    BY DEF Idle, Held
  <2> HIDE DEF j
  <2> QED
    BY <1>3, <2>1, <2>2
<1>9. CASE Join(c)
  BY <1>9 DEF Join, redis, bounds, ghosts, Same
<1>10. CASE Leave(c)
  <2> DEFINE j == IF online = {c} THEN [Idle EXCEPT !.at = "reset"] ELSE Idle
  <2>1. Goto(c, j) /\ Ready(c, "leave") /\ Same
    BY <1>10 DEF Leave, redis, bounds, ghosts, Same
  <2>2. j.at \notin Held /\ j.blob = EmptyState
    BY DEF Idle, Held
  <2> HIDE DEF j
  <2> QED
    BY <1>3, <2>1, <2>2
<1> QED
  BY <1>6, <1>7, <1>8, <1>9, <1>10

\* Handlers in flight that compute nothing.
LEMMA GoingOnRests ==
    ASSUME IInv, NEW c \in Procs,
           \/ ClearActiveVote(c) \/ DeleteClearedVote(c) \/ StartVote(c) \/ RecordVote(c)
           \/ PassVote(c) \/ PublishVote(c) \/ StartBroadcastSkipVote(c)
    PROVE  Same /\ Rests(c) /\ job[c].at # "write"
<1>1. JobsOK /\ job[c] \in Job
  BY JobFacts DEF IInv
<1>2. /\ job[c].at \in {"getClear", "delVote", "getVote", "cast", "setVote", "getSettings"}
      /\ Same
  BY DEF ClearActiveVote, DeleteClearedVote, StartVote, RecordVote, PassVote, PublishVote,
         StartBroadcastSkipVote, redis, bounds, ghosts, Same
<1>3. job[c] # Idle /\ job[c].at # "write"
  BY <1>2 DEF Idle
<1>4. ASSUME NEW j, Goto(c, j), j.at \notin Held, j.blob \in {EmptyState, job[c].blob}
      PROVE  Rests(c)
  BY <1>1, <1>3, <1>4, GotoRests
<1>5. CASE ClearActiveVote(c)
  <2> DEFINE j == [Idle EXCEPT !.at = "delVote"]
  <2>1. Goto(c, Idle) \/ Goto(c, j)
    BY <1>5 DEF ClearActiveVote
  <2>2. j.at \notin Held /\ j.blob = EmptyState
    BY DEF Idle, Held
  <2> HIDE DEF j
  <2> QED
    BY <1>1, <1>2, <1>3, <1>4, <2>1, <2>2, ReturnRests
<1>6. CASE DeleteClearedVote(c) \/ RecordVote(c) \/ PublishVote(c)
  <2>1. Goto(c, Idle) \/ Return(c)
    BY <1>6 DEF DeleteClearedVote, RecordVote, PublishVote
  <2> QED
    BY <1>1, <1>2, <1>3, <2>1, ReturnRests
<1>7. CASE StartVote(c)
  <2> DEFINE new == UserVote(ballots + 1, job[c].op, job[c].target, c, online)
             decided == [job[c] EXCEPT !.at = "execute", !.op = DecidedAlone(@)]
             open == [job[c] EXCEPT !.at = "setVote", !.ballot = new]
  <2>1. Goto(c, Idle) \/ Goto(c, decided) \/ Goto(c, open)
    BY <1>7 DEF StartVote
  <2>2. /\ decided.at \notin Held /\ decided.blob = job[c].blob
        /\ open.at \notin Held /\ open.blob = job[c].blob
    BY <1>1 DEF Job, Held
  <2> HIDE DEF decided, open
  <2> QED
    BY <1>1, <1>2, <1>3, <1>4, <2>1, <2>2, ReturnRests
<1>8. CASE PassVote(c)
  <2> DEFINE j == [Idle EXCEPT !.at = "execute", !.op = job[c].ballot.Action,
                               !.target = job[c].ballot.SongQueueID]
  <2>1. Goto(c, j)
    BY <1>8 DEF PassVote
  <2>2. j.at \notin Held /\ j.blob = EmptyState
    BY DEF Idle, Held
  <2> HIDE DEF j
  <2> QED
    BY <1>2, <1>3, <1>4, <2>1, <2>2
<1>9. CASE StartBroadcastSkipVote(c)
  <2> DEFINE j == [Idle EXCEPT !.at = "setVote", !.op = "skip_broadcast",
                               !.ballot = SchedulerVote(ballots + 1, online)]
  <2>1. Goto(c, Idle) \/ Goto(c, j)
    BY <1>9 DEF StartBroadcastSkipVote
  <2>2. j.at \notin Held /\ j.blob = EmptyState
    BY DEF Idle, Held
  <2> HIDE DEF j
  <2> QED
    BY <1>1, <1>2, <1>3, <1>4, <2>1, <2>2, ReturnRests
<1> QED
  BY <1>5, <1>6, <1>7, <1>8, <1>9

\* A handler that writes waits for what comes after, or is done.
LEMMA WriterRests ==
    ASSUME IInv, NEW p \in Procs, WriteState(p)
    PROVE  Rests(p)
<1>1. JobsOK /\ job[p] # Idle
  BY DEF IInv, WriteState, Idle
<1> DEFINE at == AfterWrite(job[p].op)
           j == [Idle EXCEPT !.at = at]
<1>2. Return(p) \/ Goto(p, j)
  BY DEF WriteState
<1>3. at \notin Held
  BY DEF AfterWrite, Held
<1> HIDE DEF at
<1>4. j.at \notin Held /\ j.blob = EmptyState
  BY <1>3 DEF Idle
<1> HIDE DEF j
<1> QED
  BY <1>1, <1>2, <1>4, GotoRests, ReturnRests

\* A handler about to write one of these documents is alone in changing.
LEMMA WillWriteAlone ==
    ASSUME JobsOK, NEW p \in Procs, NEW op, NEW target, NEW blobs,
           WillWrite(p, op, target, blobs),
           job[p] # Idle \/ Cardinality(Busy) < MaxInFlight
    PROVE  /\ Alone(p)
           /\ job'[p].at = "write" /\ job'[p].op = op /\ job'[p].target = target
           /\ job'[p].blob \in blobs
BY WillWriteWrites DEF Writes, Alone

\* A song's entry goes into the history, or it does not.
LEMMA PushHistoryEntry ==
    ASSUME NEW id, NEW status, PushHistory(id, status)
    PROVE  \/ history' = history
           \/ \E st : history' = Newest(Append(history, [QueueID |-> id, Status |-> st]))
BY DEF PushHistory

\* A request computes the document it is for from what is stored.
LEMMA RequestsMake ==
    ASSUME IInv, NEW c \in Clients,
           AddSong(c) \/ ReorderQueue(c) \/ SetPlaybackMode(c) \/ SetPlaybackSpeed(c)
    PROVE  \E op, id : Makes(c, op, id)
<1>1. /\ JobsOK /\ c \in Procs /\ store \in PlaylistState /\ WellFormed(store)
      /\ minted \in Nat
  BY DEF IInv, SharedOK, Procs
<1>2. /\ job[c] = Idle /\ Cardinality(Busy) < MaxInFlight
      /\ UNCHANGED <<store, history, owed, discarded, ticked>>
  BY DEF AddSong, ReorderQueue, SetPlaybackMode, SetPlaybackSpeed, Request, Ready, redis, ghosts
<1>3. job[c].at # "write" /\ ReadBy(c) = store
  BY <1>2 DEF Idle, ReadBy
<1>4. ASSUME NEW op, NEW id, NEW blobs, WillWrite(c, op, id, blobs),
             op \notin Recording, op \notin {"startBroadcast", "queueBroadcast"},
             IF op = "add" THEN id = NextID /\ minted' = minted + 1 ELSE minted' = minted,
             \A t \in blobs : Does(op, store, t, id)
      PROVE  Makes(c, op, id)
  BY <1>1, <1>2, <1>3, <1>4, WillWriteAlone DEF Makes
<1>5. CASE AddSong(c)
  <2> DEFINE song == UserSong(minted + 1, c)
  <2>1. song \in Song /\ song.QueueID = NextID
    BY <1>1 DEF UserSong, Song, Names, QueueID, Clients, NextID
  <2>2. WillWrite(c, "add", song.QueueID, {WithSong(store, song)}) /\ minted' = minted + 1
    BY <1>5 DEF AddSong
  <2> HIDE DEF song
  <2>3. Does("add", store, WithSong(store, song), NextID)
    BY <1>1, <2>1, WithSongGains DEF Does
  <2>4. Makes(c, "add", NextID)
    BY <1>4, <2>1, <2>2, <2>3 DEF Recording
  <2> QED
    BY <2>4
<1>6. CASE ReorderQueue(c)
  <2>1. PICK from \in 0..(Len(store.CurrentQueue) - 1), to \in 0..(Len(store.CurrentQueue) - 1) :
          WillWrite(c, "reorder", NoID, {Reordered(store, from, to)})
    BY <1>6 DEF ReorderQueue
  <2>2. Does("reorder", store, Reordered(store, from, to), NoID)
    BY <1>1, ReorderedRearranges DEF Does
  <2>3. minted' = minted
    BY <1>6 DEF ReorderQueue, bounds
  <2>4. Makes(c, "reorder", NoID)
    BY <1>4, <2>1, <2>2, <2>3 DEF Recording
  <2> QED
    BY <2>4
<1>7. CASE SetPlaybackMode(c)
  <2>1. PICK autoplay \in BOOLEAN, shuffle \in BOOLEAN, random \in BOOLEAN :
          WillWrite(c, "mode", NoID, ModeChanges(store, autoplay, shuffle, random))
    BY <1>7 DEF SetPlaybackMode
  <2>2. \A t \in ModeChanges(store, autoplay, shuffle, random) : Does("mode", store, t, NoID)
    BY <1>1, ModeChangesRearrange DEF Does
  <2>3. minted' = minted
    BY <1>7 DEF SetPlaybackMode, bounds
  <2>4. Makes(c, "mode", NoID)
    BY <1>4, <2>1, <2>2, <2>3 DEF Recording
  <2> QED
    BY <2>4
<1>8. CASE SetPlaybackSpeed(c)
  <2>1. PICK v \in Speeds : WillWrite(c, "speed", NoID, {[store EXCEPT !.PlaybackSpeed = v]})
    BY <1>8 DEF SetPlaybackSpeed
  <2>2. Does("speed", store, [store EXCEPT !.PlaybackSpeed = v], NoID)
    BY <1>1, SpeedRearranges DEF Does
  <2>3. minted' = minted
    BY <1>8 DEF SetPlaybackSpeed, bounds
  <2>4. Makes(c, "speed", NoID)
    BY <1>4, <2>1, <2>2, <2>3 DEF Recording
  <2> QED
    BY <2>4
<1> QED
  BY <1>5, <1>6, <1>7, <1>8

\* HandleReportError, the claim and executeSkipSong compute one for a song they
\* record, or let it be.
LEMMA RecordingsMake ==
    ASSUME IInv, ClaimsKnown, NEW c \in Clients,
           ReportError(c) \/ ClaimSongEnded(c) \/ ExecuteSkipSong(c)
    PROVE  (Rests(c) /\ Same /\ job[c].at # "write") \/ \E op, id : Makes(c, op, id)
<1>1. /\ JobsOK /\ c \in Procs /\ store \in PlaylistState /\ WellFormed(store)
      /\ allowSkip \in BOOLEAN
  BY DEF IInv, SharedOK, Procs
<1>2. /\ UNCHANGED <<store, owed, discarded, ticked>> /\ minted' = minted
      /\ job[c] # Idle \/ Cardinality(Busy) < MaxInFlight
      /\ job[c].at # "write"
  BY DEF ReportError, ClaimSongEnded, ExecuteSkipSong, Request, Ready, ghosts, Idle
<1>3. ASSUME NEW op \in Recording, NEW id, NEW blobs, WillWrite(c, op, id, blobs),
             \E st : PushHistory(id, st),
             ReadBy(c).CurrentQueue # <<>>, id = CurrentSong(ReadBy(c)).QueueID,
             \A t \in blobs : Does(op, ReadBy(c), t, id)
      PROVE  Makes(c, op, id)
  <2>1. op # "add" /\ op \notin {"startBroadcast", "queueBroadcast"}
    BY DEF Recording
  <2>2. \/ history' = history
        \/ \E st : history' = Newest(Append(history, [QueueID |-> id, Status |-> st]))
    BY <1>3, PushHistoryEntry
  <2>3. /\ Alone(c) /\ job'[c].at = "write" /\ job'[c].op = op /\ job'[c].target = id
        /\ job'[c].blob \in blobs
    BY <1>1, <1>2, <1>3, WillWriteAlone
  <2>4. Does(op, ReadBy(c), job'[c].blob, id)
    BY <1>3, <2>3
  <2> HIDE DEF Recording
  <2> QED
    BY <1>2, <1>3, <2>1, <2>2, <2>3, <2>4 DEF Makes
<1>4. CASE ReportError(c)
  <2> DEFINE song == CurrentSong(store)
             t == IF song.IsBroadcast THEN BroadcastErrorOutcome(store) ELSE ErrorOutcome(store)
  <2>1. /\ store.CurrentQueue # <<>> /\ PushHistory(song.QueueID, "skipped")
        /\ WillWrite(c, "report", song.QueueID, {t}) /\ job[c] = Idle
    BY <1>4 DEF ReportError, Request, Ready
  <2>2. ReadBy(c) = store
    BY <2>1 DEF ReadBy, Idle
  <2>3. Does("report", store, t, song.QueueID)
    BY <1>1, <2>1, ReportDoes
  <2>4. Makes(c, "report", song.QueueID)
    <3> HIDE DEF t
    <3> QED
      BY <1>3, <2>1, <2>2, <2>3 DEF Recording
  <2> QED
    BY <2>4
<1>5. CASE ClaimSongEnded(c)
  <2> DEFINE read == job[c].blob
             op == job[c].op
             id == job[c].target
             blobs == IF op = "endBroadcast" THEN {BroadcastEndOutcome(read, allowSkip)}
                      ELSE EndOutcomes(read)
  <2>1. /\ job[c].at = "claim" /\ read \in PlaylistState /\ WellFormed(read)
        /\ read.CurrentQueue # <<>> /\ op \in {"ended", "endBroadcast"}
        /\ op = "endBroadcast" => CurrentSong(read).IsBroadcast
        /\ id = CurrentSong(read).QueueID
    BY <1>1, <1>5, JobFacts DEF ClaimSongEnded, JobOK, ClaimsKnown
  <2>2. ReadBy(c) = read
    BY <2>1 DEF ReadBy
  <2>3. CASE Goto(c, Idle) /\ history' = history
    <3>1. Rests(c)
      BY <1>1, <2>3, ReturnRests
    <3> QED
      BY <1>2, <2>3, <3>1 DEF Same
  <2>4. CASE PushHistory(id, "played") /\ WillWrite(c, op, id, blobs)
    <3>1. op = "endBroadcast" => \A t \in blobs : Does(op, read, t, id)
      BY <1>1, <2>1, EndBroadcastDoes
    <3>2. op = "ended" => \A t \in blobs : Does(op, read, t, id)
      <4>1. read.Autoplay \in BOOLEAN
        BY <2>1 DEF PlaylistState
      <4> QED
        BY <2>1, <4>1, AdvancesLose DEF EndOutcomes, Does
    <3> HIDE DEF blobs
    <3>3. Makes(c, op, id)
      BY <1>3, <2>1, <2>2, <2>4, <3>1, <3>2 DEF Recording
    <3> QED
      BY <3>3
  <2> QED
    BY <1>5, <2>3, <2>4 DEF ClaimSongEnded
<1>6. CASE ExecuteSkipSong(c)
  <2> DEFINE id == job[c].target
  <2>1. job[c].at = "execute" /\ ReadBy(c) = store
    BY <1>6 DEF ExecuteSkipSong, ReadBy
  <2>2. CASE Return(c) /\ history' = history
    <3>1. Rests(c)
      BY <1>1, <2>2, ReturnRests
    <3> QED
      BY <1>2, <2>2, <3>1 DEF Same
  <2>3. CASE /\ IsCurrent(store, id) /\ PushHistory(id, "skipped")
             /\ WillWrite(c, "skip_song", id, SkipOutcomes(store))
    <3>1. store.CurrentQueue # <<>> /\ id = CurrentSong(store).QueueID
      BY <2>3 DEF IsCurrent
    <3>2. \A t \in SkipOutcomes(store) : Does("skip_song", store, t, id)
      BY <1>1, <3>1, AdvancesLose DEF SkipOutcomes, Does
    <3>3. Makes(c, "skip_song", id)
      BY <1>3, <2>1, <2>3, <3>1, <3>2 DEF Recording
    <3> QED
      BY <3>3
  <2> QED
    BY <1>6, <2>2, <2>3 DEF ExecuteSkipSong
<1> QED
  BY <1>4, <1>5, <1>6

\* The others compute one when there is something left to do.
LEMMA ExecutionsMake ==
    ASSUME IInv, NEW p \in Procs,
           \/ ExecuteRemoveSong(p) \/ ExecuteBroadcastSkip(p) \/ ResetEmptyRoom(p)
           \/ TriggerInRoom(p) \/ SkipCurrentBroadcast(p)
    PROVE  (Rests(p) /\ Same /\ job[p].at # "write") \/ \E op, id : Makes(p, op, id)
<1>1. JobsOK /\ store \in PlaylistState /\ WellFormed(store)
  BY DEF IInv, SharedOK
<1>2. /\ Same
      /\ job[p] # Idle \/ Cardinality(Busy) < MaxInFlight
      /\ job[p].at # "write" /\ ReadBy(p) = store
  BY DEF ExecuteRemoveSong, ExecuteBroadcastSkip, ResetEmptyRoom, TriggerInRoom,
         SkipCurrentBroadcast, Ready, redis, bounds, ghosts, Same, Idle, ReadBy
<1>3. ASSUME NEW op \in {"remove_song", "restore", "queueBroadcast", "startBroadcast"},
             NEW id, NEW blobs, WillWrite(p, op, id, blobs),
             \A t \in blobs : Does(op, store, t, id),
             op \in {"queueBroadcast", "startBroadcast"} => job[p].at = "inject" /\ id = job[p].target
      PROVE  Makes(p, op, id)
  <2>1. op \notin Recording /\ op # "add"
    BY DEF Recording
  <2> QED
    BY <1>1, <1>2, <1>3, <2>1, WillWriteAlone DEF Makes, Same
<1>4. ASSUME Return(p) \/ Goto(p, Idle)
      PROVE  Rests(p) /\ Same /\ job[p].at # "write"
  BY <1>1, <1>2, <1>4, ReturnRests
<1>5. ASSUME NEW t, store.IsBroadcasting, IsRestore(store, t), t.BroadcastQueue = <<>>,
             WillWrite(p, "restore", NoID, {t})
      PROVE  Makes(p, "restore", NoID)
  <2>1. Does("restore", store, t, NoID)
    BY <1>1, <1>5, RestoreRestores DEF Does
  <2> QED
    BY <1>3, <1>5, <2>1
<1>6. CASE ExecuteRemoveSong(p)
  <2> DEFINE id == job[p].target
             found == {i \in DOMAIN store.CurrentQueue \ {store.CurrentIndex + 1} :
                         store.CurrentQueue[i].QueueID = id}
  <2>1. CASE WillWrite(p, "remove_song", id, {WithoutSong(store, i) : i \in found})
    <3>1. \A i \in found : Does("remove_song", store, WithoutSong(store, i), id)
      <4> TAKE i \in found
      <4>1. /\ i \in 1..Len(store.CurrentQueue) /\ i # store.CurrentIndex + 1
            /\ id = store.CurrentQueue[i].QueueID
        BY <1>1 DEF PlaylistState
      <4> QED
        BY <1>1, <4>1, WithoutSongLoses DEF Does
    <3> HIDE DEF found
    <3>2. Makes(p, "remove_song", id)
      BY <1>3, <2>1, <3>1
    <3> QED
      BY <3>2
  <2> QED
    BY <1>4, <1>6, <2>1 DEF ExecuteRemoveSong
<1>7. CASE ExecuteBroadcastSkip(p)
  BY <1>1, <1>4, <1>5, <1>7, VotedAwayGood DEF ExecuteBroadcastSkip
<1>8. CASE ResetEmptyRoom(p)
  BY <1>1, <1>4, <1>5, <1>8, RoomEmptiedGood DEF ResetEmptyRoom
<1>9. CASE SkipCurrentBroadcast(p)
  BY <1>1, <1>5, <1>9, AdminRestoredGood DEF SkipCurrentBroadcast
<1>10. CASE TriggerInRoom(p)
  <2> DEFINE id == job[p].target
             song == BroadcastSong(id)
  <2>1. job[p].at = "inject"
    BY <1>10 DEF TriggerInRoom
  <2>2. CASE store.IsBroadcasting /\ WillWrite(p, "queueBroadcast", id, {Queued(store, song)})
    <3>1. Does("queueBroadcast", store, Queued(store, song), id)
      BY <1>1, <2>2, QueuedWaits DEF Does
    <3>2. Makes(p, "queueBroadcast", id)
      BY <1>3, <2>1, <2>2, <3>1
    <3> QED
      BY <3>2
  <2>3. CASE ~store.IsBroadcasting /\ WillWrite(p, "startBroadcast", id, {Interrupted(store, song)})
    <3>1. Does("startBroadcast", store, Interrupted(store, song), id)
      BY <1>1, <2>3, InterruptedInterrupts DEF Does
    <3>2. Makes(p, "startBroadcast", id)
      BY <1>3, <2>1, <2>3, <3>1
    <3> QED
      BY <3>2
  <2> QED
    BY <1>10, <2>2, <2>3 DEF TriggerInRoom
<1> QED
  BY <1>6, <1>7, <1>8, <1>9, <1>10

\* HandleSongEnded reads the document.
LEMMA SongEndedReads ==
    ASSUME IInv, NEW c \in Clients, SongEnded(c)
    PROVE  Reads(c)
<1> DEFINE song == CurrentSong(store)
           op == IF song.IsBroadcast THEN "endBroadcast" ELSE "ended"
           j == [Idle EXCEPT !.at = "claim", !.target = song.QueueID, !.blob = store, !.op = op]
<1>1. /\ Goto(c, j) /\ store.CurrentQueue # <<>> /\ Cardinality(Busy) < MaxInFlight
      /\ job[c] = Idle /\ Same
  BY DEF SongEnded, Request, Ready, redis, bounds, ghosts, Same
<1>2. j.at = "claim" /\ j.blob = store /\ j.target = CurrentSong(store).QueueID
  BY DEF Idle
<1> HIDE DEF j
<1>3. job'[c] = j /\ \A q \in Procs \ {c} : job'[q] = job[q]
  BY <1>1 DEF Goto, IInv, JobsOK, Procs
<1> QED
  BY <1>1, <1>2, <1>3 DEF Reads, Alone

\* The scheduler makes a queue id.
LEMMA TriggerBroadcastSends ==
    ASSUME IInv, NEW s \in Staff, TriggerBroadcast(s)
    PROVE  Sends(s)
<1> DEFINE j == [Idle EXCEPT !.at = "inject", !.target = [uuid |-> minted + 1, replays |-> 0]]
<1>1. /\ Goto(s, j) /\ Cardinality(Busy) < MaxInFlight /\ minted' = minted + 1
      /\ job[s] = Idle /\ UNCHANGED <<store, history, owed, discarded, ticked>>
  BY DEF TriggerBroadcast, Ready, redis, ghosts
<1>2. j.at = "inject" /\ j.blob = EmptyState /\ j.target = NextID
  BY DEF Idle, NextID
<1> HIDE DEF j
<1>3. job'[s] = j /\ \A q \in Procs \ {s} : job'[q] = job[q]
  BY <1>1 DEF Goto, IInv, JobsOK, Procs
<1> QED
  BY <1>1, <1>2, <1>3 DEF Sends, Alone

\* The handler of p does one of these.  Only a failing Redis keeps it from writing.
HandlerStep(p) ==
    \/ Rests(p) /\ Same /\ (job[p].at = "write" => faults' > 0)
    \/ WriteState(p)
    \/ Reads(p)
    \/ Sends(p)
    \/ \E op, id : Makes(p, op, id)

\* Every step of the room is one of a handler, or time, or a crash.
LEMMA DocumentSteps ==
    ASSUME IInv, ClaimsKnown, [Next]_vars
    PROVE  \/ Same /\ job' = job
           \/ \E p \in Procs : HandlerStep(p)
           \/ Tick
           \/ Crash
<1>1. ASSUME NEW c \in Clients, ClientStep(c)
      PROVE  (Same /\ job' = job) \/ HandlerStep(c)
  BY <1>1, RequestsRest, SongEndedReads, RequestsMake, RecordingsMake
     DEF ClientStep, HandlerStep
<1>2. ASSUME NEW c \in Clients, ClientGoesOn(c)
      PROVE  HandlerStep(c)
  BY <1>2, GoingOnRests, RecordingsMake, ExecutionsMake DEF ClientGoesOn, HandlerStep, Procs
<1>3. ASSUME NEW s \in Staff, StaffStep(s)
      PROVE  (Same /\ job' = job) \/ HandlerStep(s)
  <2>1. UpdateSettings(s) => Same /\ job' = job
    BY DEF UpdateSettings, bounds, ghosts, Same
  <2> QED
    BY <1>3, <2>1, TriggerBroadcastSends, ExecutionsMake DEF StaffStep, HandlerStep, Procs
<1>4. ASSUME NEW s \in Staff, StaffGoesOn(s)
      PROVE  HandlerStep(s)
  BY <1>4, GoingOnRests, ExecutionsMake DEF StaffGoesOn, HandlerStep, Procs
<1>5. VoteExpires \/ ClaimExpires => Same /\ job' = job
  BY DEF VoteExpires, ClaimExpires, bounds, ghosts, Same
<1>6. ASSUME NEW p \in Procs, StoreFails(p)
      PROVE  HandlerStep(p)
  <2>1. Rests(p)
    BY <1>6, ReturnRests DEF StoreFails, IInv
  <2>2. Same /\ faults' > 0
    BY <1>6 DEF StoreFails, redis, ghosts, Same, IInv, SharedOK
  <2> QED
    BY <2>1, <2>2 DEF HandlerStep
<1>7. CASE UNCHANGED vars
  BY <1>7 DEF vars, redis, bounds, ghosts, Same
<1> QED
  BY <1>1, <1>2, <1>3, <1>4, <1>5, <1>6, <1>7 DEF Next, Environment, Procs

\* A handler that claims the end of a song goes on knowing which.
LEMMA ClaimsStayKnown ==
    ASSUME IInv, ClaimsKnown, [Next]_vars
    PROVE  ClaimsKnown'
<1>1. ASSUME NEW p \in Procs, HandlerStep(p)
      PROVE  ClaimsKnown'
  <2>1. \A q \in Procs \ {p} : job'[q] = job[q]
    BY <1>1, WriterRests DEF HandlerStep, Rests, Reads, Sends, Makes, Alone
  <2>2. job'[p].at = "claim" => job'[p].target = CurrentSong(job'[p].blob).QueueID
    BY <1>1, WriterRests DEF HandlerStep, Rests, Reads, Sends, Makes, Held
  <2> QED
    BY <2>1, <2>2 DEF ClaimsKnown
<1>2. CASE job' = job
  BY <1>2 DEF ClaimsKnown
<1>3. CASE Crash
  BY <1>3 DEF Crash, ClaimsKnown, Idle
<1> QED
  BY <1>1, <1>2, <1>3, DocumentSteps DEF Tick

-----------------------------------------------------------------------------
(* Every song is in one place.                                             *)

SongsIn(s) == Uuids(s.CurrentQueue) \cup Uuids(s.SavedQueue) \cup Uuids(s.BroadcastQueue)

\* No song of the document is there twice, be it played, saved or waiting.
Apart(s) ==
    /\ Distinct(s.CurrentQueue) /\ Distinct(s.SavedQueue) /\ Distinct(s.BroadcastQueue)
    /\ Uuids(s.CurrentQueue) \cap Uuids(s.SavedQueue) = {}
    /\ Uuids(s.CurrentQueue) \cap Uuids(s.BroadcastQueue) = {}
    /\ Uuids(s.SavedQueue) \cap Uuids(s.BroadcastQueue) = {}

\* The requests that bring a song.
Bringing == {"add", "startBroadcast", "queueBroadcast"}

\* A new room has no songs.
LEMMA EmptyApart == Apart(EmptyState) /\ SongsIn(EmptyState) = {}
BY EmptyIDs DEF EmptyState, Apart, SongsIn, Uuids

\* Whatever a request does, songs stay apart and only the one it brings is new.
LEMMA DoesApart ==
    ASSUME NEW s \in PlaylistState, WellFormed(s), Apart(s), NEW t, NEW op, NEW id \in QueueID,
           Does(op, s, t, id), op \in Bringing => id.uuid \notin SongsIn(s)
    PROVE  /\ Apart(t)
           /\ SongsIn(t) \subseteq SongsIn(s) \cup {id.uuid}
           /\ op \notin Bringing => SongsIn(t) \subseteq SongsIn(s)
<1> DEFINE q == s.CurrentQueue
           w == s.SavedQueue
           b == s.BroadcastQueue
<1>1. /\ q \in Seq(Song) /\ w \in Seq(Song) /\ b \in Seq(Song)
      /\ ~s.IsBroadcasting => b = <<>> /\ w = <<>>
  BY SavedFacts DEF PlaylistState
<1>2. Uuids(<<>>) = {} /\ Distinct(<<>>)
  BY EmptyIDs DEF Uuids
<1>3. ASSUME t.SavedQueue = w, t.BroadcastQueue = b, Distinct(t.CurrentQueue),
             Uuids(t.CurrentQueue) \subseteq Uuids(q)
      PROVE  Apart(t) /\ SongsIn(t) \subseteq SongsIn(s)
  BY <1>3 DEF Apart, SongsIn
<1>4. ASSUME Gains(s, t, id), op \in Bringing
      PROVE  Apart(t) /\ SongsIn(t) \subseteq SongsIn(s) \cup {id.uuid}
  <2>1. t.SavedQueue = w /\ t.BroadcastQueue = b
    BY <1>4 DEF Gains, Beside
  <2>2. Uuids(t.CurrentQueue) = Uuids(q) \cup {id.uuid} /\ Distinct(t.CurrentQueue)
    BY <1>4 DEF Gains, Uuids, Apart, SongsIn
  <2> QED
    BY <1>4, <2>1, <2>2 DEF Apart, SongsIn
<1>5. ASSUME Rearranges(s, t)
      PROVE  Apart(t) /\ SongsIn(t) \subseteq SongsIn(s)
  BY <1>3, <1>5 DEF Rearranges, Beside, Uuids, Apart
<1>6. ASSUME Loses(s, t, id)
      PROVE  Apart(t) /\ SongsIn(t) \subseteq SongsIn(s)
  BY <1>3, <1>6 DEF Loses, Beside, Uuids, Apart
<1>7. ASSUME PlaysAgain(s, t, id)
      PROVE  Apart(t) /\ SongsIn(t) \subseteq SongsIn(s)
  <2>1. /\ t.SavedQueue = w /\ t.BroadcastQueue = b /\ Distinct(t.CurrentQueue)
        /\ IDsOf(t.CurrentQueue) = (IDsOf(q) \ {id}) \cup {Again(id)} /\ id \in IDsOf(q)
    BY <1>7 DEF PlaysAgain, Beside, Apart
  <2>2. Again(id).uuid = id.uuid
    BY DEF Again
  <2>3. Uuids(t.CurrentQueue) \subseteq Uuids(q)
    BY <2>1, <2>2 DEF Uuids
  <2> QED
    BY <1>3, <2>1, <2>3
<1>8. ASSUME GoesOn(s, t)
      PROVE  Apart(t) /\ SongsIn(t) \subseteq SongsIn(s)
  <2>1. /\ t.SavedQueue = w /\ t.BroadcastQueue = Tail(b) /\ b # <<>>
        /\ t.CurrentQueue = <<Head(b)>>
    BY <1>8 DEF GoesOn, Saved
  <2>2. IDsOf(t.CurrentQueue) = {Head(b).QueueID} /\ Distinct(t.CurrentQueue)
    BY <2>1, SingleIDs
  <2>3. /\ Head(b).QueueID \in IDsOf(b) /\ IDsOf(Tail(b)) \subseteq IDsOf(b)
        /\ Distinct(Tail(b)) /\ Head(b).QueueID.uuid \notin Uuids(Tail(b))
    BY <1>1, <2>1, HeadTailIDs DEF Apart
  <2>4. /\ Uuids(t.CurrentQueue) = {Head(b).QueueID.uuid} /\ Head(b).QueueID.uuid \in Uuids(b)
        /\ Uuids(Tail(b)) \subseteq Uuids(b)
    BY <2>2, <2>3 DEF Uuids
  <2> QED
    BY <2>1, <2>2, <2>3, <2>4 DEF Apart, SongsIn
<1>9. ASSUME Restores(s, t)
      PROVE  Apart(t) /\ SongsIn(t) \subseteq SongsIn(s)
  <2>1. t.SavedQueue = <<>> /\ t.BroadcastQueue = <<>> /\ t.CurrentQueue = w
    BY <1>9 DEF Restores, Playing, Saved
  <2> QED
    BY <1>2, <2>1 DEF Apart, SongsIn
<1>10. ASSUME Interrupts(s, t, id), op \in Bringing
       PROVE  Apart(t) /\ SongsIn(t) \subseteq SongsIn(s) \cup {id.uuid}
  <2>1. /\ t.SavedQueue = q /\ t.BroadcastQueue = <<>> /\ b = <<>> /\ w = <<>>
        /\ t.CurrentQueue = <<BroadcastSong(id)>>
    BY <1>1, <1>10 DEF Interrupts, Playing, Saved
  <2>2. IDsOf(t.CurrentQueue) = {id} /\ Distinct(t.CurrentQueue)
    BY <2>1, SingleIDs DEF BroadcastSong
  <2>3. Uuids(t.CurrentQueue) = {id.uuid}
    BY <2>2 DEF Uuids
  <2> QED
    BY <1>2, <1>10, <2>1, <2>2, <2>3 DEF Apart, SongsIn
<1>11. ASSUME Waits(s, t, id), op \in Bringing
       PROVE  Apart(t) /\ SongsIn(t) \subseteq SongsIn(s) \cup {id.uuid}
  <2> DEFINE song == BroadcastSong(id)
  <2>1. /\ t.SavedQueue = w /\ t.CurrentQueue = q /\ t.BroadcastQueue = Append(b, song)
    BY <1>11 DEF Waits, Playing, Saved
  <2>2. song \in Song /\ song.QueueID = id
    BY <1>11 DEF BroadcastSong, Song, Names
  <2> HIDE DEF song
  <2>3. /\ IDsOf(t.BroadcastQueue) = IDsOf(b) \cup {id}
        /\ Distinct(t.BroadcastQueue)
    BY <1>1, <1>11, <2>1, <2>2, AppendIDs DEF Apart, SongsIn
  <2>4. Uuids(t.BroadcastQueue) = Uuids(b) \cup {id.uuid}
    BY <2>3 DEF Uuids
  <2> QED
    BY <1>11, <2>1, <2>3, <2>4 DEF Apart, SongsIn
<1> QED
  BY <1>4, <1>5, <1>6, <1>7, <1>8, <1>9, <1>10, <1>11 DEF Does, Bringing

\* The scheduler of p has a song that no document has yet.
Coming(p) == job[p].at = "inject"

\* Songs are apart in every document, and so are those that are still to come: the
\* requests may only take out what they name because of it.
SongsApart == \A s \in Documents : Apart(s) /\ SongsIn(s) \subseteq 1..minted

ComingApart ==
    \A p \in Procs : Coming(p) =>
      /\ job[p].target.uuid \in 1..minted
      /\ \A s \in Documents : job[p].target.uuid \notin SongsIn(s)
      /\ \A q \in Procs : Coming(q) /\ p # q => job[p].target.uuid # job[q].target.uuid

SongsInv == ClaimsKnown /\ SongsApart /\ ComingApart

\* What is read is a document.
LEMMA ReadIsDocument ==
    ASSUME IInv, NEW p \in Procs
    PROVE  /\ ReadBy(p) \in Documents /\ ReadBy(p) \in PlaylistState /\ WellFormed(ReadBy(p))
           /\ store \in Documents /\ job[p].blob \in Documents
BY JobFacts DEF IInv, SharedOK, ReadBy, Documents

\* A step that puts no song into any document and sends none.
LEMMA NoSongComes ==
    ASSUME SongsApart, ComingApart, minted' = minted,
           \A s \in Documents' :
             Apart(s) /\ (SongsIn(s) = {} \/ \E d \in Documents : SongsIn(s) \subseteq SongsIn(d)),
           \A p \in Procs : Coming(p)' => Coming(p) /\ job'[p] = job[p]
    PROVE  SongsApart' /\ ComingApart'
<1>1. SongsApart'
  BY DEF SongsApart
<1>2. \A p \in Procs : Coming(p)' => \A s \in Documents' : job'[p].target.uuid \notin SongsIn(s)
  BY DEF ComingApart
<1>3. ComingApart'
  BY <1>2 DEF ComingApart
<1> QED
  BY <1>1, <1>3

\* A handler that rests, has read the document or writes what it holds is one.
LEMMA RestingKeepsSongs ==
    ASSUME IInv, SongsApart, ComingApart, NEW p \in Procs,
           (Rests(p) /\ Same) \/ WriteState(p) \/ Reads(p)
    PROVE  SongsApart' /\ ComingApart'
<1>1. \A q \in Procs \ {p} : job'[q] = job[q]
  BY WriterRests DEF Rests, Reads, Alone
<1>2. /\ job'[p].blob \in Documents \cup {EmptyState}
      /\ store' \in Documents
      /\ minted' = minted /\ job'[p].at # "inject"
  BY WriterRests, ReadIsDocument DEF Rests, Reads, Same, WriteState, Held, bounds
<1>3. \A s \in Documents' : s \in Documents \cup {EmptyState}
  BY <1>1, <1>2 DEF Documents
<1>4. \A q \in Procs : Coming(q)' => Coming(q) /\ job'[q] = job[q]
  BY <1>1, <1>2 DEF Coming
<1> QED
  BY <1>2, <1>3, <1>4, EmptyApart, NoSongComes DEF SongsApart

\* The scheduler's next song is in no document and no other handler's.
LEMMA SendingKeepsSongs ==
    ASSUME IInv, SongsApart, ComingApart, NEW p \in Procs, Sends(p)
    PROVE  SongsApart' /\ ComingApart'
<1>1. /\ minted \in Nat /\ minted' = minted + 1
      /\ \A q \in Procs \ {p} : job'[q] = job[q]
      /\ job'[p].target.uuid = minted + 1
  BY DEF Sends, Alone, NextID, IInv, SharedOK
<1>2. \A s \in Documents' : s \in Documents \cup {EmptyState}
  BY DEF Sends, Alone, Documents
<1>3. \A s \in Documents' : Apart(s) /\ SongsIn(s) \subseteq 1..minted
  BY <1>2, EmptyApart DEF SongsApart
<1>4. SongsApart'
  BY <1>1, <1>3 DEF SongsApart
<1>5. \A s \in Documents' : minted + 1 \notin SongsIn(s)
  BY <1>1, <1>3
<1>6. \A q \in Procs \ {p} : Coming(q)' =>
        /\ job'[q].target.uuid \in 1..minted
        /\ \A s \in Documents' : job'[q].target.uuid \notin SongsIn(s)
        /\ \A r \in Procs \ {p} : Coming(r)' /\ q # r => job'[q].target.uuid # job'[r].target.uuid
  BY <1>1, <1>2, EmptyApart DEF ComingApart, Coming
<1>7. ComingApart'
  BY <1>1, <1>5, <1>6 DEF ComingApart
<1> QED
  BY <1>4, <1>7

\* A new document takes its songs from one that was there, and at most one that
\* was in none.
LEMMA MakingKeepsSongs ==
    ASSUME IInv, IInv', SongsApart, ComingApart, NEW p \in Procs, NEW op, NEW id,
           Makes(p, op, id)
    PROVE  SongsApart' /\ ComingApart'
<1> DEFINE s == ReadBy(p)
           t == job'[p].blob
<1>1. /\ s \in Documents /\ s \in PlaylistState /\ WellFormed(s)
      /\ Apart(s) /\ SongsIn(s) \subseteq 1..minted
      /\ minted \in Nat /\ id \in QueueID
  <2>1. id \in QueueID
    BY DEF Makes, IInv, JobsOK, Job
  <2> QED
    BY <2>1, ReadIsDocument DEF SongsApart, IInv, SharedOK
<1>2. op \in Bringing =>
        /\ id.uuid \in 1..minted' /\ id.uuid \notin SongsIn(s)
        /\ \A d \in Documents : id.uuid \notin SongsIn(d)
        /\ \A q \in Procs \ {p} : Coming(q) => job[q].target.uuid # id.uuid
  <2>1. CASE op = "add"
    <3>1. id.uuid = minted + 1 /\ minted' = minted + 1
      BY <2>1 DEF Makes, NextID
    <3>2. minted + 1 \notin 1..minted /\ minted + 1 \in 1..(minted + 1)
      BY <1>1
    <3> QED
      BY <1>1, <3>1, <3>2 DEF SongsApart, ComingApart
  <2>2. CASE op \in {"startBroadcast", "queueBroadcast"}
    <3>1. Coming(p) /\ id = job[p].target /\ minted' = minted
      BY <2>2 DEF Makes, Coming
    <3> QED
      BY <1>1, <3>1 DEF ComingApart
  <2> QED
    BY <2>1, <2>2 DEF Bringing
<1>3. Does(op, s, t, id)
  BY DEF Makes
<1>4. /\ Apart(t) /\ SongsIn(t) \subseteq SongsIn(s) \cup {id.uuid}
      /\ op \notin Bringing => SongsIn(t) \subseteq SongsIn(s)
  BY <1>1, <1>2, <1>3, DoesApart
<1>5. \A d \in Documents' : d \in Documents \/ d = t
  BY DEF Makes, Alone, Documents
<1>6. \A n \in 1..minted : n \in 1..minted'
  BY <1>1 DEF Makes
<1>7. SongsApart'
  <2>1. SongsIn(t) \subseteq 1..minted'
    BY <1>1, <1>2, <1>4, <1>6
  <2> QED
    BY <1>4, <1>5, <1>6, <2>1 DEF SongsApart
<1>8. \A q \in Procs : Coming(q)' => q # p /\ Coming(q) /\ job'[q] = job[q]
  BY DEF Makes, Alone, Coming
<1> HIDE DEF s, t
<1>9. \A q \in Procs : Coming(q)' => job[q].target.uuid \notin SongsIn(t)
  BY <1>1, <1>2, <1>4, <1>8 DEF ComingApart
<1>10. ComingApart'
  BY <1>5, <1>6, <1>8, <1>9 DEF ComingApart
<1> QED
  BY <1>7, <1>10

\* Songs stay apart.
LEMMA SongsInvariant == Spec => []SongsInv
<1>1. Init => SongsInv
  <2> SUFFICES ASSUME Init
               PROVE  SongsInv
    OBVIOUS
  <2>1. /\ \A p \in Procs : job[p] = Idle
        /\ store.CurrentQueue = <<>> /\ store.SavedQueue = <<>> /\ store.BroadcastQueue = <<>>
    BY RoomAssumption, SavedFacts DEF Init
  <2>2. Apart(store) /\ SongsIn(store) = {}
    BY <2>1, EmptyIDs DEF Apart, SongsIn, Uuids
  <2>3. \A s \in Documents : s = store \/ s = EmptyState
    BY <2>1 DEF Documents, Idle
  <2>4. SongsApart
    BY <2>2, <2>3, EmptyApart DEF SongsApart
  <2> QED
    BY <2>1, <2>4 DEF SongsInv, ClaimsKnown, ComingApart, Coming, Idle
<1>2. IInv /\ IInv' /\ SongsInv /\ [Next]_vars => SongsInv'
  <2> SUFFICES ASSUME IInv, IInv', SongsInv, [Next]_vars
               PROVE  SongsInv'
    OBVIOUS
  <2>1. ClaimsKnown' /\ SongsApart /\ ComingApart
    BY ClaimsStayKnown DEF SongsInv
  <2>2. ASSUME NEW p \in Procs, HandlerStep(p)
        PROVE  SongsApart' /\ ComingApart'
    BY <2>1, <2>2, RestingKeepsSongs, SendingKeepsSongs, MakingKeepsSongs DEF HandlerStep
  <2>3. CASE Same /\ job' = job
    <3>1. Documents' = Documents
      BY <2>3 DEF Same, Documents
    <3> QED
      BY <2>1, <2>3, <3>1 DEF SongsApart, ComingApart, Coming, Same, SongsInv
  <2>4. CASE Tick
    <3>1. /\ SongsIn(store') = SongsIn(store)
          /\ Apart(store) => Apart(store')
      <4>1. /\ store'.CurrentQueue = store.CurrentQueue /\ store'.SavedQueue = store.SavedQueue
            /\ store'.BroadcastQueue = store.BroadcastQueue
        BY <2>4 DEF Tick, IInv, SharedOK, PlaylistState
      <4> QED
        BY <4>1 DEF SongsIn, Apart
    <3>2. \A s \in Documents' : s = store' \/ s \in Documents
      BY <2>4 DEF Tick, Documents
    <3>3. store \in Documents
      BY DEF Documents
    <3>4. minted' = minted /\ job' = job
      BY <2>4 DEF Tick, bounds
    <3> QED
      BY <2>1, <3>1, <3>2, <3>3, <3>4, NoSongComes DEF SongsApart, Coming, SongsInv
  <2>5. CASE Crash
    <3>1. /\ \A p \in Procs : job'[p] = Idle
          /\ store' = store /\ minted' = minted
      BY <2>5 DEF Crash, redis
    <3>2. \A s \in Documents' : s = store \/ s = EmptyState
      BY <3>1 DEF Documents, Idle
    <3>3. \A p \in Procs : ~Coming(p)'
      BY <3>1 DEF Coming, Idle
    <3>4. store \in Documents
      BY DEF Documents
    <3> QED
      BY <2>1, <3>1, <3>2, <3>3, <3>4, EmptyApart, NoSongComes DEF SongsApart, SongsInv
  <2> QED
    BY <2>1, <2>2, <2>3, <2>4, <2>5, DocumentSteps DEF SongsInv
<1> QED
  BY <1>1, <1>2, Inductive, PTL DEF Spec

\* A handler that comes to the point of writing has computed its document.
LEMMA ComputesMakes ==
    ASSUME IInv, ClaimsKnown, [Next]_vars, NEW p \in Procs, NEW ops, Computes(p, ops)
    PROVE  Makes(p, job'[p].op, job'[p].target) /\ job'[p].op \in ops
<1>1. job[p].at # "write" /\ job'[p].at = "write" /\ job'[p].op \in ops
  BY DEF Computes
<1>2. ASSUME NEW q \in Procs, HandlerStep(q)
      PROVE  Makes(p, job'[p].op, job'[p].target)
  <2>1. \A r \in Procs \ {q} : job'[r] = job[r]
    BY <1>2, WriterRests DEF HandlerStep, Rests, Reads, Sends, Makes, Alone
  <2>2. p = q
    BY <1>1, <2>1
  <2>3. \E op, id : Makes(p, op, id)
    BY <1>1, <1>2, <2>2, WriterRests DEF HandlerStep, Rests, Reads, Sends, Held
  <2> QED
    BY <2>3 DEF Makes
<1>3. ~Crash /\ job' # job
  BY <1>1 DEF Crash, Idle
<1> QED
  BY <1>1, <1>2, <1>3, DocumentSteps DEF Tick

\* A request takes out of the queue the song it was made for and no other, however
\* long ago it was decided, and the requests that take out none leave all: songs
\* are apart in every document, and a document is computed from one that was there.
THEOREM SongsTakenOut == Spec => DropsOnlyItsSong
<1> DEFINE Kept ==
      \A p \in Procs :
         LET dropped == IDs(ReadBy(p)) \ IDs(job'[p].blob)
         IN  /\ Computes(p, {"add", "reorder", "mode", "speed"}) => dropped = {}
             /\ Computes(p, {"remove_song", "skip_song", "ended"}) =>
                  dropped = {job'[p].target}
<1>1. ASSUME IInv, SongsInv, [Next]_vars
      PROVE  Kept
  <2> SUFFICES ASSUME NEW p \in Procs
               PROVE  LET dropped == IDs(ReadBy(p)) \ IDs(job'[p].blob)
                      IN  /\ Computes(p, {"add", "reorder", "mode", "speed"}) => dropped = {}
                          /\ Computes(p, {"remove_song", "skip_song", "ended"}) =>
                               dropped = {job'[p].target}
    OBVIOUS
  <2> DEFINE s == ReadBy(p)
             t == job'[p].blob
             id == job'[p].target
  <2>1. IDs(s) = IDsOf(s.CurrentQueue) /\ IDs(t) = IDsOf(t.CurrentQueue)
    BY DEF IDs, IDsOf
  <2>2. Distinct(s.CurrentQueue)
    BY <1>1, ReadIsDocument DEF SongsInv, SongsApart, Apart
  <2>3. \A ops : Computes(p, ops) => Does(job'[p].op, s, t, id) /\ job'[p].op \in ops
    BY <1>1, ComputesMakes DEF SongsInv, Makes
  <2> HIDE DEF s, t, id
  <2>4. CASE Computes(p, {"add", "reorder", "mode", "speed"})
    <3>1. Gains(s, t, id) \/ Rearranges(s, t)
      BY <2>3, <2>4 DEF Does
    <3>2. job'[p].op \notin {"remove_song", "skip_song", "ended"}
      BY <2>3, <2>4
    <3>3. IDsOf(s.CurrentQueue) \ IDsOf(t.CurrentQueue) = {}
      BY <3>1 DEF Gains, Rearranges
    <3> QED
      BY <2>1, <3>2, <3>3 DEF Computes, s, t
  <2>5. CASE Computes(p, {"remove_song", "skip_song", "ended"})
    <3>1. Loses(s, t, id)
      BY <2>3, <2>5 DEF Does
    <3>2. job'[p].op \notin {"add", "reorder", "mode", "speed"}
      BY <2>3, <2>5
    <3>3. IDsOf(s.CurrentQueue) \ IDsOf(t.CurrentQueue) = {id}
      BY <2>2, <3>1 DEF Loses
    <3> QED
      BY <2>1, <3>2, <3>3 DEF Computes, s, t, id
  <2> QED
    BY <2>4, <2>5
<1>2. DropsOnlyItsSong <=> [][Kept]_vars
  BY DEF DropsOnlyItsSong
<1> HIDE DEF Kept
<1> QED
  BY <1>1, <1>2, Inductive, SongsInvariant, PTL DEF Spec

-----------------------------------------------------------------------------
(* Whose seek time it is.                                                  *)

\* Whatever a request does, the seek time stays with its song.
LEMMA DoesEarn ==
    ASSUME NEW s, NEW t, NEW op, NEW id, Does(op, s, t, id), SeekEarned(s)
    PROVE  SeekEarned(t)
<1>1. ASSUME Beside(t) = Beside(s), SeekKept(s, t)
      PROVE  SeekEarned(t)
  <2>1. /\ t.IsBroadcasting = s.IsBroadcasting /\ t.SavedQueue = s.SavedQueue
        /\ t.SavedCurrentIndex = s.SavedCurrentIndex /\ t.SavedSeekTime = s.SavedSeekTime
    BY <1>1 DEF Beside
  <2>2. ~(0 > 0)
    OBVIOUS
  <2>3. t.SeekTime > 0 => t.CurrentQueue # <<>> /\ CurrentSong(t).QueueID \in ticked
    BY <1>1, <2>2 DEF SeekKept, SeekEarned
  <2> QED
    BY <2>1, <2>3 DEF SeekEarned
<1>2. CASE \/ Gains(s, t, id) \/ Rearranges(s, t) \/ Loses(s, t, id) \/ PlaysAgain(s, t, id)
  BY <1>1, <1>2 DEF Gains, Rearranges, Loses, PlaysAgain, SeekKept
<1>3. CASE GoesOn(s, t)
  <2>1. /\ t.IsBroadcasting = s.IsBroadcasting /\ t.SavedQueue = s.SavedQueue
        /\ t.SavedCurrentIndex = s.SavedCurrentIndex /\ t.SavedSeekTime = s.SavedSeekTime
        /\ ~(t.SeekTime > 0)
    BY <1>3 DEF GoesOn, Saved
  <2> QED
    BY <2>1 DEF SeekEarned
<1>4. CASE Restores(s, t)
  <2>1. /\ s.IsBroadcasting /\ ~t.IsBroadcasting /\ t.CurrentQueue = s.SavedQueue
        /\ t.CurrentIndex = s.SavedCurrentIndex /\ t.SeekTime = s.SavedSeekTime
    BY <1>4 DEF Restores, Playing, Saved
  <2> QED
    BY <2>1 DEF SeekEarned, CurrentSong
<1>5. CASE Interrupts(s, t, id)
  <2>1. /\ t.SavedQueue = s.CurrentQueue /\ t.SavedCurrentIndex = s.CurrentIndex
        /\ t.SavedSeekTime = s.SeekTime /\ ~(t.SeekTime > 0)
    BY <1>5 DEF Interrupts, Playing, Saved
  <2> QED
    BY <2>1 DEF SeekEarned, CurrentSong
<1>6. CASE Waits(s, t, id)
  <2>1. /\ t.IsBroadcasting = s.IsBroadcasting /\ t.SavedQueue = s.SavedQueue
        /\ t.SavedCurrentIndex = s.SavedCurrentIndex /\ t.SavedSeekTime = s.SavedSeekTime
        /\ t.CurrentQueue = s.CurrentQueue /\ t.CurrentIndex = s.CurrentIndex
        /\ t.SeekTime = s.SeekTime
    BY <1>6 DEF Waits, Playing, Saved
  <2> QED
    BY <2>1 DEF SeekEarned, CurrentSong
<1> QED
  BY <1>2, <1>3, <1>4, <1>5, <1>6 DEF Does

\* The seek time is that of the song it stands beside, in every document and
\* whatever runs at the same time: a song that has just come up, from the queue,
\* from a broadcast or from a replay, never starts where another one was.
THEOREM SeekStaysWithSong == Spec => []SeekBelongsToSong
<1>1. SeekEarned(EmptyState)
  BY DEF EmptyState, SeekEarned
<1>2. Init => SeekBelongsToSong
  <2> SUFFICES ASSUME Init
               PROVE  SeekBelongsToSong
    OBVIOUS
  <2>1. store.SeekTime = 0 /\ ~store.IsBroadcasting
    BY RoomAssumption DEF Init
  <2>2. SeekEarned(store)
    BY <2>1 DEF SeekEarned
  <2>3. \A s \in Documents : s = store \/ s = EmptyState
    BY DEF Init, Documents, Idle
  <2> QED
    BY <1>1, <2>2, <2>3 DEF SeekBelongsToSong
<1>3. ASSUME IInv, SongsInv, SeekBelongsToSong, [Next]_vars
      PROVE  SeekBelongsToSong'
  <2>1. ASSUME ticked' = ticked,
               \A s \in Documents' : s \in Documents \/ s = EmptyState \/ SeekEarned(s)
        PROVE  SeekBelongsToSong'
    <3>1. \A s \in Documents' : SeekEarned(s)
      BY <1>1, <1>3, <2>1 DEF SeekBelongsToSong
    <3> QED
      BY <2>1, <3>1 DEF SeekBelongsToSong, SeekEarned
  <2>2. ASSUME NEW p \in Procs, HandlerStep(p)
        PROVE  SeekBelongsToSong'
    <3>1. \A q \in Procs \ {p} : job'[q] = job[q]
      BY <1>3, <2>2, WriterRests DEF HandlerStep, Rests, Reads, Sends, Makes, Alone
    <3>2. ticked' = ticked /\ store' \in Documents
      BY <1>3, <2>2, ReadIsDocument DEF HandlerStep, Same, WriteState, Reads, Sends, Makes
    <3>3. \/ job'[p].blob \in Documents \/ job'[p].blob = EmptyState
          \/ \E op, id : Does(op, ReadBy(p), job'[p].blob, id)
      BY <1>3, <2>2, ReadIsDocument, WriterRests DEF HandlerStep, Rests, Reads, Sends, Makes
    <3>4. SeekEarned(ReadBy(p))
      BY <1>3, ReadIsDocument DEF SeekBelongsToSong
    <3>5. \/ job'[p].blob \in Documents \/ job'[p].blob = EmptyState
          \/ SeekEarned(job'[p].blob)
      BY <3>3, <3>4, DoesEarn
    <3>6. \A s \in Documents' : s \in Documents \/ s = job'[p].blob
      BY <3>1, <3>2 DEF Documents
    <3> QED
      BY <2>1, <3>2, <3>5, <3>6
  <2>3. CASE Same /\ job' = job
    <3>1. Documents' = Documents /\ ticked' = ticked
      BY <2>3 DEF Same, Documents
    <3> QED
      BY <2>1, <3>1
  <2>4. CASE Tick
    <3>1. /\ store'.CurrentQueue = store.CurrentQueue /\ store'.CurrentIndex = store.CurrentIndex
          /\ store'.IsBroadcasting = store.IsBroadcasting
          /\ store'.SavedQueue = store.SavedQueue
          /\ store'.SavedCurrentIndex = store.SavedCurrentIndex
          /\ store'.SavedSeekTime = store.SavedSeekTime
      BY <1>3, <2>4 DEF Tick, IInv, SharedOK, PlaylistState
    <3>2. store.CurrentQueue # <<>>
      BY <1>3, <2>4, QueueFacts DEF Tick, IInv, SharedOK
    <3>3. CurrentSong(store') = CurrentSong(store) /\ CurrentSong(store).QueueID \in ticked'
      BY <2>4, <3>1 DEF Tick, CurrentSong
    <3>4. ticked \subseteq ticked' /\ job' = job
      BY <2>4 DEF Tick
    <3>5. SeekEarned(store)
      BY <1>3, ReadIsDocument DEF SeekBelongsToSong, Documents
    <3>6. SeekEarned(store)'
      BY <3>1, <3>2, <3>3, <3>4, <3>5 DEF SeekEarned, CurrentSong
    <3>7. \A s \in Documents : SeekEarned(s)
      BY <1>3 DEF SeekBelongsToSong
    <3>8. \A p \in Procs : SeekEarned(job[p].blob)'
      BY <3>4, <3>7 DEF SeekEarned, Documents
    <3> QED
      BY <3>6, <3>8 DEF SeekBelongsToSong, Documents
  <2>5. CASE Crash
    <3>1. /\ \A p \in Procs : job'[p] = Idle
          /\ store' = store /\ ticked' = ticked
      BY <2>5 DEF Crash, redis, ghosts
    <3>2. \A s \in Documents' : s \in Documents \/ s = EmptyState
      BY <3>1 DEF Documents, Idle
    <3> QED
      BY <2>1, <3>1, <3>2
  <2> QED
    BY <1>3, <2>2, <2>3, <2>4, <2>5, DocumentSteps DEF SongsInv
<1> QED
  BY <1>2, <1>3, Inductive, SongsInvariant, PTL DEF Spec

-----------------------------------------------------------------------------
(* No two handlers overlap.                                                *)

\* At most one handler is between two calls to Redis.
OneBusy == \A p, q \in Procs : job[p] # Idle /\ job[q] # Idle => p = q

\* What the users have coming: the queue, and that which a broadcast has saved.
Due(s) ==
    IDsOf(s.CurrentQueue) \cup (IF s.IsBroadcasting THEN IDsOf(s.SavedQueue) ELSE {})

\* A broadcast that starts saves what is playing, one that goes on leaves it saved,
\* one that ends has it play again.
Interlude(s, t) ==
    /\ ~s.IsBroadcasting /\ t.IsBroadcasting => Saved(t) = Playing(s)
    /\ s.IsBroadcasting /\ t.IsBroadcasting => Saved(t) = Saved(s)
    /\ s.IsBroadcasting /\ ~t.IsBroadcasting => Playing(t) = Saved(s)

\* What a handler has read or computed is about the document that is stored: the
\* property about the songs is inductive with this.
CalmInv ==
    /\ OneBusy
    /\ owed \subseteq Due(store) \cup discarded
    /\ \A p \in Procs : job[p].at = "claim" => job[p].blob = store
    /\ \A p \in Procs : job[p].at = "write" =>
         /\ Interlude(store, job[p].blob)
         /\ Owed(job[p]) \subseteq Due(job[p].blob) \cup Discarded(job[p])

\* With room for one more, there is none.
LEMMA NobodyBusy ==
    ASSUME MaxInFlight = 1, OneBusy, Cardinality(Busy) < MaxInFlight
    PROVE  \A q \in Procs : job[q] = Idle
<1>1. CASE \E q \in Procs : job[q] # Idle
  <2>1. PICK q \in Procs : job[q] # Idle
    BY <1>1
  <2>2. Busy = {q}
    BY <2>1 DEF OneBusy, Busy
  <2>3. Cardinality({q}) = 1
    BY FS_Singleton
  <2> QED
    BY <2>2, <2>3
<1> QED
  BY <1>1

\* The handler that takes a step is the only one.
LEMMA OthersIdle ==
    ASSUME MaxInFlight = 1, OneBusy, NEW p \in Procs, Alone(p)
    PROVE  /\ OneBusy'
           /\ \/ \A q \in Procs : job'[q] = job[q]
              \/ \A q \in Procs \ {p} : job[q] = Idle /\ job'[q] = Idle
<1>1. CASE job[p] # Idle
  BY <1>1 DEF OneBusy, Alone
<1>2. CASE job[p] = Idle /\ job'[p] = Idle
  <2>1. \A q \in Procs : job'[q] = job[q]
    BY <1>2 DEF Alone
  <2> QED
    BY <2>1 DEF OneBusy
<1>3. CASE job[p] = Idle /\ job'[p] # Idle
  <2>1. \A q \in Procs : job[q] = Idle
    BY <1>3, NobodyBusy DEF Alone
  <2> QED
    BY <2>1 DEF OneBusy, Alone
<1> QED
  BY <1>1, <1>2, <1>3

\* Whatever a request does to the document it has read, a broadcast is an interlude
\* and no song is lost that the request was not made for, but those in the queue of
\* a broadcast that is given up.
LEMMA DoesInterlude ==
    ASSUME NEW s, s = store, NEW t, NEW op, NEW id, Does(op, s, t, id),
           Distinct(s.CurrentQueue), owed \subseteq Due(s) \cup discarded,
           NEW j, j.op = op, j.blob = t, j.target = id
    PROVE  Interlude(s, t) /\ Owed(j) \subseteq Due(t) \cup Discarded(j)
<1>1. /\ op = "add" => Owed(j) = owed \cup {id}
      /\ op \in {"ended", "skip_song", "report", "remove_song"} => Owed(j) = owed \ {id}
      /\ op \notin {"add", "ended", "skip_song", "report", "remove_song"} => Owed(j) = owed
      /\ Owed(j) \subseteq owed \cup {id}
  BY DEF Owed
<1>2. ASSUME Beside(t) = Beside(s)
      PROVE  /\ Interlude(s, t) /\ t.IsBroadcasting = s.IsBroadcasting
             /\ t.SavedQueue = s.SavedQueue
  BY <1>2 DEF Beside, Interlude, Saved
<1> HIDE DEF Owed
<1>11. /\ discarded \subseteq Discarded(j)
       /\ s.IsBroadcasting /\ op \in {"endBroadcast", "report", "restore"} =>
            Owed(j) \cap (IDsOf(s.CurrentQueue) \ IDsOf(t.CurrentQueue)) \subseteq Discarded(j)
  BY DEF Discarded, IDs, IDsOf
<1> HIDE DEF Discarded
<1>3. CASE op = "add" /\ Gains(s, t, id)
  BY <1>1, <1>2, <1>3, <1>11 DEF Gains, Due
<1>4. CASE op \in {"reorder", "mode", "speed"} /\ Rearranges(s, t)
  BY <1>1, <1>2, <1>4, <1>11 DEF Rearranges, Due
<1>5. CASE op \in {"remove_song", "skip_song", "ended", "report"} /\ Loses(s, t, id)
  BY <1>1, <1>2, <1>5, <1>11 DEF Loses, Due
<1>6. CASE op = "endBroadcast" /\ PlaysAgain(s, t, id)
  BY <1>1, <1>2, <1>6, <1>11 DEF PlaysAgain, Due
<1>7. CASE op \in {"report", "endBroadcast"} /\ GoesOn(s, t)
  <2>1. Interlude(s, t)
    BY <1>7 DEF GoesOn, Interlude
  <2>2. s.IsBroadcasting /\ t.IsBroadcasting /\ t.SavedQueue = s.SavedQueue
    BY <1>7 DEF GoesOn, Saved
  <2> QED
    BY <1>1, <1>7, <1>11, <2>1, <2>2 DEF Due
<1>8. CASE op \in {"report", "endBroadcast", "restore"} /\ Restores(s, t)
  <2>1. Interlude(s, t)
    BY <1>8 DEF Restores, Interlude
  <2>2. s.IsBroadcasting /\ t.CurrentQueue = s.SavedQueue
    BY <1>8 DEF Restores, Playing, Saved
  <2> QED
    BY <1>1, <1>8, <1>11, <2>1, <2>2 DEF Due
<1>9. CASE op = "startBroadcast" /\ Interrupts(s, t, id)
  <2>1. Interlude(s, t)
    BY <1>9 DEF Interrupts, Interlude
  <2>2. ~s.IsBroadcasting /\ t.IsBroadcasting /\ t.SavedQueue = s.CurrentQueue
    BY <1>9 DEF Interrupts, Playing, Saved
  <2> QED
    BY <1>1, <1>9, <1>11, <2>1, <2>2 DEF Due
<1>10. CASE op = "queueBroadcast" /\ Waits(s, t, id)
  <2>1. Interlude(s, t)
    BY <1>10 DEF Waits, Interlude
  <2>2. /\ s.IsBroadcasting /\ t.IsBroadcasting
        /\ t.SavedQueue = s.SavedQueue /\ t.CurrentQueue = s.CurrentQueue
    BY <1>10 DEF Waits, Playing, Saved
  <2> QED
    BY <1>1, <1>10, <1>11, <2>1, <2>2 DEF Due
<1> QED
  BY <1>3, <1>4, <1>5, <1>6, <1>7, <1>8, <1>9, <1>10 DEF Does

\* Nothing but the document that is being written changes what is stored, but for
\* the seek time.
LEMMA CalmStep ==
    ASSUME MaxInFlight = 1, IInv, SongsInv, CalmInv, [Next]_vars
    PROVE  CalmInv' /\ (store' # store => Interlude(store, store'))
<1>1. OneBusy /\ owed \subseteq Due(store) \cup discarded
  BY DEF CalmInv
<1>2. ASSUME UNCHANGED <<store, owed, discarded>>,
             \A q \in Procs : job'[q] = job[q] \/ job'[q].at \notin {"claim", "write"}
      PROVE  /\ \A q \in Procs : job'[q].at = "claim" => job'[q].blob = store'
             /\ \A q \in Procs : job'[q].at = "write" =>
                  /\ Interlude(store', job'[q].blob)
                  /\ Owed(job[q])' \subseteq Due(job'[q].blob) \cup Discarded(job[q])'
  <2>1. \A q \in Procs : job'[q] = job[q] =>
          Owed(job[q])' = Owed(job[q]) /\ Discarded(job[q])' = Discarded(job[q])
    BY <1>2 DEF Owed, Discarded, IDs
  <2> QED
    BY <1>2, <2>1 DEF CalmInv
<1>3. ASSUME NEW p \in Procs, Rests(p), Same
      PROVE  CalmInv'
  <2>1. \A q \in Procs : job'[q] = job[q] \/ job'[q].at \notin {"claim", "write"}
    BY <1>3 DEF Rests, Alone, Held
  <2> QED
    BY <1>1, <1>2, <1>3, <2>1, OthersIdle DEF CalmInv, Rests, Same
<1>4. ASSUME NEW p \in Procs, Sends(p)
      PROVE  CalmInv'
  <2>1. \A q \in Procs : job'[q] = job[q] \/ job'[q].at \notin {"claim", "write"}
    BY <1>4 DEF Sends, Alone
  <2> QED
    BY <1>1, <1>2, <1>4, <2>1, OthersIdle DEF CalmInv, Sends
<1>5. ASSUME NEW p \in Procs, Reads(p)
      PROVE  CalmInv'
  <2>1. OneBusy' /\ UNCHANGED <<store, owed, discarded>>
    BY <1>1, <1>5, OthersIdle DEF Reads, Same
  <2>2. \A q \in Procs : job'[q].at = "claim" => job'[q].blob = store'
    BY <1>5, <2>1 DEF Reads, Alone, CalmInv
  <2>3. \A q \in Procs : job'[q].at = "write" => job'[q] = job[q]
    BY <1>5 DEF Reads, Alone
  <2>4. \A q \in Procs : job'[q] = job[q] =>
          Owed(job[q])' = Owed(job[q]) /\ Discarded(job[q])' = Discarded(job[q])
    BY <2>1 DEF Owed, Discarded, IDs
  <2> QED
    BY <1>1, <2>1, <2>2, <2>3, <2>4 DEF CalmInv
<1>6. ASSUME NEW p \in Procs, NEW op, NEW id, Makes(p, op, id)
      PROVE  CalmInv'
  <2> DEFINE s == ReadBy(p)
             t == job'[p].blob
  <2>1. s = store
    BY DEF CalmInv, ReadBy
  <2>2. /\ Does(op, s, t, id) /\ UNCHANGED <<store, owed, discarded>>
        /\ job'[p].at = "write" /\ job'[p].op = op /\ job'[p].target = id
        /\ job'[p] # job[p] /\ Alone(p)
    BY <1>6 DEF Makes
  <2>3. OneBusy' /\ \A q \in Procs \ {p} : job'[q] = Idle
    BY <1>1, <2>2, OthersIdle
  <2>4. Distinct(s.CurrentQueue)
    BY ReadIsDocument DEF SongsInv, SongsApart, Apart
  <2>5. Interlude(s, t) /\ Owed(job'[p]) \subseteq Due(t) \cup Discarded(job'[p])
    <3> HIDE DEF s, t
    <3>1. job'[p].blob = t
      BY DEF t
    <3> QED
      BY <1>1, <2>1, <2>2, <2>4, <3>1, DoesInterlude
  <2>6. Owed(job[p])' = Owed(job'[p]) /\ Discarded(job[p])' = Discarded(job'[p])
    BY <2>2 DEF Owed, Discarded, IDs
  <2>7. Idle.at = "idle"
    BY DEF Idle
  <2> HIDE DEF s, t
  <2>8. \A q \in Procs : job'[q].at = "claim" => job'[q].blob = store'
    BY <2>2, <2>3, <2>7
  <2>9. \A q \in Procs : job'[q].at = "write" => q = p
    BY <2>3, <2>7
  <2> QED
    BY <1>1, <2>1, <2>2, <2>3, <2>5, <2>6, <2>8, <2>9 DEF CalmInv, t
<1>7. ASSUME NEW p \in Procs, WriteState(p)
      PROVE  CalmInv' /\ Interlude(store, store')
  <2>1. /\ job[p].at = "write" /\ store' = job[p].blob /\ owed' = Owed(job[p])
        /\ discarded' = Discarded(job[p]) /\ Rests(p)
    BY <1>7, WriterRests DEF WriteState
  <2>2. job'[p] # job[p] /\ Alone(p) /\ job'[p].at \notin Held
    BY <2>1 DEF Rests, Held
  <2>3. OneBusy' /\ \A q \in Procs \ {p} : job'[q] = Idle
    BY <1>1, <2>2, OthersIdle
  <2>4. \A q \in Procs : job'[q].at \notin {"claim", "write"}
    BY <2>2, <2>3 DEF Held, Idle
  <2>5. Interlude(store, store') /\ owed' \subseteq Due(store') \cup discarded'
    BY <2>1 DEF CalmInv
  <2> QED
    BY <2>3, <2>4, <2>5 DEF CalmInv, Due
<1>8. CASE Same /\ job' = job
  BY <1>1, <1>2, <1>8 DEF CalmInv, Same, OneBusy
<1>9. CASE Tick
  <2>1. /\ \A q \in Procs : job'[q].at \notin {"claim", "write"}
        /\ OneBusy'
    BY <1>1, <1>9, NobodyBusy DEF Tick, OneBusy, Idle
  <2>2. /\ store'.CurrentQueue = store.CurrentQueue /\ store'.SavedQueue = store.SavedQueue
        /\ store'.IsBroadcasting = store.IsBroadcasting
        /\ Saved(store') = Saved(store) /\ owed' = owed /\ discarded' = discarded
    BY <1>9 DEF Tick, IInv, SharedOK, PlaylistState, Saved
  <2>3. Interlude(store, store') /\ owed' \subseteq Due(store') \cup discarded'
    BY <1>1, <2>2 DEF Interlude, Due
  <2> QED
    BY <2>1, <2>3 DEF CalmInv, Due
<1>10. CASE Crash
  <2>1. /\ \A q \in Procs : job'[q] = Idle
        /\ UNCHANGED <<store, owed, discarded>>
    BY <1>10 DEF Crash, redis, ghosts
  <2> QED
    BY <1>1, <2>1 DEF CalmInv, OneBusy, Idle, Due
<1>11. CASE \E p \in Procs : HandlerStep(p)
  BY <1>3, <1>4, <1>5, <1>6, <1>7, <1>11 DEF HandlerStep, Same, Reads, Sends, Makes
<1>12. store' # store => \/ Tick \/ \E p \in Procs : WriteState(p)
  BY DocumentSteps DEF SongsInv, HandlerStep, Same, Reads, Sends, Makes, Crash, redis
<1>13. Tick => Interlude(store, store')
  <2> SUFFICES ASSUME Tick
               PROVE  Interlude(store, store')
    OBVIOUS
  <2>1. store'.IsBroadcasting = store.IsBroadcasting /\ Saved(store') = Saved(store)
    BY DEF Tick, IInv, SharedOK, PlaylistState, Saved
  <2> QED
    BY <2>1 DEF Interlude
<1> QED
  BY <1>7, <1>8, <1>9, <1>10, <1>11, <1>12, <1>13, DocumentSteps DEF SongsInv

\* A calm room stays calm.
LEMMA CalmInvariant ==
    ASSUME MaxInFlight = 1
    PROVE  Spec => []CalmInv
<1>1. Init => CalmInv
  BY DEF Init, CalmInv, OneBusy, Idle
<1>2. IInv /\ SongsInv /\ CalmInv /\ [Next]_vars => CalmInv'
  BY CalmStep
<1> QED
  BY <1>1, <1>2, Inductive, SongsInvariant, PTL DEF Spec

\* As long as no two handlers overlap, a song that was accepted is in the queue, or
\* saved during a broadcast, until it is played, skipped or removed; only the songs in
\* the queue of a broadcast, accepted while it plays, are discarded when the users'
\* queue comes back or the next broadcast takes its place.  So it is however many
\* clients there are, and even if Redis fails or the server dies between the calls
\* of a handler.
THEOREM NothingLost ==
    ASSUME MaxInFlight = 1
    PROVE  Spec => []NoSongIsLost
<1>1. CalmInv => NoSongIsLost
  BY DEF CalmInv, Due, NoSongIsLost, IDs, IDsOf
<1> QED
  BY <1>1, CalmInvariant, PTL

\* And a broadcast is an interlude: it saves what was playing, nothing touches it in
\* the meantime, and whichever way it ends, by its song's end, an error, a vote, the
\* admin or the last client leaving, that is what plays again.
THEOREM BroadcastGivesBack ==
    ASSUME MaxInFlight = 1
    PROVE  Spec => BroadcastIsInterlude
<1> DEFINE Kept ==
      /\ ~store.IsBroadcasting /\ store'.IsBroadcasting => Saved(store') = Playing(store)
      /\ store.IsBroadcasting /\ store'.IsBroadcasting => Saved(store') = Saved(store)
      /\ store.IsBroadcasting /\ ~store'.IsBroadcasting => Playing(store') = Saved(store)
<1>1. IInv /\ SongsInv /\ CalmInv /\ [Next]_vars => [Kept]_store
  BY CalmStep DEF Interlude
<1>2. BroadcastIsInterlude <=> [][Kept]_store
  BY DEF BroadcastIsInterlude
<1> HIDE DEF Kept
<1> QED
  BY <1>1, <1>2, Inductive, SongsInvariant, CalmInvariant, PTL DEF Spec

-----------------------------------------------------------------------------
(* What is recorded.                                                       *)

\* The songs that have an entry in the history.
Recorded == {history[i].QueueID : i \in DOMAIN history}

RecordedUuids == {id.uuid : id \in Recorded}

AllIDs(s) == IDsOf(s.CurrentQueue) \cup IDsOf(s.SavedQueue) \cup IDsOf(s.BroadcastQueue)

\* A song of the document was recorded at most in an earlier round.
Unrecorded(s, recorded) ==
    \A id \in AllIDs(s), h \in recorded : h.uuid = id.uuid => h.replays < id.replays

\* As long as nothing fails, the songs of a document are not in the history yet, but
\* for the one whose document without it is being written.
RecordInv ==
    faults = 0 =>
      /\ RecordedOnce
      /\ RecordedUuids \subseteq 1..minted
      /\ (\A p \in Procs : job[p].at # "write") => Unrecorded(store, Recorded)
      /\ \A p \in Procs : job[p].at = "write" => Unrecorded(job[p].blob, Recorded)
      /\ \A p \in Procs : Coming(p) => job[p].target.uuid \notin RecordedUuids

\* Uuids of the ids in a document.
LEMMA AllIDsUuids ==
    ASSUME NEW s, NEW id \in AllIDs(s)
    PROVE  id.uuid \in SongsIn(s)
BY DEF AllIDs, SongsIn, Uuids

\* An entry more, and the oldest one less.
LEMMA EntryRecorded ==
    ASSUME history \in Seq(HistorySong), RecordedOnce, NEW id \in QueueID, id \notin Recorded,
           NEW status,
           history' = Newest(Append(history, [QueueID |-> id, Status |-> status]))
    PROVE  RecordedOnce' /\ Recorded' \subseteq Recorded \cup {id}
<1> DEFINE n == Len(history)
           r == Append(history, [QueueID |-> id, Status |-> status])
<1>1. /\ n \in Nat /\ DOMAIN history = 1..n
      /\ r \in Seq(UNION {HistorySong, {[QueueID |-> id, Status |-> status]}})
      /\ Len(r) = n + 1 /\ DOMAIN r = 1..(n + 1)
      /\ \A i \in 1..n : r[i] = history[i]
      /\ r[n + 1].QueueID = id
  OBVIOUS
<1> HIDE DEF n, r
<1>2. \A i, j \in 1..n : history[i].QueueID = history[j].QueueID => i = j
  BY <1>1 DEF RecordedOnce, IsInjective
<1>3. \A i \in 1..n : history[i].QueueID # id
  BY <1>1 DEF Recorded
<1>4. \A i, j \in 1..(n + 1) : r[i].QueueID = r[j].QueueID => i = j
  BY <1>1, <1>2, <1>3
<1>5. \A i \in 1..(n + 1) : r[i].QueueID \in Recorded \cup {id}
  BY <1>1 DEF Recorded
<1>6. CASE history' = r
  <2>1. RecordedOnce'
    BY <1>1, <1>4, <1>6 DEF RecordedOnce, IsInjective
  <2>2. Recorded' \subseteq Recorded \cup {id}
    BY <1>1, <1>5, <1>6 DEF Recorded
  <2> QED
    BY <2>1, <2>2
<1>7. CASE history' = Tail(r)
  <2>1. /\ DOMAIN history' = 1..n
        /\ \A i \in 1..n : history'[i] = r[i + 1] /\ i + 1 \in 1..(n + 1)
    <3>1. r # <<>>
      BY <1>1
    <3>2. Len(Tail(r)) = n /\ \A i \in 1..n : Tail(r)[i] = r[i + 1]
      BY <1>1, <3>1, HeadTailProperties
    <3>3. Tail(r) \in Seq(UNION {HistorySong, {[QueueID |-> id, Status |-> status]}})
      BY <1>1, <3>1, HeadTailProperties
    <3> QED
      BY <1>1, <1>7, <3>2, <3>3
  <2>2. \A i, j \in 1..n : history'[i].QueueID = history'[j].QueueID => i = j
    <3> TAKE i \in 1..n, j \in 1..n
    <3>1. r[i + 1].QueueID = r[j + 1].QueueID => i + 1 = j + 1
      BY <1>4, <2>1
    <3> QED
      BY <1>1, <2>1, <3>1
  <2>3. RecordedOnce'
    BY <2>1, <2>2 DEF RecordedOnce, IsInjective
  <2>4. Recorded' \subseteq Recorded \cup {id}
    <3> SUFFICES ASSUME NEW i \in DOMAIN history'
                 PROVE  history'[i].QueueID \in Recorded \cup {id}
      BY DEF Recorded
    <3>1. history'[i] = r[i + 1] /\ i + 1 \in 1..(n + 1)
      BY <2>1
    <3> QED
      BY <1>5, <3>1
  <2> QED
    BY <2>3, <2>4
<1> QED
  BY <1>6, <1>7 DEF Newest, r

\* What is in a document afterwards was there before, was brought or plays again;
\* the song that was recorded is not in it.
LEMMA DoesUnrecorded ==
    ASSUME NEW s \in PlaylistState, WellFormed(s), Apart(s), NEW t, NEW op,
           NEW id \in QueueID, Does(op, s, t, id),
           op \in Recording => s.CurrentQueue # <<>> /\ id = CurrentSong(s).QueueID
    PROVE  /\ op \notin Recording => AllIDs(t) \subseteq AllIDs(s) \cup {id}
           /\ op \notin Recording \cup Bringing => AllIDs(t) \subseteq AllIDs(s)
           /\ op \in Recording =>
                /\ id \in AllIDs(s)
                /\ \A x \in AllIDs(t) : (x \in AllIDs(s) /\ x.uuid # id.uuid) \/ x = Again(id)
<1> DEFINE q == s.CurrentQueue
           w == s.SavedQueue
           b == s.BroadcastQueue
<1>1. /\ q \in Seq(Song) /\ w \in Seq(Song) /\ b \in Seq(Song)
      /\ ~s.IsBroadcasting => b = <<>> /\ w = <<>>
      /\ Distinct(q)
  BY SavedFacts DEF PlaylistState, Apart
<1>2. IDsOf(<<>>) = {}
  BY EmptyIDs
<1>3. op \in Recording => id \in IDsOf(q)
  <2>1. q # <<>> => CurrentSong(s).QueueID \in IDsOf(q)
    BY QueueFacts DEF CurrentSong, IDsOf
  <2> QED
    BY <2>1
<1>4. \A x, y \in IDsOf(q) : x.uuid = y.uuid => x = y
  BY <1>1 DEF IDsOf, Distinct
<1>5. \A x \in IDsOf(w) \cup IDsOf(b), y \in IDsOf(q) : x.uuid # y.uuid
  BY DEF Apart, Uuids
<1>6. Beside(t) = Beside(s) => t.SavedQueue = w /\ t.BroadcastQueue = b
  BY DEF Beside
<1>7. CASE op = "add" /\ Gains(s, t, id)
  BY <1>6, <1>7 DEF Gains, AllIDs, Bringing, Recording
<1>8. CASE op \in {"reorder", "mode", "speed"} /\ Rearranges(s, t)
  BY <1>6, <1>8 DEF Rearranges, AllIDs, Recording
<1>9. CASE op = "remove_song" /\ Loses(s, t, id)
  BY <1>1, <1>6, <1>9 DEF Loses, AllIDs, Recording
<1>10. CASE op \in Recording /\ Loses(s, t, id)
  <2>1. AllIDs(t) = (IDsOf(q) \ {id}) \cup IDsOf(w) \cup IDsOf(b)
    BY <1>1, <1>6, <1>10 DEF Loses, AllIDs
  <2> QED
    BY <1>3, <1>4, <1>5, <1>10, <2>1 DEF AllIDs
<1>11. CASE op \in Recording /\ PlaysAgain(s, t, id)
  <2>1. AllIDs(t) = (IDsOf(q) \ {id}) \cup {Again(id)} \cup IDsOf(w) \cup IDsOf(b)
    BY <1>1, <1>6, <1>11 DEF PlaysAgain, AllIDs
  <2> QED
    BY <1>3, <1>4, <1>5, <1>11, <2>1 DEF AllIDs
<1>12. CASE op \in Recording /\ GoesOn(s, t)
  <2>1. /\ t.SavedQueue = w /\ t.BroadcastQueue = Tail(b) /\ b # <<>>
        /\ t.CurrentQueue = <<Head(b)>>
    BY <1>12 DEF GoesOn, Saved
  <2>2. IDsOf(t.CurrentQueue) = {Head(b).QueueID}
    BY <2>1, SingleIDs
  <2>3. Head(b).QueueID \in IDsOf(b) /\ IDsOf(Tail(b)) \subseteq IDsOf(b)
    BY <1>1, <2>1, HeadTailIDs
  <2>4. AllIDs(t) \subseteq IDsOf(w) \cup IDsOf(b)
    BY <2>1, <2>2, <2>3 DEF AllIDs
  <2> QED
    BY <1>3, <1>5, <1>12, <2>4 DEF AllIDs
<1>13. CASE op \in Recording \cup {"restore"} /\ Restores(s, t)
  <2>1. t.SavedQueue = <<>> /\ t.BroadcastQueue = <<>> /\ t.CurrentQueue = w
    BY <1>13 DEF Restores, Playing, Saved
  <2>2. AllIDs(t) = IDsOf(w)
    BY <1>2, <2>1 DEF AllIDs
  <2> QED
    BY <1>3, <1>5, <1>13, <2>2 DEF AllIDs
<1>14. CASE op = "startBroadcast" /\ Interrupts(s, t, id)
  <2>1. /\ t.SavedQueue = q /\ t.BroadcastQueue = b /\ t.CurrentQueue = <<BroadcastSong(id)>>
    BY <1>14 DEF Interrupts, Playing, Saved
  <2>2. IDsOf(t.CurrentQueue) = {id}
    BY <2>1, SingleIDs DEF BroadcastSong
  <2> QED
    BY <1>14, <2>1, <2>2 DEF AllIDs, Recording, Bringing
<1>15. CASE op = "queueBroadcast" /\ Waits(s, t, id)
  <2> DEFINE song == BroadcastSong(id)
  <2>1. t.SavedQueue = w /\ t.CurrentQueue = q /\ t.BroadcastQueue = Append(b, song)
    BY <1>15 DEF Waits, Playing, Saved
  <2>2. song \in Song /\ song.QueueID = id
    BY DEF BroadcastSong, Song, Names
  <2> HIDE DEF song
  <2>3. IDsOf(t.BroadcastQueue) = IDsOf(b) \cup {id}
    BY <1>1, <2>1, <2>2, AppendIDs
  <2> QED
    BY <1>15, <2>1, <2>3 DEF AllIDs, Recording, Bringing
<1> QED
  BY <1>7, <1>8, <1>9, <1>10, <1>11, <1>12, <1>13, <1>14, <1>15 DEF Does, Recording

\* A song that was not recorded in a document is not in one with fewer songs.
LEMMA FewerUnrecorded ==
    ASSUME NEW s, NEW t, NEW recorded, Unrecorded(s, recorded), AllIDs(t) \subseteq AllIDs(s)
    PROVE  Unrecorded(t, recorded)
BY DEF Unrecorded

\* Faults are counted up.
LEMMA FaultsStay ==
    ASSUME IInv, [Next]_vars, faults' = 0
    PROVE  faults = 0
<1>1. faults \in Nat
  BY DEF IInv, SharedOK
<1>2. Polling => faults' \in {faults, faults + 1}
  BY DEF Polling, VoteCast, StartVote, RecordVote, PassVote, StartBroadcastSkipVote,
         PublishVote, bounds
<1> QED
  BY <1>1, <1>2, VoteSteps DEF VotesQuiet

\* What a request leaves in its document is unrecorded, its own entry included.
LEMMA MakesUnrecorded ==
    ASSUME IInv, IInv', SongsInv, NEW p \in Procs, NEW op, NEW id, Makes(p, op, id),
           RecordedOnce, RecordedUuids \subseteq 1..minted,
           Unrecorded(ReadBy(p), Recorded),
           Coming(p) => job[p].target.uuid \notin RecordedUuids
    PROVE  /\ RecordedOnce' /\ RecordedUuids' \subseteq 1..minted'
           /\ Unrecorded(job'[p].blob, Recorded')
<1> DEFINE s == ReadBy(p)
           t == job'[p].blob
<1>1. /\ s \in PlaylistState /\ WellFormed(s) /\ Apart(s) /\ SongsIn(s) \subseteq 1..minted
      /\ minted \in Nat /\ id \in QueueID /\ history \in Seq(HistorySong)
  <2>1. id \in QueueID
    BY DEF Makes, IInv, JobsOK, Job
  <2> QED
    BY <2>1, ReadIsDocument DEF SongsInv, SongsApart, IInv, SharedOK
<1>2. id.uuid \in Nat /\ id.replays \in Nat
  BY <1>1 DEF QueueID
<1>3. /\ Does(op, s, t, id)
      /\ op \in Recording => s.CurrentQueue # <<>> /\ id = CurrentSong(s).QueueID
  BY DEF Makes
<1>4. minted' \in {minted, minted + 1}
  BY DEF Makes
<1> HIDE DEF s, t
<1>5. /\ op \notin Recording => AllIDs(t) \subseteq AllIDs(s) \cup {id}
      /\ op \notin Recording \cup Bringing => AllIDs(t) \subseteq AllIDs(s)
      /\ op \in Recording =>
           /\ id \in AllIDs(s)
           /\ \A x \in AllIDs(t) : (x \in AllIDs(s) /\ x.uuid # id.uuid) \/ x = Again(id)
  BY <1>1, <1>3, DoesUnrecorded
<1>6. \A x \in AllIDs(s), h \in Recorded : h.uuid = x.uuid => h.replays < x.replays
  BY DEF Unrecorded, s
<1>7. op \in Bringing => id.uuid \notin RecordedUuids
  <2>1. CASE op = "add"
    <3>1. id.uuid = minted + 1
      BY <2>1 DEF Makes, NextID
    <3> QED
      BY <1>1, <3>1
  <2>2. CASE op \in {"startBroadcast", "queueBroadcast"}
    BY <2>2 DEF Makes, Coming
  <2> QED
    BY <2>1, <2>2 DEF Bringing
<1>8. Again(id).uuid = id.uuid /\ Again(id).replays = id.replays + 1
  BY DEF Again
<1>9. Unrecorded(t, Recorded)
  <2> SUFFICES ASSUME NEW x \in AllIDs(t), NEW h \in Recorded, h.uuid = x.uuid
               PROVE  h.replays < x.replays
    BY DEF Unrecorded
  <2>1. CASE x \in AllIDs(s)
    BY <1>6, <2>1
  <2>2. CASE op \in Recording /\ x = Again(id)
    <3>1. h.replays < id.replays
      BY <1>5, <1>6, <1>8, <2>2
    <3>2. h.replays \in Nat
      <4>1. PICK i \in DOMAIN history : h = history[i].QueueID
        BY DEF Recorded
      <4>2. h \in QueueID
        <5>1. history[i] \in HistorySong
          BY <1>1, <4>1, ElementOfSeq
        <5> QED
          BY <4>1, <5>1 DEF HistorySong
      <4> QED
        BY <4>2 DEF QueueID
    <3> QED
      BY <1>2, <1>8, <2>2, <3>1, <3>2
  <2>3. CASE op \in Bringing /\ x = id
    <3>1. h.uuid \in RecordedUuids
      BY DEF RecordedUuids
    <3> QED
      BY <1>7, <2>3, <3>1
  <2> QED
    BY <1>5, <2>1, <2>2, <2>3
<1>10. CASE history' = history
  <2>1. Recorded' = Recorded /\ RecordedUuids' = RecordedUuids /\ RecordedOnce'
    BY <1>10 DEF Recorded, RecordedUuids, RecordedOnce
  <2>2. 1..minted \subseteq 1..minted'
    BY <1>1, <1>4
  <2> QED
    BY <1>9, <2>1, <2>2 DEF t
<1>11. ASSUME op \in Recording, NEW status,
              history' = Newest(Append(history, [QueueID |-> id, Status |-> status]))
       PROVE  /\ RecordedOnce' /\ RecordedUuids' \subseteq 1..minted'
              /\ Unrecorded(t, Recorded')
  <2>1. id \in AllIDs(s)
    BY <1>5, <1>11
  <2>2. id \notin Recorded
    BY <1>2, <1>6, <2>1
  <2>3. RecordedOnce' /\ Recorded' \subseteq Recorded \cup {id}
    BY <1>1, <1>11, <2>2, EntryRecorded
  <2>4. RecordedUuids' \subseteq 1..minted'
    <3>1. id.uuid \in 1..minted
      BY <1>1, <2>1, AllIDsUuids
    <3>2. RecordedUuids' \subseteq RecordedUuids \cup {id.uuid}
      BY <2>3 DEF RecordedUuids
    <3>3. 1..minted \subseteq 1..minted'
      BY <1>1, <1>4
    <3> QED
      BY <3>1, <3>2, <3>3
  <2>5. Unrecorded(t, Recorded')
    <3> SUFFICES ASSUME NEW x \in AllIDs(t), NEW h \in Recorded', h.uuid = x.uuid
                 PROVE  h.replays < x.replays
      BY DEF Unrecorded
    <3>1. CASE h \in Recorded
      BY <1>9, <3>1 DEF Unrecorded
    <3>2. CASE h = id
      BY <1>2, <1>5, <1>8, <1>11, <3>2
    <3> QED
      BY <2>3, <3>1, <3>2
  <2> QED
    BY <2>3, <2>4, <2>5
<1>12. history' = history \/ (op \in Recording /\ \E status :
         history' = Newest(Append(history, [QueueID |-> id, Status |-> status])))
  BY DEF Makes
<1> QED
  BY <1>10, <1>11, <1>12 DEF t

\* No step records a song a second time.
LEMMA RecordStep ==
    ASSUME MaxInFlight = 1, IInv, IInv', SongsInv, CalmInv, RecordInv, [Next]_vars
    PROVE  RecordInv'
<1> SUFFICES ASSUME faults' = 0
             PROVE  /\ RecordedOnce' /\ RecordedUuids' \subseteq 1..minted'
                    /\ (\A q \in Procs : job'[q].at # "write") => Unrecorded(store', Recorded')
                    /\ \A q \in Procs : job'[q].at = "write" =>
                         Unrecorded(job'[q].blob, Recorded')
                    /\ \A q \in Procs : Coming(q)' => job'[q].target.uuid \notin RecordedUuids'
  BY DEF RecordInv
<1>1. /\ RecordedOnce /\ RecordedUuids \subseteq 1..minted
      /\ (\A q \in Procs : job[q].at # "write") => Unrecorded(store, Recorded)
      /\ \A q \in Procs : job[q].at = "write" => Unrecorded(job[q].blob, Recorded)
      /\ \A q \in Procs : Coming(q) => job[q].target.uuid \notin RecordedUuids
      /\ OneBusy /\ ClaimsKnown /\ minted \in Nat
  BY FaultsStay DEF RecordInv, CalmInv, SongsInv, IInv, SharedOK
<1>2. history' = history =>
        Recorded' = Recorded /\ RecordedUuids' = RecordedUuids /\ RecordedOnce'
  BY <1>1 DEF Recorded, RecordedUuids, RecordedOnce
<1>3. Idle.at = "idle"
  BY DEF Idle
<1>4. ASSUME NEW p \in Procs, Rests(p), Same, job[p].at # "write"
      PROVE  RecordInv'
  <2>1. /\ \A q \in Procs \ {p} : job'[q] = job[q]
        /\ job'[p].at \notin {"write", "inject"}
        /\ UNCHANGED <<store, history, minted>>
    BY <1>4 DEF Rests, Alone, Held, Same
  <2>2. (\A q \in Procs : job'[q].at # "write") => \A q \in Procs : job[q].at # "write"
    BY <1>4, <2>1
  <2>3. \A q \in Procs : Coming(q)' => Coming(q) /\ job'[q] = job[q]
    BY <2>1 DEF Coming
  <2> QED
    BY <1>1, <1>2, <2>1, <2>2, <2>3 DEF RecordInv
<1>5. ASSUME NEW p \in Procs, WriteState(p)
      PROVE  RecordInv'
  <2>1. /\ job[p].at = "write" /\ store' = job[p].blob /\ history' = history /\ minted' = minted
        /\ Alone(p) /\ job'[p].at \notin {"write", "inject"}
    BY <1>5, WriterRests DEF WriteState, bounds, Rests, Held
  <2>2. \A q \in Procs \ {p} : job'[q] = Idle
    BY <1>1, <1>3, <2>1, OthersIdle
  <2>3. \A q \in Procs : job'[q].at \notin {"write", "inject"}
    BY <1>3, <2>1, <2>2
  <2> QED
    BY <1>1, <1>2, <2>1, <2>3 DEF RecordInv, Coming
<1>6. ASSUME NEW p \in Procs, Reads(p)
      PROVE  RecordInv'
  <2>1. /\ UNCHANGED <<store, history, minted>> /\ Alone(p) /\ job[p] = Idle
        /\ job'[p].at = "claim"
    BY <1>6 DEF Reads, Same
  <2>2. \A q \in Procs : job[q] = Idle
    BY <1>1, <1>3, <2>1, NobodyBusy DEF Alone
  <2>3. \A q \in Procs : job'[q].at \notin {"write", "inject"}
    BY <1>3, <2>1, <2>2 DEF Alone
  <2>4. Unrecorded(store', Recorded')
    <3>1. Unrecorded(store, Recorded)
      BY <1>1, <1>3, <2>2
    <3> QED
      BY <1>2, <2>1, <3>1
  <2> QED
    BY <1>1, <1>2, <2>1, <2>3, <2>4 DEF RecordInv, Coming
<1>7. ASSUME NEW p \in Procs, Sends(p)
      PROVE  RecordInv'
  <2>1. /\ UNCHANGED <<store, history>> /\ minted' = minted + 1 /\ Alone(p) /\ job[p] = Idle
        /\ job'[p].at = "inject" /\ job'[p].target.uuid = minted + 1
    BY <1>7 DEF Sends, NextID
  <2>2. \A q \in Procs : job[q] = Idle
    BY <1>1, <1>3, <2>1, NobodyBusy DEF Alone
  <2>3. \A q \in Procs : q # p => job'[q].at = "idle"
    BY <1>3, <2>1, <2>2 DEF Alone
  <2>4. RecordedUuids \subseteq 1..minted' /\ minted + 1 \notin RecordedUuids
    BY <1>1, <2>1
  <2>5. Unrecorded(store', Recorded')
    BY <1>1, <1>2, <1>3, <2>1, <2>2
  <2>6. \A q \in Procs : Coming(q)' => job'[q].target.uuid \notin RecordedUuids'
    BY <1>2, <2>1, <2>3, <2>4 DEF Coming
  <2>7. \A q \in Procs : job'[q].at # "write"
    BY <2>1, <2>3
  <2> QED
    BY <1>1, <1>2, <2>1, <2>4, <2>5, <2>6, <2>7 DEF RecordInv
<1>8. ASSUME NEW p \in Procs, NEW op, NEW id, Makes(p, op, id)
      PROVE  RecordInv'
  <2>1. /\ store' = store /\ Alone(p) /\ job[p].at # "write" /\ job'[p].at = "write"
        /\ job'[p] # job[p]
    BY <1>8 DEF Makes
  <2>2. \A q \in Procs \ {p} : job[q] = Idle /\ job'[q] = Idle
    BY <1>1, <2>1, OthersIdle
  <2>3. ReadBy(p) = store
    BY DEF CalmInv, ReadBy
  <2>4. Unrecorded(ReadBy(p), Recorded)
    BY <1>1, <1>3, <2>1, <2>2, <2>3
  <2>5. /\ RecordedOnce' /\ RecordedUuids' \subseteq 1..minted'
        /\ Unrecorded(job'[p].blob, Recorded')
    BY <1>1, <1>8, <2>4, MakesUnrecorded
  <2>6. \A q \in Procs : job'[q].at = "write" => q = p
    BY <1>3, <2>2
  <2>7. \A q \in Procs : ~Coming(q)'
    BY <1>3, <2>1, <2>2 DEF Coming
  <2> QED
    BY <2>1, <2>5, <2>6, <2>7 DEF RecordInv
<1>9. Same /\ job' = job => RecordInv'
  BY <1>1, <1>2 DEF RecordInv, Same, Coming
<1>10. ASSUME Tick
       PROVE  RecordInv'
  <2>1. \A q \in Procs : job[q] = Idle /\ job'[q] = Idle
    BY <1>1, <1>10, NobodyBusy DEF Tick
  <2>2. /\ store'.CurrentQueue = store.CurrentQueue /\ store'.SavedQueue = store.SavedQueue
        /\ store'.BroadcastQueue = store.BroadcastQueue
        /\ history' = history /\ minted' = minted
    BY <1>10 DEF Tick, IInv, SharedOK, PlaylistState, bounds
  <2>3. AllIDs(store') = AllIDs(store)
    BY <2>2 DEF AllIDs
  <2>4. Unrecorded(store', Recorded)
    BY <1>1, <1>3, <2>1, <2>3, FewerUnrecorded
  <2> QED
    BY <1>1, <1>2, <1>3, <2>1, <2>2, <2>4 DEF RecordInv, Coming
<1>11. ~Crash
  BY DEF Crash, IInv, SharedOK
<1>12. ASSUME NEW p \in Procs, HandlerStep(p)
       PROVE  RecordInv'
  BY <1>4, <1>5, <1>6, <1>7, <1>8, <1>12 DEF HandlerStep
<1>13. RecordInv'
  BY <1>1, <1>9, <1>10, <1>11, <1>12, DocumentSteps
<1> QED
  BY <1>13 DEF RecordInv

\* As long as no two handlers overlap and nothing fails, a song leaves one entry in
\* the history: it is recorded when it ends, fails or is skipped, whoever says so and
\* however often, and a broadcast that is replayed once for each time it plays.
THEOREM RecordedOnlyOnce ==
    ASSUME MaxInFlight = 1
    PROVE  Spec => [](faults = 0 => RecordedOnce)
<1>1. Init => RecordInv
  <2> SUFFICES ASSUME Init
               PROVE  RecordInv
    OBVIOUS
  <2>1. /\ Recorded = {} /\ RecordedUuids = {} /\ RecordedOnce
        /\ \A p \in Procs : job[p].at = "idle"
    BY DEF Init, Recorded, RecordedUuids, RecordedOnce, IsInjective, Idle
  <2> QED
    BY <2>1 DEF RecordInv, Unrecorded, Coming
<1>2. IInv /\ IInv' /\ SongsInv /\ CalmInv /\ RecordInv /\ [Next]_vars => RecordInv'
  BY RecordStep
<1>3. RecordInv => (faults = 0 => RecordedOnce)
  BY DEF RecordInv
<1> QED
  BY <1>1, <1>2, <1>3, Inductive, SongsInvariant, CalmInvariant, PTL DEF Spec

-----------------------------------------------------------------------------
(* The vote on a broadcast.                                                *)

\* A broadcast that the listeners may skip.
Skippable(s) == s.IsBroadcasting /\ ~s.BroadcastSkipLocked

OnBroadcast(v) == v.Action = "skip_broadcast"

\* What the handler in flight knows of the vote v and of the document s: between its
\* calls it may be about to close the vote of a broadcast that it has ended, to open
\* one, to count it or to execute it.
Heeds(v, s, j) ==
    /\ OnBroadcast(v) => Skippable(s) \/ j.at \in {"getClear", "delVote"}
    /\ j.at # "reset" /\ j.op # "report"
    /\ j.at = "getSettings" => Skippable(s)
    /\ j.at = "getVote" /\ j.op = "skip_broadcast" => Skippable(s)
    /\ j.at \in {"setVote", "cast"} /\ OnBroadcast(j.ballot) => Skippable(s)
    /\ j.at = "execute" /\ j.op = "skip_broadcast" => ~OnBroadcast(v)
    /\ j.at = "write" /\ j.op = "startBroadcast" => Skippable(j.blob)
    /\ j.at = "write" /\ j.op # "endBroadcast" /\ OnBroadcast(v) => Skippable(j.blob)

\* The handler in flight, if there is one, heeds the vote.
HeedInv ==
    /\ \A p \in Procs : (\A q \in Procs \ {p} : job[q] = Idle) => Heeds(vote, store, job[p])
    /\ (\A q \in Procs : job[q] = Idle) => Heeds(vote, store, Idle)

\* The requests that end a broadcast and leave its vote open, and the crash that
\* keeps a handler from closing it.
LeavingVotes == {"report", "adminSkip", "leave", "crash"}

\* A handler alone in the room that goes on heeding the vote.
LEMMA GotoHeeds ==
    ASSUME MaxInFlight = 1, JobsOK, OneBusy, HeedInv, NEW p \in Procs, NEW j, Goto(p, j),
           job[p] # Idle \/ Cardinality(Busy) < MaxInFlight,
           Heeds(vote, store, job[p]) => Heeds(vote', store', j)
    PROVE  HeedInv'
<1>1. \A q \in Procs \ {p} : job[q] = Idle
  BY NobodyBusy DEF OneBusy
<1>2. Heeds(vote', store', j)
  BY <1>1 DEF HeedInv
<1>3. job'[p] = j /\ \A q \in Procs \ {p} : job'[q] = Idle
  BY <1>1 DEF Goto, JobsOK
<1>4. ASSUME NEW q \in Procs, \A r \in Procs \ {q} : job'[r] = Idle
      PROVE  job'[q] = j
  BY <1>3, <1>4
<1>5. (\A q \in Procs : job'[q] = Idle) => Idle = j
  BY <1>3
<1> HIDE DEF Heeds
<1> QED
  BY <1>2, <1>4, <1>5 DEF HeedInv

\* Nothing is decided yet, or anymore.
LEMMA IdleHeeds ==
    ASSUME NEW v, NEW s, OnBroadcast(v) => Skippable(s)
    PROVE  Heeds(v, s, Idle)
BY DEF Heeds, Idle

\* What may be skipped depends on two flags.
Flags(s) == <<s.IsBroadcasting, s.BroadcastSkipLocked>>

\* A handler about to write a document that leaves the broadcast what it is, or the
\* one whose song has ended.
LEMMA WillWriteHeeds ==
    ASSUME MaxInFlight = 1, JobsOK, OneBusy, HeedInv, NEW p \in Procs,
           NEW op, NEW target, NEW blobs, WillWrite(p, op, target, blobs),
           job[p] # Idle \/ Cardinality(Busy) < MaxInFlight,
           job[p].at \notin {"getClear", "delVote"}, UNCHANGED <<store, vote>>,
           op \notin {"report", "startBroadcast"},
           \/ op = "endBroadcast"
           \/ Heeds(vote, store, job[p]) => ~OnBroadcast(vote)
           \/ \A t \in blobs : Flags(t) = Flags(store)
    PROVE  HeedInv'
<1>1. PICK b \in blobs :
        Goto(p, [Idle EXCEPT !.at = "write", !.op = op, !.target = target, !.blob = b])
  BY DEF WillWrite
<1> DEFINE j == [Idle EXCEPT !.at = "write", !.op = op, !.target = target, !.blob = b]
<1>2. j.at = "write" /\ j.op = op /\ j.blob = b
  BY DEF Idle
<1>3. Goto(p, j)
  BY <1>1
<1> HIDE DEF j
<1>4. Heeds(vote, store, job[p]) => Heeds(vote', store', j)
  BY <1>2 DEF Heeds, Skippable, Flags
<1> QED
  BY <1>3, <1>4, GotoHeeds

\* What a user's request makes of a document leaves the broadcast what it is.
LEMMA FlagsStay ==
    ASSUME NEW s \in PlaylistState
    PROVE  /\ \A song : Flags(WithSong(s, song)) = Flags(s) /\ Flags(Queued(s, song)) = Flags(s)
           /\ \A i : Flags(WithoutSong(s, i)) = Flags(s)
           /\ \A from, to : Flags(Reordered(s, from, to)) = Flags(s)
           /\ \A a, b, c : \A t \in ModeChanges(s, a, b, c) : Flags(t) = Flags(s)
           /\ \A v : Flags([s EXCEPT !.PlaybackSpeed = v]) = Flags(s)
           /\ \A on \in BOOLEAN : \A t \in Advances(s, on) : Flags(t) = Flags(s)
<1>1. \A song : Flags(WithSong(s, song)) = Flags(s) /\ Flags(Queued(s, song)) = Flags(s)
  BY DEF WithSong, Queued, PlaylistState, Flags
<1>2. \A i : Flags(WithoutSong(s, i)) = Flags(s)
  BY DEF WithoutSong, PlaylistState, Flags
<1>3. \A from, to : Flags(Reordered(s, from, to)) = Flags(s)
  BY DEF Reordered, PlaylistState, Flags
<1>4. ASSUME NEW a, NEW b, NEW c, NEW t \in ModeChanges(s, a, b, c)
      PROVE  Flags(t) = Flags(s)
  <2> DEFINE u == [s EXCEPT !.Autoplay = a, !.Shuffle = b, !.RandomPlay = c]
  <2>1. t = u \/ t \in Shuffles(u)
    BY <1>4 DEF ModeChanges
  <2>2. Flags(u) = Flags(s) /\ DOMAIN u = DOMAIN s
    BY DEF PlaylistState, Flags
  <2>3. /\ "IsBroadcasting" \in DOMAIN u /\ "BroadcastSkipLocked" \in DOMAIN u
    BY DEF PlaylistState
  <2> HIDE DEF u
  <2>4. ASSUME t \in Shuffles(u)
        PROVE  Flags(t) = Flags(u)
    <3>1. PICK q : t = [u EXCEPT !.CurrentQueue = q]
      BY <2>4 DEF Shuffles
    <3> QED
      BY <2>3, <3>1 DEF Flags
  <2> QED
    BY <2>1, <2>2, <2>4
<1>5. \A v : Flags([s EXCEPT !.PlaybackSpeed = v]) = Flags(s)
  BY DEF PlaylistState, Flags
<1>6. ASSUME NEW on \in BOOLEAN, NEW t \in Advances(s, on)
      PROVE  Flags(t) = Flags(s)
  <2> DEFINE After(b, i) ==
        [s EXCEPT !.CurrentQueue = RemoveAt(s.CurrentQueue, s.CurrentIndex + 1), !.SeekTime = 0,
                  !.IsPlaying = b, !.CurrentIndex = i]
  <2>1. (\E i : t = After(TRUE, i)) \/ t = After(FALSE, 0)
    BY <1>6 DEF Advances
  <2>2. \A b, i : Flags(After(b, i)) = Flags(s)
    BY DEF PlaylistState, Flags
  <2>3. ASSUME NEW b, NEW i, t = After(b, i)
        PROVE  Flags(t) = Flags(s)
    BY <2>2, <2>3
  <2>4. t = After(FALSE, 0) => Flags(t) = Flags(s)
    BY <2>3
  <2> HIDE DEF After
  <2> QED
    BY <2>1, <2>3, <2>4
<1> QED
  BY <1>1, <1>2, <1>3, <1>4, <1>5, <1>6

\* Requests that leave the vote and the document as they are.
LEMMA RequestsHeed ==
    ASSUME MaxInFlight = 1, IInv, OneBusy, HeedInv, NEW c \in Clients,
           RemoveSong(c) \/ SkipSong(c) \/ VoteCast(c) \/ SongEnded(c)
    PROVE  HeedInv'
<1>1. /\ JobsOK /\ c \in Procs /\ UNCHANGED <<store, vote>>
      /\ job[c] = Idle /\ Cardinality(Busy) < MaxInFlight
  BY DEF IInv, Procs, RemoveSong, SkipSong, VoteCast, SongEnded, Request, Ready, redis
<1>2. Heeds(vote, store, job[c]) => (OnBroadcast(vote) => Skippable(store))
  BY <1>1 DEF Heeds, Idle
<1>3. CASE RemoveSong(c)
  <2>1. PICK song : Goto(c, [Idle EXCEPT !.at = OwnOrVote(song, c), !.op = "remove_song",
                                         !.target = song.QueueID])
    BY <1>3 DEF RemoveSong
  <2> DEFINE j == [Idle EXCEPT !.at = OwnOrVote(song, c), !.op = "remove_song",
                               !.target = song.QueueID]
  <2>2. j.at \in {"execute", "getVote"} /\ j.op = "remove_song"
    BY DEF Idle, OwnOrVote
  <2>3. Goto(c, j)
    BY <2>1
  <2> HIDE DEF j
  <2>4. Heeds(vote, store, job[c]) => Heeds(vote', store', j)
    BY <1>1, <1>2, <2>2 DEF Heeds
  <2> QED
    BY <1>1, <2>3, <2>4, GotoHeeds
<1>4. CASE SkipSong(c)
  <2> DEFINE song == CurrentSong(store)
             op == IF song.IsBroadcast THEN "skip_broadcast" ELSE "skip_song"
             at == IF song.IsBroadcast THEN "getVote" ELSE OwnOrVote(song, c)
             j == [Idle EXCEPT !.at = at, !.op = op, !.target = song.QueueID]
  <2>1. /\ Goto(c, j) /\ store.CurrentQueue # <<>>
        /\ song.IsBroadcast => ~store.BroadcastSkipLocked
    BY <1>4 DEF SkipSong
  <2>2. song.IsBroadcast => store.IsBroadcasting
    <3>1. store \in PlaylistState /\ WellFormed(store)
      BY DEF IInv, SharedOK
    <3>2. store.CurrentIndex + 1 \in DOMAIN store.CurrentQueue
      BY <2>1, <3>1, QueueFacts
    <3> QED
      BY <3>1, <3>2 DEF WellFormed, BroadcastsInPlace, CurrentSong
  <2>3. /\ j.op = op /\ j.at \in {"execute", "getVote"}
        /\ song.IsBroadcast => j.at = "getVote"
    BY DEF Idle, OwnOrVote
  <2>4. j.op \in {"skip_broadcast", "skip_song"} /\ (j.op = "skip_broadcast" => song.IsBroadcast)
    BY <2>3
  <2> HIDE DEF j, song
  <2>5. Heeds(vote, store, job[c]) => Heeds(vote', store', j)
    BY <1>1, <1>2, <2>1, <2>2, <2>3, <2>4 DEF Heeds, Skippable
  <2> QED
    BY <1>1, <2>1, <2>5, GotoHeeds
<1>5. CASE VoteCast(c)
  <2> DEFINE j == [Idle EXCEPT !.at = "cast", !.op = vote.Action, !.ballot = vote]
  <2>1. Goto(c, j) /\ vote # NoVote
    BY <1>5 DEF VoteCast
  <2>2. j.at = "cast" /\ j.op = vote.Action /\ j.ballot = vote
    BY DEF Idle
  <2>3. vote.Action # "report"
    BY <2>1 DEF IInv, SharedOK, VoteRecord, VoteAction
  <2> HIDE DEF j
  <2>4. Heeds(vote, store, job[c]) => Heeds(vote', store', j)
    BY <1>1, <1>2, <2>2, <2>3 DEF Heeds
  <2> QED
    BY <1>1, <2>1, <2>4, GotoHeeds
<1>6. CASE SongEnded(c)
  <2> DEFINE song == CurrentSong(store)
             op == IF song.IsBroadcast THEN "endBroadcast" ELSE "ended"
             j == [Idle EXCEPT !.at = "claim", !.target = song.QueueID, !.blob = store, !.op = op]
  <2>1. Goto(c, j)
    BY <1>6 DEF SongEnded
  <2>2. j.at = "claim" /\ j.op # "report"
    BY DEF Idle
  <2> HIDE DEF j
  <2>3. Heeds(vote, store, job[c]) => Heeds(vote', store', j)
    BY <1>1, <1>2, <2>2 DEF Heeds
  <2> QED
    BY <1>1, <2>1, <2>3, GotoHeeds
<1> QED
  BY <1>3, <1>4, <1>5, <1>6

\* Requests that compute a document.
LEMMA ComputingRequestsHeed ==
    ASSUME MaxInFlight = 1, IInv, OneBusy, HeedInv, NEW c \in Clients,
           AddSong(c) \/ ReorderQueue(c) \/ SetPlaybackMode(c) \/ SetPlaybackSpeed(c)
    PROVE  HeedInv'
<1>1. /\ JobsOK /\ c \in Procs /\ UNCHANGED <<store, vote>> /\ store \in PlaylistState
      /\ job[c] = Idle /\ Cardinality(Busy) < MaxInFlight
  BY DEF IInv, SharedOK, Procs, AddSong, ReorderQueue, SetPlaybackMode, SetPlaybackSpeed,
         Request, Ready, redis
<1>2. job[c].at \notin {"getClear", "delVote"}
  BY <1>1 DEF Idle
<1>3. ASSUME NEW op, NEW target, NEW blobs, WillWrite(c, op, target, blobs),
             op \notin {"report", "startBroadcast"}, \A t \in blobs : Flags(t) = Flags(store)
      PROVE  HeedInv'
  BY <1>1, <1>2, <1>3, WillWriteHeeds
<1>4. CASE AddSong(c)
  <2>1. PICK song : WillWrite(c, "add", song.QueueID, {WithSong(store, song)})
    BY <1>4 DEF AddSong
  <2> QED
    BY <1>1, <1>3, <2>1, FlagsStay
<1>5. CASE ReorderQueue(c)
  <2>1. PICK from, to : WillWrite(c, "reorder", NoID, {Reordered(store, from, to)})
    BY <1>5 DEF ReorderQueue
  <2> QED
    BY <1>1, <1>3, <2>1, FlagsStay
<1>6. CASE SetPlaybackMode(c)
  <2>1. PICK a, b, r : WillWrite(c, "mode", NoID, ModeChanges(store, a, b, r))
    BY <1>6 DEF SetPlaybackMode
  <2> QED
    BY <1>1, <1>3, <2>1, FlagsStay
<1>7. CASE SetPlaybackSpeed(c)
  <2>1. PICK v : WillWrite(c, "speed", NoID, {[store EXCEPT !.PlaybackSpeed = v]})
    BY <1>7 DEF SetPlaybackSpeed
  <2> QED
    BY <1>1, <1>3, <2>1, FlagsStay
<1> QED
  BY <1>4, <1>5, <1>6, <1>7

\* Handlers in flight that compute a document, or find that there is nothing to do.
LEMMA ComputingHeeds ==
    ASSUME MaxInFlight = 1, IInv, CalmInv, HeedInv, NEW p \in Procs,
           \/ ClaimSongEnded(p) \/ ExecuteRemoveSong(p) \/ ExecuteSkipSong(p)
           \/ ExecuteBroadcastSkip(p) \/ TriggerInRoom(p)
    PROVE  HeedInv'
<1>1. /\ JobsOK /\ OneBusy /\ UNCHANGED <<store, vote>> /\ store \in PlaylistState
      /\ job[p].at \in {"claim", "execute", "inject"}
  BY DEF IInv, SharedOK, CalmInv, redis, ClaimSongEnded, ExecuteRemoveSong, ExecuteSkipSong,
         ExecuteBroadcastSkip, TriggerInRoom
<1>2. job[p] # Idle
  BY <1>1 DEF Idle
<1>3. ASSUME Goto(p, Idle)
      PROVE  HeedInv'
  <2>1. Heeds(vote, store, job[p]) => Heeds(vote', store', Idle)
    BY <1>1, IdleHeeds DEF Heeds
  <2> QED
    BY <1>1, <1>2, <1>3, <2>1, GotoHeeds
<1>4. ASSUME NEW op, NEW target, NEW blobs, WillWrite(p, op, target, blobs),
             op \notin {"report", "startBroadcast"},
             \/ op = "endBroadcast"
             \/ Heeds(vote, store, job[p]) => ~OnBroadcast(vote)
             \/ \A t \in blobs : Flags(t) = Flags(store)
      PROVE  HeedInv'
  BY <1>1, <1>2, <1>4, WillWriteHeeds
<1>5. CASE ClaimSongEnded(p)
  <2>1. job[p].blob = store /\ job[p].op \in {"ended", "endBroadcast"}
    BY <1>5, JobFacts DEF ClaimSongEnded, CalmInv, JobOK, IInv
  <2>2. CASE Goto(p, Idle)
    BY <1>3, <2>2
  <2>3. CASE /\ job[p].op = "endBroadcast"
             /\ WillWrite(p, job[p].op, job[p].target, {BroadcastEndOutcome(store, allowSkip)})
    BY <1>4, <2>3
  <2>4. CASE /\ job[p].op = "ended"
             /\ WillWrite(p, job[p].op, job[p].target, EndOutcomes(store))
    <3>1. \A t \in EndOutcomes(store) : Flags(t) = Flags(store)
      BY <1>1, FlagsStay DEF EndOutcomes, PlaylistState
    <3> QED
      BY <1>4, <2>4, <3>1
  <2> QED
    BY <1>5, <2>1, <2>2, <2>3, <2>4 DEF ClaimSongEnded
<1>6. CASE ExecuteRemoveSong(p)
  <2>1. \/ Return(p)
        \/ \E found : WillWrite(p, "remove_song", job[p].target,
                                {WithoutSong(store, i) : i \in found})
    BY <1>6 DEF ExecuteRemoveSong
  <2>2. ASSUME NEW found, WillWrite(p, "remove_song", job[p].target,
                                    {WithoutSong(store, i) : i \in found})
        PROVE  HeedInv'
    <3>1. \A t \in {WithoutSong(store, i) : i \in found} : Flags(t) = Flags(store)
      BY <1>1, FlagsStay
    <3> QED
      BY <1>4, <2>2, <3>1
  <2> QED
    BY <1>3, <2>1, <2>2 DEF Return
<1>7. CASE ExecuteSkipSong(p)
  <2>1. \/ Return(p)
        \/ WillWrite(p, "skip_song", job[p].target, SkipOutcomes(store))
    BY <1>7 DEF ExecuteSkipSong
  <2>2. \A t \in SkipOutcomes(store) : Flags(t) = Flags(store)
    BY <1>1, FlagsStay DEF SkipOutcomes
  <2> QED
    BY <1>3, <1>4, <2>1, <2>2 DEF Return
<1>8. CASE ExecuteBroadcastSkip(p)
  <2>1. \/ Return(p)
        \/ WillWrite(p, "restore", NoID, {VotedAway(store)})
    BY <1>8 DEF ExecuteBroadcastSkip
  <2>2. Heeds(vote, store, job[p]) => ~OnBroadcast(vote)
    BY <1>8 DEF Heeds, ExecuteBroadcastSkip
  <2> QED
    BY <1>3, <1>4, <2>1, <2>2 DEF Return
<1>9. CASE TriggerInRoom(p)
  <2> DEFINE song == BroadcastSong(job[p].target)
  <2>1. CASE WillWrite(p, "queueBroadcast", job[p].target, {Queued(store, song)})
    BY <1>1, <1>4, <2>1, FlagsStay
  <2>2. CASE WillWrite(p, "startBroadcast", job[p].target, {Interrupted(store, song)})
    <3> DEFINE b == Interrupted(store, song)
               j == [Idle EXCEPT !.at = "write", !.op = "startBroadcast",
                                 !.target = job[p].target, !.blob = b]
    <3>1. Goto(p, j)
      BY <2>2 DEF WillWrite
    <3>2. Skippable(b)
      BY <1>1 DEF Interrupted, PlaylistState, Skippable
    <3>3. j.at = "write" /\ j.op = "startBroadcast" /\ j.blob = b
      BY DEF Idle
    <3> HIDE DEF j, b
    <3>4. Heeds(vote, store, job[p]) => Heeds(vote', store', j)
      BY <1>1, <3>2, <3>3 DEF Heeds
    <3> QED
      BY <1>1, <1>2, <3>1, <3>4, GotoHeeds
  <2> QED
    BY <1>9, <2>1, <2>2 DEF TriggerInRoom
<1> QED
  BY <1>5, <1>6, <1>7, <1>8, <1>9

\* Handlers in flight that are about the vote.
LEMMA VotingHeeds ==
    ASSUME MaxInFlight = 1, MaxFaults = 0, IInv, OneBusy, HeedInv, NEW p \in Procs,
           \/ ClearActiveVote(p) \/ DeleteClearedVote(p) \/ StartVote(p) \/ RecordVote(p)
           \/ PassVote(p) \/ PublishVote(p) \/ StartBroadcastSkipVote(p)
    PROVE  HeedInv'
<1>1. /\ JobsOK /\ store' = store /\ faults \in Nat
      /\ job[p].at \in {"getClear", "delVote", "getVote", "cast", "setVote", "getSettings"}
  BY DEF IInv, SharedOK, redis, ClearActiveVote, DeleteClearedVote, StartVote, RecordVote,
         PassVote, PublishVote, StartBroadcastSkipVote
<1>2. job[p] # Idle
  BY <1>1 DEF Idle
<1>3. ASSUME NEW j, Goto(p, j), Heeds(vote, store, job[p]) => Heeds(vote', store', j)
      PROVE  HeedInv'
  BY <1>1, <1>2, <1>3, GotoHeeds
<1>4. ~OnBroadcast(NoVote)
  BY DEF OnBroadcast, NoVote
<1>5. ASSUME Goto(p, Idle),
             Heeds(vote, store, job[p]) => (OnBroadcast(vote') => Skippable(store))
      PROVE  HeedInv'
  BY <1>1, <1>3, <1>5, IdleHeeds
<1>6. CASE ClearActiveVote(p)
  <2> DEFINE j == [Idle EXCEPT !.at = "delVote"]
  <2>1. /\ vote' = vote
        /\ \/ Goto(p, Idle) /\ vote = NoVote
           \/ Goto(p, j)
    BY <1>6 DEF ClearActiveVote, redis
  <2>2. j.at = "delVote" /\ j.op = "none"
    BY DEF Idle
  <2> HIDE DEF j
  <2>3. Heeds(vote', store', j)
    BY <2>2 DEF Heeds
  <2> QED
    BY <1>3, <1>4, <1>5, <2>1, <2>3
<1>7. CASE DeleteClearedVote(p)
  BY <1>4, <1>5, <1>7 DEF DeleteClearedVote
<1>8. CASE PublishVote(p)
  <2>1. Goto(p, Idle) /\ vote' = job[p].ballot /\ job[p].at = "setVote"
    BY <1>8 DEF PublishVote
  <2>2. Heeds(vote, store, job[p]) => (OnBroadcast(vote') => Skippable(store))
    BY <2>1 DEF Heeds
  <2> QED
    BY <1>5, <2>1, <2>2
<1>9. CASE RecordVote(p)
  <2>1. Goto(p, Idle) /\ vote' = WithYes(job[p].ballot, p) /\ job[p].at = "cast"
    BY <1>9 DEF RecordVote, Return
  <2>2. job[p].ballot \in VoteRecord
    BY <1>1, <2>1 DEF JobsOK, JobOK
  <2>3. OnBroadcast(vote') <=> OnBroadcast(job[p].ballot)
    BY <2>1, <2>2 DEF WithYes, VoteRecord, OnBroadcast
  <2>4. Heeds(vote, store, job[p]) => (OnBroadcast(vote') => Skippable(store))
    BY <2>1, <2>3 DEF Heeds
  <2> QED
    BY <1>5, <2>1, <2>4
<1>10. CASE PassVote(p)
  <2> DEFINE j == [Idle EXCEPT !.at = "execute", !.op = job[p].ballot.Action,
                               !.target = job[p].ballot.SongQueueID]
  <2>1. Goto(p, j) /\ vote' = NoVote /\ job[p].at = "cast"
    BY <1>1, <1>10 DEF PassVote
  <2>2. job[p].ballot.Action # "report"
    BY <1>1, <2>1 DEF JobsOK, JobOK, VoteRecord, VoteAction
  <2>3. j.at = "execute" /\ j.op = job[p].ballot.Action
    BY DEF Idle
  <2> HIDE DEF j
  <2>4. Heeds(vote', store', j)
    BY <1>4, <2>1, <2>2, <2>3 DEF Heeds
  <2> QED
    BY <1>3, <2>1, <2>4
<1>11. CASE StartVote(p)
  <2> DEFINE new == UserVote(ballots + 1, job[p].op, job[p].target, p, online)
             decided == [job[p] EXCEPT !.at = "execute", !.op = DecidedAlone(@)]
             open == [job[p] EXCEPT !.at = "setVote", !.ballot = new]
  <2>1. /\ \/ Goto(p, Idle)
           \/ vote = NoVote /\ (Goto(p, decided) \/ Goto(p, open))
        /\ vote' = vote /\ job[p].at = "getVote"
    BY <1>11 DEF StartVote, redis
  <2>2. job[p] \in Job /\ job[p].op \in VoteAction
    BY <1>1, <2>1 DEF JobsOK, JobOK
  <2>3. /\ decided.at = "execute" /\ decided.op \in {"remove_song", "skip_song"}
        /\ open.at = "setVote" /\ open.op = job[p].op /\ open.ballot = new
    BY <2>2 DEF Job, DecidedAlone
  <2>4. new.Action = job[p].op
    BY DEF UserVote
  <2> HIDE DEF decided, open, new
  <2>5. vote = NoVote => Heeds(vote', store', decided)
    BY <1>4, <2>1, <2>3 DEF Heeds
  <2>6. vote = NoVote /\ Heeds(vote, store, job[p]) => Heeds(vote', store', open)
    BY <1>1, <1>4, <2>1, <2>2, <2>3, <2>4 DEF Heeds, OnBroadcast, VoteAction
  <2>7. Heeds(vote, store, job[p]) => (OnBroadcast(vote') => Skippable(store))
    BY <2>1 DEF Heeds
  <2> QED
    BY <1>3, <1>5, <2>1, <2>5, <2>6, <2>7
<1>12. CASE StartBroadcastSkipVote(p)
  <2> DEFINE new == SchedulerVote(ballots + 1, online)
             j == [Idle EXCEPT !.at = "setVote", !.op = "skip_broadcast", !.ballot = new]
  <2>1. /\ Goto(p, Idle) \/ Goto(p, j)
        /\ vote' = vote /\ job[p].at = "getSettings"
    BY <1>12 DEF StartBroadcastSkipVote, redis
  <2>2. j.at = "setVote" /\ j.op = "skip_broadcast"
    BY DEF Idle
  <2> HIDE DEF j
  <2>3. Heeds(vote, store, job[p]) => Skippable(store)
    BY <2>1 DEF Heeds
  <2>4. Heeds(vote, store, job[p]) => Heeds(vote', store', j)
    BY <1>1, <2>1, <2>2, <2>3 DEF Heeds
  <2> QED
    BY <1>3, <1>5, <2>1, <2>3, <2>4
<1> QED
  BY <1>6, <1>7, <1>8, <1>9, <1>10, <1>11, <1>12

\* The write: the document is then the one that was about to be written.
LEMMA WriteStateHeeds ==
    ASSUME MaxInFlight = 1, IInv, OneBusy, HeedInv, NEW p \in Procs, WriteState(p)
    PROVE  HeedInv'
<1> DEFINE j == [Idle EXCEPT !.at = AfterWrite(job[p].op)]
<1>1. /\ JobsOK /\ job[p].at = "write" /\ store' = job[p].blob /\ vote' = vote
      /\ \/ AfterWrite(job[p].op) = "idle" /\ Goto(p, Idle)
         \/ Goto(p, j)
  BY DEF IInv, WriteState, Return
<1>2. job[p] # Idle
  BY <1>1 DEF Idle
<1>3. j.at = AfterWrite(job[p].op) /\ j.op = "none"
  BY DEF Idle
<1> HIDE DEF j
<1>4. AfterWrite(job[p].op) = "idle" /\ Heeds(vote, store, job[p]) => Heeds(vote', store', Idle)
  <2>1. AfterWrite(job[p].op) = "idle" => job[p].op # "endBroadcast"
    BY DEF AfterWrite
  <2>2. job[p].op # "endBroadcast" /\ Heeds(vote, store, job[p]) =>
          (OnBroadcast(vote') => Skippable(store'))
    BY <1>1 DEF Heeds
  <2> QED
    BY <2>1, <2>2, IdleHeeds
<1>5. Heeds(vote, store, job[p]) => Heeds(vote', store', j)
  BY <1>1, <1>3 DEF Heeds, AfterWrite
<1> QED
  BY <1>1, <1>2, <1>4, <1>5, GotoHeeds

\* Steps that leave what is in flight alone: the vote may run out, the seek time
\* advance.
LEMMA UnmovedHeeds ==
    ASSUME HeedInv, job' = job, vote' \in {vote, NoVote}, Flags(store') = Flags(store)
    PROVE  HeedInv'
<1>1. \A j : Heeds(vote, store, j) => Heeds(vote', store', j)
  BY DEF Heeds, Flags, Skippable, OnBroadcast, NoVote
<1> HIDE DEF Heeds
<1> QED
  BY <1>1 DEF HeedInv

\* Every step.
LEMMA HeedStep ==
    ASSUME MaxInFlight = 1, MaxFaults = 0, Traffic \cap LeavingVotes = {},
           IInv, CalmInv, HeedInv, [Next]_vars
    PROVE  HeedInv'
<1>1. OneBusy /\ store \in PlaylistState /\ faults \in Nat
  BY DEF CalmInv, IInv, SharedOK
<1>2. ASSUME UNCHANGED <<store, vote, job>>
      PROVE  HeedInv'
  BY <1>2, UnmovedHeeds
<1>3. ASSUME NEW c \in Clients, ClientStep(c)
      PROVE  HeedInv'
  <2>1. ~ReportError(c) /\ ~Leave(c)
    BY DEF ReportError, Leave, Request, Ready, LeavingVotes
  <2>2. Join(c) => HeedInv'
    BY <1>2 DEF Join, redis
  <2> QED
    BY <1>1, <1>3, <2>1, <2>2, RequestsHeed, ComputingRequestsHeed DEF ClientStep
<1>4. ASSUME NEW c \in Clients, ClientGoesOn(c)
      PROVE  HeedInv'
  <2>1. c \in Procs
    BY DEF Procs
  <2>2. ~ResetEmptyRoom(c)
    <3> SUFFICES ASSUME ResetEmptyRoom(c)
                 PROVE  FALSE
      OBVIOUS
    <3>1. job[c].at = "reset"
      BY DEF ResetEmptyRoom
    <3>2. job[c] # Idle
      BY <3>1 DEF Idle
    <3>3. Heeds(vote, store, job[c])
      BY <1>1, <2>1, <3>2 DEF OneBusy, HeedInv
    <3> QED
      BY <3>1, <3>3 DEF Heeds
  <2> QED
    BY <1>1, <1>4, <2>1, <2>2, ComputingHeeds, VotingHeeds, WriteStateHeeds DEF ClientGoesOn
<1>5. ASSUME NEW s \in Staff, StaffStep(s)
      PROVE  HeedInv'
  <2>1. ~SkipCurrentBroadcast(s)
    BY DEF SkipCurrentBroadcast, Ready, LeavingVotes
  <2>2. UpdateSettings(s) => HeedInv'
    BY <1>2 DEF UpdateSettings
  <2>3. TriggerBroadcast(s) => HeedInv'
    <3> SUFFICES ASSUME TriggerBroadcast(s)
                 PROVE  HeedInv'
      OBVIOUS
    <3> DEFINE j == [Idle EXCEPT !.at = "inject", !.target = [uuid |-> minted + 1, replays |-> 0]]
    <3>1. /\ Goto(s, j) /\ Cardinality(Busy) < MaxInFlight /\ job[s] = Idle
          /\ UNCHANGED <<store, vote>> /\ s \in Procs /\ JobsOK
      BY DEF TriggerBroadcast, Ready, redis, Procs, IInv
    <3>2. j.at = "inject" /\ j.op = "none"
      BY DEF Idle
    <3> HIDE DEF j
    <3>3. Heeds(vote, store, job[s]) => Heeds(vote', store', j)
      BY <3>1, <3>2 DEF Heeds, Idle
    <3> QED
      BY <1>1, <3>1, <3>3, GotoHeeds
  <2> QED
    BY <1>5, <2>1, <2>2, <2>3 DEF StaffStep
<1>6. ASSUME NEW s \in Staff, StaffGoesOn(s)
      PROVE  HeedInv'
  BY <1>1, <1>6, ComputingHeeds, VotingHeeds, WriteStateHeeds DEF StaffGoesOn, Procs
<1>7. CASE Environment
  <2>1. ~Crash /\ \A p \in Procs : ~StoreFails(p)
    BY <1>1 DEF Crash, StoreFails
  <2>2. Tick => HeedInv'
    <3>1. Tick => Flags(store') = Flags(store) /\ UNCHANGED <<vote, job>>
      BY <1>1 DEF Tick, Flags, PlaylistState
    <3> QED
      BY <3>1, UnmovedHeeds
  <2>3. VoteExpires => HeedInv'
    BY UnmovedHeeds DEF VoteExpires
  <2>4. ClaimExpires => HeedInv'
    BY <1>2 DEF ClaimExpires
  <2> QED
    BY <1>7, <2>1, <2>2, <2>3, <2>4 DEF Environment
<1>8. CASE UNCHANGED vars
  BY <1>2, <1>8 DEF vars, redis
<1> QED
  BY <1>3, <1>4, <1>5, <1>6, <1>7, <1>8 DEF Next

\* As long as no two handlers overlap and Redis answers, a vote to skip a broadcast
\* runs only while there is a broadcast that may be skipped, however broadcasts
\* follow each other and are replayed: the handler that ends one closes its vote.
\* This is so without the requests that end a broadcast and leave its vote open: the
\* report of an error, the admin's skip, the last client leaving.
THEOREM NoMootVote ==
    ASSUME MaxInFlight = 1, MaxFaults = 0, Traffic \cap LeavingVotes = {}
    PROVE  Spec => []NoMootBroadcastVote
<1>1. Init => HeedInv
  <2> SUFFICES ASSUME Init
               PROVE  HeedInv
    OBVIOUS
  <2>1. vote = NoVote /\ \A p \in Procs : job[p] = Idle
    BY DEF Init
  <2>2. Heeds(vote, store, Idle)
    BY <2>1, IdleHeeds DEF OnBroadcast, NoVote
  <2> HIDE DEF Heeds
  <2> QED
    BY <2>1, <2>2 DEF HeedInv
<1>2. IInv /\ CalmInv /\ HeedInv /\ [Next]_vars => HeedInv'
  BY HeedStep
<1>3. HeedInv => NoMootBroadcastVote
  BY DEF HeedInv, Heeds, NoMootBroadcastVote, OnBroadcast, Skippable, Busy, Idle
<1> QED
  BY <1>1, <1>2, <1>3, Inductive, CalmInvariant, PTL DEF Spec
=============================================================================
