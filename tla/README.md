# TLA+ models of the SyncTune backend

SyncTune lets the users of a room listen to one song queue together, chat, and meet
in a small virtual office. The backend (Go) keeps what lasts in Redis, what belongs
to a connection in memory, and relays events over WebSockets. This directory models
the parts of it that decide something: the playlist of a room and its votes and
broadcasts, the office with its bubbles and private zones, the chat, the documents
of the administration, the end of rooms, and the delivery of messages. TLC checks
them on small instances, and TLAPS proves the most important facts about each of them
for every instance.

Contents: [the system](#the-system) · [hazards](#hazards) · [modules](#modules) ·
[modelling decisions](#modelling-decisions) · [runs](#runs) ·
[findings](#findings) · [proofs](#proofs) · [not modelled](#not-modelled) ·
[plan](#plan) · [running it](#running-it)

## The system

How it is put together: `melody` reads the messages of one WebSocket session in
one goroutine, so the handlers of one client run one after the other, its
disconnect last. Handlers of different clients, the seek ticker (every second),
the cron jobs of the broadcast scheduler, the admin's HTTP requests, the loop
`Hub.Run` that delivers messages and the daily room cleanup run concurrently. They
share Redis and the hub.

A handler usually reads a JSON document from Redis, computes a new one and writes it
back whole, without a lock or a transaction: **whatever another goroutine wrote in
between is overwritten**. Atomic in Redis are only the seek script (Lua), the claims
(`SETNX`), `LPUSH` with `LTRIM`, and the transaction of `UpdatePrivateZoneState`
(`WATCH`/`MULTI`), which is tried eight times. In the hub, a mutex guards the client
table, and each room has a vote mutex that `HandleVoteCast` (and nobody else) takes.

| Component (code) | State | Operations | What is hard | What makes it correct | Modules |
|---|---|---|---|---|---|
| **Playlist, queue handlers** (`model/playlist.go`, `controller/queue.go`) | `PlaylistState` in Redis: queue, current index, seek time, modes, and while a broadcast plays the saved queue and the waiting broadcasts; history list (50) | add, remove, reorder, skip, song_ended, report_error, mode, speed | lost updates; stale reads; index arithmetic; every client reports the end of every song; five handlers use the current index without a length check | the current index is in the queue; a request affects only the song it was made for; reordering keeps the song being played; one advance per end of song | `Playlist`, `RoomPlayback` |
| **Votes** (`model/vote.go`, `controller/vote.go`) | one `Vote` per room in Redis with a time to live; the room's vote mutex | startVote, vote_cast, clearActiveVote, resolveVote and three executions | two last votes at once; a vote that outlives its subject; `startVote` is outside the mutex | a vote passes once; a counted vote stays; what it executes is what it was about | `Vote`, `RoomPlayback` |
| **Broadcast scheduler** (`broadcast/scheduler.go`) | cron table; per room the broadcast part of the document | trigger, queue, save and restore of the users' queue, skip by the admin, the vote on a broadcast, start, reload | five ways out of a broadcast share one saved queue; replay under a new id; flags left behind; a crash before the reload | a broadcast is an interlude; it ends; cron plays the enabled schedules whose expression it accepts | `RoomPlayback`, `Documents` |
| **Hub membership** (`hub/hub.go`) | clients, their rooms, positions, bubbles, whom they follow; vote mutexes | Register, SetClientRoom/User, Unregister | the last client leaves while a handler or a trigger is in flight; `Unregister` cleans up in eight calls | nothing of a connection that is gone remains | `Office`, `RoomPlayback`, `RoomLifecycle` |
| **Hub broadcast channel** (`hub/hub.go`, `broadcaster/`) | channel of 256 messages | BroadcastToRoom(Except), SendToSession, Run | a full channel drops; writes run in parallel; direct sends overtake | everybody hears the messages in one order; what a client shows in the end is what is stored | `Delivery`, `Feed` |
| **Seek ticker** (`ticker/seekticker.go`, script in `store/redis.go`) | – | one atomic `IncrSeekTime` per room with clients per second | runs between a handler's read and write; re-encodes the document | the seek time belongs to the song it stands beside | `RoomPlayback` |
| **Redis store** (`store/redis.go`) | all keys | get/set per kind, claims, scripts, transactions, list trimming | see the components that use it | – | each in its component |
| **Room cleanup** (`main.go`, `DeleteRoom`) | last-emptied marks | daily: delete the rooms that emptied more than five days ago | guests come and go while it lists and deletes; a mark is never taken away | a room is deleted when it has long been empty, and then it is | `RoomLifecycle` |
| **Join and presence** (`controller/chat.go`, `presence.go`, `follow.go`, `office/presence.go`) | presence hash in Redis; position and followed connection in the client | join_room, presence_update, follow_start, follow_stop, the ghost hunt | join returns early half-way; two lists read one after the other; a follower of a connection that goes away | presence in Redis is what the clients have; the living are not taken for ghosts | `Office` |
| **Bubbles** (`controller/bubble.go`) | bubble records in Redis; `BubbleID` of the client | invite, accept, leave, disconnect | membership is checked and changed in separate calls, records are written back whole | a bubble has members; nobody is in one uninvited; one bubble at a time | `Office` |
| **Private zones** (`controller/private.go`) | occupants and invited per zone in Redis | enter, leave, invite, disconnect | optimistic transactions with retries; the check to enter is outside | no update is lost; who occupies a zone is in it | `PrivateZone` |
| **Voice** (`controller/livekit_token.go`, `voice.go`, `office/social.go`) | the LiveKit group a client has credentials for | given by five handlers | bubble and zone change at different times, also by other connections | one is in the group of one's bubble, else of one's meeting room | `Office` |
| **Office chat and bell** (`controller/office_chat.go`, `bell.go`) | a message list per bubble, meeting and pair; bell claim | send, history, ring | a bubble's list has to go with the bubble | – | `Office` (bubbles) |
| **Chat and pins** (`controller/chat.go`) | message list (100), pins (20) | send, delete, react, pin | a message is rewritten by list index while new ones shift it; pins are copies | an edit changes its message only, and by who may | `Chat`, `ChatBoard` |
| **Sound pad** (`controller/soundpad.go`) | slot array, plays | set, clear, play | the array is read, changed and written whole | an update of one slot keeps the others | `Documents` |
| **Admin API** (`admin/admin.go`) | settings, schedules, top spenders | HTTP | lists are read, changed and written whole; a failed read counts as none | an update keeps the others; totals are those of the entries | `Documents`, `RoomPlayback` |
| **Office map, metadata clients, load test** | static data; HTTP | – | a metadata request takes time | – | – |

Interactions:

* The queue handlers call the vote controller (`startVote` when the caller does not own
  the song, `clearActiveVote` when a broadcast ends), and a vote that passes calls back
  into `executeSkipSong`, `executeRemoveSong` or `executeBroadcastSkip`.
* The scheduler and the hub's `Unregister` write the playlist document; the admin's
  settings decide whether a broadcast may be skipped and is replayed.
* `HandleJoin` puts the client into the room (hub), spawns it (presence), hunts ghosts
  and gives voice credentials; `HandlePresenceUpdate` asks the private zones before a
  move and updates their occupants after it; accepting or leaving a bubble changes the
  presence record and the voice group, of other members too.
* `Unregister` deletes the presence, clears bubbles, private zones and followers, resets
  the document of a room that is empty now and marks the room for the cleanup.
* Everything is announced through the hub's channel, but for answers to one session.

`PROJECT.json` lists every component with its status.

## Hazards

The list with a source line for each is `hazards` in `PROJECT.json`. The main
groups:

* read-modify-write by concurrent handlers: the playlist document, bubbles, chat messages
  by their index, sound pad, schedules, top spenders (lost updates, stale indexes);
* one song ended by many clients; decisions carried out later (a vote, an add that
  waits for HTTP, an entrance that was checked before the step inside);
* two places for one fact: clients in memory and records in Redis, which a handler
  changes in several calls, a failure leaves apart and a crash separates;
* lists read one after the other: presence and clients, marks and rooms;
* a disconnect that cleans up after handlers of others that are still running;
* broadcasts that start, wait, are replayed and are left in five ways;
* votes that pass twice, are lost or outlive their subject;
* the channel: full, or overtaken;
* crashes, restarts and Redis errors between two calls; transactions that run out of
  attempts.

## Modules

| Module | Models | Code |
|---|---|---|
| `Playlist` | `PlaylistState` and, as pure operators, what every handler computes from the document it read | `model/playlist.go`, the computations of `controller/queue.go`, `controller/vote.go`, `broadcast/scheduler.go`, `hub/hub.go` |
| `Vote` | `model.Vote`: required votes, who voted, new votes | `model/vote.go` and the places that create votes |
| `RoomPlayback` | one room: Redis, the hub, and the handlers as jobs cut at their calls to Redis | `controller/queue.go`, `controller/vote.go`, `broadcast/scheduler.go`, `hub/hub.go`, the playback part of `store/redis.go` and `admin/admin.go` |
| `Office` | joining, moving, following, bubbles, voice, disconnecting | `controller/chat.go` (join), `presence.go`, `follow.go`, `bubble.go`, `office_chat.go` (bubbles), `livekit_token.go`, `office/`, `Unregister` |
| `PrivateZone` | private zones and their transactions | `controller/private.go`, `UpdatePrivateZoneState` |
| `Floor` | `Office` and `PrivateZone` together | `controller/presence.go` |
| `ChatBoard` | abstract: what the chat promises | – |
| `Chat` | the chat and its pins | `controller/chat.go`, the lists of `store/redis.go` |
| `Documents` | sound pad, schedules with the cron table, top spenders | `controller/soundpad.go`, `admin/admin.go`, `broadcast/scheduler.go` |
| `RoomLifecycle` | marks, days and the cleanup | `main.go`, `hub/hub.go`, `DeleteRoom` |
| `Feed` | abstract: what the delivery of messages promises | – |
| `Delivery` | the channel, `Hub.Run`, joining clients | `hub/hub.go`, `broadcaster/broadcaster.go`, `controller/chat.go` |
| `Services` | the four modules above together | – |
| `MCRoomPlayback`, `MCOffice`, `MCServices` | values of the constants for TLC | – |
| `Lists` | what a list has at some of its places, used by `Chat`, `ChatBoard` and `Documents` | the copying loops of `controller/chat.go` and `admin/admin.go`, `LREM` |
| `Playlist_proofs`, `RoomPlayback_proofs`, `RoomSteps_proofs`, `RoomDocuments_proofs`, `Office_proofs`, `PrivateZone_proofs`, `Delivery_proofs`, `Services_proofs` | theorems and proofs, see [proofs](#proofs) | – |

In every module the handlers are jobs: a record per goroutine with the next call (`at`)
and the local variables the handler still needs; an action is the code from one call to
Redis (or one use of the hub's mutex) to the next.

### `RoomPlayback`

| Variable | In the code |
|---|---|
| `store` | `synctune:room:<id>:state` |
| `history` | `synctune:room:<id>:history`, oldest first |
| `vote` | `synctune:room:<id>:vote`; `NoVote` when missing or expired |
| `claimed` | the `song_ended` keys of `ClaimSongEnded` |
| `allowSkip` | `AppSettings.AllowSkipBroadcast` |
| `online` | the hub's clients of the room |
| `lock` | holder of the room's vote mutex |
| `job` | for every client's read goroutine, the cron goroutine and admin requests: which call to Redis it is about to make and what it holds in local variables |
| `minted`, `ballots`, `faults` | counters behind bounds |
| `ticked`, `passed`, `owed`, `discarded` | history variables of properties |

A job is a record: `at` is the next call (`write` = `SetState`, `claim` =
`ClaimSongEnded`, `getVote` = `GetVote` of `startVote`, `cast` = after the
`GetVote` of `HandleVoteCast` with the mutex held, ...), `op` the handler it
belongs to, `target` the song, `blob` the document read or to be written,
`ballot` the vote read or to be written.

| Action | Code, from one call to Redis to the next |
|---|---|
| `AddSong`, `RemoveSong`, `ReorderQueue`, `SetPlaybackMode`, `SetPlaybackSpeed`, `ReportError`, `SkipSong`, `SongEnded` | the handlers up to their first write, claim, vote or execution |
| `ClaimSongEnded` | `SETNX`; the winner computes the document to write from the one it read before |
| `WriteState` | `SetState` of any handler, and where it goes on: after the end of a broadcast to `clearActiveVote`, after its start to `startBroadcastSkipVote` |
| `StartVote`, `PublishVote` | `startVote`: `GetVote` and the decision; `SetVote` |
| `VoteCast`, `RecordVote`, `PassVote` | `HandleVoteCast`: lock and read; count; or pass and delete |
| `ExecuteRemoveSong`, `ExecuteSkipSong`, `ExecuteBroadcastSkip` | the executions: read again, compute |
| `ClearActiveVote`, `DeleteClearedVote` | `clearActiveVote` |
| `TriggerBroadcast`, `TriggerInRoom`, `StartBroadcastSkipVote`, `SkipCurrentBroadcast` | the scheduler |
| `UpdateSettings` | the admin |
| `Join`, `Leave`, `ResetEmptyRoom` | membership, and the reset by the last `Unregister` |
| `Tick` | `IncrSeekTime`, one script |
| `VoteExpires`, `ClaimExpires` | times to live |
| `StoreFails`, `Crash` | a Redis call that fails; the server dies and starts again |

### `Office`, `PrivateZone` and `Floor`

| Variable | In the code |
|---|---|
| `phase` | the life of a connection: away, open (registered), joined, closed, or lost in a crash |
| `place`, `bubble`, `following`, `voice` | `LastX`/`LastY` as the zone they are in, `BubbleID`, `FollowingID`, `ActiveVoiceGroup` of `hub.Client` |
| `presence`, `bubbles`, `chats` | the hashes `presence` and `bubbles` and the message lists of bubbles in Redis |
| `zones` | the private-zone keys; a zone nobody is in has none |
| `standing`, `life` | of `PrivateZone`: `LastZoneID` and the life of a connection |
| `job`, `visit` | the goroutine of every connection |
| `setting`, `zoneSetting` | what may happen in a behaviour, chosen at the start (see [runs](#runs)) |
| `asked`, `gaveUp` | history variables: who made a bubble or was invited to it; whose update ran out of attempts |

| Actions | Code |
|---|---|
| `Register`, `HandleJoin`, `SpawnPresence`, `GetAllPresence`, `ClientsInRoom`, `PurgeGhosts` | `HandleJoin` in its calls, with its two early returns, `reconcileLivePresence` and the voice credentials at its end |
| `PresenceUpdate`, `Moved`, `VoiceTokenRequest` | `HandlePresenceUpdate`, `HandleVoiceTokenRequest` |
| `FollowStart`, `SetFollowing`, `FollowStop`, `RecordFollow` | `controller/follow.go` |
| `InviteToBubble`, `CreateBubble`, `SetBubble`, `RecordBubble`, `SyncVoice` | `HandleBubbleInvite`; one member at a time gets new credentials |
| `BubbleAccept`, `RegetBubble`, `BubbleLeave`, `GetOwnBubble`, `RecordLeave`, `DeleteBubble` | `HandleBubbleAccept`, which leaves another bubble first, `HandleBubbleLeave`, `leaveBubbleMembership` |
| `BubbleSend`, `PushChannelMessage` | `HandleBubbleSend` |
| `Unregister`, `DeletePresence`, `ListBubbles`, `ClearBubbles`, `ClearFollowers`, `PersistFollowers`, `RecordFollower` | `Unregister` after `ClearVoiceOnDisconnect` |
| `Move`, `SetPresence` | `canEnterPrivate` and the move; `syncPrivateOccupancy` |
| `PrivateInvite`, `Disconnect` | `HandlePrivateInvite`, `RemoveConnectionFromPrivateZones` |
| `Watch`, `Get`, `Exec`, `ExecFails`, `UpdateFails` | `UpdatePrivateZoneState`: one attempt, its failure, the next one |
| `StoreFails`, `Crash`, `ServerDies` | a failing call of Redis whose handler returns; the server dies |

`Floor` puts both together. A move is checked against the zones before it is made and
the occupants are updated afterwards. What the two share is the zone a client is in,
which only its own goroutine changes, and `Office` allows a move to any zone at any
time; so a behaviour of both, projected to one, is a behaviour of that one, and it is
enough to let a behaviour choose its `side`.

### `Chat`, `Documents`, `RoomLifecycle`, `Delivery` and `Services`

| Variable | In the code |
|---|---|
| `chat`, `pins` | the lists `chat` and `pins` in Redis, newest first |
| `pad`, `plays`, `schedules`, `spenders` | the sound pad, its plays, the schedules and the top spenders in Redis |
| `cronTable`, `announced` | the entries of `Scheduler.cron`; the last `top_spenders_updated` |
| `inRoom`, `leaving`, `mark`, `kept` | `Hub.rooms`; a last guest between the mutex and the mark; `last_emptied`; the other keys of a room as one |
| `day`, `cleanup` | time in days; the goroutine of `startRoomCleanup` |
| `hall`, `closed`, `stored` | the room of every client, those that are closed, the version of a room's state in Redis |
| `channel`, `stage`, `current`, `writing` | `Hub.broadcastCh`, and `Hub.Run` with the writes it waits for |
| `shown` | the version a client was sent last |
| `chatJob`, `editJob`, `handler` | the goroutines |
| `condemned`, `lastIn`, `log`, `heard`, `lossy` | history variables |

| Actions | Code |
|---|---|
| `SendMessage`, `DeleteMessage`, `ReactMessage`, `FindMessage`, `SetMessage` | the handlers, and `updateChatMessage`: `LRANGE`, then `LSET` at the index found |
| `PinMessage`, `ReadPins`, `FindPin`, `RemovePin`, `PushPin` | `HandlePinMessage`, `TogglePinMessage`: the copy is removed by its value |
| `SoundPadSet`, `SoundPadClear`, `WritePad`, `SoundPadPlay`, `PushSoundPadPlay` | `controller/soundpad.go` |
| `PostSchedule`, `PutSchedule`, `DeleteSchedule`, `WriteSchedules`, `RereadSchedules`, `InstallCron`, `StartServer` | the admin's requests, `Scheduler.reload`, `Start` with `migrateDefaults` |
| `PostSpender`, `PutSpender`, `DeleteSpender`, `WriteSpenders`, `AnnounceSpenders` | the admin's requests, `mergeTopSpenders`, `broadcastTopSpenders` |
| `EnterRoom`, `UseRoom`, `LeaveRoom`, `SetRoomLastEmptied` | membership and the mark of the last `Unregister` |
| `ListRoomsLastEmptied`, `LookAtActiveRooms`, `CleanRoom`, `EndCleanup`, `NextDay`, `Restart` | `runRoomCleanup`, and what happens around it |
| `SetState`, `BroadcastToRoomExcept` | any handler that changes a room and announces it |
| `SetClientRoom`, `ReadState`, `SendRoomJoined` | `HandleJoin`, as far as its answer |
| `Receive`, `LookIntoRoom`, `WriteTo`, `AllWritten`, `CloseClient` | `Hub.Run` and `Unregister` |
| `ChatCallFails`, `WriteFails`, `CrashServer` | failing calls of Redis, a crash |

`Services` puts the four together. Their handlers share no field in memory and, but for
the deletion of a room, no key in Redis: a behaviour of all four is an interleaving of
behaviours of each, and one `part` at a time is enough. What the deletion of a room
takes with it is `kept` in `RoomLifecycle`.

### Refinements

* `Chat` implements `ChatBoard` (`BoardRefined`): pinned messages are mapped to their
  ids, and a handler's calls take effect in one of them. It holds as long as handlers do
  not overlap; with two at a time a message that is pushed between `LRANGE` and
  `LSET` makes the rewrite replace a *different* message.
* `Delivery` implements `Feed` (`FeedRefined`, no condition): the messages that got into
  the channel are one log, and every client is at a place in it. The mapping takes the
  place from where `Hub.Run` is (`Place`). So parallel writes, clients that come, go or
  fail, and a full channel never make a client hear something twice, in another
  order, or what excludes it.

## Modelling decisions

* *Steps.* Calls to Redis that only read and directly precede a local decision are
  one step with it: a goroutine may be delayed before and after, but nothing can
  happen inside. `PushHistory` is merged with the read (or claim) before it: the
  history is only appended to, and no handler decides by it.
* *Requests that are rejected* (a `song_id` that is not the current one, a
  `vote_id` that is not the active one, an invitation to someone who is a member, rate
  limits, bad payloads, a failing read, a `song_ended` less than four seconds after a
  broadcast started) change nothing and are not written down. A reading of the settings
  that fails counts as the setting turned off; `UpdateSettings` covers that value.
* *Left out of the document:* titles, video ids, thumbnails, platform, the live
  flag (live songs keep seek time 0) and the start time of a broadcast.
* *Identity.* `queue_id` is a uuid: a number never used before. A replay keeps the
  uuid and appends `_replay`: a counter. Ids in a queue are different, so "the
  first song with this id" is "the song with this id". User ids are connection ids
  (`HandleJoin`), so a user is a connection; a connection that comes back is another one.
  Names need not differ: whoever has the name a song was added under is its owner for the
  code (`queue.go:234`, `queue.go:500`), and the model compares names there (`Username`).
  Bubbles, messages, schedules and spenders have numbers in the order they were made.
* *Any index* for `pseudoRandIntn`, *any permutation* for a shuffle.
* *Mutex.* `VoteCast` takes it and reads in one step: whoever waits has done nothing.
* *Claims* live for 60 seconds, much longer than a handler; `ClaimExpires`
  leaves alone the claim of a handler that is still running. All other delays are
  unbounded.
* *Room scope.* `triggerBroadcast` loops over the active rooms; the model has one
  room and the loop's body for it. `Join` of `RoomPlayback` is `SetClientRoom` and
  `SetClientUser` in one step. `RoomLifecycle` and `Delivery` have several rooms.
* *Owed songs.* `owed` holds every song that was accepted and neither played, skipped nor
  removed since. A song added while a broadcast plays is accepted like any other
  (`queue.go:184`), but appended to the queue of the broadcast, and gone when the users'
  queue is restored (`scheduler.go:251`, `queue.go:397`, `queue.go:665`) or the next broadcast
  takes its place (`queue.go:392`). These, and no others, are in `discarded`, and
  `NoSongIsLost` states the exemption.
* *Failing calls* end their handler where the code returns (`StoreFails`, `WriteFails`,
  `ChatCallFails`), and have a branch in the action where it goes on: the ghost hunt without
  presence records or with a ghost it could not delete, the disconnect, the retries of a
  transaction, the start of the scheduler (errors at one start count as one).
* *Schedules and spenders* are what the admin's requests let through. A cron expression is
  stored as it comes, and `AddFunc` refuses an invalid one, which `reload` logs and skips:
  `valid` says which it is. A `POST` of a spender wants a name, a positive amount and a
  date, a `PUT` takes any body. Sums of amounts are taken not to overflow 64 bits.
* *Positions* are zones. `AcceptPresence` clamps a request to the map, the speed limit
  and walkable tiles; which of the moves that leaves is accepted is left open.
* *Private zones.* The map that ships has none (`office/map.go:36`,
  `map_test.go:68`); the tests use `SyntheticPrivateMap`. The zones are a parameter.
* *Lists of keys* (`SCAN` in `RemoveConnectionFromPrivateZones` and
  `ListRoomsLastEmptied`) are read in one step.
* *WATCH.* An `EXEC` fails when the key was written since the `WATCH`; a `DEL` of a key
  that is not there is no write. Redis and go-redis are external.
* *Sessions.* `melody` puts a message into a queue of the session and sends it in order,
  or fails when the session is closed or its queue is full; external, too.
* *Time* in `RoomLifecycle` passes in days, between cleanups: calls take less than a day.

## Runs

TLC explores all interleavings of each instance. `MaxInFlight` (`inFlight` in the
settings) bounds the handlers that are between two calls at one time: 2 is enough for
every race of a read against a write, and 1 ("calm") is the system without overlap, in
which the stronger sequential properties can be asked for.

| Run | Instance | Properties | Shows |
|---|---|---|---|
| `queue` | 2 users, 3 songs, queue limit 2, 2 in flight, ticks | `TypeOK`, `DocumentsWellFormed`, `SeekBelongsToSong`, `OneHandlerEndsASong`, `KeepsCurrentSong`, `DropsOnlyItsSong` | the queue handlers tolerate each other: at worst an update is lost whole |
| `broadcast` | 2 users, cron, 2 songs, 2 in flight, 1 Redis error or crash, rooms that empty | `DocumentsWellFormed` | whatever starts, ends or interrupts broadcasts, with faults |
| `votes` | 3 users, two of the same name, cron, 2 songs, 1 vote called by a client and those of the scheduler, 2 in flight, expiry | `PassesOnce`, `CountedVotesStay`, `DropsOnlyItsSong` | the mutex does its work, also against `clearActiveVote` and expiry, which do not take it |
| `calm_queue` | 2 users, 3 songs, all modes, votes, 1 in flight | `NoSongIsLost`, `RecordedOnce`, `KeepsCurrentSong` | without overlap the queue is exact |
| `calm_broadcast` | 2 users, cron, 3 songs, settings, ticks, 1 in flight | `NoSongIsLost`, `BroadcastIsInterlude` | every way out of a broadcast but the vote (no traffic here; covered by the theorem) restores what was playing; the users' songs are lost by none, but for those added during the broadcast |
| `listening` | 2 users who stay, cron, 3 songs, votes, 1 in flight, fairness | `NoMootBroadcastVote`, `BroadcastEnds` | a broadcast ends, through its replay or its vote |
| `office` | 3 connections, 2 bubbles, a meeting room, 2 private zones, 1 Redis error or crash on each side; a choice of settings | twelve, [below](#the-office-run) | what is in memory and what is in Redis agree; neither bubbles nor zones let in or lose anybody by a race |
| `services` | 2 clients each; a choice of settings for each part | eleven, [below](#the-services-run) | the chat is a board, the delivery a feed, documents change entry by entry, the cleanup deletes what it should |
| `lone_listener`, `lock_left_on`, `lost_song`, `early_cleanup` | small | one each, violated | the [findings](#findings) |

The bounds of the first six: `MaxQueue` is 2 or 3 for 100, so that it is reached;
`HistoryLimit` is 0 where no property looks at the history (the history is a
sequence of everything that happened and would multiply the states) and 9, more
than the instance can produce, where `RecordedOnce` does; `MaxSongs` and
`MaxVotes` end the minting of ids; `MaxSeek` is 1, since properties distinguish
only zero from more. `MaxVotes` limits the votes that clients call; the scheduler
may always call one. Deadlock is not checked: when all ids are used and the queue
is empty, nothing need happen, and in the program that is an idle server; the same
goes for an office everybody has left. Users are interchangeable (in `votes`, the two of the
same name), and so are the goroutines of the staff: symmetry is used in all runs without
fairness.

`PassesOnce` is checked without Redis errors: `HandleVoteCast` ignores a failing
`DeleteVote`, after which the vote can pass again. `RecordedOnce` is checked without
overlap: two clients that report the same error both push it.

### The office run

A behaviour chooses a setting: how many come, how many handlers overlap, which requests
are made and whether there is a fault or a crash. `OfficeSettings` and `ZonesSettings`
of `MCOffice` list them: one handler at a time with everything at once; two at a time
for three people in one bubble, for two people with two bubbles and a failing call, for
three who follow each other; on the other side two of three at one zone, two people in two
zones, and either with failing calls or a crash. Two bubbles are what accepting while in
another one needs, and three people are the two of a bubble and the one who comes or
interferes. A transaction has 2 attempts in place of 8, so that it does run out of
them with three visitors.

| Property | Says | Under |
|---|---|---|
| `FloorTypeOK` | besides types: who is in a bubble or zone is not invited to it any more, nobody is invited to an empty zone | everything |
| `BubblesAlive` | no bubble without members is stored or about to be | everything |
| `ByInvitationOnly` | every member of a bubble made it or was invited by a member | everything |
| `LivingNotPurged` | a ghost hunt never deletes the presence of an open connection | everything |
| `MembershipAgrees` | Redis has a client in the bubble it knows, and in no other | calm, no fault |
| `VoiceAgrees` | the voice group is that of the bubble, else of the meeting room | calm; also after faults and crashes |
| `FollowsSomeone` | nobody follows a connection that is not in the room | calm; also after faults and crashes |
| `PresenceAgrees` | the presence in Redis is that of the clients in the room; ghosts of a crash go with the next join | calm, no Redis error; crashes |
| `ClosedLeavesNothing` | a closed connection is in no bubble and invited to none; chats go with bubbles | calm, no fault |
| `ZoneUpdatesAreWhole` | every write of a zone adds one change to what is stored | everything |
| `OccupancyAgrees` | who occupies a zone stands in it, as soon as one's own handlers are done | no Redis error, nobody gave up; overlap, and crashes for those not lost |
| `GivesUpOnlyUnderContention` | an update runs out of attempts only when the others committed as often | everything |

"Calm" is not a convenience: with two handlers at a time the calm properties are false.
An accept that writes a bubble back over another one loses that member
(`controller/bubble.go:205`), somebody may start to follow a connection between its
`Unregister` and `clearFollowersOf` (`hub.go:265`), and a position that is written after
its follower was corrected brings the old one back. The first four and the zone
properties are what remains whatever overlaps.

### The services run

| Property | Says | Under |
|---|---|---|
| `ServicesTypeOK` | besides types: chat, pins, plays and channel keep within their limits, spenders have ids of their own | everything |
| `BoardRefined` | `Chat` implements `ChatBoard` | one handler at a time; failing calls |
| `OnlyAuthorsDelete` | a message that shows as deleted is one its author wanted deleted, even when a rewrite hits another message | everything |
| `OthersAreKept` | a request changes its own entry, unless another one wrote since it read, or the read failed | overlap, crashes, start |
| `CronMatchesSchedules` | cron plays the schedules that are stored, enabled and have an expression it accepts (an enabled one with another is stored, shown as enabled and never played) | one request at a time, no Redis error; crashes |
| `TotalsAnnounced` | what was announced is each name once, with all amounts of the stored entries and a date not before any of theirs | one request at a time, no Redis error |
| `KeptWhileInUse` | only a room that nobody was in for more than five days is deleted | guests and cleanup take turns, no fault |
| `CleanupDeletesExpired` | no cleanup leaves a room marked long ago, unless somebody is there | overlap; no fault |
| `FeedRefined` | `Delivery` implements `Feed` | everything |
| `EveryoneHears` | a message in the channel is heard by everybody in its room who stays | overlap; sessions that keep up |
| `ShowsNewest` | when the channel is empty everybody shows what is stored, though the answer to a join overtakes the channel | one handler at a time, nothing lost |

Bounds: lists of 2 and 3 messages overflow a chat of 2; two requests overlap on one
document; a schedule is enabled or not, and an enabled one valid or not; three entries of top spenders
are two spellings of a name and what only a `PUT` can make of one, without a name or a date
and with a negative amount; requests one at a time also with a Redis error, and for the
schedules with a crash;
one day stands for the five days of `roomMaxAge` in 3 days; a channel of 2 for 256 is
full with two handlers while the loop is busy.

**Fairness.** `FairSpec` (only in `listening` and `lone_listener`): a handler in
flight goes on (weak fairness per process: Redis answers, the Go scheduler runs
every goroutine), and a client's `song_ended` for the song being played is handled in
the end. The latter is strong fairness: the client's messages are handled in order, and
while it is busy with another one `SongEnded` is not enabled. No other request
is fair; users need not do anything. `DeliveryFairness` (in `services`, for
`EveryoneHears`): `Hub.Run` has a goroutine of its own and each write has one, and a
write of `melody` never blocks; so both are weakly fair. Handlers are not: a client need
not do anything.

## Findings

Four disagreements between code and documentation, each with a run that ends in
a violation:

1. `lone_listener`: with one user in the room, the vote to skip a broadcast is decided
   at once, and `HandleSkipSong` (`queue.go:495`) runs `executeSkipSong` instead of
   `executeBroadcastSkip`. The broadcast leaves the queue, `IsBroadcasting` stays
   on, and nothing brings the users' queue back until the room empties or the admin
   skips.
2. `lock_left_on`: `HandleReportError` (`queue.go:389`) moves on to the next
   broadcast of `BroadcastQueue` without resetting the replay flags. When a player error ends
   a replay and another broadcast is waiting, that one plays its first round with
   `BroadcastSkipLocked` set: it cannot be skipped and is not replayed, against
   `model/playlist.go:45`, which has the lock on during the replay. (The same error with no
   broadcast waiting leaves the flag set in a room without a broadcast, which is harmless:
   the next trigger resets it. The property speaks of rooms that broadcast.)
3. `lost_song`: two users add a song at the same time, one song is lost
   (`queue.go:192`), against the reason `DESIGN.md:24` gives for the architecture.
4. `early_cleanup`: `startRoomCleanup` is said to delete rooms that were empty for more
   than five days (`main.go:75`). A mark is set when a room empties and never
   cleared: a room that emptied long ago, was joined again and was in use until the
   server restarted still has the old mark, and is deleted by the next cleanup.

Further things the models allow; the first four have a definition that states the
contrary, and no run lists it:

* `NoMootSkipVote`: a vote to skip a song stays open when that song ends
  (`vote.go:120` says a vote is cleared when its song is over; only broadcasts
  do). Harmless: `executeSkipSong` looks at the song again (`DropsOnlyItsSong`).
* `NoMootBroadcastVote` with player errors, admin skips or an emptied room: the vote
  on the broadcast stays open, and may skip the *next* broadcast, since
  `executeBroadcastSkip` takes any.
* `VoteNotReplaced`: `startVote` does not take the mutex that `hub.go:57` describes, so
  two votes started at once replace each other (`VOTE_IN_PROGRESS` in the README).
* `EmptyRoomIsQuiet`: a trigger that runs while the last client leaves starts a
  broadcast in an empty room, against the intention stated at `hub.go:198`.
* A guest who joins after the cleanup has read the rooms in use, to a room marked long
  ago, loses the room (`KeptWhileInUse` needs its condition).
* A private zone with occupants a crash has cut is closed for good: nobody who could
  invite is inside (`OccupancyAgrees` leaves out those who are lost).
* Two connections that find a private zone empty at the same time both enter.
* A song added while a broadcast plays is accepted, shown and discarded when the users'
  queue comes back (`NoSongIsLost` states the exemption); no document speaks of it.
* A schedule with an expression cron refuses is stored and shown as enabled, and only the
  log says that it will not play (`scheduler.go:113`).
* After a failing `GetSchedules` or `GetTopSpenders` a `POST` or `DELETE` writes a list
  without the other entries (`OthersAreKept` needs its condition).
* The documentation speaks of a daily purge of all room keys at 06:00
  (`README.md:246`, `README.md:344`, `DESIGN.md:97`); the code deletes long empty rooms
  at 04:00. It also says that a room is deleted when its last client leaves
  (`README.md:125`, `DESIGN.md:96`); the code marks the room and keeps its keys for five
  days.


## Proofs

TLAPS proves, for any number of users, songs, votes, connections, bubbles, zones,
messages, rooms, days, documents and handlers in flight, and any limits:

| Module | Theorem | States |
|---|---|---|
| `RoomPlayback_proofs` | `TypeCorrect` | `Spec => []TypeOK` |
| | `DocumentsStayWellFormed` | `Spec => []DocumentsWellFormed`: in every document in Redis, and in every document a handler is about to write, the current index is in the queue (also in the saved one) and an empty queue does not play; a broadcast song is in front of a broadcasting room only, the saved queue is the users' and the waiting one the scheduler's; a broadcast is replayed at most once; the queue limit holds; shuffle and random play exclude each other |
| `RoomSteps_proofs` | `CurrentSongKept` | `KeepsCurrentSong`: adding, removing, moving and shuffling songs and changing modes never changes which song is being played |
| | `SongEndedOnce` | `OneHandlerEndsASong`: however many clients report the end of a song, one handler at a time goes on to advance the queue for it |
| | `VotesStayCounted`, `VotePassesOnce` | `CountedVotesStay`; `faults = 0 => PassesOnce` |
| `RoomDocuments_proofs` | `SongsTakenOut`, `SeekStaysWithSong` | `DropsOnlyItsSong`, `SeekBelongsToSong`, whatever overlaps |
| | `NothingLost`, `BroadcastGivesBack`, `RecordedOnlyOnce` | `MaxInFlight = 1`: `NoSongIsLost` (with the exemption it states: songs added while a broadcast plays go with its queue), `BroadcastIsInterlude`, `faults = 0 => RecordedOnce` |
| | `NoMootVote` | `MaxInFlight = 1`, no Redis error, and none of the requests that leave a vote open: `NoMootBroadcastVote` |
| `Office_proofs` | `OfficeTypeCorrect`, `FloorTypeCorrect` | `TypeOK` of `Office`, `FloorTypeOK` |
| | `BubblesStayAlive`, `OnlyTheInvitedJoin`, `TheLivingAreNotPurged` | `BubblesAlive`, `ByInvitationOnly`, `LivingNotPurged` |
| | `VoicesAgree`, `SomebodyIsFollowed`, `BubblesAgree`, `PresencesAgree`, `NothingIsLeft` | `VoiceAgrees`, `FollowsSomeone`, `MembershipAgrees`, `PresenceAgrees`, `ClosedLeavesNothing`: the calm properties |
| `PrivateZone_proofs` | `ZonesTypeCorrect` | `ZoneTypeOK` |
| | `ZonesChangeByOne`, `OccupantsStandThere`, `OnlyContentionGivesUp` | `ZoneUpdatesAreWhole`, `OccupancyAgrees`, `GivesUpOnlyUnderContention` |
| `Delivery_proofs` | `DeliveryTypeCorrect` | `DeliveryTypeOK` |
| | `FeedImplemented`, `EverybodyIsUpToDate` | `FeedRefined`, the refinement of `Feed`; `ShowsNewest` |
| `Services_proofs` | `ServicesTypeCorrect`, `ChatTypeCorrect` | `ServicesTypeOK`, and that of the chat |
| | `ChatIsABoard`, `OnlyAuthorsDeleteAlways` | `BoardRefined`, the refinement of `ChatBoard`; `OnlyAuthorsDelete` |
| | `CronPlaysTheSchedules`, `TotalsAnnouncedAlways`, `OthersAreKeptAlways` | `CronMatchesSchedules` (schedules with an expression cron accepts), `TotalsAnnounced`, `OthersAreKept` |
| | `RoomsInUseAreKept`, `ExpiredRoomsAreDeleted` | `KeptWhileInUse`, `CleanupDeletesExpired` |
| | `ServicesAreTheirParts` | `ServicesSpec` implies the specification of each part |

Where a property carries its condition in itself (`Calm`, `NoMishap`, one request at a
time), the theorem has no other. The theorems of a part of `Floor` or `Services` are about
the specification of that part; that a behaviour of the whole is one of every part
(`FloorIsItsParts`, `ServicesAreTheirParts`: another part's step leaves its variables
alone) carries them over to what TLC runs. `TotalsAnnouncedAlways` excludes settings with
a crash: after a crash between the write and the announcement nobody has been told, and the
runs have no such setting for the spenders either.

**Assumptions** are the named `ASSUME` of each module: limits and bounds are
numbers (those of the chat, the channel and the attempts positive), the values that stand
for nothing are none of the others, settings are records of the right type, in
`PlaylistAssumption` every user has a name, in `RoomAssumption` the room
starts with finitely many clients, an empty queue at the start of its time and no broadcast,
and in `DocumentsAssumption` a schedule says whether it is enabled and valid, one being both,
and spenders are records of a name, a spelling, an amount and a date.
TLC evaluates each in the runs. A theorem that needs more (`MaxInFlight = 1`) has it in
its `ASSUME`.

### The room

**Documents.** `Playlist_proofs` has one lemma per operator: applied to a
well-formed document it yields a well-formed document (`ReorderedGood` and
`BroadcastEndOutcomeGood` are listed as examples). These rest on three lemmas
about sequences (`RemoveAtProperties`, `InsertAtProperties`, `MoveProperties`: where
the elements are afterwards) and on general ones (`QueueChanged`, `PlayedAt`,
`RestoreGood`) for the groups of handlers that change the same fields.
`RoomPlayback_proofs` then has one lemma per action. `DocumentsWellFormed` alone is
not inductive: that a handler was right to compute something must survive until
its next step, while the shared document moves on. The inductive invariant `IInv`
adds what the job remembers (`JobOK`): a handler waiting for the claim is going to end a
song or a broadcast, and holds a document with a current song, which is a broadcast in
the second case; a vote about to be published or counted is a real one; a broadcast about
to be put into the room has never been replayed. And the room is finite, for the size of
a vote to be a number. The key point is that handlers never mix two documents: what is
written is computed from *one* well-formed document, so that a lost update loses an
update but never corrupts.

**Computing.** `RoomSteps_proofs` splits the steps in two (`Steps`): those that bring no
handler to the point of writing (`Quiet`), and those that compute a document
(`Computing`). For `KeepsCurrentSong` only the second kind matters, and there one lemma
per operator says that the song at the new index is the song at the old one.
`OneHandlerEndsASong` needs `ClaimsHeld`: a handler about to end a song still holds the
claim. A second handler cannot get the claim then, and it expires only when no
handler is about to write for it, which is what `ClaimExpires` assumes of the 60 seconds
the code gives it.

**Votes.** `VotesInv`: who counts a vote holds the mutex, so there is one; the vote it
has read is the stored one, or that one is gone or has another id (`VotesApart`); what
has passed is not stored, being counted or being published any more (`PassedApart`, as
long as no `DeleteVote` failed). An expiry between the read and the write of a counting
handler, or a `clearActiveVote`, which takes no mutex, brings back the old vote at worst,
never one with fewer voters.

**Songs.** In `RoomDocuments_proofs` a computation is one of eight things (`Does`): a song
more, the same songs, a song less, the broadcast once more, the next broadcast, the
restore, a broadcast that interrupts or one that waits; `DocumentSteps` says that every step
is such a computation, the write of its result, or leaves the songs alone. `SongsInv` adds
that ids in a document are distinct and were made before, and that an id on its way
into a document is in none. `DropsOnlyItsSong` follows; `SeekBelongsToSong` is inductive
with the same lemmas.

**Calm rooms.** With one handler in flight, what it has read *is* what is stored (`CalmInv`),
and what it is about to write stands to it as `Interlude` says. `NoSongIsLost` and
`BroadcastIsInterlude` follow also with errors and crashes: a handler that dies leaves the
document as it was. `RecordInv` (without faults: the history is pushed before the document
is written) says that the songs of the document, replays counted, are not in the history
yet. For the vote on a broadcast, `HeedInv` says what the handler in flight knows of it at
every point (`Heeds`): that it is about to close it, that the broadcast it is about to open
one for may be skipped, that none is left when it executes one. The theorem leaves out the
four events of `LeavingVotes`, with which the property is false, see
[findings](#findings); `HeedInv` was checked by TLC on the instance of `listening`.

### The office

In `OfficeInv` every stored bubble is `Sound` (it has members, and they and
the invited were asked at some time) and what every handler remembers is `Good`. A
remembered bubble may be long out of date; it stays good because nothing it depends on
is taken back: whoever was asked once remains asked, and a connection only goes
forward, to `joined` and then to `closed` or `lost`. So the bubble that is written back
is sound, although it may undo another handler's change. `LivingNotPurged` needs that only
those who have joined have a presence: who was among the presences and then is not among
the clients is gone for good.

`ClientsInv` is about each client alone, and holds whatever overlaps: its voice group is the
one it should have, unless a handler that will set it is still on its way (its own, or one
that has it on its list). `VoiceAgrees` follows without the other invariants.

The other calm properties share `CalmInv`: one connection at a time is in a handler, and
*for that one* (`Alone(c)`, which everybody is when nobody is in a handler, so that it
passes from one to the next: `HandOver`) three parts hold. `FollowCalm`: everybody follows
somebody in the room or the connection that is leaving it. `BubblesCalm`, without a fault:
clients and bubbles agree but for what this connection is about to write, and what it holds
is what is stored (`InHand`). `PresenceCalm`, without a Redis error: records and clients
agree but for those this connection still has to correct, and whoever a crash has cut off
has a record only until somebody has joined again (`NoGhosts`). `ClientsInv` and `CalmInv`
were checked by TLC on the `office` instance first (1.3 million states).

### The private zones

`ZoneInv` has three parts per visitor: `Reads` (a transaction that
has not been disturbed has read what the key holds), `Sane` (an update that adds or
removes somebody is that visitor's own, and in accord with where it stands) and
`Agrees` (a zone differs from where the visitor stands only while an update for
it is to come). The last one is guarded by `NoMishap`, the condition of `OccupancyAgrees`.
`GivesUpOnlyUnderContention` needs `Counted`: every attempt that failed, and the one whose
key was written since the `WATCH`, has a rival of its own.

### The delivery

`InStep` says that the channel is the end of the log that
`Hub.Run` has not taken yet, and that the message in hand is the one before it. The
refinement then is a matter of steps: what gets into the channel is published; when
`Hub.Run` looks into the room, everybody not there misses the message at once; a
write is heard, or missed when it fails; everything else is no step of the feed.
For `ShowsNewest`, `Orderly` says of one handler at a time and no loss: the versions of a
room rise along the log, and the newest is what is stored, or about to be sent
(`NewestIsSent`). A client shows what is stored or has the newest message still before it
(`UpToDate`), although the answer to its join overtook older ones.

### The services

**Chat.** `ChatInv` says of every handler that the message it is about to write is the one
it found, with its own id, so that a write to a wrong index replaces a message and never
marks another one as deleted. `ChatTyped` bounds the lists. For the board, `ChatCalm` says
that with one handler at a time the message in hand is where it was found, that ids are those
sent so far and that a message is pinned once; then the `LSET`, the push or the removal of a
pin is the step of the board, and all other calls are stutters.

**Documents.** `ReadsAreFresh` (what a request is about to replace is what it has read)
and `WrittenIsUsed` (cron plays, and what was announced is, what is stored, but for the
requests on their way) hold with one request at a time and no error. `TotalsAnnounced`
needs what `mergeTopSpenders` computes, for every list: `MergeAddsUp`.

**Induction.** The induction theorems of the library take an operator, which the
installed provers cannot instantiate. Where a proof about the lists needs induction, it
takes the smallest counterexample instead: `SmallestNat`, a nonempty set of
numbers has a smallest element, follows from `NatLessThanWellFounded` without one. That is
how amounts of merged lists are added up and how the places of a list (`Lists`) are counted.

**Cleanup.** `KeptWhileInUse` needs that a mark is not older than the last time
somebody was in the room, unless somebody is or is about to mark it
(`MarksAreNew`), and that nothing changes behind the cleanup's back
(`CopiesAreFresh`). `CleanupDeletesExpired` needs less: a mark that changes during a
cleanup becomes today's or none (`MarksChangeToNow`), hence is not old.

### Only model-checked

Every safety property of the passing runs is stated by a theorem. Two properties are not:
`BroadcastEnds` and `EveryoneHears` are liveness under fairness (`ENABLED` and the rules
for it are out of the prover's reach). TLC checks the theorems' properties on instances
also without the theorems' conditions where there is a difference: `PassesOnce` and
`RecordedOnce` are checked on instances without faults.

## Not modelled

Of the modelled components:

* counters of the dashboard, settings other than the two that decide something, and
  what the admin API only reads;
* a kick: it closes the session, which is a disconnect;
* `SendToClient` and `BroadcastToAll`, which differ from the modelled ways only in the
  set of receivers, and `FlushAll`, which nothing calls;
* replies, threads, images and texts of chat messages; sounds themselves;
* metadata requests, beyond the time they take between a read and a write;
* the normalisation of the position of a live stream, and the seek broadcast of the
  ticker, which no state depends on;
* a LiveKit token that cannot be made, the relay of push-to-talk, the message lists of
  meetings and direct messages, and the bell's claim: each is one atomic call;
* the bounds of positions on the map: a position is its zone.

Not at all: HTTP clients of metadata services, QR codes, configuration, the map's
geometry and the load test (`src/scripts`): I/O, formatting and data.

## Plan

What is left, in this order:

1. `AtomicRoom`, an abstract room whose requests are atomic: `RoomPlayback` with one
   handler in flight implements it, as a `PROPERTY` of the calm runs and as a theorem from
   `CalmInv` of the room. The same for the office, from `CalmInv` of the office.
2. Pure algorithms against reference definitions: reordering, accepting positions.
3. The time to live of votes (renewed by every counted vote) and users who join
   while a vote runs; the message lists of meetings and the bell.

## Running it

    tlc -workers 2 -config queue.cfg MCRoomPlayback
    tlc -workers 2 -config office.cfg MCOffice
    tlc -workers 2 -config services.cfg MCServices
    tlc -workers 2 -config early_cleanup.cfg RoomLifecycle
    tlapm Office_proofs.tla

The other configurations are for `MCRoomPlayback`. The passing runs take from ten
seconds to three minutes each with two workers, the violations a second or two, each
proof module from half a minute to about ten minutes from nothing.
