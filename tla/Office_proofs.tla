--------------------------- MODULE Office_proofs ---------------------------
(***************************************************************************)
(* The safety of the office for any number of connections, meetings,       *)
(* bubbles, handlers that overlap, Redis errors and crashes: what a        *)
(* handler holds between two calls (Good) is enough for whatever it writes *)
(* later, however much the others change meanwhile (OfficeInv); and what a *)
(* client knows of itself is right (ClientsInv).  Then what clients,       *)
(* bubbles and presence records say of each other when handlers do not     *)
(* overlap: CalmInv has a part for each, and says it of the one connection *)
(* that may be in a handler.                                               *)
(***************************************************************************)
EXTENDS Floor, PrivateZone_proofs

\* Who has ever joined, for phases ph.
Met(ph) == {c \in Conns : ph[c] \in {"joined", "closed", "lost"}}
Gone(ph) == {c \in Conns : ph[c] \in {"closed", "lost"}}

Recording == {"recordFollow", "recordLeave", "recordBubble", "recordFollower"}

\* What connection c's job j has to remember of who was asked (a) and of the phases (ph).
Good(c, j, a, ph) ==
    /\ j.at # "idle" => c \in Met(ph)
    /\ j.at \in Recording => j.who \in Met(ph)
    /\ j.at \in {"readClients", "persistFollowers", "recordFollower"} => j.rest \subseteq Met(ph)
    /\ j.at = "purge" => j.rest \subseteq Gone(ph)
    /\ j.at = "delPresence" => ph[c] = "closed"
    /\ j.at \in {"setBubble", "push"} => j.id # NoBubble
    /\ j.at = "setBubble" => j.blob.members # {}
    /\ j.id # NoBubble => j.blob.members \cup j.blob.invites \subseteq a[j.id]
    /\ j.next # NoBubble => c \in a[j.next]
    /\ \A b \in BubbleID : j.snap[b].members \cup j.snap[b].invites \subseteq a[b]

\* A bubble with members, all of them asked, as those who are invited.
Sound(b, blob, a) == blob.members # {} /\ blob.members \cup blob.invites \subseteq a[b]

\* The inductive invariant.
OfficeInv ==
    /\ TypeOK
    /\ DOMAIN presence \subseteq Met(phase)
    /\ \A b \in DOMAIN bubbles : Sound(b, bubbles[b], asked)
    /\ \A c \in Conns : Good(c, job[c], asked, phase)

-----------------------------------------------------------------------------
(* The parts of handlers.                                                  *)

\* An idle goroutine has a job like any other, and nothing to remember.
LEMMA IdleJob ==
    /\ EmptyBubble \in Bubble /\ Blank \in Presence /\ Idle \in Job
    /\ Idle.at = "idle" /\ Idle.id = NoBubble /\ Idle.next = NoBubble /\ Idle.rest = {}
    /\ Idle.blob = EmptyBubble /\ Idle.snap = [b \in BubbleID |-> EmptyBubble]
    /\ EmptyBubble.members = {} /\ EmptyBubble.invites = {}
<1>1. EmptyBubble \in Bubble /\ EmptyBubble.members = {} /\ EmptyBubble.invites = {}
  BY DEF EmptyBubble, Bubble
<1>2. Blank \in Presence
  BY DEF Blank, Presence, Zones
<1>3. Idle \in Job
  BY <1>1, <1>2 DEF Idle, Job, Points
<1> QED
  BY <1>1, <1>2, <1>3 DEF Idle

\* Presence records and voice groups of a typed client are typed,
LEMMA ClientParts ==
    ASSUME TypeOK, NEW c \in Conns
    PROVE  /\ PresenceOf(c) \in Presence
           /\ VoiceGroup(bubble[c], place[c]) \in Group
  BY DEF TypeOK, PresenceOf, Presence, VoiceGroup, Group, Zones

\* and leaving a bubble makes a bubble of those who stay.
LEMMA WithoutParts ==
    ASSUME NEW b \in Bubble, NEW c
    PROVE  /\ Without(b, c) \in Bubble
           /\ Without(b, c).members \subseteq b.members /\ Without(b, c).invites \subseteq b.invites
  BY DEF Without, Bubble

-----------------------------------------------------------------------------
(* What a step has to establish.                                           *)

\* What was good stays good while more are asked and time passes.
LEMMA StaysGood ==
    ASSUME NEW c \in Conns, NEW j \in Job, NEW a, NEW a2, NEW ph, NEW ph2, Good(c, j, a, ph),
           \A b \in BubbleID : a[b] \subseteq a2[b],
           Met(ph) \subseteq Met(ph2), Gone(ph) \subseteq Gone(ph2),
           ph[c] = "closed" => ph2[c] = "closed"
    PROVE  Good(c, j, a2, ph2)
<1>1. j.id # NoBubble => j.id \in BubbleID
  BY DEF Job
<1>2. j.next # NoBubble => j.next \in BubbleID
  BY DEF Job
<1> QED
  BY <1>1, <1>2 DEF Good

\* A step of one goroutine that leaves it with a good job.
LEMMA OneJob ==
    ASSUME OfficeInv, NEW c \in Conns, NEW j \in Job, job' = [job EXCEPT ![c] = j],
           \A b \in BubbleID : asked[b] \subseteq asked'[b],
           Met(phase) \subseteq Met(phase'), Gone(phase) \subseteq Gone(phase'),
           \A d \in Conns : phase[d] = "closed" => phase'[d] = "closed",
           Good(c, j, asked', phase')
    PROVE  job' \in [Conns -> Job] /\ \A d \in Conns : Good(d, job'[d], asked', phase')
<1>1. job \in [Conns -> Job]
  BY DEF OfficeInv, TypeOK
<1>2. job' \in [Conns -> Job]
  BY <1>1
<1>3. ASSUME NEW d \in Conns PROVE Good(d, job'[d], asked', phase')
  <2>1. CASE d = c
    BY <1>1, <2>1
  <2>2. CASE d # c
    <3>1. job'[d] = job[d] /\ job[d] \in Job
      BY <1>1, <2>2
    <3>2. Good(d, job[d], asked, phase)
      BY DEF OfficeInv
    <3> HIDE DEF OfficeInv
    <3> QED
      BY <3>1, <3>2, StaysGood
  <2> QED
    BY <2>1, <2>2
<1> QED
  BY <1>2, <1>3

\* The same when the step leaves alone what is stored and who was asked.
LEMMA LocalStep ==
    ASSUME OfficeInv, NEW c \in Conns, NEW j \in Job, job' = [job EXCEPT ![c] = j],
           UNCHANGED <<phase, presence, bubbles, asked>>,
           place' \in [Conns -> Zones],
           bubble' \in [Conns -> BubbleID \cup {NoBubble}],
           following' \in [Conns -> Conns \cup {None}],
           voice' \in [Conns -> Group],
           chats' \subseteq BubbleID,
           minted' \in 0..MaxBubbles, faults' \in 0..MaxFaults,
           Good(c, j, asked, phase)
    PROVE  OfficeInv'
<1>1. job' \in [Conns -> Job] /\ \A d \in Conns : Good(d, job'[d], asked', phase')
  BY OneJob
<1> QED
  BY <1>1 DEF OfficeInv, TypeOK

\* A step that writes presence records or bubbles.
LEMMA StoreStep ==
    ASSUME OfficeInv, NEW c \in Conns, NEW j \in Job, job' = [job EXCEPT ![c] = j],
           UNCHANGED <<phase, following>>,
           place' \in [Conns -> Zones],
           bubble' \in [Conns -> BubbleID \cup {NoBubble}],
           voice' \in [Conns -> Group],
           DOMAIN presence' \subseteq Met(phase),
           \A d \in DOMAIN presence' : presence'[d] \in Presence,
           DOMAIN bubbles' \subseteq BubbleID,
           \A b \in DOMAIN bubbles' : bubbles'[b] \in Bubble /\ Sound(b, bubbles'[b], asked'),
           chats' \subseteq BubbleID,
           minted' \in 0..MaxBubbles, faults' \in 0..MaxFaults,
           asked' \in [BubbleID -> SUBSET Conns],
           \A b \in BubbleID : asked[b] \subseteq asked'[b],
           Good(c, j, asked', phase)
    PROVE  OfficeInv'
<1>1. job' \in [Conns -> Job] /\ \A d \in Conns : Good(d, job'[d], asked', phase')
  BY OneJob
<1>2. Met(phase) \subseteq Conns
  BY DEF Met
<1> QED
  BY <1>1, <1>2 DEF OfficeInv, TypeOK

\* What every handler can rely on.
LEMMA HandlerFacts ==
    ASSUME OfficeInv, NEW c \in Conns
    PROVE  /\ TypeOK
           /\ job[c] \in Job /\ Good(c, job[c], asked, phase)
           /\ place \in [Conns -> Zones] /\ bubble \in [Conns -> BubbleID \cup {NoBubble}]
           /\ following \in [Conns -> Conns \cup {None}] /\ voice \in [Conns -> Group]
           /\ DOMAIN presence \subseteq Met(phase)
           /\ \A d \in DOMAIN presence : presence[d] \in Presence
           /\ DOMAIN bubbles \subseteq BubbleID
           /\ \A b \in DOMAIN bubbles : bubbles[b] \in Bubble /\ Sound(b, bubbles[b], asked)
           /\ chats \subseteq BubbleID
           /\ minted \in 0..MaxBubbles /\ faults \in 0..MaxFaults
           /\ asked \in [BubbleID -> SUBSET Conns]
  BY DEF OfficeInv, TypeOK

\* A failing call is counted within its bound,
LEMMA FaultCounted ==
    ASSUME faults \in 0..MaxFaults, NEW kind, GoesWrong(kind) \/ UNCHANGED faults
    PROVE  faults' \in 0..MaxFaults
  BY OfficeAssumption DEF GoesWrong

\* and a presence record is written for somebody who has joined, or not at all.
LEMMA PresenceWritten ==
    ASSUME OfficeInv, NEW j \in Job, j.who \in Met(phase), TrySetPresence(j)
    PROVE  /\ DOMAIN presence' \subseteq Met(phase)
           /\ \A d \in DOMAIN presence' : presence'[d] \in Presence
           /\ faults' \in 0..MaxFaults
<1>1. /\ DOMAIN presence \subseteq Met(phase)
      /\ \A d \in DOMAIN presence : presence[d] \in Presence
      /\ faults \in 0..MaxFaults
  BY DEF OfficeInv, TypeOK
<1>2. j.record \in Presence
  BY DEF Job
<1>3. CASE presence' = HSet(presence, j.who, j.record) /\ UNCHANGED faults
  <2>1. presence' = HSet(presence, j.who, j.record)
    BY <1>3
  <2>2. /\ DOMAIN presence' = DOMAIN presence \cup {j.who}
        /\ presence'[j.who] = j.record
        /\ \A d \in DOMAIN presence : d # j.who => presence'[d] = presence[d]
    BY <2>1 DEF HSet
  <2> QED
    BY <1>1, <1>2, <1>3, <2>2
<1>4. CASE Fault /\ UNCHANGED presence
  BY <1>1, <1>4, FaultCounted DEF Fault
<1> QED
  BY <1>3, <1>4 DEF TrySetPresence

\* One ghost is deleted, or the call fails.
GhostPurged(g) ==
    \/ presence' = HDel(presence, {g}) /\ UNCHANGED faults
    \/ Fault /\ UNCHANGED presence

\* A ghost hunt ends with the voice group, or takes on one more ghost.
LEMMA PurgeGoes ==
    ASSUME OfficeInv, NEW c \in Conns, PurgeGhosts(c)
    PROVE  /\ job[c].at = "purge"
           /\ UNCHANGED <<setting, phase, place, bubble, following, bubbles, chats, minted, asked>>
           /\ \/ /\ job[c].rest = {}
                 /\ job' = [job EXCEPT ![c] = Idle] /\ UNCHANGED <<presence, faults>>
                 /\ voice' = [voice EXCEPT ![c] = VoiceGroup(bubble[c], place[c])]
              \/ \E g \in job[c].rest, j \in Job :
                   /\ job' = [job EXCEPT ![c] = j]
                   /\ [job[c] EXCEPT !.rest = @ \ {g}] = j
                   /\ UNCHANGED voice
                   /\ GhostPurged(g)
<1>1. job[c] \in Job
  BY HandlerFacts
<1>2. \A g \in job[c].rest : [job[c] EXCEPT !.rest = @ \ {g}] \in Job
  BY <1>1 DEF Job
<1> QED
  BY <1>2 DEF PurgeGhosts, At, Goto, GhostPurged

-----------------------------------------------------------------------------
(* The steps.                                                              *)

\* Who joins, one call after the other.
LEMMA JoinKeeps ==
    ASSUME OfficeInv, NEW c \in Conns, JoinStep(c)
    PROVE  OfficeInv'
<1> USE IdleJob, HandlerFacts
<1>1. CASE Register(c)
  <2>1. phase' = [phase EXCEPT ![c] = "open"] /\ phase[c] = "away"
    BY <1>1 DEF Register
  <2>2. phase \in [Conns -> Phases] /\ phase' \in [Conns -> Phases]
    BY <2>1 DEF TypeOK, Phases
  <2>3. Met(phase') = Met(phase) /\ Gone(phase') = Gone(phase)
    BY <2>1, <2>2 DEF Met, Gone
  <2>4. \A d \in Conns : phase[d] = "closed" => phase'[d] = "closed"
    BY <2>1, <2>2
  <2>5. UNCHANGED <<setting, fields, redis, job, bounds, asked>>
    BY <1>1 DEF Register
  <2>6. \A d \in Conns : Good(d, job[d], asked, phase')
    BY <2>3, <2>4, StaysGood DEF OfficeInv, TypeOK
  <2> QED
    BY <2>2, <2>3, <2>5, <2>6 DEF OfficeInv, TypeOK, fields, redis, bounds
<1>2. CASE HandleJoin(c)
  <2> DEFINE j == job'[c]
             spawning == [Idle EXCEPT !.at = "spawn"]
  <2>1. phase' = [phase EXCEPT ![c] = "joined"] /\ phase[c] = "open" /\ job[c] = Idle
    BY <1>2 DEF HandleJoin, Ready
  <2>2. phase \in [Conns -> Phases] /\ phase' \in [Conns -> Phases]
    BY <2>1 DEF TypeOK, Phases
  <2>3. Met(phase) \subseteq Met(phase') /\ c \in Met(phase') /\ Gone(phase) \subseteq Gone(phase')
    BY <2>1, <2>2 DEF Met, Gone
  <2>4. \A d \in Conns : phase[d] = "closed" => phase'[d] = "closed"
    BY <2>1, <2>2
  <2>5. spawning \in Job /\ Good(c, spawning, asked, phase') /\ Good(c, Idle, asked, phase')
    BY <2>3 DEF Job, Points, Good, Recording
  <2> HIDE DEF spawning
  <2>6. job' = [job EXCEPT ![c] = spawning] \/ job' = [job EXCEPT ![c] = Idle]
    BY <1>2, <2>1 DEF HandleJoin, Goto, TypeOK, spawning
  <2>7. job' = [job EXCEPT ![c] = j] /\ j \in Job /\ Good(c, j, asked, phase')
    BY <2>5, <2>6 DEF TypeOK
  <2>10. faults' \in 0..MaxFaults
    BY <1>2, FaultCounted DEF HandleJoin, Fault
  <2> HIDE DEF j
  <2>8. UNCHANGED <<setting, fields, redis, minted, asked>>
    BY <1>2 DEF HandleJoin
  <2>9. job' \in [Conns -> Job] /\ \A d \in Conns : Good(d, job'[d], asked', phase')
    BY <2>3, <2>4, <2>7, <2>8, OneJob
  <2> QED
    BY <2>2, <2>3, <2>8, <2>9, <2>10 DEF OfficeInv, TypeOK, fields, redis
<1>3. CASE SpawnPresence(c)
  <2> DEFINE j == job'[c]
             reading == [Idle EXCEPT !.at = "readPresence"]
             r == [PresenceOf(c) EXCEPT !.zone = Lobby]
  <2>2. c \in Met(phase)
    BY <1>3 DEF SpawnPresence, At, Good
  <2>1. reading \in Job /\ Good(c, reading, asked, phase) /\ Good(c, Idle, asked, phase)
    BY <2>2 DEF Job, Points, Good, Recording
  <2> HIDE DEF reading
  <2>3. job' = [job EXCEPT ![c] = reading] \/ job' = [job EXCEPT ![c] = Idle]
    BY <1>3 DEF SpawnPresence, Goto, reading
  <2>4. r \in Presence
    BY ClientParts DEF Presence, Zones
  <2>5. faults' \in 0..MaxFaults
    BY <1>3, FaultCounted DEF SpawnPresence, Fault
  <2>9. job' = [job EXCEPT ![c] = j] /\ j \in Job /\ Good(c, j, asked, phase)
    BY <2>1, <2>3 DEF TypeOK
  <2>6. \/ presence' = HSet(presence, c, r) /\ place' = [place EXCEPT ![c] = Lobby]
        \/ UNCHANGED <<presence, place>>
    BY <1>3 DEF SpawnPresence
  <2>7. /\ DOMAIN presence' \subseteq Met(phase)
        /\ \A d \in DOMAIN presence' : presence'[d] \in Presence
        /\ place' \in [Conns -> Zones]
    <3>1. CASE presence' = HSet(presence, c, r) /\ place' = [place EXCEPT ![c] = Lobby]
      <4>1. presence' = HSet(presence, c, r)
        BY <3>1
      <4>2. /\ DOMAIN presence' = DOMAIN presence \cup {c}
            /\ presence'[c] = r
            /\ \A d \in DOMAIN presence : d # c => presence'[d] = presence[d]
        BY <4>1 DEF HSet
      <4> HIDE DEF r
      <4> QED
        BY <2>2, <2>4, <3>1, <4>2 DEF Zones
    <3>2. CASE UNCHANGED <<presence, place>>
      BY <3>2
    <3> QED
      BY <2>6, <3>1, <3>2
  <2>8. UNCHANGED <<phase, bubble, following, voice, bubbles, chats, minted, asked>>
    BY <1>3 DEF SpawnPresence
  <2> HIDE DEF j, r
  <2> QED
    BY <2>5, <2>7, <2>8, <2>9, StoreStep
<1>4. CASE GetAllPresence(c)
  <2> DEFINE read == [Idle EXCEPT !.at = "readClients", !.rest = DOMAIN presence]
             unread == [Idle EXCEPT !.at = "purge"]
  <2>1. c \in Met(phase)
    BY <1>4 DEF GetAllPresence, At, Good
  <2>2. read \in Job /\ unread \in Job
    BY DEF Job, Points, Met
  <2>3. Good(c, read, asked, phase) /\ Good(c, unread, asked, phase)
    BY <2>1 DEF Good, Recording
  <2>4. faults' \in 0..MaxFaults
    BY <1>4, FaultCounted DEF GetAllPresence, Fault
  <2>5. job' = [job EXCEPT ![c] = read] \/ job' = [job EXCEPT ![c] = unread]
    BY <1>4 DEF GetAllPresence, Goto
  <2>6. UNCHANGED <<phase, place, bubble, following, voice, presence, bubbles, chats, minted, asked>>
    BY <1>4 DEF GetAllPresence, fields, redis
  <2> HIDE DEF read, unread
  <2> QED
    BY <2>2, <2>3, <2>4, <2>5, <2>6, LocalStep
<1>5. CASE ClientsInRoom(c)
  <2> DEFINE j == [Idle EXCEPT !.at = "purge", !.rest = job[c].rest \ Joined]
  <2>1. c \in Met(phase) /\ job[c].rest \subseteq Met(phase)
    BY <1>5 DEF ClientsInRoom, At, Good
  <2>2. j \in Job
    BY <2>1 DEF Job, Points, Met
  <2>3. job[c].rest \ Joined \subseteq Gone(phase)
    BY <2>1 DEF Met, Gone, Joined
  <2>4. Good(c, j, asked, phase)
    BY <2>1, <2>3 DEF Good, Recording
  <2>5. job' = [job EXCEPT ![c] = j]
    BY <1>5 DEF ClientsInRoom, Goto
  <2> HIDE DEF j
  <2> QED
    BY <1>5, <2>2, <2>4, <2>5, LocalStep DEF ClientsInRoom, fields, redis, bounds
<1>6. CASE PurgeGhosts(c)
  <2>1. /\ job[c].at = "purge"
        /\ UNCHANGED <<phase, place, bubble, following, bubbles, chats, minted, asked>>
    BY <1>6, PurgeGoes
  <2>2. Good(c, Idle, asked, phase)
    BY DEF Good, Recording
  <2>3. CASE /\ job' = [job EXCEPT ![c] = Idle] /\ UNCHANGED <<presence, faults>>
             /\ voice' = [voice EXCEPT ![c] = VoiceGroup(bubble[c], place[c])]
    BY <2>1, <2>2, <2>3, ClientParts, LocalStep
  <2>4. ASSUME NEW g \in job[c].rest, NEW j \in Job, job' = [job EXCEPT ![c] = j],
               [job[c] EXCEPT !.rest = @ \ {g}] = j, UNCHANGED voice,
               GhostPurged(g)
        PROVE  OfficeInv'
    <3>1. Good(c, j, asked, phase)
      BY <2>1, <2>4 DEF Good, Recording, Job
    <3>2. faults' \in 0..MaxFaults
      BY <2>4, FaultCounted DEF GhostPurged, Fault
    <3>3. DOMAIN presence' \subseteq DOMAIN presence
          /\ \A d \in DOMAIN presence' : presence'[d] = presence[d]
      BY <2>4 DEF GhostPurged, HDel
    <3> HIDE DEF OfficeInv
    <3>4. /\ DOMAIN presence' \subseteq Met(phase)
          /\ \A d \in DOMAIN presence' : presence'[d] \in Presence
      BY <3>3
    <3> QED
      BY <2>1, <2>4, <3>1, <3>2, <3>4, StoreStep
  <2> QED
    BY <1>6, <2>3, <2>4, PurgeGoes
<1> QED
  BY <1>1, <1>2, <1>3, <1>4, <1>5, <1>6 DEF JoinStep

\* A move, and what it tells the followed and the followers.
LEMMA MoveKeeps ==
    ASSUME OfficeInv, NEW c \in Conns, MoveStep(c)
    PROVE  OfficeInv'
<1> USE IdleJob, HandlerFacts
<1>1. CASE PresenceUpdate(c)
  <2>1. PICK zone \in Zones :
          job' = [job EXCEPT ![c] = [Idle EXCEPT !.at = "move",
                                       !.record = [PresenceOf(c) EXCEPT !.zone = zone]]]
    BY <1>1 DEF PresenceUpdate, Goto
  <2> DEFINE r == [PresenceOf(c) EXCEPT !.zone = zone]
             j == [Idle EXCEPT !.at = "move", !.record = r]
  <2>2. c \in Met(phase)
    BY <1>1 DEF PresenceUpdate, Request, Met
  <2>3. r \in Presence
    BY ClientParts DEF Presence
  <2> HIDE DEF r
  <2>4. j \in Job /\ Good(c, j, asked, phase)
    BY <2>2, <2>3 DEF Job, Points, Good, Recording
  <2>5. job' = [job EXCEPT ![c] = j]
    BY <2>1 DEF r
  <2> HIDE DEF j
  <2> QED
    BY <1>1, <2>4, <2>5, LocalStep DEF PresenceUpdate, fields, redis, bounds
<1>2. CASE Moved(c)
  <2>1. job' = [job EXCEPT ![c] = Idle] /\ Good(c, Idle, asked, phase)
    BY <1>2 DEF Moved, Goto, Good, Recording
  <2>2. c \in Met(phase) /\ job[c].record \in Presence
    BY <1>2 DEF Moved, At, Good, Job
  <2>3. job[c].record.zone \in Zones
    BY <2>2 DEF Presence
  <2>4. place' \in [Conns -> Zones]
    BY <1>2, <2>3 DEF Moved
  <2>5. VoiceGroup(bubble[c], job[c].record.zone) \in Group
    BY <2>3 DEF VoiceGroup, Group
  <2>6. voice' \in [Conns -> Group]
    BY <1>2, <2>5 DEF Moved
  <2>7. presence' = HSet(presence, c, job[c].record)
    BY <1>2 DEF Moved
  <2>8. /\ DOMAIN presence' \subseteq Met(phase)
        /\ \A d \in DOMAIN presence' : presence'[d] \in Presence
    BY <2>2, <2>7 DEF HSet
  <2> QED
    BY <1>2, <2>1, <2>4, <2>6, <2>8, StoreStep DEF Moved, bounds
<1>3. CASE FollowStart(c)
  <2>1. PICK t \in Joined : job' = [job EXCEPT ![c] = [Idle EXCEPT !.at = "follow", !.who = t]]
    BY <1>3 DEF FollowStart, Goto
  <2> DEFINE j == [Idle EXCEPT !.at = "follow", !.who = t]
  <2>2. c \in Met(phase)
    BY <1>3 DEF FollowStart, Request, Met
  <2>3. j \in Job
    BY DEF Job, Points, Joined
  <2>4. job' = [job EXCEPT ![c] = j]
    BY <2>1
  <2>5. /\ j.at = "follow" /\ j.id = NoBubble /\ j.next = NoBubble
        /\ j.snap = [b \in BubbleID |-> EmptyBubble]
    OBVIOUS
  <2> HIDE DEF j
  <2>6. Good(c, j, asked, phase)
    BY <2>2, <2>5 DEF Good, Recording
  <2> QED
    BY <1>3, <2>3, <2>4, <2>6, LocalStep DEF FollowStart, fields, redis, bounds
<1>4. ASSUME NEW t \in Conns \cup {None}, Follows(c, t), c \in Met(phase),
             UNCHANGED <<setting, phase, place, bubble, voice, redis, bounds, asked>>
      PROVE  OfficeInv'
  <2> DEFINE r == [PresenceOf(c) EXCEPT !.following = t]
             j == [Idle EXCEPT !.at = "recordFollow", !.who = c, !.record = r]
  <2>1. r \in Presence
    BY ClientParts DEF Presence
  <2> HIDE DEF r
  <2>2. j \in Job /\ Good(c, j, asked, phase)
    BY <1>4, <2>1 DEF Job, Points, Good, Recording
  <2>3. job' = [job EXCEPT ![c] = j] /\ following' = [following EXCEPT ![c] = t]
    BY <1>4 DEF Follows, Goto, r
  <2> HIDE DEF j
  <2>4. following' \in [Conns -> Conns \cup {None}]
    BY <2>3
  <2> QED
    BY <1>4, <2>2, <2>3, <2>4, LocalStep DEF redis, bounds
<1>5. CASE SetFollowing(c)
  <2>1. job[c].who \in Conns \cup {None} /\ c \in Met(phase)
    BY <1>5 DEF SetFollowing, At, Good, Job
  <2> QED
    BY <1>4, <1>5, <2>1 DEF SetFollowing
<1>6. CASE FollowStop(c)
  <2>1. c \in Met(phase)
    BY <1>6 DEF FollowStop, Request, Met
  <2> QED
    BY <1>4, <1>6, <2>1 DEF FollowStop
<1>7. CASE RecordFollow(c)
  <2>1. job' = [job EXCEPT ![c] = Idle] /\ Good(c, Idle, asked, phase)
    BY <1>7 DEF RecordFollow, Goto, Good, Recording
  <2>2. job[c].who \in Met(phase) /\ TrySetPresence(job[c])
    BY <1>7 DEF RecordFollow, At, Good, Recording
  <2>3. /\ DOMAIN presence' \subseteq Met(phase)
        /\ \A d \in DOMAIN presence' : presence'[d] \in Presence
        /\ faults' \in 0..MaxFaults
    BY <2>2, PresenceWritten
  <2> QED
    BY <1>7, <2>1, <2>3, StoreStep DEF RecordFollow, fields
<1>8. CASE VoiceTokenRequest(c)
  <2>1. voice' \in [Conns -> Group]
    BY <1>8, ClientParts DEF VoiceTokenRequest
  <2> QED
    BY <1>8, <2>1 DEF VoiceTokenRequest, OfficeInv, TypeOK, redis, bounds
<1> QED
  BY <1>1, <1>2, <1>3, <1>5, <1>6, <1>7, <1>8 DEF MoveStep

\* A goroutine about to write a bubble as it should be.
LEMMA WriteIsGood ==
    ASSUME NEW c \in Met(phase), NEW b \in BubbleID, NEW blob \in Bubble, NEW a,
           NEW op \in {"invite", "create", "accept"}, Sound(b, blob, a)
    PROVE  LET j == [Idle EXCEPT !.at = "setBubble", !.op = op, !.id = b, !.blob = blob]
           IN  j \in Job /\ Good(c, j, a, phase)
<1> DEFINE j == [Idle EXCEPT !.at = "setBubble", !.op = op, !.id = b, !.blob = blob]
<1>1. j \in Job
  BY IdleJob DEF Job, Points
<1>2. /\ j.at = "setBubble" /\ j.id = b /\ j.blob = blob /\ j.next = NoBubble
      /\ j.snap = [d \in BubbleID |-> EmptyBubble]
  BY IdleJob DEF Job
<1> HIDE DEF j
<1>3. Good(c, j, a, phase)
  BY <1>2, IdleJob DEF Good, Recording, Sound, BubbleID, NoBubble
<1> QED
  BY <1>1, <1>3 DEF j

\* Joining a bubble one was asked into.
LEMMA WillAcceptKeeps ==
    ASSUME OfficeInv, NEW c \in Met(phase), NEW b \in DOMAIN bubbles, c \in asked[b],
           WillAccept(c, b), UNCHANGED <<setting, phase, fields, redis, bounds, asked>>
    PROVE  OfficeInv'
<1>1. c \in Conns /\ b \in BubbleID /\ bubbles[b] \in Bubble /\ Sound(b, bubbles[b], asked)
  BY HandlerFacts DEF Met
<1> DEFINE blob == [members |-> bubbles[b].members \cup {c},
                    invites |-> bubbles[b].invites \ {c}]
           j == [Idle EXCEPT !.at = "setBubble", !.op = "accept", !.id = b, !.blob = blob]
<1>2. blob \in Bubble
  BY <1>1 DEF Bubble
<1>3. Sound(b, blob, asked)
  BY <1>1 DEF Sound
<1>4. job' = [job EXCEPT ![c] = j]
  BY DEF WillAccept, Goto
<1> HIDE DEF blob
<1>5. j \in Job /\ Good(c, j, asked, phase)
  BY <1>1, <1>2, <1>3, WriteIsGood
<1> HIDE DEF j
<1> QED
  BY <1>1, <1>4, <1>5, LocalStep, HandlerFacts DEF fields, redis, bounds

\* What comes after leaving is good.
LEMMA AfterLeavingGood ==
    ASSUME OfficeInv, NEW c \in Met(phase)
    PROVE  AfterLeaving(c) \in Job /\ Good(c, AfterLeaving(c), asked, phase)
<1>1. c \in Conns /\ job[c] \in Job /\ Good(c, job[c], asked, phase)
  BY HandlerFacts DEF Met
<1>2. CASE job[c].next = NoBubble
  BY <1>2, IdleJob DEF AfterLeaving, Good, Recording
<1>3. CASE job[c].next # NoBubble
  <2> DEFINE n == job[c].next
             j == [Idle EXCEPT !.at = "reget", !.next = n]
  <2>1. AfterLeaving(c) = j
    BY <1>3 DEF AfterLeaving
  <2>2. c \in asked[n] /\ n \in BubbleID \cup {NoBubble}
    BY <1>1, <1>3 DEF Good, Job
  <2> HIDE DEF n
  <2>3. j \in Job
    BY <2>2, IdleJob DEF Job, Points
  <2>4. Good(c, j, asked, phase)
    BY <2>2, IdleJob DEF Good, Recording
  <2> QED
    BY <2>1, <2>3, <2>4
<1> QED
  BY <1>2, <1>3

\* The first call of the requests about a bubble.
LEMMA BubbleRequestKeeps ==
    ASSUME OfficeInv, NEW c \in Conns,
           InviteToBubble(c) \/ CreateBubble(c) \/ BubbleAccept(c) \/ RegetBubble(c)
           \/ BubbleLeave(c) \/ BubbleSend(c)
    PROVE  OfficeInv'
<1> USE IdleJob, HandlerFacts
<1>1. CASE InviteToBubble(c)
  <2>1. c \in Met(phase)
    BY <1>1 DEF InviteToBubble, Request, Met
  <2>2. PICK t \in Joined \ {c}, b \in DOMAIN bubbles :
          /\ t \notin bubbles[b].members
          /\ job' = [job EXCEPT ![c] =
                       [Idle EXCEPT !.at = "setBubble", !.op = "invite", !.id = b,
                                    !.blob = [bubbles[b] EXCEPT !.invites = @ \cup {t}]]]
          /\ asked' = [asked EXCEPT ![b] = @ \cup {t}]
    BY <1>1 DEF InviteToBubble, Goto
  <2> DEFINE blob == [bubbles[b] EXCEPT !.invites = @ \cup {t}]
             j == [Idle EXCEPT !.at = "setBubble", !.op = "invite", !.id = b, !.blob = blob]
  <2>3. b \in BubbleID /\ bubbles[b] \in Bubble /\ Sound(b, bubbles[b], asked) /\ t \in Conns
    BY DEF Joined
  <2>4. blob \in Bubble
    BY <2>2, <2>3 DEF Bubble
  <2>5. /\ asked' \in [BubbleID -> SUBSET Conns]
        /\ \A d \in BubbleID : asked[d] \subseteq asked'[d]
        /\ asked'[b] = asked[b] \cup {t}
    BY <2>2, <2>3
  <2>6. blob.members = bubbles[b].members /\ blob.invites = bubbles[b].invites \cup {t}
    BY <2>3 DEF Bubble
  <2> HIDE DEF blob
  <2>7. Sound(b, blob, asked')
    BY <2>3, <2>5, <2>6 DEF Sound
  <2>8. j \in Job /\ Good(c, j, asked', phase)
    BY <2>1, <2>3, <2>4, <2>7, WriteIsGood
  <2>9. job' = [job EXCEPT ![c] = j]
    BY <2>2 DEF blob
  <2> HIDE DEF j
  <2>10. \A d \in DOMAIN bubbles : bubbles[d] \in Bubble /\ Sound(d, bubbles[d], asked')
    BY <2>5 DEF Sound
  <2>11. UNCHANGED <<phase, following, place, bubble, voice, presence, bubbles, chats, minted,
                     faults>>
    BY <1>1 DEF InviteToBubble, fields, redis, bounds
  <2> QED
    BY <2>5, <2>8, <2>9, <2>10, <2>11, StoreStep
<1>2. CASE CreateBubble(c)
  <2>13. minted \in 0..MaxBubbles /\ minted < MaxBubbles
    BY <1>2 DEF CreateBubble
  <2>14. minted + 1 \in BubbleID
    BY <2>13, OfficeAssumption DEF BubbleID
  <2>1. c \in Met(phase) /\ minted + 1 \in BubbleID /\ minted' = minted + 1
    BY <1>2, <2>14 DEF CreateBubble, Request, Met
  <2> DEFINE b == minted + 1
  <2>2. PICK t \in Joined \ {c} :
          /\ job' = [job EXCEPT ![c] =
                       [Idle EXCEPT !.at = "setBubble", !.op = "create", !.id = b,
                                    !.blob = [members |-> {c}, invites |-> {t}]]]
          /\ asked' = [asked EXCEPT ![b] = @ \cup {c, t}]
    BY <1>2 DEF CreateBubble, Goto
  <2> HIDE DEF b
  <2> DEFINE blob == [members |-> {c}, invites |-> {t}]
             j == [Idle EXCEPT !.at = "setBubble", !.op = "create", !.id = b, !.blob = blob]
  <2>3. b \in BubbleID /\ t \in Conns
    BY <2>1 DEF Joined, b
  <2>4. blob \in Bubble
    BY <2>2, <2>3 DEF Bubble
  <2>5. /\ asked' \in [BubbleID -> SUBSET Conns]
        /\ \A d \in BubbleID : asked[d] \subseteq asked'[d]
        /\ asked'[b] = asked[b] \cup {c, t}
    BY <2>2, <2>3
  <2>6. blob.members = {c} /\ blob.invites = {t}
    OBVIOUS
  <2> HIDE DEF blob
  <2>7. Sound(b, blob, asked')
    BY <2>3, <2>5, <2>6 DEF Sound
  <2>8. j \in Job /\ Good(c, j, asked', phase)
    BY <2>1, <2>3, <2>4, <2>7, WriteIsGood
  <2>9. job' = [job EXCEPT ![c] = j]
    BY <2>2 DEF blob
  <2> HIDE DEF j
  <2>10. \A d \in DOMAIN bubbles : bubbles[d] \in Bubble /\ Sound(d, bubbles[d], asked')
    BY <2>5 DEF Sound
  <2>11. UNCHANGED <<phase, following, place, bubble, voice, presence, bubbles, chats, faults>>
    BY <1>2 DEF CreateBubble, fields, redis
  <2>12. minted' \in 0..MaxBubbles
    BY <2>1, OfficeAssumption DEF BubbleID
  <2> QED
    BY <2>5, <2>8, <2>9, <2>10, <2>11, <2>12, StoreStep
<1>3. CASE BubbleAccept(c)
  <2>1. c \in Met(phase)
    BY <1>3 DEF BubbleAccept, Request, Met
  <2>2. PICK b \in DOMAIN bubbles :
          /\ c \in bubbles[b].invites
          /\ \/ WillAccept(c, b)
             \/ Goto(c, [Idle EXCEPT !.at = "getOwn", !.next = b])
    BY <1>3 DEF BubbleAccept
  <2>3. c \in asked[b] /\ b \in BubbleID
    BY <2>2 DEF Sound
  <2>4. UNCHANGED <<setting, phase, fields, redis, bounds, asked>>
    BY <1>3 DEF BubbleAccept
  <2>5. CASE WillAccept(c, b)
    BY <2>1, <2>3, <2>4, <2>5, WillAcceptKeeps
  <2>6. CASE Goto(c, [Idle EXCEPT !.at = "getOwn", !.next = b])
    <3> DEFINE j == [Idle EXCEPT !.at = "getOwn", !.next = b]
    <3>1. j \in Job /\ Good(c, j, asked, phase)
      BY <2>1, <2>3 DEF Job, Points, Good, Recording
    <3>2. job' = [job EXCEPT ![c] = j]
      BY <2>6 DEF Goto
    <3> HIDE DEF j
    <3> QED
      BY <2>4, <3>1, <3>2, LocalStep DEF fields, redis, bounds
  <2> QED
    BY <2>2, <2>5, <2>6
<1>4. CASE RegetBubble(c)
  <2> DEFINE b == job[c].next
  <2>1. c \in Met(phase)
    BY <1>4 DEF RegetBubble, At, Good
  <2>2. UNCHANGED <<setting, phase, fields, redis, bounds, asked>>
    BY <1>4 DEF RegetBubble
  <2>3. CASE b \in DOMAIN bubbles /\ WillAccept(c, b)
    <3>1. c \in asked[b]
      BY <2>3 DEF Good, BubbleID, NoBubble
    <3> QED
      BY <2>1, <2>2, <2>3, <3>1, WillAcceptKeeps
  <2>4. CASE Goto(c, Idle)
    <3>1. job' = [job EXCEPT ![c] = Idle] /\ Good(c, Idle, asked, phase)
      BY <2>4 DEF Goto, Good, Recording
    <3> QED
      BY <2>2, <3>1, LocalStep DEF fields, redis, bounds
  <2> QED
    BY <1>4, <2>3, <2>4 DEF RegetBubble
<1>5. CASE BubbleLeave(c)
  <2> DEFINE j == [Idle EXCEPT !.at = "getOwn"]
  <2>1. c \in Met(phase)
    BY <1>5 DEF BubbleLeave, Request, Met
  <2>2. j \in Job /\ Good(c, j, asked, phase)
    BY <2>1 DEF Job, Points, Good, Recording
  <2>3. job' = [job EXCEPT ![c] = j]
    BY <1>5 DEF BubbleLeave, Goto
  <2> HIDE DEF j
  <2> QED
    BY <1>5, <2>2, <2>3, LocalStep DEF BubbleLeave, fields, redis, bounds
<1>6. CASE BubbleSend(c)
  <2> DEFINE b == bubble[c]
             j == [Idle EXCEPT !.at = "push", !.id = b]
  <2>1. c \in Met(phase) /\ b \in BubbleID
    BY <1>6 DEF BubbleSend, Request, Met
  <2>2. job' = [job EXCEPT ![c] = j]
    BY <1>6 DEF BubbleSend, Goto
  <2> HIDE DEF b
  <2>4. j \in Job
    BY <2>1 DEF Job, Points
  <2>5. /\ j.at = "push" /\ j.id = b /\ j.blob = EmptyBubble /\ j.next = NoBubble
        /\ j.snap = [d \in BubbleID |-> EmptyBubble]
    BY DEF Job
  <2> HIDE DEF j
  <2>3. j \in Job /\ Good(c, j, asked, phase)
    BY <2>1, <2>4, <2>5 DEF Good, Recording, BubbleID, NoBubble
  <2> USE DEF j
  <2> HIDE DEF j
  <2> QED
    BY <1>6, <2>2, <2>3, LocalStep DEF BubbleSend, fields, redis, bounds
<1> QED
  BY <1>1, <1>2, <1>3, <1>4, <1>5, <1>6

\* A bubble written as it should be, or deleted, leaves the others as they are.
LEMMA BubbleWritten ==
    ASSUME OfficeInv, NEW b \in BubbleID, NEW blob \in Bubble, Sound(b, blob, asked),
           bubbles' = HSet(bubbles, b, blob), UNCHANGED asked
    PROVE  /\ DOMAIN bubbles' \subseteq BubbleID
           /\ \A d \in DOMAIN bubbles' : bubbles'[d] \in Bubble /\ Sound(d, bubbles'[d], asked')
<1>1. /\ DOMAIN bubbles \subseteq BubbleID
      /\ \A d \in DOMAIN bubbles : bubbles[d] \in Bubble /\ Sound(d, bubbles[d], asked)
  BY DEF OfficeInv, TypeOK
<1>2. /\ DOMAIN bubbles' = DOMAIN bubbles \cup {b}
      /\ bubbles'[b] = blob
      /\ \A d \in DOMAIN bubbles : d # b => bubbles'[d] = bubbles[d]
  BY DEF HSet
<1>3. asked' = asked
  OBVIOUS
<1>4. ASSUME NEW d \in DOMAIN bubbles'
      PROVE  bubbles'[d] \in Bubble /\ Sound(d, bubbles'[d], asked)
  <2>1. CASE d = b
    BY <1>2, <2>1
  <2>2. CASE d # b
    BY <1>1, <1>2, <1>4, <2>2
  <2> QED
    BY <2>1, <2>2
<1> QED
  BY <1>1, <1>2, <1>3, <1>4

\* The bubbles that stay when one is deleted are what they were.
LEMMA BubbleDeleted ==
    ASSUME OfficeInv, NEW b, bubbles' = HDel(bubbles, {b}), UNCHANGED asked
    PROVE  /\ DOMAIN bubbles' \subseteq BubbleID
           /\ \A d \in DOMAIN bubbles' : bubbles'[d] \in Bubble /\ Sound(d, bubbles'[d], asked')
<1>1. /\ DOMAIN bubbles \subseteq BubbleID
      /\ \A d \in DOMAIN bubbles : bubbles[d] \in Bubble /\ Sound(d, bubbles[d], asked)
  BY DEF OfficeInv, TypeOK
<1>2. /\ DOMAIN bubbles' = DOMAIN bubbles \ {b}
      /\ \A d \in DOMAIN bubbles' : bubbles'[d] = bubbles[d]
  BY DEF HDel
<1>3. asked' = asked
  OBVIOUS
<1> QED
  BY <1>1, <1>2, <1>3

\* Whoever joins or leaves a bubble leaves it sound.
LEMMA BubbleMemberKeeps ==
    ASSUME OfficeInv, NEW c \in Conns,
           GetOwnBubble(c) \/ RecordLeave(c) \/ DeleteBubble(c) \/ SetBubble(c)
           \/ RecordBubble(c) \/ SyncVoice(c) \/ PushChannelMessage(c)
    PROVE  OfficeInv'
<1> USE IdleJob, HandlerFacts
<1> DEFINE k == job[c]
<1>0. k.at # "idle" => c \in Met(phase)
  BY DEF Good
<1>1. CASE GetOwnBubble(c)
  <2> DEFINE b == bubble[c]
             r == [PresenceOf(c) EXCEPT !.bubble = NoBubble]
             id == IF b \in DOMAIN bubbles THEN b ELSE NoBubble
             blob == IF b \in DOMAIN bubbles THEN Without(bubbles[b], c) ELSE EmptyBubble
             j == [job[c] EXCEPT !.at = "recordLeave", !.who = c, !.record = r, !.id = id,
                                 !.blob = blob]
  <2>1. c \in Met(phase)
    BY <1>0, <1>1 DEF GetOwnBubble, At
  <2>2. r \in Presence
    BY ClientParts DEF Presence
  <2>3. id \in BubbleID \cup {NoBubble} /\ blob \in Bubble
    BY WithoutParts
  <2>4. id # NoBubble => blob.members \cup blob.invites \subseteq asked[id]
    BY WithoutParts DEF Sound
  <2>5. job' = [job EXCEPT ![c] = j]
    BY <1>1 DEF GetOwnBubble, Goto
  <2>6. bubble' \in [Conns -> BubbleID \cup {NoBubble}]
    BY <1>1 DEF GetOwnBubble
  <2> HIDE DEF r, id, blob
  <2>7. j \in Job
    BY <2>2, <2>3 DEF Job, Points
  <2>8. /\ j.at = "recordLeave" /\ j.who = c /\ j.id = id /\ j.blob = blob
        /\ j.next = k.next /\ j.snap = k.snap
    BY DEF Job
  <2> HIDE DEF j
  <2>9. Good(c, j, asked, phase)
    BY <2>1, <2>4, <2>8 DEF Good, Recording
  <2> QED
    BY <1>1, <2>5, <2>6, <2>7, <2>9, LocalStep DEF GetOwnBubble, redis, bounds
<1>2. CASE RecordLeave(c)
  <2> DEFINE point == IF job[c].blob.members = {} THEN "deleteBubble" ELSE "setBubble"
             j == [job[c] EXCEPT !.at = point, !.op = "leave"]
  <2>1. c \in Met(phase) /\ k.who \in Met(phase) /\ TrySetPresence(k)
    BY <1>0, <1>2 DEF RecordLeave, At, Good, Recording
  <2>2. /\ DOMAIN presence' \subseteq Met(phase)
        /\ \A d \in DOMAIN presence' : presence'[d] \in Presence
        /\ faults' \in 0..MaxFaults
    BY <2>1, PresenceWritten
  <2>3. voice' \in [Conns -> Group]
    BY <1>2, ClientParts DEF RecordLeave
  <2>4. UNCHANGED <<phase, place, bubble, following, bubbles, chats, minted, asked>>
    BY <1>2 DEF RecordLeave
  <2>5. CASE Goto(c, AfterLeaving(c))
    <3> DEFINE n == AfterLeaving(c)
    <3>1. n \in Job /\ Good(c, n, asked, phase) /\ job' = [job EXCEPT ![c] = n]
      BY <2>1, <2>5, AfterLeavingGood DEF Goto
    <3> HIDE DEF n
    <3> QED
      BY <2>2, <2>3, <2>4, <3>1, StoreStep
  <2>6. CASE k.id # NoBubble /\ Goto(c, j)
    <3>1. job' = [job EXCEPT ![c] = j]
      BY <2>6 DEF Goto
    <3>5. point \in Points
      BY DEF Points
    <3> HIDE DEF point
    <3>2. j \in Job
      BY <3>5 DEF Job
    <3>3. /\ j.at = IF k.blob.members = {} THEN "deleteBubble" ELSE "setBubble"
          /\ j.id = k.id /\ j.blob = k.blob /\ j.next = k.next /\ j.snap = k.snap
      BY DEF Job, point
    <3> HIDE DEF j
    <3>4. Good(c, j, asked, phase)
      BY <2>1, <2>6, <3>3 DEF Good, Recording
    <3> QED
      BY <2>2, <2>3, <2>4, <3>1, <3>2, <3>4, StoreStep
  <2> QED
    BY <1>2, <2>5, <2>6 DEF RecordLeave
<1>3. CASE DeleteBubble(c)
  <2> DEFINE n == AfterLeaving(c)
  <2>1. c \in Met(phase)
    BY <1>0, <1>3 DEF DeleteBubble, At
  <2>2. n \in Job /\ Good(c, n, asked, phase) /\ job' = [job EXCEPT ![c] = n]
    BY <1>3, <2>1, AfterLeavingGood DEF DeleteBubble, Goto
  <2>3. UNCHANGED <<phase, place, bubble, following, voice, presence, minted, asked>>
    BY <1>3 DEF DeleteBubble, fields
  <2>4. faults' \in 0..MaxFaults /\ chats' \subseteq BubbleID
    BY <1>3, FaultCounted DEF DeleteBubble, Fault
  <2>5. bubbles' = HDel(bubbles, {k.id}) \/ UNCHANGED bubbles
    BY <1>3 DEF DeleteBubble
  <2>6. /\ DOMAIN bubbles' \subseteq BubbleID
        /\ \A d \in DOMAIN bubbles' : bubbles'[d] \in Bubble /\ Sound(d, bubbles'[d], asked')
    BY <2>3, <2>5, BubbleDeleted
  <2> HIDE DEF n
  <2> QED
    BY <2>2, <2>3, <2>4, <2>6, StoreStep
<1>4. CASE SetBubble(c)
  <2> DEFINE r == [PresenceOf(c) EXCEPT !.bubble = k.id]
             j == [job[c] EXCEPT !.at = "recordBubble", !.who = c, !.record = r]
  <2>1. /\ c \in Met(phase) /\ k.id \in BubbleID /\ k.blob \in Bubble
        /\ Sound(k.id, k.blob, asked)
    BY <1>0, <1>4 DEF SetBubble, At, Good, Job, Sound
  <2>2. UNCHANGED <<phase, place, following, voice, presence, chats, minted, faults, asked>>
    BY <1>4 DEF SetBubble, bounds
  <2>3. bubbles' = HSet(bubbles, k.id, k.blob)
    BY <1>4 DEF SetBubble
  <2>4. /\ DOMAIN bubbles' \subseteq BubbleID
        /\ \A d \in DOMAIN bubbles' : bubbles'[d] \in Bubble /\ Sound(d, bubbles'[d], asked')
    BY <2>1, <2>2, <2>3, BubbleWritten
  <2>5. CASE /\ bubble' = [bubble EXCEPT ![c] = k.id]
             /\ Goto(c, j)
    <3>1. r \in Presence
      BY <2>1, ClientParts DEF Presence
    <3>2. job' = [job EXCEPT ![c] = j]
      BY <2>5 DEF Goto
    <3>3. bubble' \in [Conns -> BubbleID \cup {NoBubble}]
      BY <2>1, <2>5
    <3> HIDE DEF r
    <3>4. j \in Job
      BY <3>1 DEF Job, Points
    <3>5. /\ j.at = "recordBubble" /\ j.who = c /\ j.id = k.id /\ j.blob = k.blob
          /\ j.next = k.next /\ j.snap = k.snap
      BY DEF Job
    <3> HIDE DEF j
    <3>6. Good(c, j, asked, phase)
      BY <2>1, <3>5 DEF Good, Recording
    <3> QED
      BY <2>2, <2>4, <3>2, <3>3, <3>4, <3>6, StoreStep
  <2>6. CASE UNCHANGED bubble /\ Goto(c, Idle)
    <3>1. job' = [job EXCEPT ![c] = Idle] /\ Good(c, Idle, asked, phase)
      BY <2>6 DEF Goto, Good, Recording
    <3> QED
      BY <2>2, <2>4, <2>6, <3>1, StoreStep
  <2>7. CASE UNCHANGED bubble /\ Goto(c, AfterLeaving(c))
    <3> DEFINE n == AfterLeaving(c)
    <3>1. n \in Job /\ Good(c, n, asked, phase) /\ job' = [job EXCEPT ![c] = n]
      BY <2>1, <2>7, AfterLeavingGood DEF Goto
    <3> HIDE DEF n
    <3> QED
      BY <2>2, <2>4, <2>7, <3>1, StoreStep
  <2> QED
    BY <1>4, <2>5, <2>6, <2>7 DEF SetBubble
<1>5. CASE RecordBubble(c)
  <2> DEFINE j == [Idle EXCEPT !.at = "syncVoice", !.rest = job[c].blob.members]
  <2>1. c \in Met(phase) /\ k.who \in Met(phase) /\ TrySetPresence(k)
    BY <1>0, <1>5 DEF RecordBubble, At, Good, Recording
  <2>2. /\ DOMAIN presence' \subseteq Met(phase)
        /\ \A d \in DOMAIN presence' : presence'[d] \in Presence
        /\ faults' \in 0..MaxFaults
    BY <2>1, PresenceWritten
  <2>3. k.blob.members \subseteq Conns
    BY DEF Job, Bubble
  <2>4. j \in Job /\ Good(c, j, asked, phase)
    BY <2>1, <2>3 DEF Job, Points, Good, Recording
  <2>5. job' = [job EXCEPT ![c] = j]
    BY <1>5 DEF RecordBubble, Goto
  <2> HIDE DEF j
  <2>6. UNCHANGED <<phase, place, bubble, following, voice, bubbles, chats, minted, asked>>
    BY <1>5 DEF RecordBubble, fields
  <2> QED
    BY <2>2, <2>4, <2>5, <2>6, StoreStep
<1>6. CASE SyncVoice(c)
  <2>1. c \in Met(phase)
    BY <1>0, <1>6 DEF SyncVoice, At
  <2>2. UNCHANGED <<phase, place, bubble, following, redis, bounds, asked>>
    BY <1>6 DEF SyncVoice
  <2>3. CASE Goto(c, Idle) /\ UNCHANGED voice
    <3>1. job' = [job EXCEPT ![c] = Idle] /\ Good(c, Idle, asked, phase)
      BY <2>3 DEF Goto, Good, Recording
    <3> QED
      BY <2>2, <2>3, <3>1, LocalStep DEF redis, bounds
  <2>4. ASSUME NEW m \in k.rest, Goto(c, [job[c] EXCEPT !.rest = @ \ {m}]),
               voice' = IF m \in Joined
                        THEN [voice EXCEPT ![m] = VoiceGroup(bubble[m], place[m])] ELSE voice
        PROVE  OfficeInv'
    <3> DEFINE j == [job[c] EXCEPT !.rest = @ \ {m}]
    <3>1. m \in Conns
      BY DEF Job
    <3>2. voice' \in [Conns -> Group]
      BY <2>4, <3>1, ClientParts
    <3>3. j \in Job
      BY DEF Job
    <3>4. /\ j.at = "syncVoice" /\ j.id = k.id /\ j.blob = k.blob /\ j.next = k.next
          /\ j.snap = k.snap
      BY <1>6 DEF SyncVoice, At, Job
    <3>5. job' = [job EXCEPT ![c] = j]
      BY <2>4 DEF Goto
    <3> HIDE DEF j
    <3>6. Good(c, j, asked, phase)
      BY <2>1, <3>4 DEF Good, Recording
    <3> QED
      BY <2>2, <3>2, <3>3, <3>5, <3>6, LocalStep DEF redis, bounds
  <2> QED
    BY <1>6, <2>3, <2>4 DEF SyncVoice
<1>7. CASE PushChannelMessage(c)
  <2>1. job' = [job EXCEPT ![c] = Idle] /\ Good(c, Idle, asked, phase)
    BY <1>7 DEF PushChannelMessage, Goto, Good, Recording
  <2>2. k.id \in BubbleID
    BY <1>7 DEF PushChannelMessage, At, Good, Job
  <2>3. faults' \in 0..MaxFaults /\ chats' \subseteq BubbleID
    BY <1>7, <2>2, FaultCounted DEF PushChannelMessage, Fault
  <2>4. UNCHANGED <<phase, place, bubble, following, voice, presence, bubbles, minted, asked>>
    BY <1>7 DEF PushChannelMessage, fields
  <2> QED
    BY <2>1, <2>3, <2>4, LocalStep
<1> QED
  BY <1>1, <1>2, <1>3, <1>4, <1>5, <1>6, <1>7

\* A disconnect, one call after the other.
LEMMA LeaveKeeps ==
    ASSUME OfficeInv, NEW c \in Conns, LeaveStep(c)
    PROVE  OfficeInv'
<1> USE IdleJob, HandlerFacts
<1> DEFINE k == job[c]
<1>0. k.at # "idle" => c \in Met(phase)
  BY DEF Good
<1>1. CASE Unregister(c)
  <2> DEFINE going == [Idle EXCEPT !.at = "delPresence"]
             j == job'[c]
  <2>1. phase' = [phase EXCEPT ![c] = "closed"] /\ job[c] = Idle
    BY <1>1 DEF Unregister, Ready
  <2>2. phase \in [Conns -> Phases] /\ phase' \in [Conns -> Phases]
    BY <2>1 DEF TypeOK, Phases
  <2>3. Met(phase) \subseteq Met(phase') /\ c \in Met(phase') /\ Gone(phase) \subseteq Gone(phase')
    BY <2>1, <2>2 DEF Met, Gone
  <2>4. \A d \in Conns : phase[d] = "closed" => phase'[d] = "closed"
    BY <2>1, <2>2
  <2>11. phase'[c] = "closed"
    BY <2>1, <2>2
  <2>5. going \in Job /\ Good(c, going, asked, phase') /\ Good(c, Idle, asked, phase')
    BY <2>3, <2>11 DEF Job, Points, Good, Recording
  <2> HIDE DEF going
  <2>6. job' = [job EXCEPT ![c] = going] \/ job' = [job EXCEPT ![c] = Idle]
    BY <1>1 DEF Unregister, Goto, going
  <2>7. job' = [job EXCEPT ![c] = j] /\ j \in Job /\ Good(c, j, asked, phase')
    BY <2>5, <2>6 DEF TypeOK
  <2> HIDE DEF j
  <2>8. UNCHANGED <<place, bubble, following, redis, bounds, asked>>
    BY <1>1 DEF Unregister
  <2>9. job' \in [Conns -> Job] /\ \A d \in Conns : Good(d, job'[d], asked', phase')
    BY <2>3, <2>4, <2>7, <2>8, OneJob
  <2>10. voice' \in [Conns -> Group]
    BY <1>1 DEF Unregister, Silent, Group
  <2> QED
    BY <2>2, <2>3, <2>8, <2>9, <2>10 DEF OfficeInv, TypeOK, redis, bounds
<1>2. CASE DeletePresence(c)
  <2> DEFINE j == [Idle EXCEPT !.at = "listBubbles"]
  <2>1. c \in Met(phase)
    BY <1>0, <1>2 DEF DeletePresence, At
  <2>2. j \in Job /\ Good(c, j, asked, phase)
    BY <2>1 DEF Job, Points, Good, Recording
  <2>3. job' = [job EXCEPT ![c] = j]
    BY <1>2 DEF DeletePresence, Goto
  <2> HIDE DEF j
  <2>4. /\ DOMAIN presence' \subseteq Met(phase)
        /\ \A d \in DOMAIN presence' : presence'[d] \in Presence
    BY <1>2 DEF DeletePresence, HDel
  <2>5. faults' \in 0..MaxFaults
    BY <1>2, FaultCounted DEF DeletePresence, Fault
  <2>6. UNCHANGED <<phase, place, bubble, following, voice, bubbles, chats, minted, asked>>
    BY <1>2 DEF DeletePresence, fields
  <2> QED
    BY <2>2, <2>3, <2>4, <2>5, <2>6, StoreStep
<1>3. CASE ListBubbles(c)
  <2> DEFINE mine == [b \in BubbleID |->
                        IF b \in DOMAIN bubbles /\ c \in bubbles[b].members \cup bubbles[b].invites
                        THEN bubbles[b] ELSE EmptyBubble]
             j == [Idle EXCEPT !.at = "clearBubbles", !.snap = mine]
  <2>1. c \in Met(phase)
    BY <1>0, <1>3 DEF ListBubbles, At
  <2>2. mine \in [BubbleID -> Bubble]
    OBVIOUS
  <2>3. \A b \in BubbleID : mine[b].members \cup mine[b].invites \subseteq asked[b]
    BY DEF Sound
  <2>4. job' = [job EXCEPT ![c] = j]
    BY <1>3 DEF ListBubbles, Goto
  <2> HIDE DEF mine
  <2>5. j \in Job
    BY <2>2 DEF Job, Points
  <2>6. /\ j.at = "clearBubbles" /\ j.id = NoBubble /\ j.next = NoBubble /\ j.snap = mine
    BY DEF Job
  <2> HIDE DEF j
  <2>7. Good(c, j, asked, phase)
    BY <2>1, <2>3, <2>6 DEF Good, Recording
  <2> QED
    BY <1>3, <2>4, <2>5, <2>7, LocalStep DEF ListBubbles, fields, redis, bounds
<1>4. CASE ClearBubbles(c)
  <2> DEFINE done == [Idle EXCEPT !.at = "clearFollowers"]
  <2>1. c \in Met(phase) /\ k.at = "clearBubbles"
    BY <1>0, <1>4 DEF ClearBubbles, At
  <2>2. done \in Job /\ Good(c, done, asked, phase)
    BY <2>1 DEF Job, Points, Good, Recording
  <2> HIDE DEF done
  <2>3. UNCHANGED <<phase, place, bubble, following, voice, presence, minted, asked>>
    BY <1>4 DEF ClearBubbles, fields
  <2>4. CASE Goto(c, done) /\ UNCHANGED <<bubbles, chats>> /\ (Fault \/ UNCHANGED faults)
    <3>1. job' = [job EXCEPT ![c] = done] /\ faults' \in 0..MaxFaults
      BY <2>4, FaultCounted DEF Goto, Fault
    <3> QED
      BY <2>2, <2>3, <2>4, <3>1, LocalStep
  <2>5. ASSUME NEW b \in BubbleID,
               LET left == Without(k.snap[b], c)
               IN  IF left.members = {}
                   THEN bubbles' = HDel(bubbles, {b}) /\ chats' = chats \ {b}
                   ELSE bubbles' = HSet(bubbles, b, left) /\ UNCHANGED chats,
               Goto(c, [job[c] EXCEPT !.snap[b] = EmptyBubble]), UNCHANGED faults
        PROVE  OfficeInv'
    <3> DEFINE left == Without(k.snap[b], c)
               j == [job[c] EXCEPT !.snap[b] = EmptyBubble]
    <3>1. k.snap \in [BubbleID -> Bubble] /\ k.snap[b] \in Bubble
      BY DEF Job
    <3>2. left \in Bubble /\ left.members \cup left.invites \subseteq asked[b]
      BY <3>1, WithoutParts DEF Good
    <3>3. /\ DOMAIN bubbles' \subseteq BubbleID
          /\ \A d \in DOMAIN bubbles' : bubbles'[d] \in Bubble /\ Sound(d, bubbles'[d], asked')
      <4>1. CASE left.members = {}
        <5>1. bubbles' = HDel(bubbles, {b})
          BY <2>5, <4>1
        <5> QED
          BY <2>3, <5>1, BubbleDeleted
      <4>2. CASE left.members # {}
        <5>1. bubbles' = HSet(bubbles, b, left) /\ Sound(b, left, asked)
          BY <2>5, <3>2, <4>2 DEF Sound
        <5> HIDE DEF left
        <5> QED
          BY <2>3, <3>2, <5>1, BubbleWritten
      <4> QED
        BY <4>1, <4>2
    <3>4. chats' \subseteq BubbleID
      BY <2>5
    <3>5. [k.snap EXCEPT ![b] = EmptyBubble] \in [BubbleID -> Bubble]
      BY <3>1
    <3>6. j = [job[c] EXCEPT !.snap = [k.snap EXCEPT ![b] = EmptyBubble]]
      OBVIOUS
    <3>7. job' = [job EXCEPT ![c] = j]
      BY <2>5 DEF Goto
    <3> HIDE DEF j
    <3>8. j \in Job
      BY <3>5, <3>6 DEF Job
    <3>9. /\ j.at = "clearBubbles" /\ j.id = k.id /\ j.next = k.next /\ j.blob = k.blob
          /\ j.snap = [k.snap EXCEPT ![b] = EmptyBubble]
      BY <2>1, <3>6 DEF Job
    <3>10. Good(c, j, asked, phase)
      BY <2>1, <3>1, <3>9 DEF Good, Recording
    <3> QED
      BY <2>3, <2>5, <3>3, <3>4, <3>7, <3>8, <3>10, StoreStep
  <2> QED
    BY <1>4, <2>4, <2>5 DEF ClearBubbles, done
<1>5. CASE ClearFollowers(c)
  <2> DEFINE followers == {f \in Joined : following[f] = c}
             j == [Idle EXCEPT !.at = "persistFollowers", !.rest = followers]
  <2>1. c \in Met(phase)
    BY <1>0, <1>5 DEF ClearFollowers, At
  <2>2. followers \subseteq Met(phase) /\ followers \subseteq Conns
    BY DEF Joined, Met
  <2>3. /\ following' = [f \in Conns |-> IF f \in followers THEN None ELSE following[f]]
        /\ job' = [job EXCEPT ![c] = j]
    BY <1>5 DEF ClearFollowers, Goto
  <2> HIDE DEF followers
  <2>4. j \in Job /\ Good(c, j, asked, phase)
    BY <2>1, <2>2 DEF Job, Points, Good, Recording
  <2> HIDE DEF j
  <2>5. following' \in [Conns -> Conns \cup {None}]
    BY <2>3
  <2> QED
    BY <1>5, <2>3, <2>4, <2>5, LocalStep DEF ClearFollowers, redis, bounds
<1>6. CASE PersistFollowers(c)
  <2>1. c \in Met(phase) /\ k.rest \subseteq Met(phase) /\ k.at = "persistFollowers"
    BY <1>0, <1>6 DEF PersistFollowers, At, Good
  <2>2. UNCHANGED <<setting, phase, fields, redis, bounds, asked>>
    BY <1>6 DEF PersistFollowers
  <2>3. CASE Goto(c, Idle)
    <3>1. job' = [job EXCEPT ![c] = Idle] /\ Good(c, Idle, asked, phase)
      BY <2>3 DEF Goto, Good, Recording
    <3> QED
      BY <2>2, <3>1, LocalStep DEF fields, redis, bounds
  <2>4. ASSUME NEW f \in k.rest,
               Goto(c, [job[c] EXCEPT !.at = "recordFollower", !.who = f, !.rest = @ \ {f},
                                      !.record = [PresenceOf(f) EXCEPT !.following = None]])
        PROVE  OfficeInv'
    <3> DEFINE r == [PresenceOf(f) EXCEPT !.following = None]
               j == [job[c] EXCEPT !.at = "recordFollower", !.who = f, !.rest = @ \ {f},
                                   !.record = r]
    <3>1. f \in Conns
      BY <2>1 DEF Met
    <3>2. r \in Presence
      BY <3>1, ClientParts DEF Presence
    <3>3. job' = [job EXCEPT ![c] = j]
      BY <2>4 DEF Goto
    <3> HIDE DEF r
    <3>4. j \in Job
      BY <3>1, <3>2 DEF Job, Points
    <3>5. /\ j.at = "recordFollower" /\ j.who = f /\ j.rest = k.rest \ {f} /\ j.id = k.id
          /\ j.blob = k.blob /\ j.next = k.next /\ j.snap = k.snap
      BY DEF Job
    <3> HIDE DEF j
    <3>6. Good(c, j, asked, phase)
      BY <2>1, <3>5 DEF Good, Recording
    <3> QED
      BY <2>2, <3>3, <3>4, <3>6, LocalStep DEF fields, redis, bounds
  <2> QED
    BY <1>6, <2>3, <2>4 DEF PersistFollowers
<1>7. CASE RecordFollower(c)
  <2> DEFINE j == [Idle EXCEPT !.at = "persistFollowers", !.rest = job[c].rest]
  <2>1. /\ c \in Met(phase) /\ k.who \in Met(phase) /\ TrySetPresence(k)
        /\ k.rest \subseteq Met(phase)
    BY <1>0, <1>7 DEF RecordFollower, At, Good, Recording
  <2>2. /\ DOMAIN presence' \subseteq Met(phase)
        /\ \A d \in DOMAIN presence' : presence'[d] \in Presence
        /\ faults' \in 0..MaxFaults
    BY <2>1, PresenceWritten
  <2>3. j \in Job
    BY DEF Job, Points
  <2>4. Good(c, j, asked, phase)
    BY <2>1 DEF Good, Recording
  <2>5. job' = [job EXCEPT ![c] = j]
    BY <1>7 DEF RecordFollower, Goto
  <2> HIDE DEF j
  <2>6. UNCHANGED <<phase, place, bubble, following, voice, bubbles, chats, minted, asked>>
    BY <1>7 DEF RecordFollower, fields
  <2> QED
    BY <2>2, <2>3, <2>4, <2>5, <2>6, StoreStep
<1> QED
  BY <1>1, <1>2, <1>3, <1>4, <1>5, <1>6, <1>7 DEF LeaveStep

\* Redis fails the next call of a handler.
LEMMA FailureKeeps ==
    ASSUME OfficeInv, NEW c \in Conns, StoreFails(c)
    PROVE  OfficeInv'
<1> USE IdleJob, HandlerFacts
<1> DEFINE n == AfterLeaving(c)
           j == job'[c]
<1>1. c \in Met(phase)
  BY DEF StoreFails, Good
<1>2. n \in Job /\ Good(c, n, asked, phase) /\ Good(c, Idle, asked, phase)
  BY <1>1, AfterLeavingGood DEF Good, Recording
<1>3. job' = [job EXCEPT ![c] = n] \/ job' = [job EXCEPT ![c] = Idle]
  BY DEF StoreFails, Goto
<1> HIDE DEF n
<1>4. job' = [job EXCEPT ![c] = j] /\ j \in Job /\ Good(c, j, asked, phase)
  BY <1>2, <1>3 DEF TypeOK
<1> HIDE DEF j
<1>5. faults' \in 0..MaxFaults
  BY FaultCounted DEF StoreFails, Fault
<1>6. UNCHANGED <<setting, phase, fields, redis, minted, asked>>
  BY DEF StoreFails
<1> QED
  BY <1>4, <1>5, <1>6, LocalStep DEF fields, redis

\* A crash leaves no handler and no connection.
LEMMA CrashKeeps ==
    ASSUME OfficeInv, Crash
    PROVE  OfficeInv'
<1> USE IdleJob
<1>1. phase \in [Conns -> Phases] /\ phase' \in [Conns -> Phases]
  BY DEF OfficeInv, TypeOK, Crash, Phases
<1>2. Met(phase) \subseteq Met(phase')
  BY <1>1 DEF Crash, Met
<1>3. faults' \in 0..MaxFaults
  BY FaultCounted DEF Crash, OfficeInv, TypeOK
<1>4. job' \in [Conns -> Job] /\ \A d \in Conns : Good(d, job'[d], asked', phase')
  BY DEF Crash, Good, Recording
<1>5. /\ place' \in [Conns -> Zones] /\ bubble' \in [Conns -> BubbleID \cup {NoBubble}]
      /\ following' \in [Conns -> Conns \cup {None}] /\ voice' \in [Conns -> Group]
  BY DEF Crash, Zones, Silent, Group
<1>6. UNCHANGED <<presence, bubbles, chats, minted, asked>>
  BY DEF Crash, redis
<1> QED
  BY <1>1, <1>2, <1>3, <1>4, <1>5, <1>6 DEF OfficeInv, TypeOK

-----------------------------------------------------------------------------
(* The theorems.                                                           *)

\* At first nobody is in the office.
LEMMA OfficeInit ==
    ASSUME Init
    PROVE  OfficeInv
<1> USE IdleJob
<1>1. TypeOK
  BY OfficeAssumption DEF Init, TypeOK, Phases, Zones, Silent, Group
<1>2. DOMAIN presence = {} /\ DOMAIN bubbles = {}
  BY DEF Init
<1>3. \A c \in Conns : Good(c, job[c], asked, phase)
  BY DEF Init, Good, Recording
<1> QED
  BY <1>1, <1>2, <1>3 DEF OfficeInv

\* Every step of the office.
LEMMA OfficeStep ==
    ASSUME OfficeInv, [Next]_vars
    PROVE  OfficeInv'
<1>1. CASE \E c \in Conns :
             JoinStep(c) \/ MoveStep(c) \/ BubbleStep(c) \/ LeaveStep(c) \/ StoreFails(c)
  BY <1>1, JoinKeeps, MoveKeeps, BubbleRequestKeeps, BubbleMemberKeeps, LeaveKeeps, FailureKeeps
     DEF BubbleStep
<1>2. CASE Crash
  BY <1>2, CrashKeeps
<1>3. CASE UNCHANGED vars
  BY <1>3 DEF vars, fields, redis, bounds, OfficeInv, TypeOK
<1> QED
  BY <1>1, <1>2, <1>3 DEF Next

\* What handlers remember of who was asked and who has joined is right at any time.
THEOREM OfficeInvariant == Spec => []OfficeInv
  BY OfficeInit, OfficeStep, PTL DEF Spec

\* Every record in memory and in Redis has its type, whatever fails or crashes.
THEOREM OfficeTypeCorrect == Spec => []TypeOK
<1>1. OfficeInv => TypeOK
  BY DEF OfficeInv
<1> QED
  BY <1>1, OfficeInvariant, PTL

\* No bubble without members is stored or about to be.
THEOREM BubblesStayAlive == Spec => []BubblesAlive
<1>1. OfficeInv => BubblesAlive
  BY DEF OfficeInv, BubblesAlive, Sound, Good, WillWrite
<1> QED
  BY <1>1, OfficeInvariant, PTL

\* Whoever is in a bubble has made it or was invited by a member.
THEOREM OnlyTheInvitedJoin == Spec => []ByInvitationOnly
<1>1. OfficeInv => ByInvitationOnly
  BY DEF OfficeInv, ByInvitationOnly, Sound
<1> QED
  BY <1>1, OfficeInvariant, PTL

\* Only a purge and the goroutine of a connection that has closed delete presence records.
LEMMA PresenceStays ==
    ASSUME OfficeInv, Next, NEW d \in DOMAIN presence, phase[d] \in {"open", "joined"}
    PROVE  d \in DOMAIN presence'
<1>1. CASE Crash
  BY <1>1 DEF Crash, redis
<1>2. ASSUME NEW c \in Conns,
             JoinStep(c) \/ MoveStep(c) \/ BubbleStep(c) \/ LeaveStep(c) \/ StoreFails(c)
      PROVE  d \in DOMAIN presence'
  <2>1. Good(c, job[c], asked, phase)
    BY DEF OfficeInv
  <2>2. CASE PurgeGhosts(c)
    <3>1. d \notin job[c].rest
      BY <2>1, <2>2 DEF PurgeGhosts, At, Good, Gone
    <3> QED
      BY <2>2, <3>1, PurgeGoes DEF GhostPurged, HDel
  <2>3. CASE DeletePresence(c)
    <3>1. d # c
      BY <2>1, <2>3 DEF DeletePresence, At, Good
    <3> QED
      BY <2>3, <3>1 DEF DeletePresence, HDel
  <2>4. CASE TrySetPresence(job[c])
    BY <2>4 DEF TrySetPresence, HSet
  <2>5. CASE SpawnPresence(c) \/ Moved(c)
    BY <2>5 DEF SpawnPresence, Moved, HSet
  <2>6. CASE JoinStep(c)
    BY <2>2, <2>5, <2>6
       DEF JoinStep, Register, HandleJoin, GetAllPresence, ClientsInRoom, redis
  <2>7. CASE MoveStep(c)
    BY <2>4, <2>5, <2>7
       DEF MoveStep, PresenceUpdate, FollowStart, SetFollowing, FollowStop, RecordFollow,
           VoiceTokenRequest, redis
  <2>8. CASE BubbleStep(c)
    BY <2>4, <2>8
       DEF BubbleStep, InviteToBubble, CreateBubble, BubbleAccept, RegetBubble, BubbleLeave,
           GetOwnBubble, RecordLeave, DeleteBubble, SetBubble, RecordBubble, SyncVoice,
           BubbleSend, PushChannelMessage, redis
  <2>9. CASE LeaveStep(c)
    BY <2>3, <2>4, <2>9
       DEF LeaveStep, Unregister, ListBubbles, ClearBubbles, ClearFollowers, PersistFollowers,
           RecordFollower, redis
  <2> QED
    BY <1>2, <2>6, <2>7, <2>8, <2>9 DEF StoreFails, redis
<1> QED
  BY <1>1, <1>2 DEF Next

\* A ghost hunt never deletes the presence of a connection that is open.
THEOREM TheLivingAreNotPurged == Spec => LivingNotPurged
<1> DEFINE Kept == \A c \in DOMAIN presence :
                     phase[c] \in {"open", "joined"} => c \in DOMAIN presence'
<1>1. OfficeInv /\ [Next]_vars => [Kept]_vars
  BY PresenceStays
<1>2. LivingNotPurged <=> [][Kept]_vars
  BY DEF LivingNotPurged
<1> QED
  BY <1>1, <1>2, OfficeInvariant, PTL DEF Spec

-----------------------------------------------------------------------------
(* What a client knows of itself, however many handlers overlap.           *)

\* The calls of a disconnect until nobody follows the connection any more, and all of them.
Closing == {"delPresence", "listBubbles", "clearBubbles", "clearFollowers"}
Left == Closing \cup {"persistFollowers", "recordFollower"}

\* What holds of connection c, its job j, its phase ph and what its client has.
ClientOK(c, j, ph, pl, bub, fol, vo) ==
    /\ j.at # "idle" => ph = IF j.at \in Left THEN "closed" ELSE "joined"
    /\ ph \in {"away", "open"} \/ j.at = "spawn" => bub = NoBubble /\ pl = Lobby /\ vo = Silent
    /\ ph \in {"away", "open"} => fol = None
    /\ (j.at = "setBubble" /\ j.op \in {"create", "accept"}) \/ j.at = "recordBubble"
         => c \in j.blob.members
    /\ \/ ph # "joined"
       \/ j.at \in {"recordLeave", "recordBubble"}
       \/ j.at = "syncVoice" /\ c \in j.rest
       \/ vo = VoiceGroup(bub, pl)

\* The invariant of the clients.
ClientsInv == \A c \in Conns :
  ClientOK(c, job[c], phase[c], place[c], bubble[c], following[c], voice[c])

\* The client's fields and the jobs are functions on the connections.
LEMMA Shape ==
    ASSUME OfficeInv
    PROVE  /\ DOMAIN job = Conns /\ DOMAIN phase = Conns /\ DOMAIN place = Conns
           /\ DOMAIN bubble = Conns /\ DOMAIN following = Conns /\ DOMAIN voice = Conns
           /\ job = [c \in Conns |-> job[c]]
           /\ \A c \in Conns : job[c] \in Job
  BY DEF OfficeInv, TypeOK

\* A job is a record.
LEMMA JobRecord ==
    ASSUME OfficeInv, NEW c \in Conns
    PROVE  /\ DOMAIN job[c] = {"at", "op", "id", "next", "blob", "who", "record", "rest", "snap"}
           /\ DOMAIN job[c].snap = BubbleID
<1>1. job[c] \in Job
  BY Shape
<1> QED
  BY <1>1 DEF Job

\* Where a handler goes on after it has left a bubble.
LEMMA AfterLeavingIs ==
    ASSUME NEW c
    PROVE  \/ AfterLeaving(c) = Idle
           \/ AfterLeaving(c).at = "reget" /\ AfterLeaving(c).id = NoBubble
  BY DEF AfterLeaving, Idle

\* Only the job of c changes.
Turn(c) == \A d \in Conns : d # c => job'[d] = job[d]

\* Whoever goes on is the only one who does.
LEMMA Went ==
    ASSUME OfficeInv, NEW c \in Conns, NEW j, Goto(c, j)
    PROVE  job'[c] = j /\ Turn(c)
  BY Shape DEF Goto, Turn

\* A ghost hunt goes on or is over.
LEMMA PurgeTurns ==
    ASSUME OfficeInv, NEW c \in Conns, PurgeGhosts(c)
    PROVE  job'[c].at \in {"idle", "purge"} /\ Turn(c)
  BY PurgeGoes, Shape, JobRecord DEF Idle, Turn

\* A step that changes one job and no client.
LEMMA JobOnly ==
    ASSUME OfficeInv, ClientsInv, NEW c \in Conns, Turn(c),
       UNCHANGED <<phase, fields>>,
       ClientOK(c, job'[c], phase[c], place[c], bubble[c], following[c], voice[c])
    PROVE ClientsInv'
  BY DEF ClientsInv, fields, Turn

\* The steps of joining, moving, talking and leaving keep what ClientsInv says,
LEMMA JoinClients ==
    ASSUME OfficeInv, ClientsInv, NEW c \in Conns, JoinStep(c)
    PROVE  ClientsInv'
<1>0. ClientOK(c, job[c], phase[c], place[c], bubble[c], following[c], voice[c])
  BY DEF ClientsInv
<1>1. CASE Register(c)
  BY <1>1, Shape DEF Register, ClientsInv, ClientOK, fields, redis, bounds, Ready
<1>2. CASE HandleJoin(c)
  BY <1>2, Shape, OfficeAssumption
     DEF HandleJoin, ClientsInv, ClientOK, fields, redis, Ready, Goto, Idle, VoiceGroup, Silent,
         Left, Closing
<1>3. CASE SpawnPresence(c)
  BY <1>3, Shape, OfficeAssumption
     DEF SpawnPresence, ClientsInv, ClientOK, At, Goto, Idle, VoiceGroup, Silent, Left, Closing
<1>4. CASE GetAllPresence(c)
  <2>1. /\ ClientOK(c, [Idle EXCEPT !.at = "readClients", !.rest = DOMAIN presence],
                    phase[c], place[c], bubble[c], following[c], voice[c])
        /\ ClientOK(c, [Idle EXCEPT !.at = "purge"],
                    phase[c], place[c], bubble[c], following[c], voice[c])
    BY <1>0, <1>4 DEF GetAllPresence, ClientOK, At, Idle, Left, Closing
  <2> QED
  BY <2>1, <1>4, Shape, OfficeAssumption DEF GetAllPresence, ClientsInv, fields, Goto
<1>5. CASE ClientsInRoom(c)
  BY <1>5, Shape, OfficeAssumption
     DEF ClientsInRoom, ClientsInv, ClientOK, fields, redis, bounds, At, Goto, Idle, VoiceGroup,
         Silent, Left, Closing
<1>6. CASE PurgeGhosts(c)
  <2>1. CASE /\ job' = [job EXCEPT ![c] = Idle]
             /\ voice' = [voice EXCEPT ![c] = VoiceGroup(bubble[c], place[c])]
    <3>1. /\ job'[c] = Idle /\ voice'[c] = VoiceGroup(bubble[c], place[c])
          /\ \A d \in Conns : d # c => job'[d] = job[d] /\ voice'[d] = voice[d]
      BY <2>1, Shape
    <3>2. ClientOK(c, Idle, phase[c], place[c], bubble[c], following[c], voice'[c])
      BY <1>0, <1>6, <3>1, PurgeGoes DEF ClientOK, Idle, Left, Closing
    <3> QED
      BY <1>6, <3>1, <3>2, PurgeGoes DEF ClientsInv
  <2>2. ASSUME NEW g \in job[c].rest, NEW j \in Job, job' = [job EXCEPT ![c] = j],
               [job[c] EXCEPT !.rest = @ \ {g}] = j, UNCHANGED voice
        PROVE  ClientsInv'
    <3>1. j.at = "purge" /\ job'[c] = j /\ Turn(c)
      BY <1>6, <2>2, PurgeGoes, JobRecord, Shape DEF Turn
    <3>2. ClientOK(c, j, phase[c], place[c], bubble[c], following[c], voice[c])
      BY <1>0, <1>6, <3>1, PurgeGoes DEF ClientOK, Left, Closing
    <3> QED
      BY <1>6, <2>2, <3>1, <3>2, PurgeGoes, JobOnly DEF fields
  <2> QED
    BY <1>6, <2>1, <2>2, PurgeGoes
<1> QED
  BY <1>1, <1>2, <1>3, <1>4, <1>5, <1>6 DEF JoinStep

\* of moving and following,
LEMMA MoveClients ==
    ASSUME OfficeInv, ClientsInv, NEW c \in Conns, MoveStep(c)
    PROVE  ClientsInv'
<1>1. CASE PresenceUpdate(c)
  BY <1>1, Shape, OfficeAssumption
     DEF PresenceUpdate, ClientsInv, ClientOK, fields, redis, bounds, Goto, Request, Ready,
         Idle, VoiceGroup, Silent, Left, Closing
<1>2. CASE Moved(c)
  BY <1>2, Shape, OfficeAssumption
     DEF Moved, ClientsInv, ClientOK, bounds, At, Goto, Idle, VoiceGroup, Silent, Left, Closing
<1>3. CASE FollowStart(c)
  BY <1>3, Shape, OfficeAssumption
     DEF FollowStart, ClientsInv, ClientOK, fields, redis, bounds, Goto, Request, Ready, Idle,
         VoiceGroup, Silent, Left, Closing, Joined
<1>4. CASE SetFollowing(c)
  BY <1>4, Shape, OfficeAssumption
     DEF SetFollowing, ClientsInv, ClientOK, redis, bounds, At, Goto, Idle, VoiceGroup, Silent,
         Left, Closing, Follows
<1>5. CASE FollowStop(c)
  BY <1>5, Shape, OfficeAssumption
     DEF FollowStop, ClientsInv, ClientOK, redis, bounds, Goto, Request, Ready, Idle,
         VoiceGroup, Silent, Left, Closing, Follows
<1>6. CASE RecordFollow(c)
  BY <1>6, Shape, OfficeAssumption
     DEF RecordFollow, ClientsInv, ClientOK, fields, At, Goto, Idle, VoiceGroup, Silent, Left,
         Closing
<1>7. CASE VoiceTokenRequest(c)
  BY <1>7, Shape, OfficeAssumption
     DEF VoiceTokenRequest, ClientsInv, ClientOK, redis, bounds, Request, Ready, Idle,
         VoiceGroup, Silent, Left, Closing
<1> QED
  BY <1>1, <1>2, <1>3, <1>4, <1>5, <1>6, <1>7 DEF MoveStep

\* of bubbles, where a voice group may be written by another member's handler,
LEMMA BubbleClients ==
    ASSUME OfficeInv, ClientsInv, NEW c \in Conns, BubbleStep(c)
    PROVE  ClientsInv'
<1>1. CASE InviteToBubble(c)
  BY <1>1, Shape, OfficeAssumption
     DEF InviteToBubble, ClientsInv, ClientOK, fields, redis, bounds, Goto, Request, Ready,
         Idle, VoiceGroup, Silent, Left, Closing, Joined, AfterLeaving, WillAccept
<1>2. CASE CreateBubble(c)
  BY <1>2, Shape, OfficeAssumption
     DEF CreateBubble, ClientsInv, ClientOK, fields, redis, Goto, Request, Ready, Idle,
         VoiceGroup, Silent, Left, Closing, Joined, AfterLeaving, WillAccept
<1>3. CASE BubbleAccept(c)
  <2> PICK b \in DOMAIN bubbles :
        WillAccept(c, b) \/ Goto(c, [Idle EXCEPT !.at = "getOwn", !.next = b])
    BY <1>3 DEF BubbleAccept
  <2>1. /\ ClientOK(c, job[c], phase[c], place[c], bubble[c], following[c], voice[c])
        /\ phase[c] = "joined" /\ job[c] = Idle
        /\ UNCHANGED <<phase, fields>>
    BY <1>3 DEF BubbleAccept, ClientsInv, Request, Ready
  <2>2. CASE WillAccept(c, b)
    <3>1. Turn(c) /\ job'[c].at = "setBubble" /\ job'[c].op = "accept" /\ c \in job'[c].blob.members
      BY <2>2, Shape DEF Goto, Turn, WillAccept, Idle
    <3> QED
      BY <2>1, <3>1, JobOnly DEF ClientOK, Idle, VoiceGroup, Silent, Left, Closing, Joined
  <2>3. CASE Goto(c, [Idle EXCEPT !.at = "getOwn", !.next = b])
    <3>1. Turn(c) /\ job'[c].at = "getOwn"
      BY <2>3, Shape DEF Goto, Turn, Idle
    <3> QED
      BY <2>1, <3>1, JobOnly DEF ClientOK, Idle, VoiceGroup, Silent, Left, Closing, Joined
  <2> QED
    BY <2>2, <2>3
<1>4. CASE RegetBubble(c)
  <2>1. /\ ClientOK(c, job[c], phase[c], place[c], bubble[c], following[c], voice[c])
        /\ job[c].at = "reget"
        /\ UNCHANGED <<phase, fields>>
    BY <1>4 DEF RegetBubble, ClientsInv, At
  <2>2. CASE WillAccept(c, job[c].next)
    <3>1. Turn(c) /\ job'[c].at = "setBubble" /\ job'[c].op = "accept" /\ c \in job'[c].blob.members
      BY <2>2, Shape DEF Goto, Turn, WillAccept, Idle
    <3> QED
      BY <2>1, <3>1, JobOnly DEF ClientOK, Idle, VoiceGroup, Silent, Left, Closing, Joined
  <2>3. CASE Goto(c, Idle)
    BY <2>1, <2>3, JobOnly, Went DEF ClientOK, Idle, VoiceGroup, Silent, Left, Closing, Joined
  <2> QED
    BY <1>4, <2>2, <2>3 DEF RegetBubble
<1>5. CASE BubbleLeave(c)
  BY <1>5, Shape, OfficeAssumption
     DEF BubbleLeave, ClientsInv, ClientOK, fields, redis, bounds, Goto, Request, Ready, Idle,
         VoiceGroup, Silent, Left, Closing, Joined, AfterLeaving, WillAccept
<1>6. CASE GetOwnBubble(c)
  BY <1>6, Shape, OfficeAssumption
     DEF GetOwnBubble, ClientsInv, ClientOK, fields, redis, bounds, At, Goto, Idle, VoiceGroup,
         Silent, Left, Closing, Joined, AfterLeaving, WillAccept
<1>7. CASE RecordLeave(c)
  <2>1. /\ ClientOK(c, job[c], phase[c], place[c], bubble[c], following[c], voice[c])
        /\ job[c].at = "recordLeave"
        /\ UNCHANGED <<phase, place, bubble, following>>
        /\ voice' = [voice EXCEPT ![c] = VoiceGroup(bubble[c], place[c])]
    BY <1>7 DEF RecordLeave, ClientsInv, At
  <2>2. Turn(c) /\ \/ job'[c].at \in {"idle", "reget", "deleteBubble"}
                   \/ job'[c].at = "setBubble" /\ job'[c].op = "leave"
    <3>1. CASE Goto(c, AfterLeaving(c))
      BY <3>1, AfterLeavingIs, Shape DEF Goto, Turn, Idle
    <3>2. CASE Goto(c, [job[c] EXCEPT
                       !.at = IF job[c].blob.members = {} THEN "deleteBubble" ELSE "setBubble",
                       !.op = "leave"])
      BY <3>2, JobRecord, Shape DEF Goto, Turn
    <3> QED
      BY <1>7, <3>1, <3>2 DEF RecordLeave
  <2> QED
    BY <2>1, <2>2, Shape
       DEF ClientsInv, Turn, ClientOK, Idle, VoiceGroup, Silent, Left, Closing, Joined
<1>8. CASE DeleteBubble(c)
  BY <1>8, Shape, OfficeAssumption
     DEF DeleteBubble, ClientsInv, ClientOK, fields, At, Goto, Idle, VoiceGroup, Silent, Left,
         Closing, Joined, AfterLeaving, WillAccept
<1>9. CASE SetBubble(c)
  <2>1. /\ ClientOK(c, job[c], phase[c], place[c], bubble[c], following[c], voice[c])
        /\ job[c].at = "setBubble"
        /\ UNCHANGED <<phase, place, following, voice>>
    BY <1>9 DEF SetBubble, ClientsInv, At
  <2>2. Turn(c) /\ \/ job'[c].at \in {"idle", "reget"} /\ UNCHANGED bubble
                   \/ /\ job'[c].at = "recordBubble" /\ job'[c].blob = job[c].blob
                      /\ job[c].op \in {"create", "accept"}
                      /\ bubble' = [bubble EXCEPT ![c] = job[c].id]
    <3>1. CASE Goto(c, Idle) /\ UNCHANGED bubble
      BY <3>1, Shape DEF Goto, Turn, Idle
    <3>2. CASE Goto(c, AfterLeaving(c)) /\ UNCHANGED bubble
      BY <3>2, AfterLeavingIs, Shape DEF Goto, Turn, Idle
    <3>3. CASE /\ job[c].op \in {"create", "accept"}
               /\ bubble' = [bubble EXCEPT ![c] = job[c].id]
               /\ Goto(c, [job[c] EXCEPT !.at = "recordBubble", !.who = c,
                                         !.record = [PresenceOf(c) EXCEPT !.bubble = job[c].id]])
      BY <3>3, JobRecord, Shape DEF Goto, Turn
    <3> QED
      BY <1>9, <3>1, <3>2, <3>3 DEF SetBubble
  <2> QED
    BY <2>1, <2>2, Shape
       DEF ClientsInv, Turn, ClientOK, Idle, VoiceGroup, Silent, Left, Closing, Joined
<1>10. CASE RecordBubble(c)
  BY <1>10, Shape, OfficeAssumption
     DEF RecordBubble, ClientsInv, ClientOK, fields, At, Goto, Idle, VoiceGroup, Silent, Left,
         Closing, Joined, AfterLeaving, WillAccept
<1>11. CASE SyncVoice(c)
  <2>1. /\ ClientOK(c, job[c], phase[c], place[c], bubble[c], following[c], voice[c])
        /\ job[c].at = "syncVoice"
        /\ UNCHANGED <<phase, place, bubble, following>>
    BY <1>11 DEF SyncVoice, ClientsInv, At
  <2>2. CASE Goto(c, Idle) /\ UNCHANGED voice /\ job[c].rest = {}
    BY <2>1, <2>2, JobOnly, Went
       DEF fields, ClientOK, Idle, VoiceGroup, Silent, Left, Closing, Joined
  <2>3. ASSUME NEW m \in job[c].rest, 
                voice' = IF m \in Joined
                         THEN [voice EXCEPT ![m] = VoiceGroup(bubble[m], place[m])] ELSE voice,
                Goto(c, [job[c] EXCEPT !.rest = @ \ {m}])
        PROVE  ClientsInv'
    <3>1. Turn(c) /\ job'[c].at = "syncVoice" /\ job'[c].rest = job[c].rest \ {m}
      BY <2>1, <2>3, JobRecord, Shape DEF Goto, Turn
    <3>2. \A d \in Conns : d # c => job'[d] = job[d]
      BY <3>1 DEF Turn
    <3>3. \A d \in Conns :
            \/ voice'[d] = voice[d]
            \/ phase[d] = "joined" /\ voice'[d] = VoiceGroup(bubble[d], place[d])
      BY <2>3, Shape DEF Joined
    <3>4. m \in Conns /\ (phase[m] = "joined" => voice'[m] = VoiceGroup(bubble[m], place[m]))
      <4>1. job[c].rest \subseteq Conns
        BY Shape DEF Job
      <4> QED
        BY <2>3, <4>1, Shape DEF Joined
    <3>5. ASSUME NEW d \in Conns
          PROVE  ClientOK(d, job'[d], phase[d], place[d], bubble[d], following[d], voice'[d])
      <4>1. ClientOK(d, job[d], phase[d], place[d], bubble[d], following[d], voice[d])
        BY DEF ClientsInv
      <4>2. CASE d # c
        BY <3>2, <3>3, <4>1, <4>2, OfficeAssumption DEF ClientOK, VoiceGroup, Silent
      <4>3. CASE d = c
        BY <3>1, <3>2, <3>3, <3>4, <4>1, <4>3, <2>1 DEF ClientOK, Left, Closing
      <4> QED
        BY <4>2, <4>3
    <3> QED
      BY <3>5, <2>1 DEF ClientsInv
  <2> QED
    BY <1>11, <2>2, <2>3 DEF SyncVoice
<1>12. CASE BubbleSend(c)
  BY <1>12, Shape, OfficeAssumption
     DEF BubbleSend, ClientsInv, ClientOK, fields, redis, bounds, Goto, Request, Ready, Idle,
         VoiceGroup, Silent, Left, Closing, Joined, AfterLeaving, WillAccept
<1>13. CASE PushChannelMessage(c)
  BY <1>13, Shape, OfficeAssumption
     DEF PushChannelMessage, ClientsInv, ClientOK, fields, At, Goto, Idle, VoiceGroup, Silent,
         Left, Closing, Joined, AfterLeaving, WillAccept
<1> QED
  BY <1>1, <1>2, <1>3, <1>4, <1>5, <1>6, <1>7, <1>8, <1>9, <1>10, <1>11, <1>12, <1>13
     DEF BubbleStep

\* and of leaving;
LEMMA LeaveClients ==
    ASSUME OfficeInv, ClientsInv, NEW c \in Conns, LeaveStep(c)
    PROVE  ClientsInv'
<1>1. CASE Unregister(c)
  BY <1>1, Shape, OfficeAssumption
     DEF Unregister, ClientsInv, ClientOK, fields, redis, bounds, Goto, Ready, Idle, VoiceGroup,
         Silent, Left, Closing
<1>2. CASE DeletePresence(c)
  BY <1>2, Shape, OfficeAssumption
     DEF DeletePresence, ClientsInv, ClientOK, fields, At, Goto, Idle, VoiceGroup, Silent, Left,
         Closing
<1>3. CASE ListBubbles(c)
  BY <1>3, Shape, OfficeAssumption
     DEF ListBubbles, ClientsInv, ClientOK, fields, redis, bounds, At, Goto, Idle, VoiceGroup,
         Silent, Left, Closing
<1>4. CASE ClearBubbles(c)
  <2>1. /\ ClientOK(c, job[c], phase[c], place[c], bubble[c], following[c], voice[c])
        /\ job[c].at = "clearBubbles"
        /\ UNCHANGED <<phase, fields>>
    BY <1>4 DEF ClearBubbles, ClientsInv, At
  <2>2. Turn(c) /\ job'[c].at \in {"clearFollowers", "clearBubbles"}
    BY <1>4, <2>1, JobRecord, Shape DEF Goto, Turn, ClearBubbles, Idle
  <2> QED
    BY <2>1, <2>2, JobOnly DEF ClientOK, Idle, VoiceGroup, Silent, Left, Closing
<1>5. CASE ClearFollowers(c)
  BY <1>5, Shape, OfficeAssumption
     DEF ClearFollowers, ClientsInv, ClientOK, fields, redis, bounds, At, Goto, Idle,
         VoiceGroup, Silent, Left, Closing, Joined
<1>6. CASE PersistFollowers(c)
  <2>1. /\ ClientOK(c, job[c], phase[c], place[c], bubble[c], following[c], voice[c])
        /\ job[c].at = "persistFollowers"
        /\ UNCHANGED <<phase, fields>>
    BY <1>6 DEF PersistFollowers, ClientsInv, At
  <2>2. Turn(c) /\ job'[c].at \in {"idle", "recordFollower"}
    <3>1. CASE Goto(c, Idle)
      BY <3>1, Shape DEF Goto, Turn, Idle
    <3>2. ASSUME NEW f \in job[c].rest,
                 Goto(c, [job[c] EXCEPT !.at = "recordFollower", !.who = f, !.rest = @ \ {f},
                                        !.record = [PresenceOf(f) EXCEPT !.following = None]])
          PROVE  Turn(c) /\ job'[c].at \in {"idle", "recordFollower"}
      BY <3>2, JobRecord, Shape DEF Goto, Turn
    <3> QED
      BY <1>6, <3>1, <3>2 DEF PersistFollowers
  <2> QED
    BY <2>1, <2>2, JobOnly DEF ClientOK, Idle, VoiceGroup, Silent, Left, Closing
<1>7. CASE RecordFollower(c)
  BY <1>7, Shape, OfficeAssumption
     DEF RecordFollower, ClientsInv, ClientOK, fields, At, Goto, Idle, VoiceGroup, Silent, Left,
         Closing
<1> QED
  BY <1>1, <1>2, <1>3, <1>4, <1>5, <1>6, <1>7 DEF LeaveStep

\* so do a failing call
LEMMA FailClients ==
    ASSUME OfficeInv, ClientsInv, NEW c \in Conns, StoreFails(c)
    PROVE  ClientsInv'
<1>1. /\ ClientOK(c, job[c], phase[c], place[c], bubble[c], following[c], voice[c])
      /\ job[c].at \in {"move", "setBubble", "getOwn", "reget"} /\ UNCHANGED <<phase, fields>>
  BY DEF StoreFails, ClientsInv
<1>2. Goto(c, AfterLeaving(c)) \/ Goto(c, Idle)
  BY DEF StoreFails
<1>3. Turn(c) /\ job'[c].at \in {"idle", "reget"}
  <2>1. CASE Goto(c, Idle)
    BY <2>1, Shape DEF Goto, Turn, Idle
  <2>2. CASE Goto(c, AfterLeaving(c))
    BY <2>2, AfterLeavingIs, Shape DEF Goto, Turn, Idle
  <2> QED
    BY <1>2, <2>1, <2>2
<1> QED
  BY <1>1, <1>3, JobOnly DEF ClientOK, Left, Closing

\* and a crash.
LEMMA CrashClients ==
    ASSUME OfficeInv, ClientsInv, Crash
    PROVE  ClientsInv'
<1>1. \A c \in Conns : /\ job'[c].at = "idle"
                       /\ phase'[c] \in {"away", "closed", "lost"}
                       /\ bubble'[c] = NoBubble /\ place'[c] = Lobby /\ voice'[c] = Silent
                       /\ following'[c] = None
  <2>1. \A c \in Conns : phase[c] \in Phases
    BY DEF OfficeInv, TypeOK
  <2> QED
    BY <2>1 DEF Crash, Idle, Phases
<1> QED
  BY <1>1 DEF ClientsInv, ClientOK

\* Every step keeps it.
LEMMA ClientsStep ==
    ASSUME OfficeInv, ClientsInv, [Next]_vars
    PROVE  ClientsInv'
<1>1. CASE UNCHANGED vars
  BY <1>1 DEF vars, fields, ClientsInv
<1> QED
  BY <1>1, JoinClients, MoveClients, BubbleClients, LeaveClients, FailClients, CrashClients
     DEF Next

\* Every client is in the phase its handler needs, and has the voice group of the bubble or
\* meeting it is in, or its handler is about to give it: with any overlap and any fault.
THEOREM ClientsInvariant == Spec => []ClientsInv
<1>1. Init => ClientsInv
  BY OfficeAssumption DEF Init, ClientsInv, ClientOK, Idle, VoiceGroup, Silent
<1> QED
  BY <1>1, ClientsStep, OfficeInvariant, PTL DEF Spec

\* Between handlers everybody has the voice group of their bubble, else of their meeting.
THEOREM VoicesAgree == Spec => []VoiceAgrees
<1>1. ClientsInv => VoiceAgrees
  <2> SUFFICES ASSUME ClientsInv, Calm, NEW c \in Joined \cap DOMAIN presence
               PROVE  LET group == voice[c]
                      IN  IF bubble[c] # NoBubble
                          THEN group.bubble = bubble[c] /\ group.meeting = None
                          ELSE group.bubble = NoBubble
                               /\ group.meeting = IF place[c] \in Meetings THEN place[c] ELSE None
    BY DEF VoiceAgrees
  <2>1. job[c] = Idle /\ c \in Conns /\ phase[c] = "joined"
    BY DEF Calm, Busy, Joined
  <2>2. voice[c] = VoiceGroup(bubble[c], place[c])
    BY <2>1 DEF ClientsInv, ClientOK, Idle
  <2> QED
    BY <2>2 DEF VoiceGroup
<1> QED
  BY <1>1, ClientsInvariant, PTL

-----------------------------------------------------------------------------
(* One handler at a time.                                                  *)

\* At most one connection is in a handler,
OneBusy == \A c, d \in Conns : job[c] # Idle /\ job[d] # Idle => c = d

\* nobody but c is,
Alone(c) == \A d \in Conns : d # c => job[d] = Idle

\* and the steps of c.
StepOf(c) == JoinStep(c) \/ MoveStep(c) \/ BubbleStep(c) \/ LeaveStep(c) \/ StoreFails(c)

\* A step of a connection changes no other connection's job.
LEMMA TakesTurn ==
    ASSUME OfficeInv, NEW c \in Conns, StepOf(c)
    PROVE  Turn(c)
<1>1. CASE \E j : Goto(c, j)
  BY <1>1, Shape DEF Goto, Turn
<1>2. CASE job' = job
  BY <1>2 DEF Turn
<1>3. CASE JoinStep(c)
  BY <1>1, <1>2, <1>3
     DEF JoinStep, Register, HandleJoin, SpawnPresence, GetAllPresence, ClientsInRoom,
         PurgeGhosts
<1>4. CASE MoveStep(c)
  BY <1>1, <1>2, <1>4
     DEF MoveStep, PresenceUpdate, Moved, FollowStart, SetFollowing, FollowStop, Follows,
         RecordFollow, VoiceTokenRequest
<1>5. CASE BubbleStep(c)
  BY <1>1, <1>2, <1>5
     DEF BubbleStep, InviteToBubble, CreateBubble, BubbleAccept, WillAccept, RegetBubble,
         BubbleLeave, GetOwnBubble, RecordLeave, DeleteBubble, SetBubble, RecordBubble,
         SyncVoice, BubbleSend, PushChannelMessage
<1>6. CASE LeaveStep(c)
  BY <1>1, <1>2, <1>6
     DEF LeaveStep, Unregister, DeletePresence, ListBubbles, ClearBubbles, ClearFollowers,
         PersistFollowers, RecordFollower
<1>7. CASE StoreFails(c)
  BY <1>1, <1>7 DEF StoreFails
<1> QED
  BY <1>3, <1>4, <1>5, <1>6, <1>7 DEF StepOf

\* With one handler at a time, a step is that of the only one.
LEMMA ActsAlone ==
    ASSUME OfficeInv, setting.inFlight = 1, OneBusy, NEW c \in Conns, StepOf(c)
    PROVE  Alone(c)
<1>1. CASE \E kind : Ready(c, kind)
  <2>1. Cardinality(Busy) < 1
    BY <1>1 DEF Ready
  <2>2. ASSUME NEW d \in Busy PROVE FALSE
    <3>1. Busy = {d}
      BY <2>2 DEF Busy, OneBusy
    <3> QED
      BY <2>1, <3>1, FS_Singleton
  <2> QED
    BY <2>2 DEF Busy, Alone
<1>2. CASE job[c].at # "idle"
  BY <1>2, IdleJob DEF OneBusy, Alone
<1>3. CASE JoinStep(c)
  BY <1>1, <1>2, <1>3
     DEF JoinStep, Register, HandleJoin, SpawnPresence, GetAllPresence, ClientsInRoom,
         PurgeGhosts, At
<1>10. (\E kind : Request(c, kind)) => Alone(c)
  BY <1>1 DEF Request
<1>4. CASE MoveStep(c)
  BY <1>10, <1>2, <1>4
     DEF MoveStep, PresenceUpdate, Moved, FollowStart, SetFollowing, FollowStop, At,
         RecordFollow, VoiceTokenRequest
<1>5. CASE BubbleStep(c)
  BY <1>10, <1>2, <1>5
     DEF BubbleStep, InviteToBubble, CreateBubble, BubbleAccept, RegetBubble, At, BubbleLeave,
         GetOwnBubble, RecordLeave, DeleteBubble, SetBubble, RecordBubble, SyncVoice,
         BubbleSend, PushChannelMessage
<1>6. CASE LeaveStep(c)
  BY <1>1, <1>2, <1>6
     DEF LeaveStep, Unregister, DeletePresence, ListBubbles, ClearBubbles, ClearFollowers,
         PersistFollowers, RecordFollower, At
<1>7. CASE StoreFails(c)
  BY <1>2, <1>7 DEF StoreFails
<1> QED
  BY <1>3, <1>4, <1>5, <1>6, <1>7 DEF StepOf

\* What the longer actions make of their job: to join a bubble is to write it with c in it,
LEMMA WillAcceptGoes ==
    ASSUME OfficeInv, NEW c \in Conns, NEW b, WillAccept(c, b)
    PROVE  /\ job'[c].at = "setBubble" /\ job'[c].op = "accept" /\ job'[c].id = b
           /\ job'[c].blob = [members |-> bubbles[b].members \cup {c},
                              invites |-> bubbles[b].invites \ {c}]
           /\ job'[c].next = NoBubble
  BY Shape DEF WillAccept, Goto, Idle

\* after leaving one's own,
LEMMA AcceptGoes ==
    ASSUME OfficeInv, NEW c \in Conns, BubbleAccept(c)
    PROVE  \E b \in DOMAIN bubbles :
             /\ c \notin bubbles[b].members /\ c \in bubbles[b].invites
             /\ \/ bubble[c] \in {NoBubble, b} /\ WillAccept(c, b)
                \/ job'[c].at = "getOwn" /\ job'[c].id = NoBubble
<1>1. PICK b \in DOMAIN bubbles :
        /\ c \notin bubbles[b].members /\ c \in bubbles[b].invites
        /\ \/ bubble[c] \in {NoBubble, b} /\ WillAccept(c, b)
           \/ Goto(c, [Idle EXCEPT !.at = "getOwn", !.next = b])
  BY DEF BubbleAccept
<1>2. CASE Goto(c, [Idle EXCEPT !.at = "getOwn", !.next = b])
  <2>1. job'[c].at = "getOwn" /\ job'[c].id = NoBubble
    BY <1>2, Shape DEF Goto, Idle
  <2> QED
    BY <1>1, <2>1
<1> QED
  BY <1>1, <1>2

\* Who has left a bubble is done, or reads another one again.
HasLeft(c) == job'[c].at \in {"idle", "reget"} /\ job'[c].id = NoBubble

\* either way of going on has left it,
LEMMA LeftGoes ==
    ASSUME OfficeInv, NEW c \in Conns, Goto(c, Idle) \/ Goto(c, AfterLeaving(c))
    PROVE  HasLeft(c)
<1>1. job'[c] = Idle \/ job'[c] = AfterLeaving(c)
  BY Shape DEF Goto
<1> QED
  BY <1>1, AfterLeavingIs, IdleJob DEF HasLeft

\* leaving writes or deletes the bubble left,
LEMMA RecordLeaveGoes ==
    ASSUME OfficeInv, NEW c \in Conns, RecordLeave(c)
    PROVE  \/ job[c].id = NoBubble /\ HasLeft(c)
           \/ /\ job[c].id # NoBubble
              /\ job'[c].at = IF job[c].blob.members = {} THEN "deleteBubble" ELSE "setBubble"
              /\ job'[c].op = "leave" /\ job'[c].id = job[c].id /\ job'[c].blob = job[c].blob
<1>1. CASE job[c].id = NoBubble
  BY <1>1, LeftGoes DEF RecordLeave
<1>2. CASE job[c].id # NoBubble
  <2>1. Goto(c, [job[c] EXCEPT
                   !.at = IF job[c].blob.members = {} THEN "deleteBubble" ELSE "setBubble",
                   !.op = "leave"])
    BY <1>2 DEF RecordLeave
  <2> QED
    BY <1>2, <2>1, JobRecord, Shape DEF Goto
<1> QED
  BY <1>1, <1>2

\* writing a bubble ends, or goes on to record it,
LEMMA SetBubbleGoes ==
    ASSUME OfficeInv, NEW c \in Conns, SetBubble(c)
    PROVE  \/ /\ job[c].op \in {"create", "accept"}
              /\ bubble' = [bubble EXCEPT ![c] = job[c].id]
              /\ job'[c].at = "recordBubble" /\ job'[c].who = c
              /\ job'[c].record = [PresenceOf(c) EXCEPT !.bubble = job[c].id]
              /\ job'[c].id = job[c].id
           \/ job[c].op \in {"invite", "leave"} /\ UNCHANGED bubble /\ HasLeft(c)
<1>1. CASE job[c].op \in {"create", "accept"}
  <2>1. /\ bubble' = [bubble EXCEPT ![c] = job[c].id]
        /\ Goto(c, [job[c] EXCEPT !.at = "recordBubble", !.who = c,
                                  !.record = [PresenceOf(c) EXCEPT !.bubble = job[c].id]])
    BY <1>1 DEF SetBubble
  <2> QED
    BY <1>1, <2>1, JobRecord, Shape DEF Goto
<1>2. CASE job[c].op \in {"invite", "leave"}
  <2>1. UNCHANGED bubble /\ (Goto(c, Idle) \/ Goto(c, AfterLeaving(c)))
    BY <1>2 DEF SetBubble
  <2> QED
    BY <1>2, <2>1, LeftGoes
<1> QED
  BY <1>1, <1>2 DEF SetBubble

\* giving out voice groups stays at it or ends,
LEMMA SyncVoiceGoes ==
    ASSUME OfficeInv, NEW c \in Conns, SyncVoice(c)
    PROVE  job'[c].at \in {"idle", "syncVoice"} /\ job'[c].id \in {NoBubble, job[c].id}
<1>1. CASE Goto(c, Idle)
  BY <1>1, Shape DEF Goto, Idle
<1>2. ASSUME NEW m \in job[c].rest, Goto(c, [job[c] EXCEPT !.rest = @ \ {m}])
      PROVE  job'[c].at = job[c].at /\ job'[c].id = job[c].id
  BY <1>2, JobRecord, Shape DEF Goto
<1> QED
  BY <1>1, <1>2 DEF SyncVoice, At

\* followers are recorded one by one,
LEMMA PersistGoes ==
    ASSUME OfficeInv, NEW c \in Conns, PersistFollowers(c)
    PROVE  /\ job[c].at = "persistFollowers"
           /\ \/ job'[c].at = "idle" /\ job[c].rest = {} /\ job'[c].id = NoBubble
              \/ /\ job'[c].at = "recordFollower" /\ job'[c].who \in job[c].rest
                 /\ job'[c].rest = job[c].rest \ {job'[c].who}
                 /\ job'[c].record = [PresenceOf(job'[c].who) EXCEPT !.following = None]
<1>1. CASE job[c].rest = {} /\ Goto(c, Idle)
  BY <1>1, Shape DEF Goto, Idle, PersistFollowers, At
<1>2. ASSUME NEW f \in job[c].rest,
             Goto(c, [job[c] EXCEPT !.at = "recordFollower", !.who = f, !.rest = @ \ {f},
                                    !.record = [PresenceOf(f) EXCEPT !.following = None]])
      PROVE  /\ job'[c].at = "recordFollower" /\ job'[c].who = f /\ job'[c].rest = job[c].rest \ {f}
             /\ job'[c].record = [PresenceOf(f) EXCEPT !.following = None]
  BY <1>2, JobRecord, Shape DEF Goto
<1>3. job[c].at = "persistFollowers"
  BY DEF PersistFollowers, At
<1> QED
  BY <1>1, <1>2, <1>3 DEF PersistFollowers

\* and bubbles are cleared one by one.
LEMMA ClearBubblesGoes ==
    ASSUME OfficeInv, NEW c \in Conns, ClearBubbles(c)
    PROVE  /\ job[c].at = "clearBubbles"
           /\ \/ /\ job'[c].at = "clearFollowers"
                 /\ (\A b \in BubbleID : job[c].snap[b] = EmptyBubble) \/ Fault
                 /\ UNCHANGED <<bubbles, chats>>
              \/ \E b \in BubbleID :
                   /\ job'[c].at = "clearBubbles"
                   /\ job[c].snap[b] # EmptyBubble
                   /\ job'[c].snap = [job[c].snap EXCEPT ![b] = EmptyBubble]
                   /\ LET left == Without(job[c].snap[b], c)
                      IN  IF left.members = {}
                          THEN bubbles' = HDel(bubbles, {b}) /\ chats' = chats \ {b}
                          ELSE bubbles' = HSet(bubbles, b, left) /\ UNCHANGED chats
<1> DEFINE listed == {b \in BubbleID : job[c].snap[b] # EmptyBubble}
<1>1. job[c].at = "clearBubbles"
  BY DEF ClearBubbles, At
<1>2. CASE /\ listed = {} \/ Fault
           /\ Goto(c, [Idle EXCEPT !.at = "clearFollowers"]) /\ UNCHANGED <<bubbles, chats>>
  <2>1. job'[c].at = "clearFollowers"
    BY <1>2, Shape DEF Goto, Idle
  <2> QED
    BY <1>1, <1>2, <2>1
<1>3. ASSUME NEW b \in listed,
             LET left == Without(job[c].snap[b], c)
             IN  IF left.members = {}
                 THEN bubbles' = HDel(bubbles, {b}) /\ chats' = chats \ {b}
                 ELSE bubbles' = HSet(bubbles, b, left) /\ UNCHANGED chats,
             Goto(c, [job[c] EXCEPT !.snap[b] = EmptyBubble])
      PROVE  \E d \in BubbleID :
               /\ job'[c].at = "clearBubbles"
               /\ job[c].snap[d] # EmptyBubble
               /\ job'[c].snap = [job[c].snap EXCEPT ![d] = EmptyBubble]
               /\ LET left == Without(job[c].snap[d], c)
                  IN  IF left.members = {}
                      THEN bubbles' = HDel(bubbles, {d}) /\ chats' = chats \ {d}
                      ELSE bubbles' = HSet(bubbles, d, left) /\ UNCHANGED chats
  <2>1. /\ job'[c].at = "clearBubbles" /\ b \in BubbleID /\ job[c].snap[b] # EmptyBubble
        /\ job'[c].snap = [job[c].snap EXCEPT ![b] = EmptyBubble]
    BY <1>1, <1>3, JobRecord, Shape DEF Goto
  <2> QED
    BY <1>3, <2>1
<1> QED
  BY <1>1, <1>2, <1>3 DEF ClearBubbles

\* Everybody follows somebody in the room, or connection c, which is leaving it.
FollowCalm(c) ==
    /\ \A f \in Joined : following[f] # None =>
         following[f] \in Joined \/ (following[f] = c /\ job[c].at \in Closing)
    /\ job[c].at = "follow" => job[c].who \in Joined

\* A step that changes nobody's phase and follower.
LEMMA SameFollows ==
    ASSUME NEW c \in Conns, FollowCalm(c), UNCHANGED <<phase, following>>,
           job'[c].at # "follow", job[c].at \in Closing => job'[c].at \in Closing
    PROVE  FollowCalm(c)'
  BY DEF FollowCalm, Joined

\* Joining keeps what FollowCalm says,
LEMMA JoinFollow ==
    ASSUME OfficeInv, ClientsInv, NEW c \in Conns, JoinStep(c), FollowCalm(c)
    PROVE  FollowCalm(c)'
<1>0. ClientOK(c, job[c], phase[c], place[c], bubble[c], following[c], voice[c])
  BY DEF ClientsInv
<1>1. CASE Register(c)
  BY <1>0, <1>1, Shape
     DEF Register, FollowCalm, fields, redis, bounds, Ready, Idle, Closing, Joined, ClientsInv,
         ClientOK
<1>2. CASE HandleJoin(c)
  BY <1>0, <1>2, Shape
     DEF HandleJoin, FollowCalm, fields, redis, Goto, Ready, Idle, Closing, Joined, ClientsInv,
         ClientOK
<1>3. CASE SpawnPresence(c)
  BY <1>0, <1>3, Shape
     DEF SpawnPresence, FollowCalm, At, Goto, Idle, Closing, Joined, ClientsInv, ClientOK
<1>4. CASE GetAllPresence(c)
  BY <1>0, <1>4, Shape
     DEF GetAllPresence, FollowCalm, fields, redis, bounds, At, Goto, Idle, Closing, Joined,
         ClientsInv, ClientOK
<1>5. CASE ClientsInRoom(c)
  BY <1>0, <1>5, Shape
     DEF ClientsInRoom, FollowCalm, fields, redis, bounds, At, Goto, Idle, Closing, Joined,
         ClientsInv, ClientOK
<1>6. CASE PurgeGhosts(c)
  BY <1>6, PurgeTurns, PurgeGoes, SameFollows DEF Closing
<1> QED
  BY <1>1, <1>2, <1>3, <1>4, <1>5, <1>6 DEF JoinStep

\* and following, whose target is still there when handlers do not overlap,
LEMMA MoveFollow ==
    ASSUME OfficeInv, ClientsInv, NEW c \in Conns, MoveStep(c), FollowCalm(c)
    PROVE  FollowCalm(c)'
<1>0. ClientOK(c, job[c], phase[c], place[c], bubble[c], following[c], voice[c])
  BY DEF ClientsInv
<1>1. CASE PresenceUpdate(c)
  BY <1>0, <1>1, Shape
     DEF PresenceUpdate, FollowCalm, fields, redis, bounds, Goto, Request, Ready, Idle, Closing,
         Joined
<1>2. CASE Moved(c)
  BY <1>0, <1>2, Shape DEF Moved, FollowCalm, bounds, At, Goto, Idle, Closing, Joined
<1>3. CASE FollowStart(c)
  BY <1>0, <1>3, Shape
     DEF FollowStart, FollowCalm, fields, redis, bounds, Goto, Request, Ready, Idle, Closing,
         Joined
<1>4. CASE SetFollowing(c)
  BY <1>0, <1>4, Shape
     DEF SetFollowing, FollowCalm, redis, bounds, At, Goto, Idle, Closing, Joined, Follows
<1>5. CASE FollowStop(c)
  BY <1>0, <1>5, Shape
     DEF FollowStop, FollowCalm, redis, bounds, Goto, Request, Ready, Idle, Closing, Joined,
         Follows
<1>6. CASE RecordFollow(c)
  BY <1>0, <1>6, Shape DEF RecordFollow, FollowCalm, fields, At, Goto, Idle, Closing, Joined
<1>7. CASE VoiceTokenRequest(c)
  BY <1>0, <1>7, Shape
     DEF VoiceTokenRequest, FollowCalm, redis, bounds, Request, Ready, Idle, Closing, Joined
<1> QED
  BY <1>1, <1>2, <1>3, <1>4, <1>5, <1>6, <1>7 DEF MoveStep

\* bubbles, which do not touch it,
LEMMA BubbleFollow ==
    ASSUME OfficeInv, ClientsInv, NEW c \in Conns, BubbleStep(c), FollowCalm(c)
    PROVE  FollowCalm(c)'
<1>0. ClientOK(c, job[c], phase[c], place[c], bubble[c], following[c], voice[c])
  BY DEF ClientsInv
<1>1. CASE InviteToBubble(c)
  BY <1>0, <1>1, Shape
     DEF InviteToBubble, FollowCalm, fields, redis, bounds, Goto, Request, Ready, Idle, Closing,
         Joined, WillAccept
<1>2. CASE CreateBubble(c)
  BY <1>0, <1>2, Shape
     DEF CreateBubble, FollowCalm, fields, redis, Goto, Request, Ready, Idle, Closing, Joined,
         WillAccept
<1>3. CASE BubbleAccept(c)
  <2>1. job[c].at = "idle" /\ UNCHANGED <<phase, following>>
    BY <1>3 DEF BubbleAccept, fields, Request, Ready, Idle
  <2>2. job'[c].at \in {"setBubble", "getOwn"}
    BY <1>3, AcceptGoes, WillAcceptGoes
  <2> QED
    BY <2>1, <2>2, SameFollows DEF Closing
<1>4. CASE RegetBubble(c)
  <2>1. CASE Goto(c, Idle)
    BY <1>4, <2>1, LeftGoes, SameFollows DEF RegetBubble, fields, At, Closing, HasLeft
  <2>2. CASE WillAccept(c, job[c].next)
    BY <1>4, <2>2, WillAcceptGoes, SameFollows DEF RegetBubble, fields, At, Closing
  <2> QED
    BY <1>4, <2>1, <2>2 DEF RegetBubble
<1>5. CASE BubbleLeave(c)
  BY <1>0, <1>5, Shape
     DEF BubbleLeave, FollowCalm, fields, redis, bounds, Goto, Request, Ready, Idle, Closing,
         Joined, WillAccept
<1>6. CASE GetOwnBubble(c)
  BY <1>0, <1>6, Shape
     DEF GetOwnBubble, FollowCalm, redis, bounds, At, Goto, Idle, Closing, Joined, WillAccept
<1>7. CASE RecordLeave(c)
  BY <1>7, RecordLeaveGoes, SameFollows DEF RecordLeave, At, Closing, Idle, HasLeft
<1>8. CASE DeleteBubble(c)
  BY <1>0, <1>8, Shape
     DEF DeleteBubble, FollowCalm, fields, At, Goto, Idle, Closing, Joined, WillAccept,
         AfterLeaving
<1>9. CASE SetBubble(c)
  BY <1>9, SetBubbleGoes, SameFollows DEF SetBubble, At, Closing, Idle, HasLeft
<1>10. CASE RecordBubble(c)
  BY <1>0, <1>10, Shape
     DEF RecordBubble, FollowCalm, fields, At, Goto, Idle, Closing, Joined, WillAccept
<1>11. CASE SyncVoice(c)
  BY <1>11, SyncVoiceGoes, SameFollows DEF SyncVoice, At, Closing, Idle
<1>12. CASE BubbleSend(c)
  BY <1>0, <1>12, Shape
     DEF BubbleSend, FollowCalm, fields, redis, bounds, Goto, Request, Ready, Idle, Closing,
         Joined, WillAccept
<1>13. CASE PushChannelMessage(c)
  BY <1>0, <1>13, Shape
     DEF PushChannelMessage, FollowCalm, fields, At, Goto, Idle, Closing, Joined, WillAccept
<1> QED
  BY <1>1, <1>2, <1>3, <1>4, <1>5, <1>6, <1>7, <1>8, <1>9, <1>10, <1>11, <1>12, <1>13
     DEF BubbleStep

\* and leaving, which takes the followers back before it ends.
LEMMA LeaveFollow ==
    ASSUME OfficeInv, ClientsInv, NEW c \in Conns, LeaveStep(c), FollowCalm(c)
    PROVE  FollowCalm(c)'
<1>0. ClientOK(c, job[c], phase[c], place[c], bubble[c], following[c], voice[c])
  BY DEF ClientsInv
<1>1. CASE Unregister(c)
  BY <1>0, <1>1, Shape
     DEF Unregister, FollowCalm, redis, bounds, Goto, Ready, Idle, Closing, Joined
<1>2. CASE DeletePresence(c)
  BY <1>0, <1>2, Shape DEF DeletePresence, FollowCalm, fields, At, Goto, Idle, Closing, Joined
<1>3. CASE ListBubbles(c)
  BY <1>0, <1>3, Shape
     DEF ListBubbles, FollowCalm, fields, redis, bounds, At, Goto, Idle, Closing, Joined
<1>4. CASE ClearBubbles(c)
  BY <1>4, ClearBubblesGoes, SameFollows DEF ClearBubbles, fields, At, Closing, Idle
<1>5. CASE ClearFollowers(c)
  BY <1>0, <1>5, Shape
     DEF ClearFollowers, FollowCalm, redis, bounds, At, Goto, Idle, Closing, Joined
<1>6. CASE PersistFollowers(c)
  BY <1>6, PersistGoes, SameFollows DEF PersistFollowers, fields, At, Closing, Idle
<1>7. CASE RecordFollower(c)
  BY <1>0, <1>7, Shape DEF RecordFollower, FollowCalm, fields, At, Goto, Idle, Closing, Joined
<1> QED
  BY <1>1, <1>2, <1>3, <1>4, <1>5, <1>6, <1>7 DEF LeaveStep

\* So does every step of the only handler.
LEMMA FollowStep ==
    ASSUME OfficeInv, ClientsInv, NEW c \in Conns, StepOf(c), FollowCalm(c)
    PROVE  FollowCalm(c)'
<1>1. CASE StoreFails(c)
  <2>1. job'[c].at \in {"idle", "reget"}
    BY <1>1, LeftGoes DEF StoreFails, HasLeft
  <2> QED
    BY <1>1, <2>1, SameFollows DEF StoreFails, fields, Closing
<1> QED
  BY <1>1, JoinFollow, MoveFollow, BubbleFollow, LeaveFollow DEF StepOf

-----------------------------------------------------------------------------
(* Bubbles, when handlers do not overlap.                                  *)

\* Connection d is a member of bubble b, or of none, and of no other one.
MemberOf(d, b) ==
    /\ b # NoBubble => b \in DOMAIN bubbles
    /\ \A x \in DOMAIN bubbles : d \in bubbles[x].members <=> x = b

\* Connection c is leaving a bubble,
GoingOut(c) ==
    \/ job[c].at \in {"recordLeave", "deleteBubble"}
    \/ job[c].at = "setBubble" /\ job[c].op = "leave"

\* or the room, and its bubbles have not been cleared.
Cleaning == {"delPresence", "listBubbles", "clearBubbles"}

\* What connection c is about to do to a bubble fits the bubbles as they are.
InHand(c) ==
    /\ GoingOut(c) \/ job[c].at = "reget" => bubble[c] = NoBubble
    /\ GoingOut(c) /\ job[c].id # NoBubble => job[c].blob = Without(bubbles[job[c].id], c)
    /\ job[c].at = "deleteBubble" => job[c].blob.members = {} /\ job[c].id # NoBubble
    /\ job[c].at = "setBubble" =>
         /\ \A d \in Conns : d # c =>
              (d \in job[c].blob.members <=>
                 job[c].id \in DOMAIN bubbles /\ d \in bubbles[job[c].id].members)
         /\ job[c].blob.members \cup job[c].blob.invites \subseteq Joined
         /\ job[c].op \in {"create", "accept"} => bubble[c] = NoBubble /\ c \in job[c].blob.members
         /\ job[c].op = "create" => job[c].id \notin DOMAIN bubbles /\ job[c].id \in 1..minted
         /\ job[c].op # "create" => job[c].id \in DOMAIN bubbles
         /\ job[c].op = "invite" => job[c].blob.members = bubbles[job[c].id].members
    /\ job[c].at = "clearBubbles" =>
         /\ \A b \in DOMAIN bubbles : c \in bubbles[b].members \cup bubbles[b].invites =>
              job[c].snap[b] # EmptyBubble
         /\ \A b \in BubbleID : job[c].snap[b] # EmptyBubble =>
              b \in DOMAIN bubbles /\ bubbles[b] = job[c].snap[b]
    /\ job[c].at = "push" => job[c].id \in DOMAIN bubbles

\* Bubbles and clients say the same, but for what connection c is about to write.
BubblesCalm(c) ==
    /\ DOMAIN bubbles \subseteq 1..minted
    /\ \A d \in Joined : d # c => MemberOf(d, bubble[d])
    /\ c \in Joined => MemberOf(c, IF GoingOut(c) THEN job[c].id ELSE bubble[c])
    /\ \A b \in DOMAIN bubbles : \A d \in bubbles[b].members \cup bubbles[b].invites :
         d \in Joined \/ (d = c /\ job[c].at \in Cleaning)
    /\ chats \subseteq DOMAIN bubbles
    /\ InHand(c)

\* A step that has nothing to do with bubbles.
LEMMA Uninvolved ==
    ASSUME NEW c \in Conns, BubblesCalm(c), UNCHANGED <<phase, bubble, bubbles, chats, minted>>,
           job[c].at \notin {"setBubble", "recordLeave", "deleteBubble"} \cup Cleaning,
           job'[c].at \notin {"setBubble", "recordLeave", "deleteBubble", "reget", "push",
                              "clearBubbles"}
    PROVE  BubblesCalm(c)'
  BY DEF BubblesCalm, InHand, GoingOut, Joined, MemberOf, Cleaning

\* Who reads a bubble to join it will write it as it is, with one more member.
LEMMA WillAccepts ==
    ASSUME OfficeInv, NEW c \in Conns, BubblesCalm(c), NEW b \in DOMAIN bubbles, WillAccept(c, b),
           UNCHANGED <<phase, bubble, bubbles, chats, minted>>,
           phase[c] = "joined", job[c].at \in {"idle", "reget"}, bubble[c] = NoBubble
    PROVE  BubblesCalm(c)'
<1>1. /\ job'[c].at = "setBubble" /\ job'[c].op = "accept" /\ job'[c].id = b
      /\ job'[c].blob = [members |-> bubbles[b].members \cup {c},
                         invites |-> bubbles[b].invites \ {c}]
  BY WillAcceptGoes
<1>2. c \in Joined /\ bubbles[b].members \cup bubbles[b].invites \subseteq Joined
  BY DEF BubblesCalm, Joined, Cleaning
<1>3. InHand(c)' /\ ~GoingOut(c)'
  BY <1>1, <1>2 DEF InHand, GoingOut, Joined
<1>4. MemberOf(c, bubble[c])
  BY <1>2 DEF BubblesCalm, GoingOut
<1>5. \A d \in Joined : d # c => MemberOf(d, bubble[d])
  BY DEF BubblesCalm
<1> QED
  BY <1>2, <1>3, <1>4, <1>5 DEF BubblesCalm, Joined, Cleaning, MemberOf

\* Joining keeps what BubblesCalm says,
LEMMA JoinBubbles ==
    ASSUME OfficeInv, ClientsInv, NEW c \in Conns, JoinStep(c), Alone(c),
           BubblesCalm(c), faults = 0, faults' = 0
    PROVE  BubblesCalm(c)'
<1>0. ClientOK(c, job[c], phase[c], place[c], bubble[c], following[c], voice[c])
  BY DEF ClientsInv
<1>1. CASE Register(c)
  BY <1>0, <1>1, Shape, HandlerFacts
     DEF Register, BubblesCalm, InHand, GoingOut, MemberOf, fields, redis, bounds, Ready, Idle,
         Joined, Cleaning, ClientOK
<1>2. CASE HandleJoin(c)
  <2>1. /\ phase[c] = "open" /\ phase' = [phase EXCEPT ![c] = "joined"] /\ job[c].at = "idle"
        /\ UNCHANGED <<bubble, bubbles, chats, minted>> /\ bubble[c] = NoBubble
    BY <1>0, <1>2 DEF HandleJoin, Ready, Idle, fields, redis, ClientOK
  <2>2. job'[c].at = "spawn"
    <3>1. ~Fault
      BY OfficeAssumption, HandlerFacts DEF Fault, GoesWrong
    <3> QED
      BY <1>2, <3>1, Shape DEF HandleJoin, Goto, Idle
  <2>3. Joined' = Joined \cup {c} /\ c \notin Joined
    BY <2>1, Shape DEF Joined
  <2>4. \A b \in DOMAIN bubbles : c \notin bubbles[b].members
    BY <2>1, <2>3 DEF BubblesCalm, Cleaning
  <2>5. MemberOf(c, NoBubble)
    BY <2>4 DEF BubblesCalm, MemberOf, NoBubble
  <2>6. (\A d \in Joined : d # c => MemberOf(d, bubble[d]))'
    BY <2>1, <2>3 DEF BubblesCalm, MemberOf
  <2>7. InHand(c)' /\ ~GoingOut(c)'
    BY <2>2 DEF InHand, GoingOut
  <2>8. (MemberOf(c, IF GoingOut(c) THEN job[c].id ELSE bubble[c]))'
    BY <2>1, <2>5, <2>7 DEF MemberOf
  <2> QED
    BY <2>1, <2>2, <2>3, <2>6, <2>7, <2>8 DEF BubblesCalm, Cleaning
<1>3. CASE SpawnPresence(c)
  BY <1>0, <1>3, Shape, Uninvolved DEF SpawnPresence, At, Goto, Idle, Joined, Cleaning
<1>4. CASE GetAllPresence(c)
  BY <1>0, <1>4, Shape, Uninvolved
     DEF GetAllPresence, fields, redis, bounds, At, Goto, Idle, Joined, Cleaning
<1>5. CASE ClientsInRoom(c)
  BY <1>0, <1>5, Shape, Uninvolved
     DEF ClientsInRoom, fields, redis, bounds, At, Goto, Idle, Joined, Cleaning
<1>6. CASE PurgeGhosts(c)
  <2>1. c \in Joined /\ phase[c] = "joined"
    BY <1>0, <1>6, PurgeGoes DEF ClientOK, Left, Closing, Joined
  <2> QED
    BY <1>6, <2>1, PurgeTurns, PurgeGoes, Uninvolved DEF Joined, Cleaning
<1> QED
  BY <1>1, <1>2, <1>3, <1>4, <1>5, <1>6 DEF JoinStep

\* moving does,
LEMMA MoveBubbles ==
    ASSUME OfficeInv, ClientsInv, NEW c \in Conns, MoveStep(c), Alone(c),
           BubblesCalm(c), faults = 0, faults' = 0
    PROVE  BubblesCalm(c)'
<1>0. ClientOK(c, job[c], phase[c], place[c], bubble[c], following[c], voice[c])
  BY DEF ClientsInv
<1>1. CASE PresenceUpdate(c)
  BY <1>0, <1>1, Shape, Uninvolved
     DEF PresenceUpdate, fields, redis, bounds, Goto, Request, Ready, Idle, Cleaning
<1>2. CASE Moved(c)
  BY <1>0, <1>2, Shape, Uninvolved DEF Moved, bounds, At, Goto, Idle, Cleaning
<1>3. CASE FollowStart(c)
  BY <1>0, <1>3, Shape, Uninvolved
     DEF FollowStart, fields, redis, bounds, Goto, Request, Ready, Idle, Joined, Cleaning
<1>4. CASE SetFollowing(c)
  BY <1>0, <1>4, Shape, Uninvolved
     DEF SetFollowing, redis, bounds, At, Goto, Idle, Cleaning, Follows
<1>5. CASE FollowStop(c)
  BY <1>0, <1>5, Shape, Uninvolved
     DEF FollowStop, redis, bounds, Goto, Request, Ready, Idle, Cleaning, Follows
<1>6. CASE RecordFollow(c)
  BY <1>0, <1>6, Shape, Uninvolved DEF RecordFollow, fields, At, Goto, Idle, Cleaning
<1>7. CASE VoiceTokenRequest(c)
  BY <1>0, <1>7, Shape, Uninvolved
     DEF VoiceTokenRequest, redis, bounds, Request, Ready, Idle, Cleaning
<1> QED
  BY <1>1, <1>2, <1>3, <1>4, <1>5, <1>6, <1>7 DEF MoveStep

\* so do the handlers of bubbles: what they write is what they read and their own change,
LEMMA BubbleBubbles ==
    ASSUME OfficeInv, ClientsInv, NEW c \in Conns, BubbleStep(c), Alone(c),
           BubblesCalm(c), faults = 0, faults' = 0
    PROVE  BubblesCalm(c)'
<1>0. ClientOK(c, job[c], phase[c], place[c], bubble[c], following[c], voice[c])
  BY DEF ClientsInv
<1>1. CASE InviteToBubble(c)
  BY <1>0, <1>1, Shape, HandlerFacts
     DEF InviteToBubble, BubblesCalm, InHand, GoingOut, MemberOf, fields, redis, bounds, Goto,
         Request, Ready, Idle, Joined, Cleaning, Without, HDel, HSet
<1>2. CASE CreateBubble(c)
  BY <1>0, <1>2, Shape, HandlerFacts
     DEF CreateBubble, BubblesCalm, InHand, GoingOut, MemberOf, fields, redis, Goto, Request,
         Ready, Idle, Joined, Cleaning, Without, HDel, HSet
<1>3. CASE BubbleAccept(c)
  <2>1. /\ phase[c] = "joined" /\ job[c].at = "idle"
        /\ UNCHANGED <<phase, bubble, bubbles, chats, minted>>
    BY <1>3 DEF BubbleAccept, Request, Ready, Idle, fields, redis, bounds
  <2>2. PICK b \in DOMAIN bubbles :
          /\ c \notin bubbles[b].members
          /\ \/ bubble[c] \in {NoBubble, b} /\ WillAccept(c, b)
             \/ job'[c].at = "getOwn" /\ job'[c].id = NoBubble
    BY <1>3, AcceptGoes
  <2>3. CASE bubble[c] \in {NoBubble, b} /\ WillAccept(c, b)
    <3>1. bubble[c] = NoBubble
      BY <2>1, <2>2, <2>3 DEF BubblesCalm, MemberOf, GoingOut, Joined
    <3> QED
      BY <2>1, <2>3, <3>1, WillAccepts
  <2>4. CASE job'[c].at = "getOwn"
    BY <2>1, <2>4, Uninvolved DEF Cleaning
  <2> QED
    BY <2>2, <2>3, <2>4
<1>4. CASE RegetBubble(c)
  <2>1. /\ phase[c] = "joined" /\ job[c].at = "reget"
        /\ UNCHANGED <<phase, bubble, bubbles, chats, minted>> /\ bubble[c] = NoBubble
    BY <1>0, <1>4
       DEF RegetBubble, At, fields, redis, bounds, ClientOK, Left, Closing, BubblesCalm, InHand
  <2>2. CASE Goto(c, Idle)
    <3>1. job'[c].at = "idle"
      BY <2>2, Shape DEF Goto, Idle
    <3> QED
      BY <2>1, <3>1, Uninvolved DEF Cleaning
  <2>3. CASE job[c].next \in DOMAIN bubbles /\ WillAccept(c, job[c].next)
    BY <2>1, <2>3, WillAccepts
  <2> QED
    BY <1>4, <2>2, <2>3 DEF RegetBubble
<1>5. CASE BubbleLeave(c)
  BY <1>0, <1>5, Shape, Uninvolved
     DEF BubbleLeave, fields, redis, bounds, Goto, Request, Ready, Idle, Joined, Cleaning
<1>6. CASE GetOwnBubble(c)
  BY <1>0, <1>6, Shape, HandlerFacts
     DEF GetOwnBubble, BubblesCalm, InHand, GoingOut, MemberOf, redis, bounds, At, Goto, Idle,
         Joined, Cleaning, Without, HDel, HSet
<1>7. CASE RecordLeave(c)
  <2>1. /\ job[c].at = "recordLeave" /\ phase[c] = "joined" /\ c \in Joined
        /\ UNCHANGED <<phase, bubble, bubbles, chats, minted>>
    BY <1>0, <1>7 DEF RecordLeave, At, ClientOK, Left, Closing, Joined
  <2>2. GoingOut(c) /\ bubble[c] = NoBubble /\ MemberOf(c, job[c].id)
    BY <2>1 DEF BubblesCalm, InHand, GoingOut
  <2>3. CASE job[c].id = NoBubble /\ HasLeft(c)
    <3>1. InHand(c)' /\ ~GoingOut(c)'
      BY <2>1, <2>2, <2>3 DEF InHand, GoingOut, HasLeft
    <3>2. MemberOf(c, bubble[c])'
      BY <2>1, <2>2, <2>3 DEF MemberOf
    <3> QED
      BY <2>1, <2>3, <3>1, <3>2 DEF BubblesCalm, HasLeft, Joined, MemberOf, Cleaning
  <2>4. CASE /\ job[c].id # NoBubble
             /\ job'[c].at = IF job[c].blob.members = {} THEN "deleteBubble" ELSE "setBubble"
             /\ job'[c].op = "leave" /\ job'[c].id = job[c].id /\ job'[c].blob = job[c].blob
    <3>1. GoingOut(c)' /\ job'[c].at \in {"deleteBubble", "setBubble"}
      BY <2>4 DEF GoingOut
    <3>2. job[c].id \in DOMAIN bubbles /\ job[c].blob = Without(bubbles[job[c].id], c)
      BY <2>1, <2>2, <2>4 DEF BubblesCalm, InHand, MemberOf
    <3>3. /\ c \notin job[c].blob.members /\ c \notin job[c].blob.invites
          /\ \A d \in Conns :
               d # c => (d \in job[c].blob.members <=> d \in bubbles[job[c].id].members)
          /\ job[c].blob.members \cup job[c].blob.invites \subseteq Joined
      BY <2>1, <3>2 DEF BubblesCalm, Without, Joined, Cleaning
    <3>4. InHand(c)'
      BY <2>1, <2>2, <2>4, <3>1, <3>2, <3>3 DEF InHand, Joined, Without
    <3> QED
      BY <2>1, <2>2, <2>4, <3>1, <3>4 DEF BubblesCalm, Joined, MemberOf, Cleaning
  <2> QED
    BY <1>7, <2>3, <2>4, RecordLeaveGoes
<1>8. CASE DeleteBubble(c)
  <2> DEFINE b == job[c].id
  <2>1. /\ job[c].at = "deleteBubble" /\ phase[c] = "joined" /\ c \in Joined
        /\ UNCHANGED <<phase, bubble, minted>>
    BY <1>0, <1>8 DEF DeleteBubble, At, ClientOK, Left, Closing, Joined, fields
  <2>2. /\ MemberOf(c, b) /\ bubble[c] = NoBubble /\ b # NoBubble
        /\ job[c].blob = Without(bubbles[b], c) /\ job[c].blob.members = {}
    BY <2>1 DEF BubblesCalm, InHand, GoingOut
  <2>3. \A d \in Conns : d # c => d \notin bubbles[b].members
    BY <2>2 DEF Without
  <2>4. /\ bubbles' = HDel(bubbles, {b}) /\ chats' = chats \ {b} /\ Goto(c, AfterLeaving(c))
    BY <1>8, OfficeAssumption, HandlerFacts DEF DeleteBubble, Fault, GoesWrong
  <2>5. HasLeft(c)
    BY <2>4, LeftGoes
  <2>6. /\ DOMAIN bubbles' = DOMAIN bubbles \ {b}
        /\ \A x \in DOMAIN bubbles \ {b} : bubbles'[x] = bubbles[x]
    BY <2>4 DEF HDel
  <2> HIDE DEF b
  <2>7. InHand(c)' /\ ~GoingOut(c)'
    BY <2>1, <2>2, <2>5 DEF InHand, GoingOut, HasLeft
  <2>8. MemberOf(c, NoBubble)'
    BY <2>2, <2>6 DEF MemberOf, BubblesCalm, NoBubble
  <2>9. ASSUME NEW d \in Joined, d # c PROVE MemberOf(d, bubble[d])'
    <3>1. MemberOf(d, bubble[d]) /\ d \notin bubbles[b].members /\ b \in DOMAIN bubbles
      BY <2>2, <2>3, <2>9 DEF BubblesCalm, Joined, MemberOf
    <3> QED
      BY <2>1, <2>6, <3>1 DEF MemberOf
  <2>10. \A x \in DOMAIN bubbles' : \A d \in bubbles'[x].members \cup bubbles'[x].invites :
           d \in Joined
    BY <2>1, <2>6 DEF BubblesCalm, Cleaning
  <2>11. MemberOf(c, bubble[c])'
    BY <2>1, <2>2, <2>8 DEF MemberOf
  <2> QED
    BY <2>1, <2>4, <2>6, <2>7, <2>9, <2>10, <2>11 DEF BubblesCalm, Joined
<1>9. CASE SetBubble(c)
  <2> DEFINE b == job[c].id
             blob == job[c].blob
  <2>1. /\ job[c].at = "setBubble" /\ phase[c] = "joined" /\ c \in Joined
        /\ UNCHANGED <<phase, chats, minted>> /\ bubbles' = HSet(bubbles, b, blob)
    BY <1>0, <1>9 DEF SetBubble, At, ClientOK, Left, Closing, Joined, bounds
  <2>2. /\ DOMAIN bubbles' = DOMAIN bubbles \cup {b} /\ bubbles'[b] = blob
        /\ \A x \in DOMAIN bubbles : x # b => bubbles'[x] = bubbles[x]
    BY <2>1 DEF HSet
  <2>3. /\ \A d \in Conns :
             d # c => (d \in blob.members <=> b \in DOMAIN bubbles /\ d \in bubbles[b].members)
        /\ blob.members \cup blob.invites \subseteq Joined
        /\ b \in 1..minted
    BY <2>1, <1>0 DEF BubblesCalm, InHand, ClientOK
  <2> HIDE DEF b, blob
  <2>4. ASSUME NEW d \in Joined, d # c PROVE MemberOf(d, bubble[d])' /\ bubble'[d] = bubble[d]
    <3>1. bubble'[d] = bubble[d]
      BY <1>9, <2>4, SetBubbleGoes, Shape DEF Joined
    <3>2. MemberOf(d, bubble[d]) /\ d \in Conns
      BY <2>4 DEF BubblesCalm, Joined
    <3>3. bubble[d] # NoBubble => bubble[d] \in DOMAIN bubbles'
      BY <2>2, <3>2 DEF MemberOf
    <3>4. ASSUME NEW x \in DOMAIN bubbles' PROVE d \in bubbles'[x].members <=> x = bubble[d]
      <4>1. CASE x # b
        BY <2>2, <3>2, <3>4, <4>1 DEF MemberOf
      <4>2. CASE x = b /\ b \in DOMAIN bubbles
        BY <2>2, <2>3, <2>4, <3>2, <4>2 DEF MemberOf
      <4>3. CASE x = b /\ b \notin DOMAIN bubbles
        <5>1. b # NoBubble
          BY <2>3 DEF NoBubble
        <5> QED
          BY <2>2, <2>3, <2>4, <3>2, <4>3, <5>1 DEF MemberOf
      <4> QED
        BY <3>4, <2>2, <4>1, <4>2, <4>3
    <3> QED
      BY <3>1, <3>3, <3>4 DEF MemberOf
  <2>5. \A x \in DOMAIN bubbles' : \A d \in bubbles'[x].members \cup bubbles'[x].invites :
          d \in Joined'
    <3>1. \A x \in DOMAIN bubbles : \A d \in bubbles[x].members \cup bubbles[x].invites :
            d \in Joined
      BY <2>1 DEF BubblesCalm, Cleaning
    <3> QED
      BY <2>1, <2>2, <2>3, <3>1 DEF Joined
  <2>6. InHand(c)' /\ ~GoingOut(c)' /\ MemberOf(c, bubble[c])'
    <3>1. CASE job[c].op \in {"create", "accept"}
      <4>1. bubble'[c] = b /\ job'[c].at = "recordBubble"
        BY <1>9, <3>1, SetBubbleGoes, Shape DEF b
      <4>2. bubble[c] = NoBubble /\ c \in blob.members
        BY <2>1, <3>1 DEF BubblesCalm, InHand, blob
      <4>3. MemberOf(c, NoBubble)
        BY <2>1, <3>1, <4>2 DEF BubblesCalm, GoingOut
      <4>4. b # NoBubble
        BY <2>3 DEF NoBubble
      <4>7. \A x \in DOMAIN bubbles : c \notin bubbles[x].members
        BY <4>3 DEF MemberOf, BubblesCalm, NoBubble
      <4>5. MemberOf(c, bubble[c])'
        BY <2>2, <4>1, <4>2, <4>7 DEF MemberOf
      <4>6. InHand(c)' /\ ~GoingOut(c)'
        BY <4>1 DEF InHand, GoingOut
      <4> QED
        BY <4>5, <4>6
    <3>2. CASE job[c].op = "invite"
      <4>1. UNCHANGED bubble /\ HasLeft(c)
        BY <1>9, <3>2, SetBubbleGoes
      <4>2. MemberOf(c, bubble[c])
        BY <2>1, <3>2 DEF BubblesCalm, GoingOut
      <4>3. b \in DOMAIN bubbles /\ blob.members = bubbles[b].members
        BY <2>1, <3>2 DEF BubblesCalm, InHand, b, blob
      <4>4. MemberOf(c, bubble[c])'
        BY <2>2, <4>1, <4>2, <4>3 DEF MemberOf
      <4>5. job'[c].at = "idle"
        BY <1>9, <2>1, <3>2, Shape DEF SetBubble, Goto, Idle
      <4>6. InHand(c)' /\ ~GoingOut(c)'
        BY <4>5 DEF InHand, GoingOut
      <4> QED
        BY <4>4, <4>6
    <3>3. CASE job[c].op = "leave"
      <4>1. UNCHANGED bubble /\ HasLeft(c)
        BY <1>9, <3>3, SetBubbleGoes
      <4>2. GoingOut(c)
        BY <2>1, <3>3 DEF GoingOut
      <4>3. b \in DOMAIN bubbles
        BY <2>1, <3>3 DEF BubblesCalm, InHand, b
      <4>7. bubble[c] = NoBubble /\ MemberOf(c, b)
        BY <2>1, <4>2 DEF BubblesCalm, InHand, b
      <4>8. blob = Without(bubbles[b], c)
        BY <2>3, <4>2 DEF BubblesCalm, InHand, b, blob, NoBubble
      <4>9. b # NoBubble /\ c \notin blob.members
        BY <2>3, <4>8 DEF NoBubble, Without
      <4>10. NoBubble \notin DOMAIN bubbles'
        BY <2>2, <2>3 DEF BubblesCalm, NoBubble
      <4>4. MemberOf(c, NoBubble)'
        BY <2>2, <4>3, <4>7, <4>9, <4>10 DEF MemberOf
      <4>5. InHand(c)' /\ ~GoingOut(c)'
        BY <4>1, <4>7 DEF InHand, GoingOut, HasLeft
      <4>6. MemberOf(c, bubble[c])'
        BY <4>1, <4>4, <4>7 DEF MemberOf
      <4> QED
        BY <4>5, <4>6
    <3> QED
      BY <1>9, <3>1, <3>2, <3>3, SetBubbleGoes
  <2>7. DOMAIN bubbles' \subseteq 1..minted' /\ chats' \subseteq DOMAIN bubbles'
    BY <2>1, <2>2, <2>3 DEF BubblesCalm
  <2>8. Joined' = Joined
    BY <2>1 DEF Joined
  <2> QED
    BY <2>4, <2>5, <2>6, <2>7, <2>8 DEF BubblesCalm
<1>10. CASE RecordBubble(c)
  BY <1>0, <1>10, Shape, Uninvolved DEF RecordBubble, fields, At, Goto, Idle, Joined, Cleaning
<1>11. CASE SyncVoice(c)
  BY <1>11, SyncVoiceGoes, Uninvolved DEF SyncVoice, redis, bounds, At, Cleaning
<1>12. CASE BubbleSend(c)
  BY <1>0, <1>12, Shape, HandlerFacts
     DEF BubbleSend, BubblesCalm, InHand, GoingOut, MemberOf, fields, redis, bounds, Goto,
         Request, Ready, Idle, Joined, Cleaning, Without, HDel, HSet
<1>13. CASE PushChannelMessage(c)
  BY <1>0, <1>13, Shape, HandlerFacts
     DEF PushChannelMessage, BubblesCalm, InHand, GoingOut, MemberOf, fields, At, Goto, Idle,
         Joined, Cleaning, Without, HDel, HSet
<1> QED
  BY <1>1, <1>2, <1>3, <1>4, <1>5, <1>6, <1>7, <1>8, <1>9, <1>10, <1>11, <1>12, <1>13
     DEF BubbleStep

\* and leaving, which takes the connection out of every bubble it is in.
LEMMA LeaveBubbles ==
    ASSUME OfficeInv, ClientsInv, NEW c \in Conns, LeaveStep(c), Alone(c),
           BubblesCalm(c), faults = 0, faults' = 0
    PROVE  BubblesCalm(c)'
<1>0. ClientOK(c, job[c], phase[c], place[c], bubble[c], following[c], voice[c])
  BY DEF ClientsInv
<1>1. CASE Unregister(c)
  BY <1>0, <1>1, Shape, HandlerFacts
     DEF Unregister, BubblesCalm, InHand, GoingOut, MemberOf, redis, bounds, Goto, Ready, Idle,
         Joined, Cleaning, Without, HDel, HSet
<1>2. CASE DeletePresence(c)
  BY <1>0, <1>2, Shape, HandlerFacts
     DEF DeletePresence, BubblesCalm, InHand, GoingOut, MemberOf, fields, At, Goto, Idle,
         Joined, Cleaning, Without, HDel, HSet
<1>3. CASE ListBubbles(c)
  <2>1. /\ job[c].at = "listBubbles" /\ phase[c] = "closed" /\ c \notin Joined
        /\ UNCHANGED <<phase, bubble, bubbles, chats, minted>>
    BY <1>0, <1>3 DEF ListBubbles, At, ClientOK, Left, Closing, Joined, fields, redis, bounds
  <2>2. /\ job'[c].at = "clearBubbles"
        /\ job'[c].snap = [b \in BubbleID |->
                              IF b \in DOMAIN bubbles
                                 /\ c \in bubbles[b].members \cup bubbles[b].invites
                              THEN bubbles[b] ELSE EmptyBubble]
    BY <1>3, Shape DEF ListBubbles, Goto, Idle
  <2>3. ASSUME NEW b \in DOMAIN bubbles, c \in bubbles[b].members \cup bubbles[b].invites
        PROVE  job'[c].snap[b] # EmptyBubble
    <3>1. b \in BubbleID
      BY HandlerFacts
    <3>2. job'[c].snap[b] = bubbles[b]
      BY <2>2, <2>3, <3>1
    <3> QED
      BY <2>3, <3>2 DEF EmptyBubble
  <2>4. InHand(c)'
    BY <2>1, <2>2, <2>3 DEF InHand, GoingOut
  <2> QED
    BY <2>1, <2>2, <2>4 DEF BubblesCalm, Joined, Cleaning, MemberOf
<1>4. CASE ClearBubbles(c)
  <2>1. /\ job[c].at = "clearBubbles" /\ phase[c] = "closed" /\ c \notin Joined
        /\ UNCHANGED <<phase, bubble, minted>>
    BY <1>0, <1>4 DEF ClearBubbles, At, ClientOK, Left, Closing, Joined, fields
  <2>2. /\ \A b \in DOMAIN bubbles : c \in bubbles[b].members \cup bubbles[b].invites =>
              job[c].snap[b] # EmptyBubble
        /\ \A b \in BubbleID : job[c].snap[b] # EmptyBubble =>
              b \in DOMAIN bubbles /\ bubbles[b] = job[c].snap[b]
        /\ DOMAIN bubbles \subseteq BubbleID
    BY <2>1, HandlerFacts DEF BubblesCalm, InHand
  <2>3. ~Fault
    BY OfficeAssumption, HandlerFacts DEF Fault, GoesWrong
  <2>4. CASE /\ job'[c].at = "clearFollowers" /\ \A b \in BubbleID : job[c].snap[b] = EmptyBubble
             /\ UNCHANGED <<bubbles, chats>>
    <3>1. \A b \in DOMAIN bubbles : c \notin bubbles[b].members \cup bubbles[b].invites
      BY <2>2, <2>4
    <3>2. \A b \in DOMAIN bubbles : \A d \in bubbles[b].members \cup bubbles[b].invites :
            d \in Joined
      BY <3>1 DEF BubblesCalm
    <3>3. InHand(c)'
      BY <2>4 DEF InHand, GoingOut
    <3> QED
      BY <2>1, <2>4, <3>2, <3>3 DEF BubblesCalm, Joined, MemberOf
  <2>5. ASSUME NEW b \in BubbleID, job'[c].at = "clearBubbles", job[c].snap[b] # EmptyBubble,
               job'[c].snap = [job[c].snap EXCEPT ![b] = EmptyBubble],
               LET left == Without(job[c].snap[b], c)
               IN  IF left.members = {}
                   THEN bubbles' = HDel(bubbles, {b}) /\ chats' = chats \ {b}
                   ELSE bubbles' = HSet(bubbles, b, left) /\ UNCHANGED chats
        PROVE  BubblesCalm(c)'
    <3> DEFINE left == Without(bubbles[b], c)
    <3>1. b \in DOMAIN bubbles /\ bubbles[b] = job[c].snap[b] /\ DOMAIN job[c].snap = BubbleID
      BY <2>2, <2>5, JobRecord
    <3>2. /\ c \notin left.members \cup left.invites
          /\ left.members \subseteq bubbles[b].members /\ left.invites \subseteq bubbles[b].invites
          /\ \A d \in Conns : d # c => (d \in left.members <=> d \in bubbles[b].members)
      BY DEF Without
    <3>3. \/ /\ left.members = {} /\ chats' = chats \ {b} /\ DOMAIN bubbles' = DOMAIN bubbles \ {b}
             /\ \A x \in DOMAIN bubbles \ {b} : bubbles'[x] = bubbles[x]
          \/ /\ chats' = chats /\ DOMAIN bubbles' = DOMAIN bubbles /\ bubbles'[b] = left
             /\ \A x \in DOMAIN bubbles \ {b} : bubbles'[x] = bubbles[x]
      BY <2>5, <3>1 DEF HDel, HSet
    <3> HIDE DEF left
    <3>4. chats' \subseteq DOMAIN bubbles' /\ DOMAIN bubbles' \subseteq 1..minted
      BY <3>3 DEF BubblesCalm
    <3>5. \A x \in DOMAIN bubbles' : x \in DOMAIN bubbles /\ (x # b => bubbles'[x] = bubbles[x])
                                 /\ (x = b => bubbles'[x] = left)
      BY <3>3
    <3>6. ASSUME NEW d \in Joined, d # c PROVE MemberOf(d, bubble[d])'
      <4>1. MemberOf(d, bubble[d]) /\ d \in Conns
        BY <3>6 DEF BubblesCalm, Joined
      <4>2. \A x \in DOMAIN bubbles' : d \in bubbles'[x].members <=> d \in bubbles[x].members
        BY <3>2, <3>5, <3>6, <4>1
      <4>3. bubble[d] # NoBubble => bubble[d] \in DOMAIN bubbles'
        BY <3>1, <3>2, <3>3, <3>6, <4>1 DEF MemberOf
      <4> QED
        BY <2>1, <3>5, <4>1, <4>2, <4>3 DEF MemberOf
    <3>7. \A x \in DOMAIN bubbles' : \A d \in bubbles'[x].members \cup bubbles'[x].invites :
             d \in Joined \/ d = c
      BY <3>2, <3>5 DEF BubblesCalm
    <3>8. InHand(c)'
      <4>1. \A x \in BubbleID : job'[c].snap[x] = IF x = b THEN EmptyBubble ELSE job[c].snap[x]
        BY <2>5, <3>1
      <4>2. \A x \in DOMAIN bubbles' :
              c \in bubbles'[x].members \cup bubbles'[x].invites => job'[c].snap[x] # EmptyBubble
        BY <2>2, <3>2, <3>5, <4>1
      <4>3. \A x \in BubbleID :
              job'[c].snap[x] # EmptyBubble =>
                x \in DOMAIN bubbles' /\ bubbles'[x] = job'[c].snap[x]
        BY <2>2, <3>3, <4>1
      <4> QED
        BY <2>5, <4>2, <4>3 DEF InHand, GoingOut
    <3> QED
      BY <2>1, <2>5, <3>4, <3>6, <3>7, <3>8 DEF BubblesCalm, Joined, Cleaning
  <2> QED
    BY <1>4, <2>3, <2>4, <2>5, ClearBubblesGoes
<1>5. CASE ClearFollowers(c)
  BY <1>0, <1>5, Shape, Uninvolved
     DEF ClearFollowers, redis, bounds, At, Goto, Idle, Joined, Cleaning
<1>6. CASE PersistFollowers(c)
  BY <1>6, PersistGoes, Uninvolved DEF PersistFollowers, fields, redis, bounds, At, Cleaning
<1>7. CASE RecordFollower(c)
  BY <1>0, <1>7, Shape, Uninvolved DEF RecordFollower, fields, At, Goto, Idle, Joined, Cleaning
<1> QED
  BY <1>1, <1>2, <1>3, <1>4, <1>5, <1>6, <1>7 DEF LeaveStep

-----------------------------------------------------------------------------
(* Presence records, when handlers do not overlap.                         *)

\* Calls that write a record: the handler's own, and its followers'; and those of joining.
Telling == {"recordFollow", "recordLeave", "recordBubble"}
Asking == {"persistFollowers", "recordFollower"}
Joining == {"spawn", "readPresence", "readClients", "purge"}

\* The presence record of d is what its client says.
Recorded(d) == d \in DOMAIN presence /\ presence[d] = PresenceOf(d)

\* What connection c is about to record fits the clients as they are.
ToRecord(c) ==
    /\ job[c].at \in Telling => job[c].who = c /\ job[c].record = PresenceOf(c)
    /\ job[c].at = "move" =>
         job[c].record.bubble = bubble[c] /\ job[c].record.following = following[c]
    /\ job[c].at \in Asking => \A f \in job[c].rest : f \in Joined /\ following[f] = None
    /\ job[c].at = "recordFollower" =>
         job[c].who \in Joined /\ job[c].record = PresenceOf(job[c].who)

\* Nobody has left a record behind, or connection c is about to find it.
NoGhosts(c) ==
    \A g \in DOMAIN presence :
      \/ g \in Joined
      \/ (g = c /\ job[c].at = "delPresence")
      \/ Joined = {}
      \/ job[c].at \in {"spawn", "readPresence"}
      \/ (job[c].at \in {"readClients", "purge"} /\ g \in job[c].rest)

\* Records and clients say the same, but for what connection c is about to write.
PresenceCalm(c) ==
    /\ \A d \in Joined : d # c =>
         \/ Recorded(d)
         \/ /\ d \in DOMAIN presence
            /\ \/ job[c].at \in Asking /\ d \in job[c].rest
               \/ job[c].at = "recordFollower" /\ d = job[c].who
    /\ c \in Joined => \/ job[c].at = "spawn"
                       \/ job[c].at \in Telling /\ c \in DOMAIN presence
                       \/ Recorded(c)
    /\ ToRecord(c)
    /\ NoGhosts(c)

\* No call of Redis fails in this behaviour, or none has.
NoFault == faults = 0 \/ "fault" \notin setting.traffic

\* A step that changes no record and nothing a record is made of.
LEMMA SameRecords ==
    ASSUME NEW c \in Conns, PresenceCalm(c),
           UNCHANGED <<phase, place, bubble, following, presence>>,
           job[c].at \notin {"spawn", "delPresence"} \cup Joining \cup Telling \cup Asking,
           job'[c].at \notin {"spawn", "move"} \cup Telling \cup Asking
    PROVE  PresenceCalm(c)'
  BY DEF PresenceCalm, ToRecord, NoGhosts, Recorded, PresenceOf, Joined, Telling, Asking,
         Joining

\* A handler that writes its own record writes what its client says.
LEMMA OwnRecord ==
    ASSUME OfficeInv, NEW c \in Joined, PresenceCalm(c), job[c].at \in Telling,
           TrySetPresence(job[c]), ~Fault,
           UNCHANGED <<phase, place, bubble, following>>,
           job'[c].at \notin {"spawn", "move"} \cup Telling \cup Asking
    PROVE  PresenceCalm(c)'
<1>1. presence' = HSet(presence, c, PresenceOf(c)) /\ c \in Conns
  BY DEF TrySetPresence, PresenceCalm, ToRecord, Joined
<1>2. /\ DOMAIN presence' = DOMAIN presence \cup {c} /\ presence'[c] = PresenceOf(c)
      /\ \A d \in DOMAIN presence : d # c => presence'[d] = presence[d]
  BY <1>1 DEF HSet
<1>3. Joined' = Joined /\ \A d \in Conns : PresenceOf(d)' = PresenceOf(d)
  BY DEF Joined, PresenceOf
<1>4. \A d \in Joined : d # c => Recorded(d)'
  <2>1. \A d \in Joined : d # c => Recorded(d) /\ d \in Conns
    BY DEF PresenceCalm, Telling, Asking, Joined
  <2> QED
    BY <1>2, <1>3, <2>1 DEF Recorded
<1>5. Recorded(c)'
  BY <1>1, <1>2, <1>3 DEF Recorded
<1>6. ToRecord(c)'
  BY DEF ToRecord, Telling, Asking
<1>7. NoGhosts(c)'
  BY <1>2, <1>3 DEF PresenceCalm, NoGhosts, Telling
<1> QED
  BY <1>3, <1>4, <1>5, <1>6, <1>7 DEF PresenceCalm

\* Joining keeps what PresenceCalm says: it adds its record and finds the ghosts,
LEMMA JoinRecords ==
    ASSUME OfficeInv, ClientsInv, NEW c \in Conns, JoinStep(c), Alone(c),
           PresenceCalm(c), setting' = setting, NoFault, NoFault'
    PROVE  PresenceCalm(c)'
<1>0. ClientOK(c, job[c], phase[c], place[c], bubble[c], following[c], voice[c]) /\ ~Fault
  BY OfficeAssumption, HandlerFacts DEF ClientsInv, Fault, GoesWrong, NoFault
<1>1. CASE Register(c)
  BY <1>0, <1>1, Shape
     DEF Register, PresenceCalm, ToRecord, NoGhosts, Recorded, PresenceOf, fields, redis,
         bounds, Ready, Idle, Joined, Telling, Asking, ClientOK, HDel
<1>2. CASE HandleJoin(c)
  BY <1>0, <1>2, Shape
     DEF HandleJoin, PresenceCalm, ToRecord, NoGhosts, Recorded, PresenceOf, fields, redis,
         Goto, Ready, Idle, Joined, Telling, Asking, ClientOK, HDel
<1>3. CASE SpawnPresence(c)
  BY <1>0, <1>3, Shape
     DEF SpawnPresence, PresenceCalm, ToRecord, NoGhosts, Recorded, PresenceOf, At, Goto, Idle,
         Joined, Telling, Asking, ClientOK, HSet, HDel
<1>4. CASE GetAllPresence(c)
  <2>1. /\ job[c].at = "readPresence" /\ job'[c].at = "readClients"
        /\ job'[c].rest = DOMAIN presence
    BY <1>0, <1>4, Shape DEF GetAllPresence, At, Goto, Idle
  <2>2. UNCHANGED <<phase, place, bubble, following, presence>>
    BY <1>4 DEF GetAllPresence, fields, redis
  <2> QED
    BY <2>1, <2>2
       DEF PresenceCalm, ToRecord, NoGhosts, Recorded, PresenceOf, Joined, Telling, Asking
<1>5. CASE ClientsInRoom(c)
  BY <1>0, <1>5, Shape
     DEF ClientsInRoom, PresenceCalm, ToRecord, NoGhosts, Recorded, PresenceOf, fields, redis,
         bounds, At, Goto, Idle, Joined, Telling, Asking, ClientOK, HDel
<1>6. CASE PurgeGhosts(c)
  <2>1. /\ job[c].at = "purge" /\ c \in Joined
        /\ UNCHANGED <<phase, place, bubble, following>> /\ job'[c].at \in {"idle", "purge"}
    BY <1>0, <1>6, PurgeGoes, PurgeTurns DEF ClientOK, Left, Closing, Joined
  <2>2. /\ \/ DOMAIN presence' = DOMAIN presence /\ job[c].rest = {}
           \/ \E g \in job[c].rest : /\ DOMAIN presence' = DOMAIN presence \ {g}
                                     /\ job'[c].at = "purge" /\ job'[c].rest = job[c].rest \ {g}
        /\ \A d \in DOMAIN presence' : presence'[d] = presence[d]
    <3>1. CASE job[c].rest = {} /\ UNCHANGED presence
      BY <3>1
    <3>2. ASSUME NEW g \in job[c].rest, NEW j \in Job, job' = [job EXCEPT ![c] = j],
                 [job[c] EXCEPT !.rest = @ \ {g}] = j, GhostPurged(g)
          PROVE  /\ DOMAIN presence' = DOMAIN presence \ {g}
                 /\ job'[c].at = "purge" /\ job'[c].rest = job[c].rest \ {g}
                 /\ \A d \in DOMAIN presence' : presence'[d] = presence[d]
      <4>1. presence' = HDel(presence, {g})
        BY <1>0, <3>2 DEF GhostPurged
      <4>2. job'[c] = j
        BY <3>2, Shape
      <4>3. j.at = "purge" /\ j.rest = job[c].rest \ {g}
        BY <2>1, <3>2, JobRecord
      <4> QED
        BY <4>1, <4>2, <4>3 DEF HDel
    <3> QED
      BY <1>6, <3>1, <3>2, PurgeGoes
  <2>3. \A d \in Joined : d \notin job[c].rest
    BY <2>1, HandlerFacts DEF Good, Gone, Joined, Met
  <2>4. Joined' = Joined /\ \A d \in Conns : PresenceOf(d)' = PresenceOf(d)
    BY <2>1 DEF PresenceOf, Joined
  <2>5. \A d \in Joined : Recorded(d)'
    <3>1. \A d \in Joined : Recorded(d) /\ d \in Conns
      BY <2>1 DEF PresenceCalm, Asking, Telling, Joined
    <3> QED
      BY <2>2, <2>3, <2>4, <3>1 DEF Recorded
  <2>6. ToRecord(c)'
    BY <2>1 DEF ToRecord, Telling, Asking
  <2>7. NoGhosts(c)'
    BY <2>1, <2>2, <2>4 DEF PresenceCalm, NoGhosts
  <2> QED
    BY <2>4, <2>5, <2>6, <2>7 DEF PresenceCalm
<1> QED
  BY <1>1, <1>2, <1>3, <1>4, <1>5, <1>6 DEF JoinStep

\* so does moving, which writes the record before the client,
LEMMA MoveRecords ==
    ASSUME OfficeInv, ClientsInv, NEW c \in Conns, MoveStep(c), Alone(c),
           PresenceCalm(c), setting' = setting, NoFault, NoFault'
    PROVE  PresenceCalm(c)'
<1>0. ClientOK(c, job[c], phase[c], place[c], bubble[c], following[c], voice[c]) /\ ~Fault
  BY OfficeAssumption, HandlerFacts DEF ClientsInv, Fault, GoesWrong, NoFault
<1>1. CASE PresenceUpdate(c)
  BY <1>0, <1>1, Shape
     DEF PresenceUpdate, PresenceCalm, ToRecord, NoGhosts, Recorded, PresenceOf, fields, redis,
         bounds, Goto, Request, Ready, Idle, Joined, Telling, Asking, ClientOK, HSet
<1>2. CASE Moved(c)
  <2>1. /\ job[c].at = "move" /\ c \in Joined
        /\ UNCHANGED <<phase, bubble, following>> /\ job'[c] = Idle
        /\ presence' = HSet(presence, c, job[c].record)
        /\ place' = [place EXCEPT ![c] = job[c].record.zone]
    BY <1>0, <1>2, Shape DEF Moved, At, ClientOK, Left, Closing, Joined, Goto
  <2>2. /\ DOMAIN presence' = DOMAIN presence \cup {c} /\ presence'[c] = job[c].record
        /\ \A d \in DOMAIN presence : d # c => presence'[d] = presence[d]
        /\ place'[c] = job[c].record.zone /\ \A d \in Conns : d # c => place'[d] = place[d]
    BY <2>1, Shape DEF HSet
  <2>3. job[c].record = PresenceOf(c)'
    <3>1. job[c].record \in Presence
      BY Shape DEF Job
    <3>2. job[c].record.bubble = bubble[c] /\ job[c].record.following = following[c]
      BY <2>1 DEF PresenceCalm, ToRecord
    <3>3. job[c].record = [zone |-> job[c].record.zone, bubble |-> job[c].record.bubble,
                           following |-> job[c].record.following]
      BY <3>1 DEF Presence
    <3> QED
      BY <2>1, <2>2, <3>2, <3>3 DEF PresenceOf
  <2>4. Joined' = Joined /\ \A d \in Conns : d # c => PresenceOf(d)' = PresenceOf(d)
    BY <2>1, <2>2 DEF PresenceOf, Joined
  <2>5. \A d \in Joined : d # c => Recorded(d)'
    <3>1. \A d \in Joined : d # c => Recorded(d) /\ d \in Conns
      BY <2>1 DEF PresenceCalm, Asking, Joined
    <3> QED
      BY <2>2, <2>4, <3>1 DEF Recorded
  <2>6. Recorded(c)'
    BY <2>2, <2>3 DEF Recorded
  <2>7. ToRecord(c)'
    BY <2>1 DEF ToRecord, Idle, Telling, Asking
  <2>8. NoGhosts(c)'
    BY <2>1, <2>2, <2>4 DEF PresenceCalm, NoGhosts
  <2> QED
    BY <2>4, <2>5, <2>6, <2>7, <2>8 DEF PresenceCalm
<1>3. CASE FollowStart(c)
  BY <1>0, <1>3, Shape, SameRecords
     DEF FollowStart, fields, redis, bounds, Goto, Request, Ready, Idle, Joined, Telling,
         Asking, Joining
<1>4. CASE SetFollowing(c)
  BY <1>0, <1>4, Shape
     DEF SetFollowing, PresenceCalm, ToRecord, NoGhosts, Recorded, PresenceOf, redis, bounds,
         At, Goto, Idle, Joined, Telling, Asking, ClientOK, HSet, Follows
<1>5. CASE FollowStop(c)
  BY <1>0, <1>5, Shape
     DEF FollowStop, PresenceCalm, ToRecord, NoGhosts, Recorded, PresenceOf, redis, bounds,
         Goto, Request, Ready, Idle, Joined, Telling, Asking, ClientOK, HSet, Follows
<1>6. CASE RecordFollow(c)
  <2>1. /\ job[c].at \in Telling /\ c \in Joined /\ TrySetPresence(job[c])
        /\ UNCHANGED <<phase, place, bubble, following>>
    BY <1>0, <1>6 DEF RecordFollow, At, Telling, Joined, ClientOK, Left, Closing, fields
  <2>2. job'[c].at \notin {"spawn", "move"} \cup Telling \cup Asking
    BY <1>6, Shape DEF RecordFollow, Telling, Asking, Goto, Idle
  <2> QED
    BY <1>0, <2>1, <2>2, OwnRecord
<1>7. CASE VoiceTokenRequest(c)
  BY <1>0, <1>7, Shape, SameRecords
     DEF VoiceTokenRequest, redis, bounds, Request, Ready, Idle, Joined, Telling, Asking,
         Joining
<1> QED
  BY <1>1, <1>2, <1>3, <1>4, <1>5, <1>6, <1>7 DEF MoveStep

\* so do the handlers of bubbles, which write the client before the record,
LEMMA BubbleRecords ==
    ASSUME OfficeInv, ClientsInv, NEW c \in Conns, BubbleStep(c), Alone(c),
           PresenceCalm(c), setting' = setting, NoFault, NoFault'
    PROVE  PresenceCalm(c)'
<1>0. ClientOK(c, job[c], phase[c], place[c], bubble[c], following[c], voice[c]) /\ ~Fault
  BY OfficeAssumption, HandlerFacts DEF ClientsInv, Fault, GoesWrong, NoFault
<1>1. CASE InviteToBubble(c)
  BY <1>0, <1>1, Shape, SameRecords
     DEF InviteToBubble, fields, redis, bounds, Goto, Request, Ready, Idle, Joined, Telling,
         Asking, Joining
<1>2. CASE CreateBubble(c)
  BY <1>0, <1>2, Shape, SameRecords
     DEF CreateBubble, fields, redis, Goto, Request, Ready, Idle, Joined, Telling, Asking,
         Joining
<1>3. CASE BubbleAccept(c)
  <2>1. job[c].at = "idle" /\ UNCHANGED <<phase, place, bubble, following, presence>>
    BY <1>3 DEF BubbleAccept, fields, redis, Request, Ready, Idle
  <2>2. job'[c].at \in {"setBubble", "getOwn"}
    BY <1>3, AcceptGoes, WillAcceptGoes
  <2> QED
    BY <2>1, <2>2, SameRecords DEF Telling, Asking, Joining
<1>4. CASE RegetBubble(c)
  BY <1>0, <1>4, LeftGoes, WillAcceptGoes, SameRecords
     DEF RegetBubble, fields, redis, At, Idle, Telling, Asking, Joining, HasLeft
<1>5. CASE BubbleLeave(c)
  BY <1>0, <1>5, Shape, SameRecords
     DEF BubbleLeave, fields, redis, bounds, Goto, Request, Ready, Idle, Joined, Telling,
         Asking, Joining
<1>6. CASE GetOwnBubble(c)
  BY <1>0, <1>6, Shape
     DEF GetOwnBubble, PresenceCalm, ToRecord, NoGhosts, Recorded, PresenceOf, redis, bounds,
         At, Goto, Joined, Telling, Asking, ClientOK
<1>7. CASE RecordLeave(c)
  <2>1. /\ job[c].at \in Telling /\ c \in Joined /\ TrySetPresence(job[c])
        /\ UNCHANGED <<phase, place, bubble, following>>
    BY <1>0, <1>7 DEF RecordLeave, At, Telling, Joined, ClientOK, Left, Closing
  <2>2. job'[c].at \notin {"spawn", "move"} \cup Telling \cup Asking
    BY <1>7, RecordLeaveGoes DEF RecordLeave, Telling, Asking, HasLeft
  <2> QED
    BY <1>0, <2>1, <2>2, OwnRecord
<1>8. CASE DeleteBubble(c)
  BY <1>0, <1>8, Shape, SameRecords
     DEF DeleteBubble, fields, At, Goto, Idle, Joined, Telling, Asking, Joining, AfterLeaving
<1>9. CASE SetBubble(c)
  <2>1. /\ job[c].at = "setBubble" /\ c \in Joined /\ Recorded(c)
        /\ UNCHANGED <<phase, place, following, presence>>
    BY <1>0, <1>9 DEF SetBubble, At, ClientOK, Left, Closing, Joined, PresenceCalm, Telling
  <2>2. CASE UNCHANGED bubble /\ HasLeft(c)
    BY <2>1, <2>2, SameRecords DEF HasLeft, Telling, Asking, Joining
  <2>3. CASE /\ bubble' = [bubble EXCEPT ![c] = job[c].id]
             /\ job'[c].at = "recordBubble" /\ job'[c].who = c
             /\ job'[c].record = [PresenceOf(c) EXCEPT !.bubble = job[c].id]
    <3>1. bubble'[c] = job[c].id /\ \A d \in Conns : d # c => bubble'[d] = bubble[d]
      BY <2>3, Shape
    <3>2. /\ job'[c].record = PresenceOf(c)' /\ Joined' = Joined
          /\ \A d \in Conns : d # c => PresenceOf(d)' = PresenceOf(d)
      BY <2>1, <2>3, <3>1 DEF PresenceOf, Joined
    <3>3. ToRecord(c)'
      BY <2>3, <3>2 DEF ToRecord, Telling, Asking
    <3>4. \A d \in Joined : d # c => Recorded(d)'
      <4>1. \A d \in Joined : d # c => Recorded(d) /\ d \in Conns
        BY <2>1 DEF PresenceCalm, Asking, Joined
      <4> QED
        BY <2>1, <3>2, <4>1 DEF Recorded
    <3>5. NoGhosts(c)'
      BY <2>1, <3>2 DEF PresenceCalm, NoGhosts
    <3>6. job'[c].at \in Telling /\ c \in DOMAIN presence'
      BY <2>1, <2>3 DEF Telling, Recorded
    <3> QED
      BY <3>2, <3>3, <3>4, <3>5, <3>6 DEF PresenceCalm
  <2> QED
    BY <1>9, <2>2, <2>3, SetBubbleGoes
<1>10. CASE RecordBubble(c)
  <2>1. /\ job[c].at \in Telling /\ c \in Joined /\ TrySetPresence(job[c])
        /\ UNCHANGED <<phase, place, bubble, following>>
    BY <1>0, <1>10 DEF RecordBubble, At, Telling, Joined, ClientOK, Left, Closing, fields
  <2>2. job'[c].at \notin {"spawn", "move"} \cup Telling \cup Asking
    BY <1>10, Shape DEF RecordBubble, Telling, Asking, Goto, Idle
  <2> QED
    BY <1>0, <2>1, <2>2, OwnRecord
<1>11. CASE SyncVoice(c)
  BY <1>0, <1>11, SyncVoiceGoes, SameRecords
     DEF SyncVoice, redis, At, Idle, Telling, Asking, Joining, HasLeft
<1>12. CASE BubbleSend(c)
  BY <1>0, <1>12, Shape, SameRecords
     DEF BubbleSend, fields, redis, bounds, Goto, Request, Ready, Idle, Joined, Telling, Asking,
         Joining
<1>13. CASE PushChannelMessage(c)
  BY <1>0, <1>13, Shape, SameRecords
     DEF PushChannelMessage, fields, At, Goto, Idle, Joined, Telling, Asking, Joining
<1> QED
  BY <1>1, <1>2, <1>3, <1>4, <1>5, <1>6, <1>7, <1>8, <1>9, <1>10, <1>11, <1>12, <1>13
     DEF BubbleStep

\* and leaving, which records the followers it has changed.
LEMMA LeaveRecords ==
    ASSUME OfficeInv, ClientsInv, NEW c \in Conns, LeaveStep(c), Alone(c),
           PresenceCalm(c), setting' = setting, NoFault, NoFault'
    PROVE  PresenceCalm(c)'
<1>0. ClientOK(c, job[c], phase[c], place[c], bubble[c], following[c], voice[c]) /\ ~Fault
  BY OfficeAssumption, HandlerFacts DEF ClientsInv, Fault, GoesWrong, NoFault
<1>1. CASE Unregister(c)
  BY <1>0, <1>1, Shape
     DEF Unregister, PresenceCalm, ToRecord, NoGhosts, Recorded, PresenceOf, redis, bounds,
         Goto, Ready, Idle, Joined, Telling, Asking, ClientOK, HDel
<1>2. CASE DeletePresence(c)
  <2>1. /\ job[c].at = "delPresence" /\ c \notin Joined
        /\ UNCHANGED <<phase, place, bubble, following>> /\ job'[c].at = "listBubbles"
        /\ presence' = HDel(presence, {c})
    BY <1>0, <1>2, Shape
       DEF DeletePresence, At, ClientOK, Left, Closing, Joined, Goto, Idle, fields
  <2>2. /\ DOMAIN presence' = DOMAIN presence \ {c}
        /\ \A d \in DOMAIN presence' : presence'[d] = presence[d]
    BY <2>1 DEF HDel
  <2>4. Joined' = Joined /\ \A d \in Conns : PresenceOf(d)' = PresenceOf(d)
    BY <2>1 DEF PresenceOf, Joined
  <2>5. \A d \in Joined : Recorded(d)'
    <3>1. \A d \in Joined : Recorded(d) /\ d \in Conns /\ d # c
      BY <2>1 DEF PresenceCalm, Asking, Telling, Joined
    <3> QED
      BY <2>2, <2>4, <3>1 DEF Recorded
  <2>6. ToRecord(c)'
    BY <2>1 DEF ToRecord, Telling, Asking
  <2>7. NoGhosts(c)'
    BY <2>1, <2>2, <2>4 DEF PresenceCalm, NoGhosts
  <2> QED
    BY <2>4, <2>5, <2>6, <2>7 DEF PresenceCalm
<1>3. CASE ListBubbles(c)
  BY <1>0, <1>3, Shape, SameRecords
     DEF ListBubbles, fields, redis, bounds, At, Goto, Idle, Joined, Telling, Asking, Joining
<1>4. CASE ClearBubbles(c)
  BY <1>0, <1>4, ClearBubblesGoes, SameRecords
     DEF ClearBubbles, fields, At, Idle, Telling, Asking, Joining
<1>5. CASE ClearFollowers(c)
  <2> DEFINE followers == {f \in Joined : following[f] = c}
  <2>1. /\ job[c].at = "clearFollowers" /\ c \notin Joined
        /\ UNCHANGED <<phase, place, bubble, presence>>
        /\ job'[c].at = "persistFollowers" /\ job'[c].rest = followers
        /\ following' = [f \in Conns |-> IF f \in followers THEN None ELSE following[f]]
    BY <1>0, <1>5, Shape
       DEF ClearFollowers, At, ClientOK, Left, Closing, Joined, Goto, Idle, redis
  <2>2. /\ Joined' = Joined /\ followers \subseteq Joined
        /\ \A d \in Conns : d \notin followers => PresenceOf(d)' = PresenceOf(d)
        /\ \A f \in followers : following'[f] = None
    BY <2>1 DEF PresenceOf, Joined
  <2>3. \A d \in Joined : Recorded(d) /\ d \in Conns /\ d # c
    BY <2>1 DEF PresenceCalm, Asking, Telling, Joined
  <2> HIDE DEF followers
  <2>4. \A d \in Joined : d \in DOMAIN presence' /\ (d \in followers \/ Recorded(d)')
    BY <2>1, <2>2, <2>3 DEF Recorded
  <2>5. ToRecord(c)'
    BY <2>1, <2>2 DEF ToRecord, Telling, Asking
  <2>6. NoGhosts(c)'
    BY <2>1, <2>2 DEF PresenceCalm, NoGhosts
  <2> QED
    BY <2>1, <2>2, <2>4, <2>5, <2>6 DEF PresenceCalm, Asking
<1>6. CASE PersistFollowers(c)
  <2>1. /\ job[c].at = "persistFollowers" /\ c \notin Joined
        /\ UNCHANGED <<phase, place, bubble, following, presence>>
    BY <1>0, <1>6, Shape
       DEF PersistFollowers, At, ClientOK, Left, Closing, Joined, fields, redis
  <2>2. /\ Joined' = Joined /\ \A d \in Conns : PresenceOf(d)' = PresenceOf(d)
    BY <2>1 DEF PresenceOf, Joined
  <2>3. \A d \in Joined : d \in DOMAIN presence /\ d \in Conns /\ d # c
    BY <2>1 DEF PresenceCalm, Asking, Telling, Joined, Recorded
  <2>9. \A d \in Joined : d \in job[c].rest \/ Recorded(d)
    BY <2>1 DEF PresenceCalm, Asking, Telling, Joined, Recorded
  <2>4. \A f \in job[c].rest : f \in Joined /\ f \in Conns /\ following[f] = None
    BY <2>1 DEF PresenceCalm, ToRecord, Asking, Joined
  <2>5. NoGhosts(c)'
    BY <2>1, <2>2 DEF PresenceCalm, NoGhosts
  <2>8. \A d \in Conns : Recorded(d) => Recorded(d)'
    BY <2>1, <2>2 DEF Recorded
  <2>6. CASE job'[c].at = "idle" /\ job[c].rest = {}
    <3>1. ToRecord(c)'
      BY <2>6 DEF ToRecord, Telling, Asking
    <3> QED
      BY <2>1, <2>2, <2>3, <2>9, <2>5, <2>6, <2>8, <3>1 DEF PresenceCalm
  <2>7. CASE /\ job'[c].at = "recordFollower" /\ job'[c].who \in job[c].rest
             /\ job'[c].rest = job[c].rest \ {job'[c].who}
             /\ job'[c].record = [PresenceOf(job'[c].who) EXCEPT !.following = None]
    <3>1. PICK f \in Conns : f = job'[c].who
      BY <2>4, <2>7
    <3>2. job'[c].record = PresenceOf(f)'
      BY <2>1, <2>4, <2>7, <3>1 DEF PresenceOf
    <3>3. ToRecord(c)'
      BY <2>1, <2>2, <2>4, <2>7, <3>1, <3>2 DEF ToRecord, Telling, Asking
    <3>4. \A d \in Joined :
            d \in DOMAIN presence' /\ (Recorded(d)' \/ d \in job'[c].rest \/ d = job'[c].who)
      BY <2>1, <2>3, <2>9, <2>7, <2>8
    <3> QED
      BY <2>1, <2>2, <2>5, <2>7, <3>3, <3>4 DEF PresenceCalm, Asking
  <2> QED
    BY <1>6, <2>6, <2>7, PersistGoes
<1>7. CASE RecordFollower(c)
  BY <1>0, <1>7, Shape
     DEF RecordFollower, PresenceCalm, ToRecord, NoGhosts, Recorded, PresenceOf, fields, At,
         Goto, Idle, Joined, Telling, Asking, TrySetPresence, HSet
<1> QED
  BY <1>1, <1>2, <1>3, <1>4, <1>5, <1>6, <1>7 DEF LeaveStep

-----------------------------------------------------------------------------
(* All of it, when handlers do not overlap.                                *)

\* What holds when only connection c is in a handler.
CalmParts(c) ==
    /\ FollowCalm(c)
    /\ faults = 0 => BubblesCalm(c)
    /\ NoFault => PresenceCalm(c)

\* The invariant of handlers that do not overlap.
CalmInv ==
    /\ setting.inFlight = 1 => OneBusy /\ \A c \in Conns : Alone(c) => CalmParts(c)
    /\ Conns = {} => chats = {}

\* A step of a handler counts its fault, if it has one, and leaves the setting as it is.
LEMMA StepCounts ==
    ASSUME OfficeInv, NEW c \in Conns, StepOf(c)
    PROVE  setting' = setting /\ (faults' = faults \/ Fault)
<1>1. CASE JoinStep(c)
  BY <1>1
     DEF JoinStep, Register, HandleJoin, SpawnPresence, GetAllPresence, ClientsInRoom,
         PurgeGhosts, bounds, Fault
<1>2. CASE MoveStep(c)
  BY <1>2
     DEF MoveStep, PresenceUpdate, Moved, FollowStart, SetFollowing, FollowStop, RecordFollow,
         VoiceTokenRequest, TrySetPresence, bounds
<1>3. CASE BubbleStep(c)
  BY <1>3
     DEF BubbleStep, InviteToBubble, CreateBubble, BubbleAccept, RegetBubble, BubbleLeave,
         GetOwnBubble, RecordLeave, DeleteBubble, SetBubble, RecordBubble, SyncVoice,
         BubbleSend, PushChannelMessage, TrySetPresence, bounds
<1>4. CASE LeaveStep(c)
  BY <1>4
     DEF LeaveStep, Unregister, DeletePresence, ListBubbles, ClearBubbles, ClearFollowers,
         PersistFollowers, RecordFollower, TrySetPresence, bounds
<1>5. CASE StoreFails(c)
  BY <1>5 DEF StoreFails
<1> QED
  BY <1>1, <1>2, <1>3, <1>4, <1>5 DEF StepOf

\* A fault is not forgotten: what went well after a step went well before it.
LEMMA FaultsStay ==
    ASSUME OfficeInv, setting' = setting, faults' = faults \/ \E kind : GoesWrong(kind)
    PROVE  /\ faults' = 0 => faults = 0
           /\ NoFault' => NoFault
           /\ (\E kind : GoesWrong(kind)) => faults' # 0
           /\ NoFault' => ~Fault
<1>1. faults \in Nat
  BY OfficeAssumption DEF OfficeInv, TypeOK
<1> QED
  BY <1>1 DEF NoFault, Fault, GoesWrong

\* A step of the only handler keeps its part of the invariant.
LEMMA CalmPartsStep ==
    ASSUME OfficeInv, ClientsInv, NEW c \in Conns, StepOf(c), Alone(c),
           CalmParts(c)
    PROVE  CalmParts(c)'
<1>1. setting' = setting /\ (faults' = faults \/ Fault)
  BY StepCounts
<1>2. /\ faults' = 0 => faults = 0 /\ ~Fault
      /\ NoFault' => NoFault /\ ~Fault
  BY <1>1, FaultsStay DEF Fault
<1>3. FollowCalm(c)'
  BY FollowStep DEF CalmParts
<1>4. ASSUME faults' = 0
      PROVE  BubblesCalm(c)'
  <2>1. faults = 0 /\ BubblesCalm(c) /\ ~StoreFails(c)
    BY <1>2, <1>4 DEF CalmParts, StoreFails
  <2> QED
    BY <1>4, <2>1, JoinBubbles, MoveBubbles, BubbleBubbles, LeaveBubbles DEF StepOf
<1>5. ASSUME NoFault'
      PROVE  PresenceCalm(c)'
  <2>1. NoFault /\ PresenceCalm(c) /\ ~StoreFails(c)
    BY <1>2, <1>5 DEF CalmParts, StoreFails
  <2> QED
    BY <1>1, <1>5, <2>1, JoinRecords, MoveRecords, BubbleRecords, LeaveRecords DEF StepOf
<1> QED
  BY <1>3, <1>4, <1>5 DEF CalmParts

\* When nobody is in a handler, the same holds of any other connection.
LEMMA HandOver ==
    ASSUME NEW c \in Conns, NEW e \in Conns, job'[c] = Idle, job'[e] = Idle, CalmParts(c)'
    PROVE  CalmParts(e)'
<1>1. /\ job'[c].at = "idle" /\ job'[c].op = "none" /\ job'[c].id = NoBubble
      /\ job'[e].at = "idle" /\ job'[e].op = "none" /\ job'[e].id = NoBubble
  BY DEF Idle
<1>2. FollowCalm(e)'
  BY <1>1 DEF CalmParts, FollowCalm, Closing
<1>3. ASSUME BubblesCalm(c)'
      PROVE  BubblesCalm(e)'
  <2>1. InHand(e)' /\ ~GoingOut(c)' /\ ~GoingOut(e)'
    BY <1>1 DEF InHand, GoingOut
  <2>2. \A d \in Joined' : MemberOf(d, bubble[d])'
    BY <1>3, <2>1 DEF BubblesCalm
  <2> QED
    BY <1>1, <1>3, <2>1, <2>2 DEF BubblesCalm, Cleaning, Joined
<1>4. ASSUME PresenceCalm(c)'
      PROVE  PresenceCalm(e)'
  <2>1. ToRecord(e)'
    BY <1>1 DEF ToRecord, Telling, Asking
  <2>2. \A d \in Joined' : Recorded(d)'
    BY <1>1, <1>4 DEF PresenceCalm, Telling, Asking
  <2>3. NoGhosts(e)'
    BY <1>1, <1>4 DEF PresenceCalm, NoGhosts
  <2> QED
    BY <2>1, <2>2, <2>3 DEF PresenceCalm
<1> QED
  BY <1>2, <1>3, <1>4 DEF CalmParts

\* A crash leaves nobody in the room, and is counted.
LEMMA CalmCrash ==
    ASSUME OfficeInv, Crash
    PROVE  OneBusy' /\ \A c \in Conns : CalmParts(c)'
<1>1. faults' # 0
  BY OfficeAssumption DEF Crash, GoesWrong, OfficeInv, TypeOK
<1>2. \A c \in Conns : job'[c] = Idle
  BY DEF Crash
<1>3. Joined' = {}
  <2>1. \A c \in Conns : phase'[c] # "joined"
    BY DEF Crash
  <2> QED
    BY <2>1 DEF Joined
<1>4. ASSUME NEW c \in Conns
      PROVE  FollowCalm(c)' /\ PresenceCalm(c)'
  <2>1. job'[c].at = "idle"
    BY <1>2 DEF Idle
  <2> QED
    BY <1>3, <2>1 DEF FollowCalm, PresenceCalm, ToRecord, NoGhosts, Telling, Asking
<1> QED
  BY <1>1, <1>2, <1>4 DEF OneBusy, CalmParts

\* Every step keeps the invariant of handlers that do not overlap.
LEMMA CalmStep ==
    ASSUME OfficeInv, ClientsInv, CalmInv, [Next]_vars
    PROVE  CalmInv'
<1>1. CASE UNCHANGED vars
  BY <1>1
     DEF vars, fields, redis, bounds, CalmInv, OneBusy, Alone, CalmParts, FollowCalm,
         BubblesCalm, PresenceCalm, NoFault, Joined, MemberOf, GoingOut, InHand, Recorded,
         ToRecord, NoGhosts, PresenceOf
<1>2. CASE Crash
  BY <1>2, CalmCrash DEF Crash, redis, CalmInv
<1>3. ASSUME NEW c \in Conns, StepOf(c), setting.inFlight = 1
      PROVE  OneBusy' /\ \A e \in Conns : Alone(e)' => CalmParts(e)'
  <2>1. Turn(c) /\ Alone(c)
    BY <1>3, TakesTurn, ActsAlone DEF CalmInv
  <2>2. \A d \in Conns : d # c => job'[d] = Idle
    BY <2>1 DEF Turn, Alone
  <2>3. CalmParts(c)'
    BY <1>3, <2>1, CalmPartsStep DEF CalmInv
  <2>4. ASSUME NEW e \in Conns, Alone(e)', e # c
        PROVE  CalmParts(e)'
    <3>1. job'[c] = Idle /\ job'[e] = Idle
      BY <2>2, <2>4 DEF Alone
    <3> QED
      BY <2>3, <3>1, HandOver
  <2>5. OneBusy'
    BY <2>2 DEF OneBusy
  <2> QED
    BY <2>3, <2>4, <2>5
<1>4. ASSUME NEW c \in Conns, StepOf(c)
      PROVE  CalmInv'
  <2>1. setting' = setting
    BY <1>4, StepCounts
  <2> QED
    BY <1>3, <1>4, <2>1 DEF CalmInv
<1> QED
  BY <1>1, <1>2, <1>4 DEF Next, StepOf

\* At first nobody is busy and nobody is in the room.
LEMMA CalmInit ==
    ASSUME Init
    PROVE  CalmInv
<1>1. /\ \A c \in Conns : job[c] = Idle
      /\ Joined = {} /\ DOMAIN presence = {} /\ DOMAIN bubbles = {} /\ chats = {}
  BY DEF Init, Joined
<1>2. ASSUME NEW c \in Conns
      PROVE  FollowCalm(c) /\ BubblesCalm(c) /\ PresenceCalm(c)
  <2>1. job[c].at = "idle"
    BY <1>1 DEF Idle
  <2> QED
    BY <1>1, <2>1
       DEF FollowCalm, BubblesCalm, PresenceCalm, ToRecord, NoGhosts, InHand, GoingOut, Telling,
           Asking
<1> QED
  BY <1>1, <1>2 DEF CalmInv, OneBusy, CalmParts

\* When handlers do not overlap, what a handler finds fits together.
THEOREM CalmInvariant == Spec => []CalmInv
  BY CalmInit, CalmStep, OfficeInvariant, ClientsInvariant, PTL DEF Spec

\* What CalmInv says between two handlers.
LEMMA BetweenHandlers ==
    ASSUME CalmInv, Calm, NEW c \in Conns
    PROVE  CalmParts(c) /\ job[c].at = "idle" /\ job[c].op = "none" /\ job[c].id = NoBubble
<1>1. \A d \in Conns : job[d] = Idle
  BY DEF Calm, Busy
<1> QED
  BY <1>1 DEF Calm, CalmInv, Alone, Idle

\* Nobody follows a connection that is not in the room, though a target is looked up
\* before it is followed.
THEOREM SomebodyIsFollowed == Spec => []FollowsSomeone
<1>1. CalmInv => FollowsSomeone
  <2> SUFFICES ASSUME CalmInv, Calm, NEW c \in Joined, following[c] # None
               PROVE  following[c] \in Joined
    BY DEF FollowsSomeone
  <2> QED
    BY BetweenHandlers DEF CalmParts, FollowCalm, Joined, Closing
<1> QED
  BY <1>1, CalmInvariant, PTL

\* A client is a member of the bubble it knows it is in, and of no other one.
THEOREM BubblesAgree == Spec => []MembershipAgrees
<1>1. CalmInv => MembershipAgrees
  <2> SUFFICES ASSUME CalmInv, Calm, faults = 0, NEW c \in Joined
               PROVE  {b \in DOMAIN bubbles : c \in bubbles[b].members} =
                        (IF bubble[c] = NoBubble THEN {} ELSE {bubble[c]})
    BY DEF MembershipAgrees
  <2>1. MemberOf(c, bubble[c]) /\ DOMAIN bubbles \subseteq 1..minted
    BY BetweenHandlers DEF CalmParts, BubblesCalm, GoingOut, Joined
  <2> QED
    BY <2>1 DEF MemberOf, NoBubble
<1> QED
  BY <1>1, CalmInvariant, PTL

\* The presence records are those of the people in the room, as their clients have them.
THEOREM PresencesAgree == Spec => []PresenceAgrees
<1>1. CalmInv => PresenceAgrees
  <2> SUFFICES ASSUME CalmInv, Calm, Joined # {}, NoFault
               PROVE  /\ DOMAIN presence = Joined
                      /\ \A c \in Joined : /\ presence[c].zone = place[c]
                                           /\ presence[c].bubble = bubble[c]
                                           /\ presence[c].following = following[c]
    BY DEF PresenceAgrees, NoFault
  <2>1. ASSUME NEW c \in Joined
        PROVE  Recorded(c) /\ NoGhosts(c) /\ job[c].at = "idle"
    BY <2>1, BetweenHandlers DEF CalmParts, PresenceCalm, Telling, Joined
  <2>2. DOMAIN presence \subseteq Joined
    BY <2>1 DEF NoGhosts
  <2>3. Joined \subseteq DOMAIN presence
    BY <2>1 DEF Recorded
  <2>4. \A c \in Joined : presence[c] = PresenceOf(c)
    BY <2>1 DEF Recorded
  <2>5. DOMAIN presence = Joined
    BY <2>2, <2>3
  <2> QED
    BY <2>4, <2>5 DEF PresenceOf
<1> QED
  BY <1>1, CalmInvariant, PTL

\* A connection that has closed is in no bubble and invited to none, and a bubble that is
\* gone has taken its chat history with it.
THEOREM NothingIsLeft == Spec => []ClosedLeavesNothing
<1>1. OfficeInv /\ CalmInv => ClosedLeavesNothing
  <2> SUFFICES ASSUME OfficeInv, CalmInv, Calm, faults = 0
               PROVE  /\ \A b \in DOMAIN bubbles :
                           \A c \in bubbles[b].members \cup bubbles[b].invites :
                             phase[c] # "closed"
                      /\ chats \subseteq DOMAIN bubbles
    BY DEF ClosedLeavesNothing
  <2>1. CASE Conns = {}
    <3>1. \A b \in DOMAIN bubbles : bubbles[b] \in Bubble
      BY DEF OfficeInv, TypeOK
    <3>2. \A b \in DOMAIN bubbles : bubbles[b].members \cup bubbles[b].invites = {}
      BY <2>1, <3>1 DEF Bubble
    <3> QED
      BY <2>1, <3>2 DEF CalmInv
  <2>2. ASSUME NEW c \in Conns
        PROVE  /\ \A b \in DOMAIN bubbles :
                    bubbles[b].members \cup bubbles[b].invites \subseteq Joined
               /\ chats \subseteq DOMAIN bubbles
    BY <2>2, BetweenHandlers DEF CalmParts, BubblesCalm, Cleaning
  <2> QED
    BY <2>1, <2>2 DEF Joined
<1> QED
  BY <1>1, CalmInvariant, OfficeInvariant, PTL

-----------------------------------------------------------------------------
(* The floor.                                                              *)

\* The floor does nothing its office or its private zones could not do.
LEMMA FloorIsItsParts == FloorSpec => Spec /\ ZonesSpec
<1>1. FloorInit => Init /\ ZonesInit
  BY DEF FloorInit
<1>2. [FloorNext]_floorVars => [Next]_vars /\ [ZonesNext]_zoneVars
  BY DEF FloorNext, floorVars
<1> QED
  BY <1>1, <1>2, PTL DEF FloorSpec, Spec, ZonesSpec

\* Every record of the office and of the private zones has its type, in memory and in Redis.
THEOREM FloorTypeCorrect == FloorSpec => []FloorTypeOK
<1>1. TypeOK /\ ZoneTypeOK => FloorTypeOK
  BY DEF FloorTypeOK
<1> QED
  BY <1>1, FloorIsItsParts, OfficeTypeCorrect, ZonesTypeCorrect, PTL
=============================================================================
