------------------------ MODULE PrivateZone_proofs ------------------------
(***************************************************************************)
(* The private zones, for any number of visitors, zones and attempts.      *)
(*                                                                         *)
(* The transactions are whole because what a transaction has read is what  *)
(* the key holds unless the key was written since (Reads).  The occupants  *)
(* are those who stand in a zone because only a visitor's own handler adds *)
(* or removes it (Sane), and a zone is in disagreement only while it has   *)
(* an update of the visitor to come (Agrees).  An update that runs out of  *)
(* attempts had a rival for each (Counted).                                *)
(***************************************************************************)
EXTENDS PrivateZone, FiniteSetTheorems, TLAPS

Fields == {"at", "to", "rest", "update", "read", "dirty", "attempt", "rivals"}
VisitPoints == {"idle", "setPresence", "watch", "get", "exec"}

\* An update that visitor v has to make, when its life is l and it stands in s.
Proper(u, v, l, s) ==
    /\ u \in Update
    /\ u.op # "invite" => u.who = v
    /\ u.op = "add" => l = "here" /\ s = u.zone
    /\ u.op = "remove" => ~(l = "here" /\ s = u.zone)

\* What the goroutine of v is doing.
Sane(j, v, l, s) ==
    /\ DOMAIN j = Fields
    /\ j.at \in VisitPoints
    /\ j.to \in PrivateZones \cup {Hallway}
    /\ j.attempt \in Nat /\ j.attempt < Attempts
    /\ j.at \in {"idle", "setPresence"} => j.rest = {}
    /\ j.at # "idle" => l \in {"here", "left"}
    /\ j.at = "setPresence" => l = "here"
    /\ j.update \subseteq j.rest
    /\ \A u \in j.rest : Proper(u, v, l, s)
    /\ j.at \in {"get", "exec"} => \E u \in j.rest : j.update = {u}

\* What the transaction of v has read, when the zones are zs.
Reads(j, v, zs) ==
    j.at = "exec" =>
      \A u \in j.update :
        /\ ~j.dirty => j.read = zs[u.zone]
        /\ u.op = "invite" => v \in j.read.occupants

\* Visitor v is among the occupants of the zone it stands in, and of no other, unless it has
\* still to tell.
Agrees(j, v, l, s, zs) ==
    l # "lost" =>
      \A z \in PrivateZones :
        (\A u \in j.rest : u.op = "invite" \/ u.zone # z) =>
          (v \in zs[z].occupants <=> l = "here" /\ s = z)

\* Nothing has gone wrong that leaves a zone in disagreement.
NoMishap == gaveUp = {} /\ (zoneFaults = 0 \/ "fault" \notin zoneSetting.traffic)

ZoneKeys == [PrivateZones -> ZoneState]

ZoneInv ==
    /\ zoneSetting \in ZoneSettings
    /\ standing \in [Visitors -> PrivateZones \cup {Hallway}]
    /\ life \in [Visitors -> {"away", "here", "left", "lost"}]
    /\ \A v \in Visitors : life[v] = "away" => standing[v] = Hallway
    /\ zones \in ZoneKeys
    /\ zoneFaults \in 0..MaxZoneFaults
    /\ gaveUp \subseteq Visitors
    /\ visit = [v \in Visitors |-> visit[v]]
    /\ \A v \in Visitors : Sane(visit[v], v, life[v], standing[v])
    /\ \A v \in Visitors : Reads(visit[v], v, zones)
    /\ NoMishap => \A v \in Visitors : Agrees(visit[v], v, life[v], standing[v], zones)

-----------------------------------------------------------------------------

\* A goroutine with updates to make, or with none.
LEMMA UpdatingSane ==
    ASSUME NEW rest, NEW v, NEW l, NEW s, \A u \in rest : Proper(u, v, l, s),
           rest # {} => l \in {"here", "left"}
    PROVE  /\ Sane(Updating(rest), v, l, s)
           /\ Updating(rest).rest = rest /\ Updating(rest).at # "exec"
<1> DEFINE j == Updating(rest)
<1>1. /\ DOMAIN j = Fields /\ j.at \in {"idle", "watch"} /\ j.to = Hallway /\ j.attempt = 0
      /\ j.rest = rest /\ j.update = {} /\ (j.at = "idle" <=> rest = {})
  <2>1. CASE rest = {}
    BY <2>1 DEF Updating, AtEase, Fields
  <2>2. CASE rest # {}
    BY <2>2 DEF Updating, AtEase, Fields
  <2> QED
    BY <2>1, <2>2
<1> HIDE DEF j
<1>2. Sane(j, v, l, s)
  BY <1>1, PrivateZoneAssumption DEF Sane, VisitPoints
<1> QED
  BY <1>1, <1>2 DEF j

\* A goroutine that waits for its next request.
LEMMA AtEaseSane ==
    /\ \A v, l, s : Sane(AtEase, v, l, s)
    /\ AtEase.rest = {} /\ AtEase.at = "idle"
  BY PrivateZoneAssumption DEF Sane, AtEase, Fields, VisitPoints

\* One visitor's goroutine takes a step, and the zones stay as they are.
LEMMA OneVisit ==
    ASSUME ZoneInv, NEW v \in Visitors, NEW j, visit' = [visit EXCEPT ![v] = j],
           UNCHANGED <<zones, zoneSetting>>,
           life' \in [Visitors -> {"away", "here", "left", "lost"}],
           standing' \in [Visitors -> PrivateZones \cup {Hallway}],
           \A w \in Visitors \ {v} : life'[w] = life[w] /\ standing'[w] = standing[w],
           life'[v] = "away" => standing'[v] = Hallway,
           zoneFaults' \in 0..MaxZoneFaults, gaveUp' \subseteq Visitors,
           NoMishap' => NoMishap,
           Sane(j, v, life'[v], standing'[v]),
           Reads(j, v, zones),
           NoMishap' => Agrees(j, v, life'[v], standing'[v], zones)
    PROVE  ZoneInv'
<1>1. /\ visit = [w \in Visitors |-> visit[w]] /\ DOMAIN visit = Visitors
      /\ visit'[v] = j /\ \A w \in Visitors \ {v} : visit'[w] = visit[w]
      /\ visit' = [w \in Visitors |-> visit'[w]]
  BY DEF ZoneInv
<1> QED
  BY <1>1 DEF ZoneInv

\* Redis fails, and the failures are counted.
LEMMA FaultCounts ==
    ASSUME ZoneInv, NEW kind, ZoneFault(kind)
    PROVE  zoneFaults' \in 0..MaxZoneFaults /\ zoneFaults' # 0 /\ kind \in zoneSetting.traffic
  BY PrivateZoneAssumption DEF ZoneInv, ZoneFault

\* An ordinary step and a failing one: what is known of the mishaps.
LEMMA MishapsStay ==
    ASSUME ZoneInv, UNCHANGED zoneSetting, gaveUp \subseteq gaveUp',
           zoneFaults' = zoneFaults \/ ZoneFault("fault")
    PROVE  /\ NoMishap' => NoMishap /\ zoneFaults' = zoneFaults /\ gaveUp' = gaveUp
           /\ zoneFaults' \in 0..MaxZoneFaults
<1>1. CASE zoneFaults' = zoneFaults
  BY <1>1 DEF NoMishap, ZoneInv
<1>2. CASE ZoneFault("fault")
  BY <1>2, FaultCounts DEF NoMishap
<1> QED
  BY <1>1, <1>2

\* Who comes stands in no private zone.
LEMMA ArriveKeeps ==
    ASSUME ZoneInv, NEW v \in Visitors, Arrive(v)
    PROVE  ZoneInv'
<1>1. /\ life[v] = "away" /\ standing[v] = Hallway /\ life' = [life EXCEPT ![v] = "here"]
      /\ UNCHANGED <<zoneSetting, standing, zones, visit, zoneFaults, gaveUp>>
      /\ Sane(visit[v], v, life[v], standing[v])
  BY DEF Arrive, ZoneInv
<1>2. life' \in [Visitors -> {"away", "here", "left", "lost"}] /\ life'[v] = "here"
      /\ \A w \in Visitors \ {v} : life'[w] = life[w]
  BY <1>1 DEF ZoneInv
<1>3. visit[v].at = "idle" /\ visit[v].rest = {}
  BY <1>1 DEF Sane
<1>4. Sane(visit[v], v, "here", standing[v]) /\ Reads(visit[v], v, zones)
  BY <1>1, <1>3 DEF Sane, Reads
<1>5. NoMishap' => NoMishap
  BY <1>1, MishapsStay
<1>6. NoMishap' => Agrees(visit[v], v, "here", standing[v], zones)
  BY <1>1, <1>3, <1>5, PrivateZoneAssumption DEF ZoneInv, Agrees
<1>7. visit' = [visit EXCEPT ![v] = visit[v]]
  <2>1. visit = [w \in Visitors |-> visit[w]]
    BY DEF ZoneInv
  <2>2. visit = [visit EXCEPT ![v] = visit[v]]
    BY <2>1
  <2> QED
    BY <1>1, <2>2
<1>8. standing' \in [Visitors -> PrivateZones \cup {Hallway}] /\ gaveUp' \subseteq Visitors
      /\ zoneFaults' \in 0..MaxZoneFaults
  BY <1>1 DEF ZoneInv
<1> QED
  BY <1>1, <1>2, <1>4, <1>5, <1>6, <1>7, <1>8, OneVisit

\* A request begins: the goroutine had nothing to do.
LEMMA FreeFacts ==
    ASSUME ZoneInv, NEW v \in Visitors, Free(v)
    PROVE  /\ life[v] = "here" /\ visit[v] = AtEase
           /\ NoMishap => \A z \in PrivateZones : v \in zones[z].occupants <=> standing[v] = z
  BY AtEaseSane DEF ZoneInv, Free, Agrees

\* Nothing of a move is done before its first call has returned.
LEMMA VisitorMoveKeeps ==
    ASSUME ZoneInv, NEW v \in Visitors, Move(v)
    PROVE  ZoneInv'
<1>1. /\ Free(v) /\ UNCHANGED <<zoneSetting, standing, life, zones, gaveUp>>
      /\ zoneFaults' = zoneFaults \/ ZoneFault("fault")
  BY DEF Move
<1>2. PICK to \in PrivateZones \cup {Hallway} :
        visit' = [visit EXCEPT ![v] = [AtEase EXCEPT !.at = "setPresence", !.to = to]]
  <2>1. zoneSetting.zones \subseteq PrivateZones /\ standing[v] \in PrivateZones \cup {Hallway}
    BY PrivateZoneAssumption DEF ZoneInv
  <2> QED
    BY <2>1 DEF Move, VisitGoto
<1> DEFINE j == [AtEase EXCEPT !.at = "setPresence", !.to = to]
<1>3. /\ DOMAIN j = Fields /\ j.at = "setPresence" /\ j.to = to /\ j.attempt = 0
      /\ j.rest = {} /\ j.update = {}
  BY DEF AtEase, Fields
<1>4. visit' = [visit EXCEPT ![v] = j]
  BY <1>2
<1> HIDE DEF j
<1>5. Sane(j, v, life[v], standing[v]) /\ Reads(j, v, zones)
  BY <1>1, <1>3, FreeFacts, PrivateZoneAssumption DEF Sane, Reads, VisitPoints
<1>6. /\ NoMishap' => NoMishap
      /\ zoneFaults' \in 0..MaxZoneFaults
  BY <1>1, MishapsStay
<1>7. NoMishap' => Agrees(j, v, life[v], standing[v], zones)
  BY <1>1, <1>6, FreeFacts DEF Agrees
<1>8. /\ standing \in [Visitors -> PrivateZones \cup {Hallway}] /\ gaveUp \subseteq Visitors
      /\ life \in [Visitors -> {"away", "here", "left", "lost"}]
      /\ life[v] = "away" => standing[v] = Hallway
  BY DEF ZoneInv
<1> QED
  BY <1>1, <1>4, <1>5, <1>6, <1>7, <1>8, OneVisit

\* The visitor stands elsewhere, and the zones it has left and entered are to be told.
LEMMA SetPresenceKeeps ==
    ASSUME ZoneInv, NEW v \in Visitors, SetPresence(v)
    PROVE  ZoneInv'
<1> DEFINE from == standing[v]
           to == visit[v].to
           out == [op : {"remove"}, zone : {from} \ {to, Hallway}, who : {v}]
           in == [op : {"add"}, zone : {to} \ {Hallway}, who : {v}]
<1>1. /\ VisitAt(v, "setPresence") /\ UNCHANGED <<zoneSetting, life, zones, gaveUp>>
      /\ \/ /\ standing' = [standing EXCEPT ![v] = to]
            /\ VisitGoto(v, Updating(out \cup in))
            /\ UNCHANGED zoneFaults
         \/ ZoneFault("fault") /\ VisitGoto(v, AtEase) /\ UNCHANGED standing
  BY DEF SetPresence
<1>2. /\ Sane(visit[v], v, life[v], from) /\ life[v] = "here" /\ visit[v].rest = {}
      /\ to \in PrivateZones \cup {Hallway} /\ from \in PrivateZones \cup {Hallway}
      /\ life \in [Visitors -> {"away", "here", "left", "lost"}]
      /\ standing \in [Visitors -> PrivateZones \cup {Hallway}] /\ gaveUp \subseteq Visitors
      /\ NoMishap => Agrees(visit[v], v, life[v], from, zones)
  BY <1>1 DEF ZoneInv, Sane, VisitAt
<1>3. /\ NoMishap' => NoMishap /\ zoneFaults' = zoneFaults
      /\ zoneFaults' \in 0..MaxZoneFaults
  BY <1>1, MishapsStay
<1>4. CASE standing' = [standing EXCEPT ![v] = to] /\ VisitGoto(v, Updating(out \cup in))
  <2>1. /\ standing' \in [Visitors -> PrivateZones \cup {Hallway}] /\ standing'[v] = to
        /\ \A w \in Visitors \ {v} : standing'[w] = standing[w]
    BY <1>2, <1>4
  <2>2. \A u \in out \cup in : Proper(u, v, "here", to)
    BY <1>2, PrivateZoneAssumption DEF Proper, Update
  <2>3. /\ \A z \in PrivateZones : z # from /\ z # to => ~(standing[v] = z \/ to = z)
        /\ from \in PrivateZones /\ from # to => [op |-> "remove", zone |-> from, who |-> v] \in out
        /\ to \in PrivateZones => [op |-> "add", zone |-> to, who |-> v] \in in
    BY <1>2, PrivateZoneAssumption
  <2> DEFINE rest == out \cup in
             j == Updating(rest)
  <2>4. ASSUME NEW z \in PrivateZones, \A u \in rest : u.op = "invite" \/ u.zone # z
        PROVE  z # from /\ z # to
    <3>1. CASE z = to
      <4>1. [op |-> "add", zone |-> z, who |-> v] \in rest
        BY <2>3, <3>1
      <4> QED
        BY <2>4, <4>1
    <3>2. CASE z = from /\ z # to
      <4>1. [op |-> "remove", zone |-> z, who |-> v] \in rest
        BY <2>3, <3>2
      <4> QED
        BY <2>4, <4>1
    <3> QED
      BY <3>1, <3>2
  <2> HIDE DEF rest, from, to
  <2>5. /\ Sane(j, v, "here", to) /\ j.rest = rest /\ j.at # "exec"
    BY <2>2, UpdatingSane DEF rest
  <2>6. visit' = [visit EXCEPT ![v] = j]
    BY <1>4 DEF VisitGoto, rest
  <2> HIDE DEF j
  <2>7. Reads(j, v, zones)
    BY <2>5 DEF Reads
  <2>8. NoMishap' => Agrees(j, v, "here", to, zones)
    <3> SUFFICES ASSUME NoMishap, NEW z \in PrivateZones,
                        \A u \in j.rest : u.op = "invite" \/ u.zone # z
                 PROVE  v \in zones[z].occupants <=> to = z
      BY <1>3 DEF Agrees
    <3>1. z # from /\ z # to
      BY <2>4, <2>5
    <3>2. v \in zones[z].occupants <=> from = z
      BY <1>2 DEF Agrees
    <3> QED
      BY <3>1, <3>2
  <2> QED
    BY <1>1, <1>2, <1>3, <2>1, <2>5, <2>6, <2>7, <2>8, OneVisit
<1>5. CASE ZoneFault("fault") /\ VisitGoto(v, AtEase) /\ UNCHANGED standing
  <2>1. ~NoMishap'
    BY <1>1, <1>5, FaultCounts DEF NoMishap
  <2>2. Reads(AtEase, v, zones)
    BY AtEaseSane DEF Reads
  <2>3. visit' = [visit EXCEPT ![v] = AtEase]
    BY <1>5 DEF VisitGoto
  <2> HIDE DEF from, to
  <2> QED
    BY <1>1, <1>2, <1>3, <1>5, <2>1, <2>2, <2>3, AtEaseSane, OneVisit DEF from
<1> QED
  BY <1>1, <1>4, <1>5

\* An invitation changes no occupants.
LEMMA InviteKeeps ==
    ASSUME ZoneInv, NEW v \in Visitors, PrivateInvite(v)
    PROVE  ZoneInv'
<1>1. /\ Free(v) /\ UNCHANGED <<zoneSetting, standing, life, zones, zoneFaults, gaveUp>>
  BY DEF PrivateInvite
<1>2. PICK z \in PrivateZones, w \in Visitors :
        VisitGoto(v, Updating({[op |-> "invite", zone |-> z, who |-> w]}))
  <2>1. zoneSetting.zones \subseteq PrivateZones
    BY PrivateZoneAssumption DEF ZoneInv
  <2> QED
    BY <2>1 DEF PrivateInvite
<1> DEFINE rest == {[op |-> "invite", zone |-> z, who |-> w]}
           j == Updating(rest)
<1>3. \A u \in rest : u.op = "invite" /\ Proper(u, v, life[v], standing[v])
  BY DEF Proper, Update
<1>4. visit' = [visit EXCEPT ![v] = j]
  BY <1>2 DEF VisitGoto
<1> HIDE DEF rest
<1>5. Sane(j, v, life[v], standing[v]) /\ j.rest = rest /\ j.at # "exec"
  BY <1>1, <1>3, FreeFacts, UpdatingSane
<1> HIDE DEF j
<1>6. Reads(j, v, zones) /\ (NoMishap => Agrees(j, v, life[v], standing[v], zones))
  BY <1>1, <1>3, <1>5, FreeFacts DEF Reads, Agrees
<1>7. NoMishap' => NoMishap
  BY <1>1, MishapsStay
<1>8. /\ standing \in [Visitors -> PrivateZones \cup {Hallway}] /\ gaveUp \subseteq Visitors
      /\ life \in [Visitors -> {"away", "here", "left", "lost"}]
      /\ life[v] = "away" => standing[v] = Hallway
      /\ zoneFaults \in 0..MaxZoneFaults
  BY DEF ZoneInv
<1> QED
  BY <1>1, <1>4, <1>5, <1>6, <1>7, <1>8, OneVisit

\* Who disconnects has to be removed wherever anybody is.
LEMMA DisconnectKeeps ==
    ASSUME ZoneInv, NEW v \in Visitors, Disconnect(v)
    PROVE  ZoneInv'
<1> DEFINE found == {z \in PrivateZones : zones[z] # NoKey}
           rest == [op : {"remove"}, zone : found, who : {v}]
           j == Updating(rest)
<1>1. /\ Free(v) /\ UNCHANGED <<zoneSetting, zones, gaveUp>>
      /\ life' = [life EXCEPT ![v] = "left"] /\ standing' = [standing EXCEPT ![v] = Hallway]
      /\ \/ VisitGoto(v, j) /\ UNCHANGED zoneFaults
         \/ ZoneFault("fault") /\ UNCHANGED visit
  BY DEF Disconnect
<1>2. /\ life' \in [Visitors -> {"away", "here", "left", "lost"}] /\ life'[v] = "left"
      /\ standing' \in [Visitors -> PrivateZones \cup {Hallway}] /\ standing'[v] = Hallway
      /\ \A w \in Visitors \ {v} : life'[w] = life[w] /\ standing'[w] = standing[w]
      /\ gaveUp \subseteq Visitors
  BY <1>1 DEF ZoneInv
<1>3. /\ NoMishap' => NoMishap /\ zoneFaults' = zoneFaults
      /\ zoneFaults' \in 0..MaxZoneFaults
  BY <1>1, MishapsStay
<1>4. CASE VisitGoto(v, j)
  <2>1. \A u \in rest : Proper(u, v, "left", Hallway)
    BY DEF Proper, Update
  <2>2. \A z \in found : [op |-> "remove", zone |-> z, who |-> v] \in rest
    OBVIOUS
  <2>3. visit' = [visit EXCEPT ![v] = j]
    BY <1>4 DEF VisitGoto
  <2> HIDE DEF rest
  <2>4. Sane(j, v, "left", Hallway) /\ j.rest = rest /\ j.at # "exec"
    BY <2>1, UpdatingSane
  <2> HIDE DEF j
  <2>5. Reads(j, v, zones)
    BY <2>4 DEF Reads
  <2>6. Agrees(j, v, "left", Hallway, zones)
    <3> SUFFICES ASSUME NEW z \in PrivateZones,
                        \A u \in rest : u.op = "invite" \/ u.zone # z
                 PROVE  v \notin zones[z].occupants
      BY <2>4 DEF Agrees
    <3>1. z \notin found
      BY <2>2
    <3> QED
      BY <3>1 DEF NoKey
  <2> QED
    BY <1>1, <1>2, <1>3, <2>3, <2>4, <2>5, <2>6, OneVisit
<1>5. CASE ZoneFault("fault") /\ UNCHANGED visit
  <2>1. ~NoMishap'
    BY <1>1, <1>5, FaultCounts DEF NoMishap
  <2>2. visit' = [visit EXCEPT ![v] = AtEase]
    <3>1. visit = [w \in Visitors |-> visit[w]] /\ visit[v] = AtEase
      BY <1>1, FreeFacts DEF ZoneInv
    <3>2. visit = [visit EXCEPT ![v] = AtEase]
      BY <3>1
    <3> QED
      BY <1>5, <3>2
  <2>3. Reads(AtEase, v, zones)
    BY AtEaseSane DEF Reads
  <2> QED
    BY <1>1, <1>2, <1>3, <2>1, <2>2, <2>3, AtEaseSane, OneVisit
<1> QED
  BY <1>1, <1>4, <1>5

-----------------------------------------------------------------------------
(* The transactions.                                                       *)

\* A transaction is about one update, one that is to be made.
LEMMA TheUpdateFacts ==
    ASSUME ZoneInv, NEW v \in Visitors, visit[v].at \in {"get", "exec"}
    PROVE  /\ visit[v].update = {TheUpdate(v)} /\ TheUpdate(v) \in visit[v].rest
           /\ Proper(TheUpdate(v), v, life[v], standing[v]) /\ TheUpdate(v) \in Update
<1>1. Sane(visit[v], v, life[v], standing[v])
  BY DEF ZoneInv
<1>2. PICK u \in visit[v].rest : visit[v].update = {u}
  BY <1>1 DEF Sane
<1>3. TheUpdate(v) = u
  BY <1>2 DEF TheUpdate
<1> QED
  BY <1>1, <1>2, <1>3 DEF Sane, Proper

\* What stays when the goroutine of v goes on with its updates.
LEMMA VisitFacts ==
    ASSUME ZoneInv, NEW v \in Visitors
    PROVE  /\ Sane(visit[v], v, life[v], standing[v])
           /\ NoMishap => Agrees(visit[v], v, life[v], standing[v], zones)
           /\ standing \in [Visitors -> PrivateZones \cup {Hallway}] /\ gaveUp \subseteq Visitors
           /\ life \in [Visitors -> {"away", "here", "left", "lost"}]
           /\ life[v] = "away" => standing[v] = Hallway
           /\ zoneFaults \in 0..MaxZoneFaults
  BY DEF ZoneInv

\* The update to work on is one of those to be made.
LEMMA DueFacts ==
    ASSUME NEW j, j.update \subseteq j.rest
    PROVE  Due(j) \subseteq j.rest
  BY DEF Due

\* Some of the updates are done with, or given up.
LEMMA SomeLeft ==
    ASSUME ZoneInv, NEW v \in Visitors, NEW rest, rest \subseteq visit[v].rest
    PROVE  /\ Sane(Updating(rest), v, life[v], standing[v])
           /\ Updating(rest).rest = rest
           /\ \A zs : Reads(Updating(rest), v, zs)
<1>1. /\ \A u \in rest : Proper(u, v, life[v], standing[v])
      /\ rest # {} => life[v] \in {"here", "left"}
  BY VisitFacts DEF Sane, VisitPoints
<1>2. Sane(Updating(rest), v, life[v], standing[v]) /\ Updating(rest).rest = rest
      /\ Updating(rest).at # "exec"
  BY <1>1, UpdatingSane
<1> QED
  BY <1>2 DEF Reads

\* A transaction begins with one of the updates to be made, and nothing read.
LEMMA WatchKeeps ==
    ASSUME ZoneInv, NEW v \in Visitors, Watch(v)
    PROVE  ZoneInv'
<1> DEFINE o == visit[v]
<1>1. PICK u \in Due(o) : VisitGoto(v, [o EXCEPT !.at = "get", !.update = {u}, !.dirty = FALSE])
  BY DEF Watch
<1>2. /\ o.at = "watch" /\ UNCHANGED <<zoneSetting, standing, life, zones, zoneFaults, gaveUp>>
      /\ Sane(o, v, life[v], standing[v])
  BY VisitFacts DEF Watch, VisitAt
<1>3. u \in o.rest
  BY <1>2, DueFacts DEF Sane
<1> DEFINE j == [o EXCEPT !.at = "get", !.update = {u}, !.dirty = FALSE]
<1>4. /\ DOMAIN j = Fields /\ j.at = "get" /\ j.to = o.to /\ j.attempt = o.attempt
      /\ j.rest = o.rest /\ j.update = {u}
  BY <1>2 DEF Sane, Fields
<1>5. visit' = [visit EXCEPT ![v] = j]
  BY <1>1 DEF VisitGoto
<1> HIDE DEF j, o
<1>6. Sane(j, v, life[v], standing[v]) /\ Reads(j, v, zones)
  BY <1>2, <1>3, <1>4 DEF Sane, Reads, VisitPoints
<1>7. NoMishap' => NoMishap
  BY <1>2, MishapsStay
<1>8. NoMishap => Agrees(j, v, life[v], standing[v], zones)
  BY <1>4, VisitFacts DEF Agrees, o
<1> QED
  BY <1>2, <1>5, <1>6, <1>7, <1>8, VisitFacts, OneVisit

\* What GET returns is what the key holds.
LEMMA GetKeeps ==
    ASSUME ZoneInv, NEW v \in Visitors, Get(v)
    PROVE  ZoneInv'
<1> DEFINE o == visit[v]
           u == TheUpdate(v)
<1>1. /\ o.at = "get" /\ UNCHANGED <<zoneSetting, standing, life, zones, zoneFaults, gaveUp>>
      /\ Sane(o, v, life[v], standing[v])
  BY VisitFacts DEF Get, VisitAt
<1>2. o.update = {u} /\ u \in o.rest
  BY <1>1, TheUpdateFacts
<1>3. NoMishap' => NoMishap
  BY <1>1, MishapsStay
<1>4. CASE u.op = "invite" /\ v \notin zones[u.zone].occupants
  <2> DEFINE j == Done(v)
  <2>1. VisitGoto(v, j)
    BY <1>4 DEF Get
  <2>2. /\ Sane(j, v, life[v], standing[v]) /\ Reads(j, v, zones)
        /\ j.rest = o.rest \ {u}
    BY <1>2, SomeLeft DEF Done
  <2> HIDE DEF j
  <2>3. NoMishap => Agrees(j, v, life[v], standing[v], zones)
    BY <1>4, <2>2, VisitFacts DEF Agrees
  <2>4. visit' = [visit EXCEPT ![v] = j]
    BY <2>1 DEF VisitGoto
  <2> QED
    BY <1>1, <1>3, <2>2, <2>3, <2>4, VisitFacts, OneVisit
<1>5. CASE ~(u.op = "invite" /\ v \notin zones[u.zone].occupants)
  <2> DEFINE j == [o EXCEPT !.at = "exec", !.read = zones[u.zone]]
  <2>1. VisitGoto(v, j)
    BY <1>5 DEF Get
  <2>2. /\ DOMAIN j = Fields /\ j.at = "exec" /\ j.to = o.to /\ j.attempt = o.attempt
        /\ j.rest = o.rest /\ j.update = {u} /\ j.read = zones[u.zone]
    BY <1>1, <1>2 DEF Sane, Fields
  <2>3. visit' = [visit EXCEPT ![v] = j]
    BY <2>1 DEF VisitGoto
  <2> HIDE DEF j, o, u
  <2>4. Sane(j, v, life[v], standing[v]) /\ Reads(j, v, zones)
    BY <1>1, <1>2, <1>5, <2>2 DEF Sane, Reads, VisitPoints
  <2>5. NoMishap => Agrees(j, v, life[v], standing[v], zones)
    BY <2>2, VisitFacts DEF Agrees, o
  <2> QED
    BY <1>1, <1>3, <2>3, <2>4, <2>5, VisitFacts, OneVisit
<1> QED
  BY <1>4, <1>5

\* A transaction that fails is begun again, or its update is given up.
LEMMA ExecFailsKeeps ==
    ASSUME ZoneInv, NEW v \in Visitors, ExecFails(v)
    PROVE  ZoneInv'
<1> DEFINE o == visit[v]
<1>1. /\ o.at = "exec" /\ UNCHANGED <<zoneSetting, standing, life, zones, zoneFaults>>
      /\ Sane(o, v, life[v], standing[v])
      /\ \/ /\ o.attempt + 1 < Attempts
            /\ VisitGoto(v, [o EXCEPT !.at = "watch", !.attempt = @ + 1, !.read = NoKey])
            /\ UNCHANGED gaveUp
         \/ VisitGoto(v, Failed(v)) /\ gaveUp' = gaveUp \cup {v}
  BY VisitFacts DEF ExecFails, VisitAt
<1>2. NoMishap' => NoMishap
  BY <1>1, MishapsStay
<1>3. CASE /\ o.attempt + 1 < Attempts
           /\ VisitGoto(v, [o EXCEPT !.at = "watch", !.attempt = @ + 1, !.read = NoKey])
           /\ UNCHANGED gaveUp
  <2> DEFINE j == [o EXCEPT !.at = "watch", !.attempt = @ + 1, !.read = NoKey]
  <2>1. /\ DOMAIN j = Fields /\ j.at = "watch" /\ j.to = o.to /\ j.attempt = o.attempt + 1
        /\ j.rest = o.rest /\ j.update = o.update
    BY <1>1 DEF Sane, Fields
  <2>2. visit' = [visit EXCEPT ![v] = j]
    BY <1>3 DEF VisitGoto
  <2> HIDE DEF j, o
  <2>3. Sane(j, v, life[v], standing[v]) /\ Reads(j, v, zones)
    BY <1>1, <1>3, <2>1 DEF Sane, Reads, VisitPoints
  <2>4. NoMishap => Agrees(j, v, life[v], standing[v], zones)
    BY <2>1, VisitFacts DEF Agrees, o
  <2> QED
    BY <1>1, <1>2, <1>3, <2>2, <2>3, <2>4, VisitFacts, OneVisit
<1>4. CASE VisitGoto(v, Failed(v)) /\ gaveUp' = gaveUp \cup {v}
  <2>1. ~NoMishap'
    BY <1>4 DEF NoMishap
  <2> DEFINE j == Failed(v)
  <2>2. Sane(j, v, life[v], standing[v]) /\ Reads(j, v, zones)
    <3>1. Sane(AtEase, v, life[v], standing[v]) /\ Reads(AtEase, v, zones)
      BY AtEaseSane DEF Reads
    <3>2. Sane(Done(v), v, life[v], standing[v]) /\ Reads(Done(v), v, zones)
      BY SomeLeft DEF Done
    <3> QED
      BY <3>1, <3>2 DEF Failed
  <2>3. visit' = [visit EXCEPT ![v] = j] /\ gaveUp' \subseteq Visitors
    BY <1>4, VisitFacts DEF VisitGoto
  <2> HIDE DEF j
  <2> QED
    BY <1>1, <1>2, <2>1, <2>2, <2>3, VisitFacts, OneVisit
<1> QED
  BY <1>1, <1>3, <1>4

\* A failing call gives the update up.
LEMMA UpdateFailsKeeps ==
    ASSUME ZoneInv, NEW v \in Visitors, UpdateFails(v)
    PROVE  ZoneInv'
<1>1. /\ ZoneFault("fault") /\ UNCHANGED <<zoneSetting, standing, life, zones, gaveUp>>
  BY DEF UpdateFails
<1>2. ~NoMishap' /\ zoneFaults' \in 0..MaxZoneFaults
  BY <1>1, FaultCounts DEF NoMishap
<1>3. PICK u : visit' = [visit EXCEPT ![v] = IF life[v] = "left" THEN AtEase
                                            ELSE Updating(visit[v].rest \ {u})]
  BY DEF UpdateFails, VisitGoto
<1> DEFINE k == Updating(visit[v].rest \ {u})
           j == IF life[v] = "left" THEN AtEase ELSE k
<1>4. Sane(AtEase, v, life[v], standing[v]) /\ Reads(AtEase, v, zones)
  BY AtEaseSane DEF Reads
<1>5. Sane(k, v, life[v], standing[v]) /\ Reads(k, v, zones)
  BY SomeLeft
<1>6. visit' = [visit EXCEPT ![v] = j]
  BY <1>3
<1> HIDE DEF k
<1>7. Sane(j, v, life[v], standing[v]) /\ Reads(j, v, zones)
  BY <1>4, <1>5
<1> HIDE DEF j
<1> QED
  BY <1>1, <1>2, <1>6, <1>7, VisitFacts, OneVisit

-----------------------------------------------------------------------------
(* A transaction that is carried out.                                      *)

\* What ZoneUpdatesAreWhole says of one zone.
Whole(old, new, v) ==
    \E w \in Visitors :
      \/ new.occupants = old.occupants \cup {w} /\ new.invites = old.invites \ {w}
      \/ /\ new.occupants = old.occupants \ {w}
         /\ new.invites = IF new.occupants = {} THEN {} ELSE old.invites \ {w}
      \/ /\ new.occupants = old.occupants
         /\ new.invites = old.invites \cup {w}
         /\ v \in old.occupants

\* An update makes a zone's state of a zone's state, and says so of one visitor only.
LEMMA MutatedFacts ==
    ASSUME NEW u \in Update, NEW state \in ZoneState, NEW v \in Visitors,
           u.op = "invite" => v \in state.occupants, u.op # "invite" => u.who = v
    PROVE  /\ Mutated(u, state) \in ZoneState
           /\ Mutated(u, state) # state => Whole(state, Mutated(u, state), v)
           /\ \A w \in Visitors \ {v} : w \in Mutated(u, state).occupants <=> w \in state.occupants
           /\ u.op = "add" => v \in Mutated(u, state).occupants
           /\ u.op = "remove" => v \notin Mutated(u, state).occupants
           /\ u.op = "invite" => Mutated(u, state).occupants = state.occupants
<1> DEFINE m == Mutated(u, state)
<1>1. /\ u.op \in {"add", "remove", "invite"} /\ u.who \in Visitors
      /\ state = [occupants |-> state.occupants, invites |-> state.invites]
      /\ state.occupants \in SUBSET Visitors /\ state.invites \in SUBSET Visitors
      /\ state.occupants = {} => state.invites = {}
      /\ state.occupants \cap state.invites = {}
  BY DEF Update, ZoneState
<1>2. CASE u.op = "add"
  <2>1. m = [occupants |-> state.occupants \cup {v}, invites |-> state.invites \ {v}]
    BY <1>2 DEF Mutated
  <2> HIDE DEF m
  <2>2. m \in ZoneState
    BY <1>1, <2>1 DEF ZoneState
  <2>3. Whole(state, m, v)
    BY <2>1 DEF Whole
  <2> QED
    BY <1>2, <2>1, <2>2, <2>3 DEF m
<1>3. CASE u.op = "remove" /\ state.occupants \subseteq {v}
  <2>1. m = [occupants |-> {}, invites |-> {}]
    BY <1>3 DEF Mutated, NoKey
  <2> HIDE DEF m
  <2>2. m \in ZoneState
    BY <2>1 DEF ZoneState
  <2>3. Whole(state, m, v)
    BY <1>3, <2>1 DEF Whole
  <2> QED
    BY <1>3, <2>1, <2>2, <2>3 DEF m
<1>4. CASE u.op = "remove" /\ ~(state.occupants \subseteq {v})
  <2>1. m = [occupants |-> state.occupants \ {v}, invites |-> state.invites \ {v}]
    BY <1>4 DEF Mutated
  <2> HIDE DEF m
  <2>2. m \in ZoneState /\ m.occupants # {}
    BY <1>1, <1>4, <2>1 DEF ZoneState
  <2>3. Whole(state, m, v)
    BY <1>4, <2>1, <2>2 DEF Whole
  <2> QED
    BY <1>4, <2>1, <2>2, <2>3 DEF m
<1>5. CASE u.op = "invite"
  <2>1. m = [occupants |-> state.occupants, invites |-> state.invites \cup ({u.who} \ state.occupants)]
    <3>1. m = [state EXCEPT !.invites = @ \cup ({u.who} \ state.occupants)]
      BY <1>5 DEF Mutated
    <3> QED
      BY <1>1, <3>1
  <2> HIDE DEF m
  <2>2. m \in ZoneState
    BY <1>1, <1>5, <2>1 DEF ZoneState
  <2>3. m # state => Whole(state, m, v)
    <3>1. CASE u.who \in state.occupants
      <4>1. m.invites = state.invites
        BY <2>1, <3>1
      <4> QED
        BY <1>1, <2>1, <4>1
    <3>2. CASE u.who \notin state.occupants
      <4>1. m.invites = state.invites \cup {u.who} /\ m.occupants = state.occupants
        BY <2>1, <3>2
      <4> QED
        BY <1>1, <1>5, <4>1 DEF Whole
    <3> QED
      BY <3>1, <3>2
  <2> QED
    BY <1>5, <2>1, <2>2, <2>3 DEF m
<1> QED
  BY <1>1, <1>2, <1>3, <1>4, <1>5

\* The others' goroutines: they may learn that their key was written, and nothing else.
LEMMA NoticedFacts ==
    ASSUME ZoneInv, NEW w \in Visitors, NEW zone
    PROVE  /\ Sane(Noticed(w, zone), w, life[w], standing[w])
           /\ Noticed(w, zone).rest = visit[w].rest
           /\ \A zs : Reads(visit[w], w, zones) /\ (\A z \in PrivateZones \ {zone} : zs[z] = zones[z])
                        => Reads(Noticed(w, zone), w, zs)
<1> DEFINE o == visit[w]
           n == Noticed(w, zone)
<1>1. Sane(o, w, life[w], standing[w])
  BY VisitFacts
<1>2. CASE \E u \in o.update : u.zone = zone
  <2>1. n = [o EXCEPT !.dirty = TRUE, !.rivals = IF @ < Attempts THEN @ + 1 ELSE @]
    BY <1>2 DEF Noticed
  <2>2. /\ DOMAIN n = Fields /\ n.at = o.at /\ n.to = o.to /\ n.attempt = o.attempt
        /\ n.rest = o.rest /\ n.update = o.update /\ n.read = o.read /\ n.dirty = TRUE
    BY <1>1, <2>1 DEF Sane, Fields
  <2> HIDE DEF n
  <2>3. Sane(n, w, life[w], standing[w])
    BY <1>1, <2>2 DEF Sane
  <2>4. \A zs : Reads(o, w, zones) => Reads(n, w, zs)
    BY <2>2 DEF Reads
  <2> QED
    BY <2>2, <2>3, <2>4 DEF n
<1>3. CASE ~\E u \in o.update : u.zone = zone
  <2>1. n = o
    BY <1>3 DEF Noticed
  <2>2. \A u \in o.update : u.zone \in PrivateZones \ {zone}
    BY <1>1, <1>3 DEF Sane, Proper, Update
  <2>3. \A zs : Reads(o, w, zones) /\ (\A z \in PrivateZones \ {zone} : zs[z] = zones[z])
                  => Reads(o, w, zs)
    BY <2>2 DEF Reads
  <2> QED
    BY <1>1, <2>1, <2>3
<1> QED
  BY <1>2, <1>3

\* The transaction of v writes what it has made of what the key holds.
LEMMA ExecKeeps ==
    ASSUME ZoneInv, NEW v \in Visitors, Exec(v)
    PROVE  /\ ZoneInv'
           /\ \A z \in PrivateZones :
                zones'[z] # zones[z] => Whole(zones[z], zones'[z], v) /\ visit[v].at = "exec"
<1> DEFINE o == visit[v]
           u == TheUpdate(v)
           m == Mutated(u, o.read)
           wrote == zones[u.zone] # NoKey \/ zones'[u.zone] # NoKey
<1>1. /\ o.at = "exec" /\ ~o.dirty
      /\ UNCHANGED <<zoneSetting, standing, life, zoneFaults, gaveUp>>
      /\ zones' = [zones EXCEPT ![u.zone] = m]
      /\ visit' = [w \in Visitors |->
                     IF w = v THEN Done(v) ELSE IF wrote THEN Noticed(w, u.zone) ELSE visit[w]]
  BY DEF Exec, Commit, VisitAt
<1>2. /\ o.update = {u} /\ u \in o.rest /\ u \in Update /\ u.zone \in PrivateZones
      /\ Proper(u, v, life[v], standing[v])
  BY <1>1, TheUpdateFacts DEF Update
<1>3. /\ zones \in ZoneKeys /\ Reads(o, v, zones) /\ Sane(o, v, life[v], standing[v])
  BY DEF ZoneInv
<1>4. /\ o.read = zones[u.zone] /\ o.read \in ZoneState
      /\ u.op = "invite" => v \in o.read.occupants
      /\ u.op # "invite" => u.who = v
  BY <1>1, <1>2, <1>3 DEF Reads, ZoneKeys, Proper
<1>5. /\ m \in ZoneState /\ (m # o.read => Whole(o.read, m, v))
      /\ \A w \in Visitors \ {v} : w \in m.occupants <=> w \in o.read.occupants
      /\ u.op = "add" => v \in m.occupants
      /\ u.op = "remove" => v \notin m.occupants
      /\ u.op = "invite" => m.occupants = o.read.occupants
  BY <1>2, <1>4, MutatedFacts
<1> HIDE DEF m
<1>6. /\ zones' \in ZoneKeys /\ zones'[u.zone] = m
      /\ \A z \in PrivateZones \ {u.zone} : zones'[z] = zones[z]
  BY <1>1, <1>2, <1>3, <1>5 DEF ZoneKeys
<1>7. /\ Sane(Done(v), v, life[v], standing[v]) /\ Done(v).rest = o.rest \ {u}
      /\ Reads(Done(v), v, zones')
  BY <1>2, SomeLeft DEF Done
<1>8. ~wrote => \A z \in PrivateZones : zones'[z] = zones[z]
  BY <1>6
<1> HIDE DEF wrote
<1>9. ASSUME NEW w \in Visitors \ {v}
      PROVE  /\ Sane(visit'[w], w, life[w], standing[w])
             /\ visit'[w].rest = visit[w].rest
             /\ Reads(visit'[w], w, zones')
  <2>1. Sane(visit[w], w, life[w], standing[w]) /\ Reads(visit[w], w, zones)
    BY DEF ZoneInv
  <2>2. CASE wrote
    <3>1. visit'[w] = Noticed(w, u.zone)
      BY <1>1, <2>2
    <3> QED
      BY <1>6, <2>1, <3>1, NoticedFacts
  <2>3. CASE ~wrote
    <3>1. visit'[w] = visit[w]
      BY <1>1, <2>3
    <3>2. \A x \in visit[w].update : x.zone \in PrivateZones
      BY <2>1 DEF Sane, Proper, Update
    <3>3. Reads(visit[w], w, zones')
      BY <1>8, <2>1, <2>3, <3>2 DEF Reads
    <3> QED
      BY <2>1, <3>1, <3>3
  <2> QED
    BY <2>2, <2>3
<1>10. visit'[v] = Done(v) /\ visit' = [w \in Visitors |-> visit'[w]]
  BY <1>1
<1>11. NoMishap' => NoMishap
  BY <1>1, MishapsStay
<1>12. ASSUME NoMishap, NEW w \in Visitors
       PROVE  Agrees(visit'[w], w, life[w], standing[w], zones')
  <2>1. Agrees(visit[w], w, life[w], standing[w], zones)
    BY <1>12 DEF ZoneInv
  <2>2. CASE w # v
    <3>1. \A z \in PrivateZones : w \in zones'[z].occupants <=> w \in zones[z].occupants
      BY <1>4, <1>5, <1>6, <2>2
    <3> QED
      BY <1>9, <2>1, <2>2, <3>1 DEF Agrees
  <2>3. CASE w = v
    <3> SUFFICES ASSUME life[v] # "lost", NEW z \in PrivateZones,
                        \A x \in o.rest \ {u} : x.op = "invite" \/ x.zone # z
                 PROVE  v \in zones'[z].occupants <=> life[v] = "here" /\ standing[v] = z
      BY <1>7, <1>10, <2>3 DEF Agrees
    <3>1. CASE z # u.zone
      BY <1>6, <2>1, <2>3, <3>1 DEF Agrees
    <3>2. CASE z = u.zone /\ u.op = "invite"
      BY <1>4, <1>5, <1>6, <2>1, <2>3, <3>2 DEF Agrees
    <3>3. CASE z = u.zone /\ u.op = "add"
      BY <1>2, <1>5, <1>6, <3>3 DEF Proper
    <3>4. CASE z = u.zone /\ u.op = "remove"
      BY <1>2, <1>5, <1>6, <3>4 DEF Proper
    <3> QED
      BY <1>2, <3>1, <3>2, <3>3, <3>4 DEF Update
  <2> QED
    BY <2>2, <2>3
<1>13. \A w \in Visitors : Sane(visit'[w], w, life[w], standing[w]) /\ Reads(visit'[w], w, zones')
  BY <1>7, <1>9, <1>10
<1>14. ZoneInv'
  BY <1>1, <1>6, <1>10, <1>11, <1>12, <1>13 DEF ZoneInv
<1>15. \A z \in PrivateZones : zones'[z] # zones[z] => Whole(zones[z], zones'[z], v)
  BY <1>4, <1>5, <1>6
<1> QED
  BY <1>1, <1>14, <1>15

\* Nobody takes the visitors out of the zones, and they are lost.
LEMMA ServerDiesKeeps ==
    ASSUME ZoneInv, ServerDies
    PROVE  ZoneInv'
<1>1. /\ ZoneFault("crash") /\ UNCHANGED <<zoneSetting, zones, gaveUp>>
      /\ life' = [v \in Visitors |-> IF life[v] = "here" \/ visit[v] # AtEase THEN "lost"
                                     ELSE life[v]]
      /\ standing' = [v \in Visitors |-> Hallway]
      /\ visit' = [v \in Visitors |-> AtEase]
  BY DEF ServerDies
<1>2. zoneFaults' \in 0..MaxZoneFaults /\ zoneFaults' # 0
  BY <1>1, FaultCounts
<1>3. NoMishap' => NoMishap
  BY <1>1, <1>2 DEF NoMishap
<1>4. \A v \in Visitors : visit'[v] = AtEase /\ standing'[v] = Hallway
  BY <1>1
<1>5. \A v \in Visitors : Sane(visit'[v], v, life'[v], standing'[v]) /\ Reads(visit'[v], v, zones')
  BY <1>4, AtEaseSane DEF Reads
<1>6. ASSUME NoMishap, NEW v \in Visitors
      PROVE  Agrees(AtEase, v, life'[v], Hallway, zones)
  <2>1. Agrees(visit[v], v, life[v], standing[v], zones)
    BY <1>6 DEF ZoneInv
  <2>2. life'[v] # "lost" => life[v] # "here" /\ life[v] # "lost" /\ visit[v] = AtEase
    BY <1>1
  <2> QED
    BY <2>1, <2>2, AtEaseSane, PrivateZoneAssumption DEF Agrees
<1>7. life' \in [Visitors -> {"away", "here", "left", "lost"}]
  BY <1>1, VisitFacts DEF ZoneInv
<1>8. standing' \in [Visitors -> PrivateZones \cup {Hallway}] /\ visit' = [v \in Visitors |-> visit'[v]]
  BY <1>1
<1>9. zoneSetting' \in ZoneSettings /\ zones' \in ZoneKeys /\ gaveUp' \subseteq Visitors
  BY <1>1 DEF ZoneInv
<1>10. NoMishap' => \A v \in Visitors : Agrees(visit'[v], v, life'[v], standing'[v], zones')
  BY <1>1, <1>3, <1>4, <1>6
<1> QED
  BY <1>2, <1>4, <1>5, <1>7, <1>8, <1>9, <1>10 DEF ZoneInv

-----------------------------------------------------------------------------

\* At first nobody stands in a private zone.
LEMMA ZonesStart == ZonesInit => ZoneInv
<1> SUFFICES ASSUME ZonesInit PROVE ZoneInv
  OBVIOUS
<1>1. /\ zoneSetting \in ZoneSettings /\ zoneFaults = 0 /\ gaveUp = {}
      /\ standing = [v \in Visitors |-> Hallway] /\ zones = [z \in PrivateZones |-> NoKey]
      /\ life = [v \in Visitors |-> IF v \in zoneSetting.crowd THEN "here" ELSE "away"]
      /\ visit = [v \in Visitors |-> AtEase]
  BY DEF ZonesInit
<1>2. NoKey \in ZoneState /\ NoKey.occupants = {}
  BY DEF NoKey, ZoneState
<1>3. /\ standing \in [Visitors -> PrivateZones \cup {Hallway}] /\ zones \in ZoneKeys
      /\ life \in [Visitors -> {"away", "here", "left", "lost"}]
      /\ 0 \in 0..MaxZoneFaults
      /\ \A v \in Visitors : visit[v] = AtEase /\ standing[v] = Hallway
      /\ visit = [v \in Visitors |-> visit[v]]
  BY <1>1, <1>2, PrivateZoneAssumption DEF ZoneKeys
<1>4. \A v \in Visitors : Sane(visit[v], v, life[v], standing[v]) /\ Reads(visit[v], v, zones)
  BY <1>3, AtEaseSane DEF Reads
<1>5. \A v \in Visitors : Agrees(visit[v], v, life[v], standing[v], zones)
  BY <1>1, <1>2, <1>3, PrivateZoneAssumption DEF Agrees
<1> QED
  BY <1>1, <1>3, <1>4, <1>5 DEF ZoneInv

\* What a step does: the invariant stays, and a zone that changes does so by one update.
LEMMA ZonesStep ==
    ASSUME ZoneInv, [ZonesNext]_zoneVars
    PROVE  /\ ZoneInv'
           /\ \A z \in PrivateZones :
                zones'[z] # zones[z] =>
                  \E v \in Visitors : Whole(zones[z], zones'[z], v) /\ visit[v].at = "exec"
<1>1. ASSUME NEW v \in Visitors,
             \/ Arrive(v) \/ Move(v) \/ SetPresence(v) \/ PrivateInvite(v) \/ Disconnect(v)
             \/ Watch(v) \/ Get(v) \/ ExecFails(v) \/ UpdateFails(v)
      PROVE  ZoneInv' /\ zones' = zones
  <2>1. zones' = zones
    BY <1>1 DEF Arrive, Move, SetPresence, PrivateInvite, Disconnect, Watch, Get, ExecFails,
                UpdateFails
  <2>2. ZoneInv'
    BY <1>1, ArriveKeeps, VisitorMoveKeeps, SetPresenceKeeps, InviteKeeps, DisconnectKeeps,
       WatchKeeps, GetKeeps, ExecFailsKeeps, UpdateFailsKeeps
  <2> QED
    BY <2>1, <2>2
<1>2. ASSUME NEW v \in Visitors, Exec(v)
      PROVE  /\ ZoneInv'
             /\ \A z \in PrivateZones :
                  zones'[z] # zones[z] => Whole(zones[z], zones'[z], v) /\ visit[v].at = "exec"
  BY <1>2, ExecKeeps
<1>3. CASE ServerDies
  BY <1>3, ServerDiesKeeps DEF ServerDies
<1>4. CASE UNCHANGED zoneVars
  <2>1. UNCHANGED <<zoneSetting, standing, life, zones, visit, zoneFaults, gaveUp>>
    BY <1>4 DEF zoneVars
  <2>2. ZoneInv'
    BY <2>1 DEF ZoneInv, NoMishap
  <2> QED
    BY <2>1, <2>2
<1> QED
  BY <1>1, <1>2, <1>3, <1>4 DEF ZonesNext

\* The invariant of the private zones.
THEOREM ZoneInvariant == ZonesSpec => []ZoneInv
<1>1. ZoneInv /\ [ZonesNext]_zoneVars => ZoneInv'
  BY ZonesStep
<1> QED
  BY <1>1, ZonesStart, PTL DEF ZonesSpec

\* Every variable has its type, and every goroutine in a transaction has one update at hand.
THEOREM ZonesTypeCorrect == ZonesSpec => []ZoneTypeOK
<1>1. ZoneInv => ZoneTypeOK
  <2> SUFFICES ASSUME ZoneInv PROVE ZoneTypeOK
    OBVIOUS
  <2>1. ASSUME NEW v \in Visitors
        PROVE  /\ visit[v].at \in {"idle", "setPresence", "watch", "get", "exec"}
               /\ visit[v].update \subseteq visit[v].rest /\ visit[v].rest \subseteq Update
               /\ visit[v].attempt < Attempts
               /\ visit[v].at \in {"get", "exec"} => Cardinality(visit[v].update) = 1
    <3>1. Sane(visit[v], v, life[v], standing[v])
      BY VisitFacts
    <3>2. visit[v].rest \subseteq Update
      BY <3>1 DEF Sane, Proper
    <3>3. visit[v].at \in {"get", "exec"} => Cardinality(visit[v].update) = 1
      BY <3>1, FS_Singleton DEF Sane
    <3> QED
      BY <3>1, <3>2, <3>3 DEF Sane, VisitPoints
  <2> QED
    BY <2>1 DEF ZoneInv, ZoneTypeOK, ZoneKeys
<1> QED
  BY <1>1, ZoneInvariant, PTL

\* However many visitors come, go and invite at a time, and whatever fails: what is written to
\* a zone is what it held with one visitor's change, and who invites is inside.
THEOREM ZonesChangeByOne == ZonesSpec => ZoneUpdatesAreWhole
<1> DEFINE Changes ==
      \A z \in PrivateZones :
         LET old == zones[z]
             new == zones'[z]
         IN  new # old =>
               \E v \in Visitors :
                 \/ new.occupants = old.occupants \cup {v} /\ new.invites = old.invites \ {v}
                 \/ /\ new.occupants = old.occupants \ {v}
                    /\ new.invites = IF new.occupants = {} THEN {} ELSE old.invites \ {v}
                 \/ /\ new.occupants = old.occupants
                    /\ new.invites = old.invites \cup {v}
                    /\ \E w \in old.occupants : visit[w].at = "exec"
<1>1. ZoneInv /\ [ZonesNext]_zoneVars => [Changes]_zoneVars
  <2> SUFFICES ASSUME ZoneInv, [ZonesNext]_zoneVars PROVE Changes
    OBVIOUS
  <2>1. \A z \in PrivateZones :
          zones'[z] # zones[z] =>
            \E v \in Visitors : Whole(zones[z], zones'[z], v) /\ visit[v].at = "exec"
    BY ZonesStep
  <2> QED
    BY <2>1 DEF Whole
<1>2. ZoneUpdatesAreWhole <=> [][Changes]_zoneVars
  BY DEF ZoneUpdatesAreWhole
<1> HIDE DEF Changes
<1> QED
  BY <1>1, <1>2, ZoneInvariant, PTL DEF ZonesSpec

\* The occupants of a zone are those who stand in it, as soon as their own handlers are done,
\* unless Redis fails a call, the server dies or an update runs out of attempts.
THEOREM OccupantsStandThere == ZonesSpec => []OccupancyAgrees
<1>1. ZoneInv => OccupancyAgrees
  BY AtEaseSane DEF ZoneInv, OccupancyAgrees, NoMishap, Agrees
<1> QED
  BY <1>1, ZoneInvariant, PTL

-----------------------------------------------------------------------------
(* Running out of attempts.                                                *)

\* Every attempt that failed, and the one whose key was written, has a rival.
Counted(j) ==
    /\ j.attempt \in Nat /\ j.rivals \in Nat
    /\ j.attempt <= j.rivals /\ j.rivals <= Attempts
    /\ j.at \in {"get", "exec"} /\ j.dirty => j.attempt + 1 <= j.rivals

RivalsInv == \A v \in Visitors : Counted(visit[v])

\* A goroutine with nothing tried yet has nothing to count.
LEMMA NothingCounted ==
    /\ Counted(AtEase) /\ \A p, t : Counted([AtEase EXCEPT !.at = p, !.to = t])
    /\ \A rest : Counted(Updating(rest))
<1>1. Attempts \in Nat
  BY PrivateZoneAssumption
<1>2. Counted(AtEase) /\ \A p, t : Counted([AtEase EXCEPT !.at = p, !.to = t])
  BY <1>1 DEF Counted, AtEase
<1>3. \A rest : Counted([AtEase EXCEPT !.at = "watch", !.rest = rest])
  BY <1>1 DEF Counted, AtEase
<1> QED
  BY <1>2, <1>3 DEF Updating

\* The goroutine of one visitor takes a step.
LEMMA OneCounted ==
    ASSUME ZoneInv, RivalsInv, NEW v \in Visitors, NEW j, VisitGoto(v, j), Counted(j)
    PROVE  RivalsInv'
<1>1. visit'[v] = j /\ \A w \in Visitors \ {v} : visit'[w] = visit[w]
  BY DEF VisitGoto, ZoneInv
<1> QED
  BY <1>1 DEF RivalsInv

\* A commit of another is one more rival of whoever watches the key.
LEMMA NoticedCounted ==
    ASSUME ZoneInv, NEW w \in Visitors, NEW zone, Counted(visit[w])
    PROVE  Counted(Noticed(w, zone))
<1> DEFINE o == visit[w]
           n == Noticed(w, zone)
<1>1. Sane(o, w, life[w], standing[w]) /\ Attempts \in Nat
  BY VisitFacts, PrivateZoneAssumption
<1>2. CASE \E u \in o.update : u.zone = zone
  <2>1. n = [o EXCEPT !.dirty = TRUE, !.rivals = IF @ < Attempts THEN @ + 1 ELSE @]
    BY <1>2 DEF Noticed
  <2>2. /\ n.at = o.at /\ n.attempt = o.attempt
        /\ n.rivals = IF o.rivals < Attempts THEN o.rivals + 1 ELSE o.rivals
    BY <1>1, <2>1 DEF Sane, Fields
  <2>3. o.attempt < Attempts /\ Counted(o)
    BY <1>1 DEF Sane
  <2> HIDE DEF n, o
  <2>4. Counted(n)
    BY <1>1, <2>2, <2>3 DEF Counted
  <2> QED
    BY <2>4 DEF n
<1>3. CASE ~\E u \in o.update : u.zone = zone
  BY <1>3 DEF Noticed
<1> QED
  BY <1>2, <1>3

\* The steps of a transaction keep the count: a new attempt begins with a clean key.
LEMMA TransactionCounted ==
    ASSUME ZoneInv, RivalsInv, NEW v \in Visitors,
           Watch(v) \/ Get(v) \/ Exec(v) \/ ExecFails(v) \/ UpdateFails(v)
    PROVE  RivalsInv'
<1> DEFINE o == visit[v]
<1>1. Sane(o, v, life[v], standing[v]) /\ Counted(o) /\ Attempts \in Nat
  BY VisitFacts, PrivateZoneAssumption DEF RivalsInv
<1>2. CASE Watch(v)
  <2>1. PICK u : VisitGoto(v, [o EXCEPT !.at = "get", !.update = {u}, !.dirty = FALSE])
    BY <1>2 DEF Watch
  <2> DEFINE j == [o EXCEPT !.at = "get", !.update = {u}, !.dirty = FALSE]
  <2>2. j.attempt = o.attempt /\ j.rivals = o.rivals /\ j.dirty = FALSE
    BY <1>1 DEF Sane, Fields
  <2> HIDE DEF j
  <2>3. Counted(j)
    BY <1>1, <2>2 DEF Counted
  <2> QED
    BY <2>1, <2>3, OneCounted DEF j
<1>3. CASE Get(v)
  <2>1. PICK r : VisitGoto(v, Done(v)) \/ VisitGoto(v, [o EXCEPT !.at = "exec", !.read = r])
    BY <1>3 DEF Get
  <2>2. o.at = "get"
    BY <1>3 DEF Get, VisitAt
  <2> DEFINE j == [o EXCEPT !.at = "exec", !.read = r]
  <2>3. j.attempt = o.attempt /\ j.rivals = o.rivals /\ j.dirty = o.dirty
    BY <1>1 DEF Sane, Fields
  <2> HIDE DEF j
  <2>4. Counted(j)
    BY <1>1, <2>2, <2>3 DEF Counted
  <2>5. Counted(Done(v))
    BY NothingCounted DEF Done
  <2> QED
    BY <2>1, <2>4, <2>5, OneCounted DEF j
<1>4. CASE Exec(v)
  <2> DEFINE z == TheUpdate(v).zone
             wrote == zones[z] # NoKey \/ zones'[z] # NoKey
  <2>1. visit' = [w \in Visitors |->
                    IF w = v THEN Done(v) ELSE IF wrote THEN Noticed(w, z) ELSE visit[w]]
    BY <1>4 DEF Exec, Commit
  <2> HIDE DEF z, wrote
  <2>2. Counted(Done(v))
    BY NothingCounted DEF Done
  <2>3. \A w \in Visitors : Counted(visit[w]) /\ Counted(Noticed(w, z))
    BY NoticedCounted DEF RivalsInv
  <2> QED
    BY <2>1, <2>2, <2>3 DEF RivalsInv
<1>5. CASE ExecFails(v)
  <2>1. /\ o.at = "exec" /\ o.dirty
        /\ \/ VisitGoto(v, [o EXCEPT !.at = "watch", !.attempt = @ + 1, !.read = NoKey])
           \/ VisitGoto(v, Failed(v))
    BY <1>5 DEF ExecFails, VisitAt
  <2> DEFINE j == [o EXCEPT !.at = "watch", !.attempt = @ + 1, !.read = NoKey]
  <2>2. j.at = "watch" /\ j.attempt = o.attempt + 1 /\ j.rivals = o.rivals
    BY <1>1 DEF Sane, Fields
  <2> HIDE DEF j
  <2>3. Counted(j)
    BY <1>1, <2>1, <2>2 DEF Counted
  <2>4. Counted(Failed(v))
    BY NothingCounted DEF Failed, Done
  <2> QED
    BY <2>1, <2>3, <2>4, OneCounted DEF j
<1>6. CASE UpdateFails(v)
  <2>1. PICK u : VisitGoto(v, IF life[v] = "left" THEN AtEase ELSE Updating(o.rest \ {u}))
    BY <1>6 DEF UpdateFails
  <2> QED
    BY <2>1, NothingCounted, OneCounted
<1> QED
  BY <1>2, <1>3, <1>4, <1>5, <1>6

\* A visitor's request starts the count, and nothing else touches it.
LEMMA RequestCounted ==
    ASSUME ZoneInv, RivalsInv, NEW v \in Visitors,
           Arrive(v) \/ Move(v) \/ SetPresence(v) \/ PrivateInvite(v) \/ Disconnect(v)
    PROVE  RivalsInv'
<1>1. CASE visit' = visit
  BY <1>1 DEF RivalsInv
<1>2. CASE \E j : VisitGoto(v, j) /\ Counted(j)
  BY <1>2, OneCounted
<1>3. CASE Move(v)
  <2>1. \E to : VisitGoto(v, [AtEase EXCEPT !.at = "setPresence", !.to = to])
    BY <1>3 DEF Move
  <2> QED
    BY <1>2, <2>1, NothingCounted
<1>4. CASE SetPresence(v) \/ PrivateInvite(v) \/ Disconnect(v)
  <2>1. (\E rest : VisitGoto(v, Updating(rest))) \/ VisitGoto(v, AtEase) \/ visit' = visit
    BY <1>4 DEF SetPresence, PrivateInvite, Disconnect
  <2> QED
    BY <1>1, <1>2, <2>1, NothingCounted
<1> QED
  BY <1>1, <1>3, <1>4 DEF Arrive

\* Every step keeps the count, and who gives up has failed as often as is allowed.
LEMMA RivalsStep ==
    ASSUME ZoneInv, RivalsInv, [ZonesNext]_zoneVars
    PROVE  RivalsInv' /\ \A v \in gaveUp' \ gaveUp : visit[v].rivals = Attempts
<1>1. ASSUME NEW v \in Visitors, ExecFails(v)
      PROVE  \A w \in gaveUp' \ gaveUp : visit[w].rivals = Attempts
  <2>1. /\ visit[v].at = "exec" /\ visit[v].dirty
        /\ \/ gaveUp' = gaveUp
           \/ visit[v].attempt + 1 = Attempts /\ gaveUp' = gaveUp \cup {v}
    BY <1>1 DEF ExecFails, VisitAt
  <2>2. Counted(visit[v]) /\ Attempts \in Nat
    BY PrivateZoneAssumption DEF RivalsInv
  <2>3. visit[v].attempt + 1 = Attempts => visit[v].rivals = Attempts
    BY <2>1, <2>2 DEF Counted
  <2> QED
    BY <2>1, <2>3
<1>2. ASSUME NEW v \in Visitors,
             \/ Arrive(v) \/ Move(v) \/ SetPresence(v) \/ PrivateInvite(v) \/ Disconnect(v)
             \/ Watch(v) \/ Get(v) \/ Exec(v) \/ UpdateFails(v)
      PROVE  gaveUp' = gaveUp
  BY <1>2
     DEF Arrive, Move, SetPresence, PrivateInvite, Disconnect, Watch, Get, Exec, UpdateFails
<1>3. CASE ServerDies
  <2>1. gaveUp' = gaveUp /\ \A v \in Visitors : visit'[v] = AtEase
    BY <1>3 DEF ServerDies
  <2> QED
    BY <2>1, NothingCounted DEF RivalsInv
<1>4. CASE UNCHANGED zoneVars
  BY <1>4 DEF zoneVars, RivalsInv
<1>5. ASSUME NEW v \in Visitors,
             \/ Arrive(v) \/ Move(v) \/ SetPresence(v) \/ PrivateInvite(v) \/ Disconnect(v)
             \/ Watch(v) \/ Get(v) \/ Exec(v) \/ ExecFails(v) \/ UpdateFails(v)
      PROVE  RivalsInv' /\ \A w \in gaveUp' \ gaveUp : visit[w].rivals = Attempts
  <2>1. RivalsInv'
    BY <1>5, RequestCounted, TransactionCounted
  <2> QED
    BY <1>1, <1>2, <1>5, <2>1
<1> QED
  BY <1>3, <1>4, <1>5 DEF ZonesNext

\* However many visitors there are and whatever fails: an update is given up for lack of
\* attempts only when the others have written its zone once for each of them.
THEOREM OnlyContentionGivesUp == ZonesSpec => GivesUpOnlyUnderContention
<1> DEFINE Outdone == \A v \in gaveUp' \ gaveUp : visit[v].rivals = Attempts
<1>1. ZonesInit => RivalsInv
  BY NothingCounted DEF ZonesInit, RivalsInv
<1>2. ZoneInv /\ RivalsInv /\ [ZonesNext]_zoneVars => RivalsInv' /\ [Outdone]_zoneVars
  BY RivalsStep
<1>3. GivesUpOnlyUnderContention <=> [][Outdone]_zoneVars
  BY DEF GivesUpOnlyUnderContention
<1> HIDE DEF Outdone
<1> QED
  BY <1>1, <1>2, <1>3, ZoneInvariant, PTL DEF ZonesSpec
=============================================================================
