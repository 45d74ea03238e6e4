---------------------------- MODULE PrivateZone ----------------------------
(***************************************************************************)
(* The private zones of an office map: who stands in one decides who else  *)
(* gets in.  The first to enter an empty zone gets in, others when they    *)
(* are invited.                                                            *)
(*                                                                         *)
(* Redis keeps the occupants and the invited of a zone under one key,      *)
(* which is there as long as somebody is inside.  Several connections      *)
(* change it at a time, each by an optimistic transaction: WATCH the key,  *)
(* GET it, and EXEC what was made of it, which fails when somebody else    *)
(* has written the key since the WATCH, and is tried again a few times.    *)
(* Whether a connection may enter is decided before, in a call of its own. *)
(***************************************************************************)
EXTENDS Integers, FiniteSets

CONSTANTS
    Visitors,       \* connections, each with an id of its own
    PrivateZones,
    Hallway,        \* the rest of the map
    Attempts,       \* privateZoneUpdateRetries
    ZoneSettings,   \* see zoneSetting
    MaxZoneFaults   \* bound: Redis errors and crashes

ASSUME PrivateZoneAssumption ==
    /\ Hallway \notin PrivateZones
    /\ Attempts \in Nat \ {0} /\ MaxZoneFaults \in Nat
    /\ ZoneSettings \subseteq
         [crowd : SUBSET Visitors, late : SUBSET Visitors, zones : SUBSET PrivateZones,
          inFlight : Nat, traffic : SUBSET {"invite", "fault", "crash"}]

VARIABLES
    zoneSetting,    \* crowd: the visitors in the room at the start; late: those who may
                    \* come later; zones: the private zones of the map; inFlight: handlers
                    \* between two calls at one time; traffic: "invite", "fault", "crash"
    standing,       \* Client.LastZoneID
    life,           \* of every connection: "lost" if a crash has cut it
    zones,          \* the private zones in Redis; one with nobody inside has no key
    visit,          \* what every connection's goroutine is doing
    zoneFaults,     \* Redis errors and crashes so far
    gaveUp          \* history variable: visitors one of whose updates ran out of attempts

zoneVars == <<zoneSetting, standing, life, zones, visit, zoneFaults, gaveUp>>

\* model.PrivateZoneState; only a zone with somebody inside keeps invitations.
ZoneState == {s \in [occupants : SUBSET Visitors, invites : SUBSET Visitors] :
                /\ s.occupants = {} => s.invites = {}
                /\ s.occupants \cap s.invites = {}}
NoKey == [occupants |-> {}, invites |-> {}]

\* One call of UpdatePrivateZoneState; who enters, leaves or is invited.
Update == [op : {"add", "remove", "invite"}, zone : PrivateZones, who : Visitors]

\* at: the call to come; to: the zone of the accepted position; rest: updates to be
\* made, this one among them; read: the state GET has returned; dirty: whether the
\* watched key was written; attempt: EXECs that failed; rivals: commits of others to the
\* key since the first WATCH, counted up to Attempts.
AtEase == [at |-> "idle", to |-> Hallway, rest |-> {}, update |-> {}, read |-> NoKey,
           dirty |-> FALSE, attempt |-> 0, rivals |-> 0]

ZoneTypeOK ==
    /\ standing \in [Visitors -> PrivateZones \cup {Hallway}]
    /\ life \in [Visitors -> {"away", "here", "left", "lost"}]
    /\ zones \in [PrivateZones -> ZoneState]
    /\ \A v \in Visitors :
         /\ visit[v].at \in {"idle", "setPresence", "watch", "get", "exec"}
         /\ visit[v].update \subseteq visit[v].rest /\ visit[v].rest \subseteq Update
         /\ visit[v].attempt < Attempts
         /\ visit[v].at \in {"get", "exec"} => Cardinality(visit[v].update) = 1
    /\ zoneFaults \in 0..MaxZoneFaults
    /\ gaveUp \subseteq Visitors

ZonesInit ==
    /\ zoneSetting \in ZoneSettings
    /\ standing = [v \in Visitors |-> Hallway]
    /\ life = [v \in Visitors |-> IF v \in zoneSetting.crowd THEN "here" ELSE "away"]
    /\ zones = [z \in PrivateZones |-> NoKey]
    /\ visit = [v \in Visitors |-> AtEase]
    /\ zoneFaults = 0
    /\ gaveUp = {}

-----------------------------------------------------------------------------

\* A connection sends its next request.
Free(v) ==
    /\ life[v] = "here"
    /\ visit[v] = AtEase
    /\ Cardinality({w \in Visitors : visit[w] # AtEase}) < zoneSetting.inFlight

ZoneFault(kind) ==
    kind \in zoneSetting.traffic /\ zoneFaults < MaxZoneFaults /\ zoneFaults' = zoneFaults + 1

VisitGoto(v, j) == visit' = [visit EXCEPT ![v] = j]
VisitAt(v, point) == visit[v].at = point

\* The updates to be made: one after the other.
Updating(rest) == IF rest = {} THEN AtEase ELSE [AtEase EXCEPT !.at = "watch", !.rest = rest]

\* HandleJoin: visitors spawn outside of the private zones.
Arrive(v) ==
    /\ life[v] = "away" /\ v \in zoneSetting.late
    /\ life' = [life EXCEPT ![v] = "here"]
    /\ UNCHANGED <<zoneSetting, standing, zones, visit, zoneFaults, gaveUp>>

\* canEnterPrivate.
CanEnter(v, state) ==
    state.occupants = {} \/ v \in state.occupants \cup state.invites

\* HandlePresenceUpdate, up to SetPresence: a move that is refused, or whose zone cannot
\* be read, ends where the visitor stands.
Move(v) ==
    /\ Free(v)
    /\ \E to \in zoneSetting.zones \cup {Hallway} :
         \/ /\ to \in PrivateZones => CanEnter(v, zones[to])
            /\ VisitGoto(v, [AtEase EXCEPT !.at = "setPresence", !.to = to])
            /\ UNCHANGED zoneFaults
         \/ /\ to \in PrivateZones
            /\ \/ ~CanEnter(v, zones[to]) /\ UNCHANGED zoneFaults
               \/ ZoneFault("fault")
            /\ VisitGoto(v, [AtEase EXCEPT !.at = "setPresence", !.to = standing[v]])
    /\ UNCHANGED <<zoneSetting, standing, life, zones, gaveUp>>

\* A variant with a mistake: the zone left is not told.
SetPresence_EntersOnly(v) ==
    /\ VisitAt(v, "setPresence")
    /\ LET to == visit[v].to
       IN  /\ standing' = [standing EXCEPT ![v] = to]
           /\ VisitGoto(v, Updating({[op |-> "add", zone |-> z, who |-> v] :
                                       z \in {to} \ {Hallway}}))
    /\ UNCHANGED <<zoneSetting, life, zones, zoneFaults, gaveUp>>

\* SetPresence, the new place in the client, and syncPrivateOccupancy: the visitor is
\* added to the zone it is in also when it was there before.
SetPresence(v) ==
    /\ VisitAt(v, "setPresence")
    /\ LET from == standing[v]
           to == visit[v].to
           out == [op : {"remove"}, zone : {from} \ {to, Hallway}, who : {v}]
           in == [op : {"add"}, zone : {to} \ {Hallway}, who : {v}]
       IN  \/ /\ standing' = [standing EXCEPT ![v] = to]
              /\ VisitGoto(v, Updating(out \cup in))
              /\ UNCHANGED zoneFaults
           \/ /\ ZoneFault("fault")
              /\ VisitGoto(v, AtEase)
              /\ UNCHANGED standing
    /\ UNCHANGED <<zoneSetting, life, zones, gaveUp>>

\* HandlePrivateInvite, up to the update.
PrivateInvite(v) ==
    /\ "invite" \in zoneSetting.traffic
    /\ Free(v)
    /\ \E z \in zoneSetting.zones, w \in {x \in Visitors : life[x] = "here"} \ {v} :
         VisitGoto(v, Updating({[op |-> "invite", zone |-> z, who |-> w]}))
    /\ UNCHANGED <<zoneSetting, standing, life, zones, zoneFaults, gaveUp>>

\* Unregister and RemoveConnectionFromPrivateZones: the zones that have a key.
Disconnect(v) ==
    /\ Free(v)
    /\ life' = [life EXCEPT ![v] = "left"]
    /\ standing' = [standing EXCEPT ![v] = Hallway]
    /\ LET found == {z \in PrivateZones : zones[z] # NoKey}
       IN  \/ /\ VisitGoto(v, Updating([op : {"remove"}, zone : found, who : {v}]))
              /\ UNCHANGED zoneFaults
           \/ ZoneFault("fault") /\ UNCHANGED visit
    /\ UNCHANGED <<zoneSetting, zones, gaveUp>>

-----------------------------------------------------------------------------
(* UpdatePrivateZoneState.                                                 *)

\* The update to work on: the one tried before; a zone is left before one is entered.
Due(j) ==
    IF j.update # {} THEN j.update
    ELSE {u \in j.rest : u.op = "add" => \A other \in j.rest : other.op = "add"}

\* A variant with a mistake: the transaction that failed is not begun anew.
Watch_Once(v) ==
    /\ VisitAt(v, "watch")
    /\ \E u \in Due(visit[v]) :
         VisitGoto(v, [visit[v] EXCEPT !.at = "get", !.update = {u}])
    /\ UNCHANGED <<zoneSetting, standing, life, zones, zoneFaults, gaveUp>>

\* WATCH.
Watch(v) ==
    /\ VisitAt(v, "watch")
    /\ \E u \in Due(visit[v]) :
         VisitGoto(v, [visit[v] EXCEPT !.at = "get", !.update = {u}, !.dirty = FALSE])
    /\ UNCHANGED <<zoneSetting, standing, life, zones, zoneFaults, gaveUp>>

TheUpdate(v) == CHOOSE u \in visit[v].update : TRUE

\* The end of an update: the next one.
Done(v) == Updating(visit[v].rest \ visit[v].update)

\* GET; who is not inside may not invite.
Get(v) ==
    /\ VisitAt(v, "get")
    /\ LET u == TheUpdate(v)
           read == zones[u.zone]
       IN  VisitGoto(v, IF u.op = "invite" /\ v \notin read.occupants THEN Done(v)
                        ELSE [visit[v] EXCEPT !.at = "exec", !.read = read])
    /\ UNCHANGED <<zoneSetting, standing, life, zones, zoneFaults, gaveUp>>

\* addPrivateOccupant, removePrivateOccupant and the function HandlePrivateInvite passes.
Mutated(u, state) ==
    CASE u.op = "add" -> [occupants |-> state.occupants \cup {u.who},
                          invites |-> state.invites \ {u.who}]
      [] u.op = "remove" -> IF state.occupants \subseteq {u.who} THEN NoKey
                            ELSE [occupants |-> state.occupants \ {u.who},
                                  invites |-> state.invites \ {u.who}]
      [] u.op = "invite" -> [state EXCEPT !.invites = @ \cup ({u.who} \ state.occupants)]

\* What v's commit means to visitor w: the key w may be watching was written.
Noticed(w, zone) ==
    LET j == visit[w]
    IN  IF \E u \in j.update : u.zone = zone
        THEN [j EXCEPT !.dirty = TRUE, !.rivals = IF @ < Attempts THEN @ + 1 ELSE @] ELSE j

\* The transaction of v is carried out; deleting a key that is not there is no write.
Commit(v) ==
    LET u == TheUpdate(v)
        wrote == zones[u.zone] # NoKey \/ zones'[u.zone] # NoKey
    IN  /\ zones' = [zones EXCEPT ![u.zone] = Mutated(u, visit[v].read)]
        /\ visit' = [w \in Visitors |->
                       IF w = v THEN Done(v) ELSE IF wrote THEN Noticed(w, u.zone) ELSE visit[w]]

\* A variant with a mistake: SET in place of the transaction.
Exec_Blind(v) ==
    /\ VisitAt(v, "exec")
    /\ Commit(v)
    /\ UNCHANGED <<zoneSetting, standing, life, zoneFaults, gaveUp>>

\* EXEC.
Exec(v) ==
    /\ VisitAt(v, "exec")
    /\ ~visit[v].dirty
    /\ Commit(v)
    /\ UNCHANGED <<zoneSetting, standing, life, zoneFaults, gaveUp>>

\* An update fails: it is logged and the next one begins, but a disconnect ends, and
\* the zones that are left are not cleared.
Failed(v) == IF life[v] = "left" THEN AtEase ELSE Done(v)

\* EXEC fails: once more, or not.
ExecFails(v) ==
    /\ VisitAt(v, "exec")
    /\ visit[v].dirty
    /\ \/ /\ visit[v].attempt + 1 < Attempts
          /\ VisitGoto(v, [visit[v] EXCEPT !.at = "watch", !.attempt = @ + 1, !.read = NoKey])
          /\ UNCHANGED gaveUp
       \/ /\ visit[v].attempt + 1 = Attempts
          /\ VisitGoto(v, Failed(v))
          /\ gaveUp' = gaveUp \cup {v}
    /\ UNCHANGED <<zoneSetting, standing, life, zones, zoneFaults>>

\* Redis fails a call of the transaction.
UpdateFails(v) ==
    /\ visit[v].at \in {"watch", "get", "exec"}
    /\ ZoneFault("fault")
    /\ \E u \in Due(visit[v]) :
         VisitGoto(v, IF life[v] = "left" THEN AtEase ELSE Updating(visit[v].rest \ {u}))
    /\ UNCHANGED <<zoneSetting, standing, life, zones, gaveUp>>

\* The server dies: nobody takes its visitors out of the zones.
ServerDies ==
    /\ ZoneFault("crash")
    /\ life' = [v \in Visitors |-> IF life[v] = "here" \/ visit[v] # AtEase THEN "lost"
                                   ELSE life[v]]
    /\ standing' = [v \in Visitors |-> Hallway]
    /\ visit' = [v \in Visitors |-> AtEase]
    /\ UNCHANGED <<zoneSetting, zones, gaveUp>>

ZonesNext ==
    \/ \E v \in Visitors :
         \/ Arrive(v) \/ Move(v) \/ SetPresence(v) \/ PrivateInvite(v) \/ Disconnect(v)
         \/ Watch(v) \/ Get(v) \/ Exec(v) \/ ExecFails(v) \/ UpdateFails(v)
    \/ ServerDies

ZonesSpec == ZonesInit /\ [][ZonesNext]_zoneVars

-----------------------------------------------------------------------------

\* Concurrent updates of a zone are not lost: whatever is written, one connection has
\* come, or gone, or one that is inside has invited, and all else stays as it was.
ZoneUpdatesAreWhole ==
    [][\A z \in PrivateZones :
         LET old == zones[z]
             new == zones'[z]
         IN  new # old =>
               \E v \in Visitors :
                 \/ new.occupants = old.occupants \cup {v} /\ new.invites = old.invites \ {v}
                 \/ /\ new.occupants = old.occupants \ {v}
                    /\ new.invites = IF new.occupants = {} THEN {} ELSE old.invites \ {v}
                 \/ /\ new.occupants = old.occupants
                    /\ new.invites = old.invites \cup {v}
                    /\ \E w \in old.occupants : visit[w].at = "exec"]_zoneVars

\* The occupants of a zone are those who stand in it, as soon as their own handlers are
\* done, whatever the others are doing: nobody bars a zone from outside, and nobody is
\* inside unseen.  Only a Redis error, a crash, or running out of attempts breaks it.
OccupancyAgrees ==
    gaveUp = {} /\ (zoneFaults = 0 \/ "fault" \notin zoneSetting.traffic) =>
      \A z \in PrivateZones, v \in Visitors :
        visit[v] = AtEase /\ life[v] # "lost" =>
          (v \in zones[z].occupants <=> life[v] = "here" /\ standing[v] = z)

\* An update runs out of attempts only when the others got through with as many.
GivesUpOnlyUnderContention ==
    [][\A v \in gaveUp' \ gaveUp : visit[v].rivals = Attempts]_zoneVars
=============================================================================
