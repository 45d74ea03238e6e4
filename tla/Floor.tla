------------------------------- MODULE Floor -------------------------------
(***************************************************************************)
(* The office floor: the office of a room and its private zones.           *)
(*                                                                         *)
(* A move is checked against the private zones before it is made, and the  *)
(* occupants are updated after it.  The two share the zone a client is in, *)
(* which only its own goroutine changes; and for the office it may be any  *)
(* zone.  So it is enough to look at one part at a time, which a behaviour *)
(* chooses at the start; in the other one nobody comes.                    *)
(***************************************************************************)
EXTENDS Office, PrivateZone

VARIABLE side

floorVars == <<side, vars, zoneVars>>

FloorInit ==
    /\ side \in {"office", "zones"}
    /\ Init /\ ZonesInit
    /\ side # "office" => setting.crowd = 0
    /\ side # "zones" => zoneSetting.crowd = {}

FloorNext ==
    /\ UNCHANGED side
    /\ \/ side = "office" /\ Next /\ UNCHANGED zoneVars
       \/ side = "zones" /\ ZonesNext /\ UNCHANGED vars

FloorSpec == FloorInit /\ [][FloorNext]_floorVars

-----------------------------------------------------------------------------

\* Who is in a bubble or in a private zone is not invited to it any more, nobody is
\* invited to a zone that is empty, and every field has its type.
FloorTypeOK == TypeOK /\ ZoneTypeOK
=============================================================================
