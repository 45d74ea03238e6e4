------------------------------ MODULE MCOffice ------------------------------
(* Instances of the parts of Floor for TLC. *)
EXTENDS Floor, TLC

CONSTANTS ann, ben, cat, hall, booth, nook

Day(crowd, inFlight, n, kinds) ==
    [crowd |-> crowd, inFlight |-> inFlight, bubbles |-> n,
     traffic |-> kinds \cup {"join", "leave"}]

\* One handler at a time: everything, with a failing call of Redis; more people; a crash.
\* Then two at a time: in two bubbles, with a failing call; three people in one bubble;
\* three who follow each other; both with a crash.
OfficeSettings ==
    {Day(0, 1, 0, {}),
     Day(2, 1, 2, {"move", "follow", "bubble", "chat", "fault"}),
     Day(3, 1, 2, {"move", "bubble"}),
     Day(3, 1, 0, {"follow", "crash"}),
     Day(2, 2, 2, {"bubble", "fault"}),
     Day(3, 2, 1, {"bubble", "crash"}),
     Day(3, 2, 0, {"follow", "crash"})}

Crowd(crowd, late, where, n, kinds) ==
    [crowd |-> crowd, late |-> late, zones |-> where, inFlight |-> n, traffic |-> kinds]

\* Three at one zone, two of them at a time; two who go from one zone to the other; two
\* with a failing call; one who comes after a crash; everything, one at a time.
Pairs == {pair \in Conns \X Conns : pair[1] # pair[2]}
ZonesSettings ==
    {Crowd({}, {}, {}, 1, {}),
     Crowd(Conns, {}, {booth}, 2, {"invite"}),
     Crowd(Conns, {}, {booth, nook}, 1, {"invite", "fault", "crash"})}
    \cup {Crowd({p[1], p[2]}, {}, {booth, nook}, 2, {}) : p \in Pairs}
    \cup {Crowd({p[1], p[2]}, {}, {booth}, 2, {"invite", "fault"}) : p \in Pairs}
    \cup {Crowd({p[1]}, {p[2]}, {booth}, 2, {"invite", "crash"}) : p \in Pairs}

Interchangeable == Permutations(Conns)
=============================================================================
