----------------------------- MODULE MCServices -----------------------------
(* Instances of the parts of Services for TLC. *)
EXTENDS Services, TLC

CONSTANTS ann, ben

\* One handler at a time, then two that overlap.
Talk(n, k, kinds) == [inFlight |-> n, messages |-> k, traffic |-> kinds \cup {"send"}]
TalkSettings ==
    {Talk(1, 3, {"delete", "pin"}), Talk(1, 1, {"delete", "react", "pin"}),
     Talk(2, 2, {"delete", "react"}), Talk(2, 2, {"delete", "pin"})}

Plan(enabled, valid) == [enabled |-> enabled, valid |-> valid]
Plans == {Plan(TRUE, TRUE), Plan(TRUE, FALSE), Plan(FALSE, TRUE)}

\* Two entries of the same name, and what only a PUT may make of one: no name, a negative
\* amount, no date.
Spends(who, spelled, amount, date) ==
    [who |-> who, spelled |-> spelled, amount |-> amount, date |-> date]
Spenders == {Spends(ann, 1, 1, 2), Spends(ann, 2, 2, 1), Spends(ben, 0, -1, 0)}

Edit(n, k, kinds) == [inFlight |-> n, entries |-> k, traffic |-> kinds]
EditSettings ==
    {Edit(2, 0, {"pad"}), Edit(2, 1, {"schedules"}),
     Edit(1, 2, {"schedules", "crash", "fault"}), Edit(1, 3, {"spenders", "fault"})}

\* Guests and cleanup take turns, or overlap, or there is a fault or a restart.
RoomSettings == {{}, {"overlap"}, {"fault"}, {"crash"}}

Pace(n, slow) == [inFlight |-> n, slow |-> slow]
PaceSettings == {Pace(1, FALSE), Pace(2, TRUE)}
=============================================================================
