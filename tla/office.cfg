CONSTANTS
    ann = ann
    ben = ben
    cat = cat
    Conns = {ann, ben, cat}
    Meetings = {hall}
    hall = hall
    Lobby = lobby
    None = none
    Settings <- OfficeSettings
    MaxBubbles = 2
    MaxFaults = 1
    booth = booth
    nook = nook
    Visitors = {ann, ben, cat}
    PrivateZones = {booth, nook}
    Hallway = hallway
    Attempts = 2
    ZoneSettings <- ZonesSettings
    MaxZoneFaults = 1
SPECIFICATION FloorSpec
SYMMETRY Interchangeable
INVARIANTS FloorTypeOK BubblesAlive ByInvitationOnly MembershipAgrees VoiceAgrees FollowsSomeone PresenceAgrees ClosedLeavesNothing OccupancyAgrees
PROPERTIES LivingNotPurged ZoneUpdatesAreWhole GivesUpOnlyUnderContention
CHECK_DEADLOCK FALSE
