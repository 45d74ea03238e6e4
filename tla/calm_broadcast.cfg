CONSTANTS
    ann = ann
    ben = ben
    cat = cat
    cron = cron
    admin = admin
    Users = {ann, ben}
    Username <- OwnNames
    Staff = {cron}
    MaxQueue = 2
    Speeds = {1}
    HistoryLimit = 0
    Traffic <- CalmBroadcastTraffic
    InitialClients = {ann, ben}
    InitialStates <- Autoplaying
    InitialSkip = {TRUE}
    MaxInFlight = 1
    MaxSongs = 3
    MaxVotes = 0
    MaxSeek = 1
    MaxFaults = 0
SPECIFICATION Spec
SYMMETRY Interchangeable
INVARIANTS NoSongIsLost
PROPERTIES BroadcastIsInterlude
CHECK_DEADLOCK FALSE
