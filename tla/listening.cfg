CONSTANTS
    ann = ann
    ben = ben
    cat = cat
    cron = cron
    admin = admin
    Users = {ann, ben}
    Username <- OwnNames
    Staff = {cron}
    MaxQueue = 2
    Speeds = {1}
    HistoryLimit = 0
    Traffic <- ListeningTraffic
    InitialClients = {ann, ben}
    InitialStates <- Autoplaying
    InitialSkip = {TRUE}
    MaxInFlight = 1
    MaxSongs = 3
    MaxVotes = 1
    MaxSeek = 0
    MaxFaults = 0
SPECIFICATION FairSpec
INVARIANTS NoMootBroadcastVote
PROPERTIES BroadcastEnds
CHECK_DEADLOCK FALSE
