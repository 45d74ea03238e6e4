CONSTANTS
    ann = ann
    ben = ben
    cat = cat
    cron = cron
    admin = admin
    Users = {ann}
    Username <- OwnNames
    Staff = {cron}
    MaxQueue = 2
    Speeds = {1}
    HistoryLimit = 0
    Traffic <- LoneTraffic
    InitialClients = {ann}
    InitialStates <- Autoplaying
    InitialSkip = {TRUE}
    MaxInFlight = 1
    MaxSongs = 1
    MaxVotes = 2
    MaxSeek = 0
    MaxFaults = 0
SPECIFICATION FairSpec
PROPERTIES BroadcastEnds
CHECK_DEADLOCK FALSE
