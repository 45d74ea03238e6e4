CONSTANTS
    ann = ann
    ben = ben
    cat = cat
    cron = cron
    admin = admin
    Users = {ann, ben}
    Username <- OwnNames
    Staff = {}
    MaxQueue = 2
    Speeds = {1}
    HistoryLimit = 0
    Traffic <- QueueTraffic
    InitialClients = {ann, ben}
    InitialStates <- Autoplaying
    InitialSkip = {TRUE}
    MaxInFlight = 2
    MaxSongs = 3
    MaxVotes = 0
    MaxSeek = 1
    MaxFaults = 0
SPECIFICATION Spec
SYMMETRY Interchangeable
INVARIANTS TypeOK DocumentsWellFormed SeekBelongsToSong OneHandlerEndsASong
PROPERTIES KeepsCurrentSong DropsOnlyItsSong
CHECK_DEADLOCK FALSE
