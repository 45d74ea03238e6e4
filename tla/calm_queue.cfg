CONSTANTS
    ann = ann
    ben = ben
    cat = cat
    cron = cron
    admin = admin
    Users = {ann, ben}
    Username <- OwnNames
    Staff = {}
    MaxQueue = 3
    Speeds = {1}
    HistoryLimit = 9
    Traffic <- CalmQueueTraffic
    InitialClients = {ann, ben}
    InitialStates <- Rooms
    InitialSkip = {TRUE}
    MaxInFlight = 1
    MaxSongs = 3
    MaxVotes = 2
    MaxSeek = 0
    MaxFaults = 0
SPECIFICATION Spec
SYMMETRY Interchangeable
INVARIANTS NoSongIsLost RecordedOnce
PROPERTIES KeepsCurrentSong
CHECK_DEADLOCK FALSE
