CONSTANTS
    ann = ann
    ben = ben
    cat = cat
    cron = cron
    admin = admin
    Users = {ann, ben, cat}
    Username <- Namesakes
    Staff = {cron}
    MaxQueue = 2
    Speeds = {1}
    HistoryLimit = 0
    Traffic <- VoteTraffic
    InitialClients = {ann, ben, cat}
    InitialStates <- Autoplaying
    InitialSkip = {TRUE}
    MaxInFlight = 2
    MaxSongs = 2
    MaxVotes = 1
    MaxSeek = 0
    MaxFaults = 0
SPECIFICATION Spec
SYMMETRY NamesakesInterchangeable
INVARIANTS PassesOnce
PROPERTIES CountedVotesStay DropsOnlyItsSong
CHECK_DEADLOCK FALSE
