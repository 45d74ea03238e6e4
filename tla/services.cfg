CONSTANTS
    ann = ann
    ben = ben
    Writers = {ann, ben}
    ChatSize = 2
    PinSize = 2
    MaxMessages = 3
    ChatSettings <- TalkSettings
    Editors = {ann, ben}
    Slots = {1, 2}
    Sounds = {bell, horn}
    Empty = empty
    PlaysSize = 1
    Defaults = {100}
    Schedule <- Plans
    Spender <- Spenders
    MaxEntries = 3
    MaxDocFaults = 1
    DocSettings <- EditSettings
    Guests = {ann, ben}
    Rooms = {attic, cellar}
    Outside = outside
    MaxAge = 1
    MaxDays = 3
    MaxCleanupFaults = 1
    LifeSettings <- RoomSettings
    Clients = {ann, ben}
    Halls = {attic, cellar}
    Nowhere = nowhere
    ChannelSize = 2
    MaxVersion = 2
    DeliverySettings <- PaceSettings
SPECIFICATION ServicesSpec
INVARIANTS ServicesTypeOK OnlyAuthorsDelete CronMatchesSchedules TotalsAnnounced ShowsNewest
PROPERTIES BoardRefined OthersAreKept KeptWhileInUse CleanupDeletesExpired FeedRefined EveryoneHears
CHECK_DEADLOCK FALSE
