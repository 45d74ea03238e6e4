CONSTANTS
    Guests = {ann, ben}
    Rooms = {attic}
    Outside = outside
    MaxAge = 1
    MaxDays = 3
    MaxCleanupFaults = 1
    LifeSettings = {{"crash"}}
SPECIFICATION LifecycleSpec
PROPERTIES DeletesOnlyLongEmptyRooms
CHECK_DEADLOCK FALSE
