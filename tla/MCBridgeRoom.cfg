SPECIFICATION CallFairSpec
CONSTANTS
    MaxCrashes = 0
CHECK_DEADLOCK FALSE
PROPERTY
    RoomIsDeleted
