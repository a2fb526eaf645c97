SPECIFICATION FairSpec
CONSTANTS
    Session = {s1}
    Id = {x}
    None = None
    MaxStops = 1
    MaxCreates = 1
CHECK_DEADLOCK FALSE
PROPERTIES
    SessionsSurvive
