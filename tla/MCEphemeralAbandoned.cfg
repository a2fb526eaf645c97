SPECIFICATION FairSpec
CONSTANTS
    Conn = {c1, c2}
    Session = {s1}
    Role = {user}
    None = None
    MaxKeep = 1
CHECK_DEADLOCK FALSE
PROPERTIES
    AbandonedEnds
