SPECIFICATION FairSpec
CONSTANTS
    Conn = {c1, c2, c3}
    Session = {s1}
    Role = {user}
    None = None
    MaxKeep = 2
CHECK_DEADLOCK FALSE
INVARIANTS
    TypeOK
    UnusedIsTimed
PROPERTIES
    NobodyCutOff
    OnlyUsersVacate
    UnusedEnds
