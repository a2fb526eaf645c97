SPECIFICATION Spec
CONSTANTS
    Conn = {c1, c2}
    Session = {s1}
    Role = {user}
    None = None
    MaxKeep = 2
CHECK_DEADLOCK FALSE
PROPERTIES
    GraceIsKept
