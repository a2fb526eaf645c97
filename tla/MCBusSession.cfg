SPECIFICATION Spec
CONSTANTS
    Conn = {c1}
    Session = {s1, s2}
    Chan = {n1, n2}
    SubId = {i1}
    Id = {a}
    None = None
    Cap = 1
    Retain = 2
    MaxSends = 2
    MaxTime = 2
SYMMETRY Symmetry
CHECK_DEADLOCK FALSE
INVARIANTS
    TypeOK
    HistoryIsLog
    DeliveryIsExact
    RetentionIsExact
PROPERTIES
    ImplementsLog
