SPECIFICATION Spec
CONSTANTS
    Session = {s1, s2}
    Id = {x}
    None = None
    MaxStops = 2
    MaxCreates = 2
SYMMETRY Symmetry
CHECK_DEADLOCK FALSE
INVARIANTS
    DatabaseIsExact
    RestoreIsComplete
