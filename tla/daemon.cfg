\* Three connections at once. The system ends: the process exits.
CONSTANT Conn = {c1, c2, c3}
SPECIFICATION FairSpec
CHECK_DEADLOCK FALSE
INVARIANTS
    TypeOK
    Drained
    StatusTrue
PROPERTIES
    StopsInTime
    StopsWhenIdle
