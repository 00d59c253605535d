SPECIFICATION Spec
CONSTANTS
    Drivers = {d1, d2}
    Broadcasts = {b1, b2}
    Tasks = {t1, t2}
    d1 = d1
    d2 = d2
    b1 = b1
    b2 = b2
    t1 = t1
    t2 = t2
    NoDriver = NoDriver
    NoBroadcast = NoBroadcast
    MaxAttempts = 1
    MaxOverrides = 1
    MaxCrashes = 0
SYMMETRY Symmetry
INVARIANTS TypeOK SingleWinner
PROPERTIES ImplementsSearch
CHECK_DEADLOCK FALSE
