SPECIFICATION FairSpec
CONSTANTS
    Drivers = {d1, d2}
    Broadcasts = {b1}
    Tasks = {t1, t2}
    d1 = d1
    d2 = d2
    b1 = b1
    t1 = t1
    t2 = t2
    NoDriver = NoDriver
    NoBroadcast = NoBroadcast
    MaxAttempts = 2
    MaxOverrides = 1
    MaxCrashes = 1
PROPERTIES SearchEnds
CHECK_DEADLOCK FALSE
