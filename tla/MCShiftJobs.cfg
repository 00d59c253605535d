SPECIFICATION MCSpec
CONSTANTS
    Couriers = {c1}
    Calls = {h1}
    Workers = {w1}
    Pools = {p1}
    Overlap <- MCOverlap
    Weeks = {}
    Shifts <- MCShifts
    MaxCapacity = 1
    LastHour = "over"
    TopTier = 2
    NoCall = none
PROPERTIES OverdueEnds LateResolved
CHECK_DEADLOCK FALSE
