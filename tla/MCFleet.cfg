SPECIFICATION MCSpec
CONSTANTS
    Drivers = {d1}
    Requests = {r1}
    Requester <- MCRequester
    TopUp <- MCTopUp
    Settlements <- MCSettlements
    Manual <- MCManual
    MaxDebt = 1
    MinBalance <- MCMinBalance
    MaxBalance = 1
    Tasks = {t1, t2}
    Couriers = {c1, c2}
    Calls = {h1, h2}
    Pools = {p1}
    Overlap <- MCOverlap
    Weeks = {}
    Shifts <- MCShifts
    MaxCapacity = 1
    LastHour = "soon"
    TopTier = 2
    Workers = {}
    NoCall = none
SYMMETRY MCSymmetry
INVARIANTS FleetTypeOK CreditedOnce DebtorsMarked
PROPERTIES BookingsWithinCapacity FleetSteps
CHECK_DEADLOCK FALSE
