CONSTANTS
    Drivers = {d1, d2}
    NoDriver = NoDriver
    Handlers = {h1, h2}
    MaxOverrides = 1
SPECIFICATION MCSpec
SYMMETRY Symmetry
INVARIANTS
    TypeOK
    DriverBeforeHandover
    RefundsWithinCancellations
PROPERTIES
    StatusMovesAlongTables
    ConfirmedPaymentStands
CHECK_DEADLOCK FALSE
