CONSTANTS
    o1 = o1
    o2 = o2
    d1 = d1
    v1 = v1
    Orders = {o1, o2}
    Drivers = {d1}
    Vendors = {v1}
    DriverOf <- MCDriverOf
    VendorOf <- MCVendorOf
    Due <- MCDue
    Amount <- MCAmount
    MaxDebt = 8
    Jobs = {j1, j2}
    NoJob = NoJob
    Batch = 2
    MaxFailures = 0
SPECIFICATION Spec
INVARIANT CoinsEarnedOnce
CHECK_DEADLOCK FALSE
