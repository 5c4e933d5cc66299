SPECIFICATION Spec
CONSTANTS
    Orders = {o1}
    Runs = {r1}
    Admins = {a}
    Drivers = {d}
    o1 = o1
    o2 = o2
    r1 = r1
    r2 = r2
    NoRun = NoRun
    Candidate <- OneOrder
    MaxAttempts = 2
    Limit = 2
    MaxPlans = 2
    MaxEvents = 5
    MaxFaults = 1
INVARIANT OrdersComplete
CHECK_DEADLOCK FALSE
