SPECIFICATION FairSpec
CONSTANTS
    Orders = {o1, o2}
    Runs = {r1, r2}
    Admins = {a, b}
    Drivers = {d}
    o1 = o1
    o2 = o2
    r1 = r1
    r2 = r2
    NoRun = NoRun
    Candidate <- Overlapping
    MaxAttempts = 2
    Limit = 2
    MaxPlans = 2
    MaxEvents = 4
    MaxFaults = 1
INVARIANTS TypeOK TaskFollowsPlan LoadedStillHolds OrderInOnePlan OrdersFollowCancel
PROPERTIES TaskNeverGoesBack EventsSettle CancelAnswered
CHECK_DEADLOCK FALSE
