SPECIFICATION FairSpec
CONSTANTS
    p1 = p1
    r1 = r1
    r2 = r2
    a1 = a1
    Plans = {p1}
    Reports = {r1, r2}
    Authorised = {r1}
    Alerts = {a1}
    Agendas <- OneThingAndAnother
    Refreshers = {"scheduler"}
    MaxAttempts = 2
    MaxEvents = 4
    MaxFaults = 1
INVARIANTS TypeOK HandledIsShown NakedRoutePending
PROPERTY Converges
CHECK_DEADLOCK FALSE
