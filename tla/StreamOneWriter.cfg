SPECIFICATION FairSpec
CONSTANTS
    Writers = {w1}
    Clients = {driver, admin}
    driver = driver
    admin = admin
    Visible <- Audience
    Limit = 2
    MaxSeq = 4
    MaxDrops = 1
INVARIANTS OnceAndOnlyCommitted NothingSkipped
PROPERTY EventsArrive
CHECK_DEADLOCK FALSE
