SPECIFICATION Spec
CONSTANTS
    Writers = {w1, w2}
    Clients = {admin}
    driver = driver
    admin = admin
    Visible <- Audience
    Limit = 2
    MaxSeq = 3
    MaxDrops = 1
INVARIANT NothingSkipped
CHECK_DEADLOCK FALSE
