SPECIFICATION Spec
CONSTANTS
    Users = {u1, u2}
    NoUser = NoUser
    Threads = {a, b}
    MaxSessions = 3
SYMMETRY Symmetry
INVARIANT SingleDevice
CHECK_DEADLOCK FALSE
