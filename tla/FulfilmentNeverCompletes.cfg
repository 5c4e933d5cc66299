SPECIFICATION SpecInTransit
CONSTANTS
    Tasks = {t1}
    Stores = {s1, s2}
    Products = {p1}
    Keys = {1, 2, 3, 4, 5, 6}
    Threads = {a, b}
    s1 = s1
    s2 = s2
    p1 = p1
    t1 = t1
    NoRow = NoRow
    NoStore = NoStore
    NoRequest = NoRequest
    Route <- TwoStops
    Load <- Loads
    Opening <- OpeningStock
    MaxLoad = 1
    MaxVersion = 9
CONSTRAINTS KeysInOrder FreshKeys FullReceipts
SYMMETRY Symmetry
INVARIANT AllSignedCompletes
CHECK_DEADLOCK FALSE
