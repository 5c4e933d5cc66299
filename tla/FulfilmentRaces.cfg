SPECIFICATION SpecRaces
CONSTANTS
    Tasks = {t1, t2, t3}
    Stores = {s1, s2}
    Products = {p1, p2}
    Keys = {1, 2, 3, 4, 5, 6}
    Threads = {a, b}
    s1 = s1
    s2 = s2
    p1 = p1
    t1 = t1
    NoRow = NoRow
    NoStore = NoStore
    NoRequest = NoRequest
    Route <- OneLong
    Load <- Loads
    Opening <- OpeningStock
    MaxLoad = 1
    MaxVersion = 9
CONSTRAINTS KeysInOrder FreshKeys Relevant
SYMMETRY Symmetry
INVARIANTS CompletedFullySigned CompletedOnce ArrivedEverywhere ReadsStillHold ReceiptAfterDelivery NoGapInHistory StockNeverInvented
CHECK_DEADLOCK FALSE
