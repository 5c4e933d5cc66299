SPECIFICATION FairSpec
CONSTANTS
    f1 = f1
    f2 = f2
    Flushes = {f1, f2}
    Threads = {a, b}
    Nobody = Nobody
    NoRequest = NoRequest
    Requests <- AllRequests
    Callers <- AllCallers
    Agendas <- OneStoreOneTask
    MaxFaults = 1
INVARIANTS TypeOK OncePerKey AnomaliesAlerted OpenTogether AttachmentsWhole
PROPERTIES MailKept LocationsArrive
CHECK_DEADLOCK FALSE
