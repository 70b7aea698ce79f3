CONSTANTS
    Clients = {c1}
    Threads = {t1, t2}
    Channels = {k1, k2}
    Ops = {"config", "subscribe", "discover", "unsubscribe", "close"}
    Faulty = TRUE
    Retries = 2
    NoSub = NoSub
    NoChan = NoChan
SPECIFICATION FairSpec
INVARIANTS
    CancelledBeforeReplaced
PROPERTIES
    CallsReturn
    EndedThreadsEnd
