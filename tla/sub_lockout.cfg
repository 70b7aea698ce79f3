CONSTANTS
    Clients = {c1}
    Threads = {t1, t2, t3}
    Channels = {k1, k2}
    Ops = {"config", "discover", "unsubscribe"}
    Faulty = FALSE
    Retries = 2
    NoSub = NoSub
    NoChan = NoChan
SPECIFICATION Spec
INVARIANTS
    NeverLockedOut
