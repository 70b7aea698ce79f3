CONSTANTS
    Clients = {c1, c2}
    Threads = {t1, t2, t3, t4}
    Channels = {k1, k2, k3}
    Ops = {"config", "subscribe"}
    Faulty = FALSE
    Retries = 1
    NoSub = NoSub
    NoChan = NoChan
SPECIFICATION FairSpec
INVARIANTS
    AppliedOnlyWhenSubscribed
PROPERTIES
    SubscriptionBecomesReady
