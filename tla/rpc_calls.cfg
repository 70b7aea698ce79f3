CONSTANTS
    Clients = {c1, c2}
    Channels = {k1, k2, k3, k4}
    Ops = {"set", "closeAll"}
    Faulty = TRUE
    OtherDevices = TRUE
    NoChan = NoChan
SPECIFICATION FairSpec
INVARIANTS
    TypeOK
    ExecutedTwiceOnlyByResend
    ResendOnFreshChannel
    CachedStubUsable
PROPERTIES
    CallsReturn
    DeliverySpec
