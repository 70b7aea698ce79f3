CONSTANTS
    Channels = {c1, c2}
    Vlans = {v1}
    Domains = {d1}
    Interfaces = {i1}
    MaxCalls = 4
    MaxFaults = 2
SPECIFICATION FairSpec
INVARIANTS
    TypeOK
    InSync
PROPERTIES
    LosesAllOrNone
    DiscoveryHeals
