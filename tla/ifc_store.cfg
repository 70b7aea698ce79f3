CONSTANTS
    Handlers = {h1, h2}
    Discoverers = {d1}
    Attrs = {mtu, speed}
    Vals = {0, 1}
    Nodes = {n1, n2}
    MaxChanges = 3
SPECIFICATION FairSpec
PROPERTIES
    DiscoveryHeals
CHECK_DEADLOCK FALSE
