SPECIFICATION FairSpec
CONSTANTS
    Devices = {"A", "B", "C"}
    Clients = {client}
    Ports = {"a1", "b1", "b2", "c1"}
    Owner <- MCOwner
    Asked = {"A", "B", "C"}
    Lists <- MCLists
    Cablings <- MCCablings
    MaxTroubles = 1
INVARIANTS TypeOK NothingMissed
PROPERTIES DiscoveryReturns DiscoveryHeals PictureSpec
