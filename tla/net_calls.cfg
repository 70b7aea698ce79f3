SPECIFICATION Spec
CONSTANTS
    Devices = {d1, d2}
    Clients = {c1, c2}
    Vrfs = {"default"}
    Asns = {"65001", "65002"}
    Families = {"ipv4"}
    Prefixes = {"p"}
    Neighbors = {"n"}
    Protocols = {"PVST"}
    Vlans = {"v"}
    Interfaces = {"Ethernet0", "Ethernet1"}
    Groups = {"g"}
    Members <- MCMembers
    Parts <- MCParts
    Addresses = {"a"}
    Speeds = {"slow", "fast"}
    Macs = {"m"}
    MaxCalls = 2
    MaxFaults = 1
    Discoverers = {}
    Configurations <- MCConfigurations
INVARIANTS TypeOK InSync RelationsMatch
SYMMETRY Symmetry
CHECK_DEADLOCK FALSE
