---------------------------- MODULE Rediscovery ----------------------------
(***************************************************************************)
(* What the configuration functions of orca_nw_lib have in common: they    *)
(* send gNMI Sets to a device and, in a finally clause, discover again     *)
(* what they changed, so that the graph DB follows.  Several application   *)
(* threads do so at once, for several devices.                             *)
(*                                                                         *)
(* Device and DB hold facts, tuples <<kind, name, attribute, value>>.  A   *)
(* unit is what one discovery function gets and inserts: a feature of the  *)
(* device, or one interface or port group.  Bgp, Spanning and PortConfig   *)
(* translate the functions of each component into calls of Begin;          *)
(* NetworkFeatures is the machine that runs them.                          *)
(***************************************************************************)
EXTENDS Naturals, Sequences, FiniteSets

CONSTANTS
    Devices, Clients,       \* managed devices, threads of the application
    Vrfs, Asns, Families, Prefixes, Neighbors,        \* of BGP
    Protocols, Vlans,                                 \* of STP and VLANs
    Interfaces, Groups, Members,  \* ports; the interfaces of a port group
    Parts,                  \* the ports an interface is broken out into
    Addresses, Speeds, Macs,
    MaxCalls,               \* how many configuration functions are called
    MaxFaults               \* how many requests fail

ASSUME DevicesAssumption ==
    /\ IsFiniteSet(Devices) /\ IsFiniteSet(Clients) /\ IsFiniteSet(Interfaces)
    /\ IsFiniteSet(Groups) /\ IsFiniteSet(Speeds)
ASSUME PortsAssumption ==
    /\ Members \in [Groups -> SUBSET Interfaces]
    /\ Parts \in [Interfaces -> SUBSET Interfaces]
    /\ \A i \in Interfaces : i \notin Parts[i]
    /\ \A g, h \in Groups : g # h => Members[g] \cap Members[h] = {}
ASSUME LimitsAssumption == MaxCalls \in Nat /\ MaxFaults \in Nat

-----------------------------------------------------------------------------
(* Facts.  An interface's address has the index of its sub-interface; the  *)
(* DB keeps no index (the attribute "ip").                                 *)

Global(v, a) == <<"bgp", v, "global", a>>
GlobalAf(v, f) == <<"bgp", v, "af", f>>
Network(v, p) == <<"bgp", v, "af_network", p>>
Aggregate(v, p) == <<"bgp", v, "af_aggregate_addr", p>>
RemoteAsn(n, a) == <<"bgp_neighbor", n, "remote_asn", a>>
NeighborAf(n, f) == <<"bgp_neighbor", n, "af", f>>
Protocol(p) == <<"stp", "global", "enabled_protocol", p>>
DisabledVlan(v) == <<"stp", "global", "disabled_vlans", v>>
StpVlan(v) == <<"stp_vlan", v, "vlan_id", v>>
VlanAddress(v, how, a) == <<"vlan", v, how, a>>
VlanMember(v, i) == <<"vlan", v, "member", i>>
GatewayMac(m) == <<"gw_mac", m, "gateway_mac", m>>
Port(i) == <<"interface", i, "name", i>>
Address(i, index, a) == <<"interface", i, index, a>>
PortSpeed(i, s) == <<"interface", i, "speed", s>>
GroupSpeed(g, s) == <<"port_group", g, "speed", s>>

Indices == {"0", "1"}

Facts ==
    ({"bgp"} \X Vrfs \X {"global"} \X Asns)
    \cup ({"bgp"} \X Vrfs \X {"af"} \X Families)
    \cup ({"bgp"} \X Vrfs \X {"af_network", "af_aggregate_addr"} \X Prefixes)
    \cup ({"bgp_neighbor"} \X Neighbors \X {"remote_asn"} \X Asns)
    \cup ({"bgp_neighbor"} \X Neighbors \X {"af"} \X Families)
    \cup ({"stp"} \X {"global"} \X {"enabled_protocol"} \X Protocols)
    \cup ({"stp"} \X {"global"} \X {"disabled_vlans"} \X Vlans)
    \cup ({"stp_vlan"} \X Vlans \X {"vlan_id"} \X Vlans)
    \cup ({"vlan"} \X Vlans \X {"ip", "anycast"} \X Addresses)
    \cup ({"vlan"} \X Vlans \X {"member"} \X Interfaces)
    \cup ({"gw_mac"} \X Macs \X {"gateway_mac"} \X Macs)
    \cup ({"interface"} \X Interfaces \X {"name"} \X Interfaces)
    \cup ({"interface"} \X Interfaces \X (Indices \cup {"ip"}) \X Addresses)
    \cup ({"interface"} \X Interfaces \X {"speed"} \X Speeds)
    \cup ({"port_group"} \X Groups \X {"speed"} \X Speeds)

Features == {"bgp", "bgp_neighbor", "stp", "stp_vlan", "vlan", "gw_mac"}
PerName == {"interface", "port_group"}

Whole(feature) == <<feature, "all">>
PortUnits(is) == {<<"interface", i>> : i \in is}
GroupUnits == {<<"port_group", g>> : g \in Groups}
Units == {Whole(f) : f \in Features} \cup PortUnits(Interfaces) \cup GroupUnits

UnitOf(f) == IF f[1] \in PerName THEN <<f[1], f[2]>> ELSE Whole(f[1])
Of(facts, u) == {f \in facts : UnitOf(f) = u}
OfAll(facts, us) == {f \in facts : UnitOf(f) \in us}

-----------------------------------------------------------------------------
VARIABLES
    dev,       \* what each device has
    db,        \* what the graph DB has of each device
    rels,      \* the DB's relations from BGP neighbors to BGP nodes
    ties,      \* its relations from port groups to interfaces, by device
    queue,     \* port group notifications on their way
    calls,     \* how many configuration functions have been called
    faults,    \* how many requests have failed
    pc,        \* where each thread is
    reqs,      \* the Sets it has yet to send
    then,      \* what it discovers after them
    resume,    \* does it go on after a discovery that failed?
    got,       \* the answer it is about to insert
    missed     \* what the DB does not follow, and nobody is to rediscover

client == <<pc, reqs, then, resume, got>>
vars == <<dev, db, rels, ties, queue, calls, faults, client, missed>>

(* A Set: the device, the facts it deletes and adds, and the units that it *)
(* changes and that are not discovered again.                              *)
Request == Devices \X (SUBSET Facts) \X (SUBSET Facts) \X (SUBSET Units)
Target(r) == r[1]
Removed(r) == r[2]
Added(r) == r[3]
Lost(r) == r[4]

Update(d, fs) == <<d, {}, fs, {}>>
Delete(d, fs) == <<d, fs, {}, {}>>
Replace(d, old, new) == <<d, old \ new, new, {}>>
Losing(r, us) == <<Target(r), Removed(r), Added(r), us>>

(* A discovery: of which device and units, and what it does to the DB      *)
(* before it asks the device.                                              *)
Preludes == {"none", "forget_parts", "look_up_members"}
Entry == Devices \X (SUBSET Units) \X Preludes
DeviceOf(e) == e[1]
Covered(e) == e[2]
Prelude(e) == e[3]

Discover(d, us) == <<d, us, "none">>

(* The orders in which the DB may list a set of nodes.                     *)
Orders(S) == {s \in [1..Cardinality(S) -> S] : \A j, k \in DOMAIN s : s[j] = s[k] => j = k}

DiscoverEach(order, us) == [k \in DOMAIN order |-> Discover(order[k], us)]

(* A thread calls a function: the Sets rs, then the discoveries th.        *)
Begin(c, rs, th) ==
    /\ pc[c] = "idle"
    /\ pc' = [pc EXCEPT ![c] = "busy"]
    /\ reqs' = [reqs EXCEPT ![c] = rs]
    /\ then' = [then EXCEPT ![c] = th]
    /\ UNCHANGED <<dev, db, rels, ties, queue, faults, got, missed>>

(* A configuration function; an error of its discoveries is its own.       *)
Configure(c, rs, th) ==
    /\ calls < MaxCalls
    /\ calls' = calls + 1
    /\ Begin(c, rs, th)
    /\ resume' = [resume EXCEPT ![c] = FALSE]
=============================================================================
