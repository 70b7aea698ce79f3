----------------------- MODULE NetworkFeaturesProofs -----------------------
(***************************************************************************)
(* Theorems about NetworkFeatures, for any devices, threads, names and     *)
(* limits: its types, and that relations between BGP neighbors and BGP     *)
(* nodes of different devices match in any order of discoveries.           *)
(***************************************************************************)
EXTENDS NetworkFeatures, FiniteSetTheorems, SequenceTheorems, TLAPS

-----------------------------------------------------------------------------
(* Facts and units.                                                        *)

LEMMA BgpFacts ==
    /\ \A v \in Vrfs, a \in Asns : Global(v, a) \in Facts
    /\ \A v \in Vrfs, f \in Families : GlobalAf(v, f) \in Facts
    /\ \A v \in Vrfs, p \in Prefixes : Network(v, p) \in Facts /\ Aggregate(v, p) \in Facts
    /\ \A n \in Neighbors, a \in Asns : RemoteAsn(n, a) \in Facts
    /\ \A n \in Neighbors, f \in Families : NeighborAf(n, f) \in Facts
BY DEF Facts, Global, GlobalAf, Network, Aggregate, RemoteAsn, NeighborAf

LEMMA OtherFacts ==
    /\ \A p \in Protocols : Protocol(p) \in Facts
    /\ \A v \in Vlans : DisabledVlan(v) \in Facts /\ StpVlan(v) \in Facts
    /\ \A v \in Vlans, a \in Addresses :
        VlanAddress(v, "ip", a) \in Facts /\ VlanAddress(v, "anycast", a) \in Facts
    /\ \A v \in Vlans, i \in Interfaces : VlanMember(v, i) \in Facts
    /\ \A m \in Macs : GatewayMac(m) \in Facts
    /\ \A i \in Interfaces : Port(i) \in Facts
    /\ \A i \in Interfaces, x \in Indices \cup {"ip"}, a \in Addresses : Address(i, x, a) \in Facts
    /\ \A i \in Interfaces, s \in Speeds : PortSpeed(i, s) \in Facts
    /\ \A g \in Groups, s \in Speeds : GroupSpeed(g, s) \in Facts
BY DEF Facts, Protocol, DisabledVlan, StpVlan, VlanAddress, VlanMember, GatewayMac, Port,
       Address, PortSpeed, GroupSpeed

LEMMA UnitTypes ==
    /\ \A f \in Features : {Whole(f)} \subseteq Units
    /\ \A is \in SUBSET Interfaces : PortUnits(is) \subseteq Units
    /\ GroupUnits \subseteq Units
BY DEF Units, PortUnits

(* What a fact of a kind looks like.                                       *)
LEMMA NeighborFact ==
    ASSUME NEW f \in Facts, f[1] = "bgp_neighbor"
    PROVE  /\ f[2] \in Neighbors
           /\ f[3] = "remote_asn" => f[4] \in Asns /\ f = RemoteAsn(f[2], f[4])
           /\ f[3] # "remote_asn" => f[4] \in Families
BY DEF Facts, RemoteAsn

LEMMA InterfaceFact ==
    ASSUME NEW f \in Facts, f[1] = "interface"
    PROVE  /\ f[2] \in Interfaces
           /\ f[3] \in Indices => f[4] \in Addresses
BY DEF Facts, Indices

LEMMA GroupFact ==
    ASSUME NEW f \in Facts, f[1] = "port_group"
    PROVE  f[2] \in Groups /\ f[4] \in Speeds
BY DEF Facts

-----------------------------------------------------------------------------
(* Requests and discoveries.                                               *)

LEMMA RequestTypes ==
    ASSUME NEW d \in Devices, NEW old \in SUBSET Facts, NEW new \in SUBSET Facts,
           NEW us \in SUBSET Units
    PROVE  /\ Update(d, new) \in Request
           /\ Delete(d, old) \in Request
           /\ Replace(d, old, new) \in Request
           /\ Losing(Update(d, new), us) \in Request
           /\ Losing(Delete(d, old), us) \in Request
BY DEF Update, Delete, Replace, Losing, Request, Target, Removed, Added, Lost

LEMMA OneRequest == ASSUME NEW r \in Request PROVE <<r>> \in Seq(Request)
OBVIOUS

LEMMA DiscoverType ==
    ASSUME NEW d \in Devices, NEW us \in SUBSET Units, NEW prelude \in Preludes
    PROVE  <<d, us, prelude>> \in Entry /\ << <<d, us, prelude>> >> \in Seq(Entry)
<1>1. <<d, us, prelude>> \in Entry
  BY DEF Entry
<1> QED BY <1>1

LEMMA OrdersType ==
    ASSUME NEW S, IsFiniteSet(S), NEW order \in Orders(S)
    PROVE  order \in Seq(S) /\ DOMAIN order = 1..Len(order) /\ Len(order) \in Nat
<1>1. Cardinality(S) \in Nat
  BY FS_CardinalityType
<1>2. order \in [1..Cardinality(S) -> S]
  BY DEF Orders
<1> QED BY <1>1, <1>2

LEMMA DiscoverEachType ==
    ASSUME NEW order \in Seq(Devices), NEW us \in SUBSET Units
    PROVE  DiscoverEach(order, us) \in Seq(Entry)
<1>1. \A d \in Devices : Discover(d, us) \in Entry
  BY DiscoverType DEF Discover, Preludes
<1>2. /\ Len(order) \in Nat /\ DOMAIN order = 1..Len(order)
      /\ \A k \in 1..Len(order) : order[k] \in Devices
  OBVIOUS
<1>3. DiscoverEach(order, us) \in [1..Len(order) -> Entry]
  BY <1>1, <1>2 DEF DiscoverEach
<1> QED BY <1>2, <1>3

(* What every configuration function is.                                   *)
Call(c) == \E rs \in Seq(Request), th \in Seq(Entry) : Configure(c, rs, th)

LEMMA CallWith ==
    ASSUME NEW c, NEW r \in Request, NEW th \in Seq(Entry), Configure(c, <<r>>, th)
    PROVE  Call(c)
BY OneRequest DEF Call

LEMMA BgpDiscoveries ==
    ASSUME NEW d \in Devices
    PROVE  /\ discover_bgp(<<d>>) \in Seq(Entry)
           /\ discover_bgp_neighbors(d) \in Seq(Entry)
           /\ \A order \in Orders(Devices) : discover_bgp(order) \in Seq(Entry)
<1>1. {Whole("bgp")} \subseteq Units /\ {Whole("bgp_neighbor")} \subseteq Units
  BY UnitTypes DEF Features
<1>2. <<d>> \in Seq(Devices) /\ \A order \in Orders(Devices) : order \in Seq(Devices)
  BY OrdersType, DevicesAssumption
<1>3. discover_bgp_neighbors(d) \in Seq(Entry)
  BY <1>1, DiscoverType DEF discover_bgp_neighbors, Discover, Preludes
<1> QED BY <1>1, <1>2, <1>3, DiscoverEachType DEF discover_bgp

(* The facts that BGP requests name.                                       *)
LEMMA BgpSets ==
    /\ AllAf \subseteq Facts /\ AllNetworks \subseteq Facts
    /\ AllAggregates \subseteq Facts /\ AllNeighborAf \subseteq Facts
    /\ \A v \in Vrfs : {Global(v, a) : a \in Asns} \subseteq Facts
    /\ \A v \in Vrfs, fs \in SUBSET Families : {GlobalAf(v, f) : f \in fs} \subseteq Facts
    /\ \A vs \in SUBSET Vrfs, p \in Prefixes :
        {Network(v, p) : v \in vs} \subseteq Facts /\ {Aggregate(v, p) : v \in vs} \subseteq Facts
    /\ \A n \in Neighbors : {RemoteAsn(n, a) : a \in Asns} \subseteq Facts
    /\ {RemoteAsn(n, a) : n \in Neighbors, a \in Asns} \subseteq Facts
BY BgpFacts DEF AllAf, AllNetworks, AllAggregates, AllNeighborAf

LEMMA BgpGlobalCalls ==
    ASSUME NEW c, NEW d \in Devices,
           \/ config_bgp_global(c, d) \/ del_bgp_global(c, d)
           \/ config_bgp_global_af(c, d) \/ del_bgp_global_af_all(c, d)
           \/ del_bgp_global_af(c, d)
    PROVE  Call(c)
<1> USE BgpFacts, BgpSets, BgpDiscoveries, RequestTypes, CallWith
<1>1. CASE config_bgp_global(c, d)
  BY <1>1 DEF config_bgp_global, config_bgp_global_on_device
<1>2. CASE del_bgp_global(c, d)
  BY <1>2 DEF del_bgp_global, del_bgp_global_from_device
<1>3. CASE config_bgp_global_af(c, d)
  BY <1>3 DEF config_bgp_global_af, config_bgp_global_af_on_device
<1>4. CASE del_bgp_global_af_all(c, d)
  <2>1. PICK order \in Orders(Devices) :
            Configure(c, <<del_all_bgp_global_af_from_device(d)>>, discover_bgp(order))
    BY <1>4 DEF del_bgp_global_af_all
  <2>2. del_all_bgp_global_af_from_device(d) \in Request
    BY DEF del_all_bgp_global_af_from_device
  <2> QED BY <2>1, <2>2
<1>5. CASE del_bgp_global_af(c, d)
  <2>1. PICK v \in Vrfs, fs \in SUBSET Families :
            Configure(c, <<del_bgp_global_af_from_device(d, v, fs)>>, discover_bgp(<<d>>))
    BY <1>5 DEF del_bgp_global_af
  <2>2. (IF fs = {} THEN AllAf ELSE {GlobalAf(v, f) : f \in fs}) \in SUBSET Facts
    BY BgpSets
  <2>3. del_bgp_global_af_from_device(d, v, fs) \in Request
    BY <2>2, RequestTypes DEF del_bgp_global_af_from_device
  <2> QED BY <2>1, <2>3
<1> QED BY <1>1, <1>2, <1>3, <1>4, <1>5

LEMMA BgpAddressCalls ==
    ASSUME NEW c, NEW d \in Devices,
           \/ config_bgp_global_af_network(c, d) \/ del_bgp_global_af_network(c, d)
           \/ config_bgp_global_af_aggregate_addr(c, d)
           \/ del_bgp_global_af_aggregate_addr(c, d)
    PROVE  Call(c)
<1> USE BgpFacts, BgpSets, BgpDiscoveries, RequestTypes, CallWith
<1>1. CASE config_bgp_global_af_network(c, d)
  BY <1>1 DEF config_bgp_global_af_network, config_bgp_global_af_network_on_device
<1>2. CASE del_bgp_global_af_network(c, d)
  <2>1. PICK vs \in SUBSET Vrfs, p \in Prefixes :
            Configure(c, <<del_bgp_global_af_network_on_device(d, vs, p)>>, discover_bgp(<<d>>))
    BY <1>2 DEF del_bgp_global_af_network
  <2>2. (IF vs = {} THEN AllNetworks ELSE {Network(v, p) : v \in vs}) \in SUBSET Facts
    BY BgpSets
  <2>3. del_bgp_global_af_network_on_device(d, vs, p) \in Request
    BY <2>2, RequestTypes DEF del_bgp_global_af_network_on_device
  <2> QED BY <2>1, <2>3
<1>3. CASE config_bgp_global_af_aggregate_addr(c, d)
  BY <1>3 DEF config_bgp_global_af_aggregate_addr, config_bgp_global_af_aggregate_addr_on_device
<1>4. CASE del_bgp_global_af_aggregate_addr(c, d)
  <2>1. PICK vs \in SUBSET Vrfs, p \in Prefixes :
            Configure(c, <<del_bgp_global_af_aggregate_addr_on_device(d, vs, p)>>, discover_bgp(<<d>>))
    BY <1>4 DEF del_bgp_global_af_aggregate_addr
  <2>2. (IF vs = {} THEN AllAggregates ELSE {Aggregate(v, p) : v \in vs}) \in SUBSET Facts
    BY BgpSets
  <2>3. del_bgp_global_af_aggregate_addr_on_device(d, vs, p) \in Request
    BY <2>2, RequestTypes DEF del_bgp_global_af_aggregate_addr_on_device
  <2> QED BY <2>1, <2>3
<1> QED BY <1>1, <1>2, <1>3, <1>4

LEMMA BgpNeighborCalls ==
    ASSUME NEW c, NEW d \in Devices,
           \/ config_bgp_neighbors(c, d) \/ del_all_bgp_neighbors(c, d)
           \/ delete_bgp_neighbor(c, d) \/ config_bgp_neighbor_af(c, d)
           \/ del_all_bgp_neighbour_af(c, d) \/ delete_all_bgp_neighbor_af(c, d)
    PROVE  Call(c)
<1> USE BgpFacts, BgpSets, BgpDiscoveries, RequestTypes, CallWith
<1>0. {Whole("bgp_neighbor")} \subseteq Units
  BY UnitTypes DEF Features
<1>1. CASE config_bgp_neighbors(c, d)
  BY <1>1 DEF config_bgp_neighbors, config_bgp_neighbors_on_device
<1>2. CASE del_all_bgp_neighbors(c, d)
  <2>1. PICK order \in Orders(Devices) :
            Configure(c, <<Losing(del_all_bgp_neighbors_from_device(d), {Whole("bgp_neighbor")})>>, discover_bgp(order))
    BY <1>2 DEF del_all_bgp_neighbors
  <2>2. Losing(del_all_bgp_neighbors_from_device(d), {Whole("bgp_neighbor")}) \in Request
    BY <1>0 DEF del_all_bgp_neighbors_from_device
  <2> QED BY <2>1, <2>2
<1>3. CASE delete_bgp_neighbor(c, d)
  <2>1. PICK n \in Neighbors, withVrf \in BOOLEAN :
            Configure(c, <<del_bgp_neighbor_from_device(d, n, withVrf)>>, discover_bgp_neighbors(d))
    BY <1>3 DEF delete_bgp_neighbor
  <2>2. del_bgp_neighbor_from_device(d, n, withVrf) \in Request
    BY DEF del_bgp_neighbor_from_device
  <2> QED BY <2>1, <2>2
<1>4. CASE config_bgp_neighbor_af(c, d)
  <2>1. PICK f \in Families, n \in Neighbors :
            Configure(c, <<config_bgp_neighbor_af_on_device(d, f, n)>>, discover_bgp_neighbors(d))
    BY <1>4 DEF config_bgp_neighbor_af
  <2>2. config_bgp_neighbor_af_on_device(d, f, n) \in Request
    BY DEF config_bgp_neighbor_af_on_device
  <2> QED BY <2>1, <2>2
<1>5. CASE del_all_bgp_neighbour_af(c, d)
  <2>1. Configure(c, <<Losing(del_all_neighbor_af_from_device(d), {Whole("bgp_neighbor")})>>,
                  discover_bgp(<<d>>))
    BY <1>5 DEF del_all_bgp_neighbour_af
  <2>2. AllNeighborAf \in SUBSET Facts /\ {Whole("bgp_neighbor")} \in SUBSET Units
    BY <1>0, BgpSets
  <2>3. Losing(del_all_neighbor_af_from_device(d), {Whole("bgp_neighbor")}) \in Request
    BY <2>2, RequestTypes DEF del_all_neighbor_af_from_device
  <2> QED BY <2>1, <2>3
<1>6. CASE delete_all_bgp_neighbor_af(c, d)
  <2>1. Configure(c, <<del_all_neighbor_af_from_device(d)>>, discover_bgp_neighbors(d))
    BY <1>6 DEF delete_all_bgp_neighbor_af
  <2>2. del_all_neighbor_af_from_device(d) \in Request
    BY DEF del_all_neighbor_af_from_device
  <2> QED BY <2>1, <2>2
<1> QED BY <1>1, <1>2, <1>3, <1>4, <1>5, <1>6

LEMMA PlainDiscoveries ==
    ASSUME NEW d \in Devices
    PROVE  /\ \A order \in Orders(Devices) : discover_stp(order) \in Seq(Entry)
           /\ discover_stp(<<d>>) \in Seq(Entry)
           /\ discover_stp_vlan(d) \in Seq(Entry)
           /\ \A i \in Interfaces : discover_interface(d, i) \in Seq(Entry)
           /\ discover_interfaces(d) \in Seq(Entry)
           /\ discover_vlan(d) \in Seq(Entry)
           /\ discover_mclag_gw_macs(d) \in Seq(Entry)
<1>1. \A us \in SUBSET Units : <<Discover(d, us)>> \in Seq(Entry)
  BY DiscoverType DEF Discover, Preludes
<1>2. \A f \in Features : {Whole(f)} \in SUBSET Units
  BY UnitTypes
<1>3. \A is \in SUBSET Interfaces : PortUnits(is) \in SUBSET Units
  BY UnitTypes
<1>4. <<d>> \in Seq(Devices) /\ \A order \in Orders(Devices) : order \in Seq(Devices)
  BY OrdersType, DevicesAssumption
<1>5. /\ \A order \in Orders(Devices) : discover_stp(order) \in Seq(Entry)
      /\ discover_stp(<<d>>) \in Seq(Entry)
  BY <1>2, <1>4, DiscoverEachType DEF discover_stp, Features
<1>6. discover_stp_vlan(d) \in Seq(Entry) /\ discover_vlan(d) \in Seq(Entry)
      /\ discover_mclag_gw_macs(d) \in Seq(Entry)
  BY <1>1, <1>2 DEF discover_stp_vlan, discover_vlan, discover_mclag_gw_macs, Features
<1>7. \A i \in Interfaces : {i} \in SUBSET Interfaces
  OBVIOUS
<1>8. \A i \in Interfaces : discover_interface(d, i) \in Seq(Entry)
  BY <1>1, <1>3, <1>7 DEF discover_interface
<1>9. Interfaces \in SUBSET Interfaces
  OBVIOUS
<1>10. discover_interfaces(d) \in Seq(Entry)
  BY <1>1, <1>3, <1>9 DEF discover_interfaces
<1> QED BY <1>5, <1>6, <1>8, <1>10

(* The facts that the other requests name.                                 *)
LEMMA OtherSets ==
    /\ AllProtocols \in SUBSET Facts /\ AllDisabled \in SUBSET Facts
    /\ \A ps \in SUBSET Protocols, vs \in SUBSET Vlans :
        {Protocol(p) : p \in ps} \cup {DisabledVlan(v) : v \in vs} \in SUBSET Facts
    /\ \A vs \in SUBSET Vlans : {DisabledVlan(v) : v \in vs} \in SUBSET Facts
    /\ {StpVlan(w) : w \in Vlans} \in SUBSET Facts
    /\ \A is \in SUBSET Interfaces : /\ AddressesOf(is) \in SUBSET Facts
                                     /\ {Port(i) : i \in is} \in SUBSET Facts
    /\ \A i \in Interfaces, as \in SUBSET Addresses : {Address(i, "0", a) : a \in as} \in SUBSET Facts
    /\ \A i \in Interfaces, vs \in SUBSET Vlans : {VlanMember(v, i) : v \in vs} \in SUBSET Facts
    /\ \A g \in Groups : SpeedsOf(g) \in SUBSET Facts
    /\ \A g \in Groups, s \in Speeds :
        {GroupSpeed(g, s)} \cup {PortSpeed(i, s) : i \in Members[g]} \in SUBSET Facts
    /\ \A v \in Vlans : {VlanAddress(v, "ip", a) : a \in Addresses} \in SUBSET Facts
    /\ {GatewayMac(m) : m \in Macs} \in SUBSET Facts
<1>1. \A g \in Groups : Members[g] \subseteq Interfaces
  BY PortsAssumption
<1>2. \A g \in Groups, s \in Speeds :
        {GroupSpeed(g, s)} \cup {PortSpeed(i, s) : i \in Members[g]} \in SUBSET Facts
  BY <1>1, OtherFacts
<1>3. \A g \in Groups : SpeedsOf(g) \in SUBSET Facts
  BY <1>1, OtherFacts DEF SpeedsOf
<1>4. "0" \in Indices
  BY DEF Indices
<1>5. \A is \in SUBSET Interfaces : /\ AddressesOf(is) \in SUBSET Facts
                                    /\ {Port(i) : i \in is} \in SUBSET Facts
  BY OtherFacts DEF AddressesOf
<1>6. \A i \in Interfaces, as \in SUBSET Addresses : {Address(i, "0", a) : a \in as} \in SUBSET Facts
  BY <1>4, OtherFacts
<1>7. \A i \in Interfaces, vs \in SUBSET Vlans : {VlanMember(v, i) : v \in vs} \in SUBSET Facts
  BY OtherFacts
<1>8. /\ \A v \in Vlans : {VlanAddress(v, "ip", a) : a \in Addresses} \in SUBSET Facts
      /\ {GatewayMac(m) : m \in Macs} \in SUBSET Facts
  BY OtherFacts
<1>9. /\ AllProtocols \in SUBSET Facts /\ AllDisabled \in SUBSET Facts
      /\ \A ps \in SUBSET Protocols, vs \in SUBSET Vlans :
          {Protocol(p) : p \in ps} \cup {DisabledVlan(v) : v \in vs} \in SUBSET Facts
      /\ \A vs \in SUBSET Vlans : {DisabledVlan(v) : v \in vs} \in SUBSET Facts
      /\ {StpVlan(w) : w \in Vlans} \in SUBSET Facts
  BY OtherFacts DEF AllProtocols, AllDisabled
<1> QED BY <1>2, <1>3, <1>5, <1>6, <1>7, <1>8, <1>9

LEMMA SpanningCalls ==
    ASSUME NEW c, NEW d \in Devices, SpanningCall(c, d)
    PROVE  Call(c)
<1> USE PlainDiscoveries, RequestTypes, CallWith
<1>1. CASE config_stp_global(c, d)
  <2>1. PICK ps \in (SUBSET Protocols) \ {{}}, vs \in SUBSET Vlans, order \in Orders(Devices) :
            Configure(c, <<config_stp_global_on_device(d, ps, vs)>>, discover_stp(order))
    BY <1>1 DEF config_stp_global
  <2>2. config_stp_global_on_device(d, ps, vs) \in Request
    BY OtherSets DEF config_stp_global_on_device
  <2> QED BY <2>1, <2>2
<1>2. CASE delete_stp_global_config(c, d)
  <2>1. PICK order \in Orders(Devices) :
            Configure(c, <<delete_stp_global_from_device(d)>>, discover_stp(order))
    BY <1>2 DEF delete_stp_global_config
  <2>2. AllProtocols \cup AllDisabled \in SUBSET Facts
    BY OtherSets
  <2>3. delete_stp_global_from_device(d) \in Request
    BY <2>2 DEF delete_stp_global_from_device
  <2> QED BY <2>1, <2>3
<1>3. CASE delete_stp_global_config_disabled_vlans(c, d)
  <2>1. PICK v \in Vlans :
            Configure(c, <<delete_stp_global_disabled_vlans_from_device(d, {v})>>,
                      discover_stp(<<d>>))
    BY <1>3 DEF delete_stp_global_config_disabled_vlans
  <2>2. {DisabledVlan(w) : w \in {v}} \in SUBSET Facts
    BY OtherFacts
  <2>3. delete_stp_global_disabled_vlans_from_device(d, {v}) \in Request
    BY <2>2 DEF delete_stp_global_disabled_vlans_from_device
  <2> QED BY <2>1, <2>3
<1>4. CASE config_stp_vlan(c, d)
  <2>1. PICK v \in Vlans : Configure(c, <<config_stp_vlan_on_device(d, v)>>, discover_stp_vlan(d))
    BY <1>4 DEF config_stp_vlan
  <2>2. config_stp_vlan_on_device(d, v) \in Request
    BY OtherFacts DEF config_stp_vlan_on_device
  <2> QED BY <2>1, <2>2
<1>5. CASE delete_stp_vlan(c, d)
  <2>1. PICK v \in Vlans :
            Configure(c, <<delete_stp_vlan_from_device(d, v)>>, discover_stp_vlan(d))
    BY <1>5 DEF delete_stp_vlan
  <2>2. delete_stp_vlan_from_device(d, v) \in Request
    BY OtherSets DEF delete_stp_vlan_from_device, get_stp_vlan_path
  <2> QED BY <2>1, <2>2
<1> QED BY <1>1, <1>2, <1>3, <1>4, <1>5, SMT DEF SpanningCall

LEMMA AddressCalls ==
    ASSUME NEW c, NEW d \in Devices,
           \/ config_interface(c, d)
           \/ del_ip_from_intf(c, d)
           \/ del_all_subinterfaces_of_interface(c, d)
           \/ set_if_mode(c, d)
           \/ remove_vlan(c, d)
    PROVE  Call(c)
<1> USE PlainDiscoveries, RequestTypes, CallWith
<1>1. CASE config_interface(c, d)
  <2>1. PICK i \in Interfaces, x \in Indices, a \in Addresses :
            Configure(c, <<set_interface_config_on_device(d, i, x, a)>>,
                      discover_interface(d, i))
    BY <1>1 DEF config_interface
  <2>2. {Address(i, x, a)} \in SUBSET Facts
    BY OtherFacts
  <2>3. set_interface_config_on_device(d, i, x, a) \in Request
    BY <2>2 DEF set_interface_config_on_device
  <2> QED BY <2>1, <2>3
<1>2. CASE del_ip_from_intf(c, d)
  <2>1. PICK i \in Interfaces, as \in SUBSET Addresses :
            Configure(c, <<delete_interface_ip_from_device(d, i, as)>>,
                      discover_interface(d, i))
    BY <1>2 DEF del_ip_from_intf
  <2>2. delete_interface_ip_from_device(d, i, as) \in Request
    BY OtherSets DEF delete_interface_ip_from_device
  <2> QED BY <2>1, <2>2
<1>3. CASE del_all_subinterfaces_of_interface(c, d)
  <2>1. PICK i \in Interfaces :
            Configure(c, <<del_all_subinterfaces_of_interface_from_device(d, i)>>,
                      discover_interface(d, i))
    BY <1>3 DEF del_all_subinterfaces_of_interface
  <2>2. {i} \in SUBSET Interfaces
    OBVIOUS
  <2>3. AddressesOf({i}) \in SUBSET Facts
    BY <2>2, OtherSets
  <2>4. del_all_subinterfaces_of_interface_from_device(d, i) \in Request
    BY <2>2, <2>3 DEF del_all_subinterfaces_of_interface_from_device
  <2> QED BY <2>1, <2>4
<1>4. CASE set_if_mode(c, d)
  <2>1. PICK i \in Interfaces, v \in Vlans :
            Configure(c, <<Losing(set_if_vlan_on_device(d, i, v), {Whole("vlan")})>>,
                      discover_interface(d, i))
    BY <1>4 DEF set_if_mode
  <2>2. {Whole("vlan")} \in SUBSET Units
    BY UnitTypes DEF Features
  <2>3. {VlanMember(v, i)} \in SUBSET Facts
    BY OtherFacts
  <2>4. Losing(set_if_vlan_on_device(d, i, v), {Whole("vlan")}) \in Request
    BY <2>2, <2>3 DEF set_if_vlan_on_device
  <2> QED BY <2>1, <2>4
<1>5. CASE remove_vlan(c, d)
  <2>1. PICK i \in Interfaces, vs \in SUBSET Vlans :
            Configure(c, <<Losing(remove_vlan_from_if_from_device(d, i, vs), {Whole("vlan")})>>,
                      discover_interface(d, i))
    BY <1>5 DEF remove_vlan
  <2>2. {Whole("vlan")} \in SUBSET Units
    BY UnitTypes DEF Features
  <2>3. {VlanMember(v, i) : v \in vs} \in SUBSET Facts
    BY OtherSets
  <2>4. Losing(remove_vlan_from_if_from_device(d, i, vs), {Whole("vlan")}) \in Request
    BY <2>2, <2>3 DEF remove_vlan_from_if_from_device
  <2> QED BY <2>1, <2>4
<1> QED BY <1>1, <1>2, <1>3, <1>4, <1>5

LEMMA BreakoutCalls ==
    ASSUME NEW c, NEW d \in Devices,
           \/ config_interface_breakout(c, d)
           \/ delete_interface_breakout(c, d)
           \/ set_port_group_speed(c, d)
    PROVE  Call(c)
<1> USE PlainDiscoveries, RequestTypes, CallWith
<1>1. CASE config_interface_breakout(c, d)
  <2>1. PICK i \in Interfaces :
            Configure(c, <<config_interface_breakout_on_device(d, i)>>,
                      discover_interfaces(d))
    BY <1>1 DEF config_interface_breakout
  <2>2. {Port(j) : j \in Parts[i]} \in SUBSET Facts
    BY PortsAssumption, OtherSets
  <2>3. config_interface_breakout_on_device(d, i) \in Request
    BY <2>2 DEF config_interface_breakout_on_device
  <2> QED BY <2>1, <2>3
<1>2. CASE delete_interface_breakout(c, d)
  <2>1. PICK i \in Interfaces :
            Configure(c, <<delete_interface_breakout_from_device(d, i)>>,
                      << <<d, PortUnits({i} \cup Parts[i]), "forget_parts">> >>)
    BY <1>2 DEF delete_interface_breakout
  <2>2. {f \in Facts : UnitOf(f) \in PortUnits(Parts[i])} \in SUBSET Facts
    OBVIOUS
  <2>3. {i} \cup Parts[i] \in SUBSET Interfaces
    BY PortsAssumption
  <2>4. << <<d, PortUnits({i} \cup Parts[i]), "forget_parts">> >> \in Seq(Entry)
    BY <2>3, UnitTypes, DiscoverType DEF Preludes
  <2>5. delete_interface_breakout_from_device(d, i) \in Request
    BY <2>2, <2>3, <2>4 DEF delete_interface_breakout_from_device
  <2> QED BY <2>1, <2>4, <2>5
<1>3. CASE set_port_group_speed(c, d)
  <2>1. PICK g \in Groups, s \in Speeds :
            Configure(c, <<set_port_group_speed_on_device(d, g, s)>>,
                      << <<d, PortUnits(Members[g]), "look_up_members">> >>)
    BY <1>3 DEF set_port_group_speed
  <2>2. Members[g] \in SUBSET Interfaces
    BY PortsAssumption
  <2>3. << <<d, PortUnits(Members[g]), "look_up_members">> >> \in Seq(Entry)
    BY <2>2, UnitTypes, DiscoverType DEF Preludes
  <2>4. set_port_group_speed_on_device(d, g, s) \in Request
    BY <2>2, <2>3, OtherSets DEF set_port_group_speed_on_device
  <2> QED BY <2>1, <2>3, <2>4
<1> QED BY <1>1, <1>2, <1>3

LEMMA VlanCalls ==
    ASSUME NEW c, NEW d \in Devices,
           \/ remove_ip_from_vlan(c, d)
           \/ remove_anycast_ip_from_vlan(c, d)
           \/ config_mclag_gw_mac(c, d)
           \/ del_mclag_gw_mac(c, d)
    PROVE  Call(c)
<1> USE PlainDiscoveries, RequestTypes, CallWith
<1>1. CASE remove_ip_from_vlan(c, d)
  <2>1. PICK v \in Vlans :
            Configure(c, <<remove_ip_from_vlan_on_device(d, v)>>,
                      discover_vlan(d))
    BY <1>1 DEF remove_ip_from_vlan
  <2>2. remove_ip_from_vlan_on_device(d, v) \in Request
    BY OtherSets DEF remove_ip_from_vlan_on_device
  <2> QED BY <2>1, <2>2
<1>2. CASE remove_anycast_ip_from_vlan(c, d)
  <2>1. PICK v \in Vlans, a \in Addresses :
            Configure(c, <<remove_anycast_addr_from_vlan_on_device(d, v, a)>>,
                      discover_vlan(d))
    BY <1>2 DEF remove_anycast_ip_from_vlan
  <2>2. {VlanAddress(v, "anycast", a)} \in SUBSET Facts
    BY OtherFacts
  <2>3. remove_anycast_addr_from_vlan_on_device(d, v, a) \in Request
    BY <2>2 DEF remove_anycast_addr_from_vlan_on_device
  <2> QED BY <2>1, <2>3
<1>3. CASE config_mclag_gw_mac(c, d)
  <2>1. PICK m \in Macs :
            Configure(c, <<config_mclag_gateway_mac_on_device(d, m)>>,
                      discover_mclag_gw_macs(d))
    BY <1>3 DEF config_mclag_gw_mac
  <2>2. {GatewayMac(m)} \in SUBSET Facts
    BY OtherFacts
  <2>3. config_mclag_gateway_mac_on_device(d, m) \in Request
    BY <2>2 DEF config_mclag_gateway_mac_on_device
  <2> QED BY <2>1, <2>3
<1>4. CASE del_mclag_gw_mac(c, d)
  <2>1. Configure(c, <<del_mclag_gateway_mac_from_device(d)>>,
                      discover_mclag_gw_macs(d))
    BY <1>4 DEF del_mclag_gw_mac
  <2>2. del_mclag_gateway_mac_from_device(d) \in Request
    BY OtherSets DEF del_mclag_gateway_mac_from_device
  <2> QED BY <2>1, <2>2
<1> QED BY <1>1, <1>2, <1>3, <1>4

LEMMA AllSubinterfacesCall ==
    ASSUME NEW c, NEW d \in Devices, del_all_subinterfaces_of_all_interfaces(c, d)
    PROVE  Call(c)
<1>1. PICK order \in Orders(PortsIn(db[d])) :
          Configure(c, del_all_subinterfaces_of_all_interfaces_from_device(d, order),
                    discover_interfaces(d))
  BY DEF del_all_subinterfaces_of_all_interfaces
<1>2. PortsIn(db[d]) \subseteq Interfaces /\ IsFiniteSet(PortsIn(db[d]))
  BY DevicesAssumption, FS_Subset DEF PortsIn
<1>3. /\ DOMAIN order = 1..Len(order) /\ Len(order) \in Nat
      /\ \A k \in 1..Len(order) : order[k] \in Interfaces
  BY <1>2, OrdersType
<1>4. \A i \in Interfaces : del_all_subinterfaces_of_interface_from_device(d, i) \in Request
  <2> TAKE i \in Interfaces
  <2>1. {i} \in SUBSET Interfaces
    OBVIOUS
  <2>2. AddressesOf({i}) \in SUBSET Facts
    BY <2>1, OtherSets
  <2> QED BY <2>2, RequestTypes DEF del_all_subinterfaces_of_interface_from_device
<1> DEFINE rs == del_all_subinterfaces_of_all_interfaces_from_device(d, order)
<1>5. rs \in [1..Len(order) -> Request]
  BY <1>3, <1>4 DEF del_all_subinterfaces_of_all_interfaces_from_device
<1>6. rs \in Seq(Request)
  BY <1>3, <1>5
<1> QED BY <1>1, <1>6, PlainDiscoveries DEF Call

LEMMA EveryCall ==
    ASSUME NEW c, NEW d \in Devices, BgpCall(c, d) \/ SpanningCall(c, d) \/ PortCall(c, d)
    PROVE  Call(c)
<1>1. CASE BgpCall(c, d)
  BY <1>1, BgpGlobalCalls, BgpAddressCalls, BgpNeighborCalls DEF BgpCall
<1>2. CASE PortCall(c, d)
  BY <1>2, AddressCalls, BreakoutCalls, VlanCalls, AllSubinterfacesCall DEF PortCall
<1> QED BY <1>1, <1>2, SpanningCalls

-----------------------------------------------------------------------------
(* Types.                                                                  *)

LEMMA StoredType ==
    ASSUME NEW old \in SUBSET Facts, NEW answer \in SUBSET Facts, NEW decided,
           NEW kept \in _create_bgp_graph_objects(GlobalsOf(answer))
    PROVE  Stored(old, answer, kept, decided) \in SUBSET Facts
<1> DEFINE of(k) == OfAll(answer, {Whole(k)} \cap decided)
           named(k) == {g \in OfAll(answer, decided) : g[1] = k}
           stay == OfAll(old, {Whole("bgp_neighbor")} \cap decided)
           objects == _create_bgp_neighbors_graph_objects(of("bgp_neighbor"))
<1>1. /\ \A k : of(k) \in SUBSET Facts /\ named(k) \in SUBSET Facts
      /\ stay \in SUBSET Facts
  BY DEF OfAll
<1>2. insert_device_bgp_in_db(kept, of("bgp")) \in SUBSET Facts
  BY <1>1 DEF insert_device_bgp_in_db, _create_bgp_graph_objects, GlobalsOf
<1>3. \A f \in of("bgp_neighbor") : f[1] = "bgp_neighbor"
  BY DEF OfAll, UnitOf, Whole, PerName
<1>4. objects \in SUBSET Facts
  <2>1. ASSUME NEW n \in NeighborIps(of("bgp_neighbor")),
               NEW f \in of("bgp_neighbor") \ NeighborsOf(of("bgp_neighbor"))
        PROVE  NeighborAf(n, f[4]) \in Facts
    <3>1. n \in Neighbors
      BY <1>1, <1>3, NeighborFact DEF NeighborIps, NeighborsOf
    <3>2. f[4] \in Families
      BY <1>1, <1>3, NeighborFact DEF NeighborsOf
    <3> QED BY <3>1, <3>2, BgpFacts
  <2>2. NeighborsOf(of("bgp_neighbor")) \in SUBSET Facts
    BY <1>1 DEF NeighborsOf
  <2> QED BY <2>1, <2>2 DEF _create_bgp_neighbors_graph_objects
<1>5. insert_device_bgp_neighbors_in_db(stay, objects) \in SUBSET Facts
  BY <1>1, <1>4 DEF insert_device_bgp_neighbors_in_db, NeighborsOf
<1>6. insert_device_stp_in_db(_create_stp_graph_object(of("stp"))) \in SUBSET Facts
  BY <1>1 DEF insert_device_stp_in_db, _create_stp_graph_object
<1>7. _create_interface_graph_objects(named("interface")) \in SUBSET Facts
  <2>1. ASSUME NEW f \in named("interface"), f[3] \in Indices
        PROVE  Address(f[2], "ip", f[4]) \in Facts
    <3>1. f \in Facts /\ f[1] = "interface"
      BY <1>1
    <3>2. f[2] \in Interfaces /\ f[4] \in Addresses
      BY <2>1, <3>1, InterfaceFact
    <3> QED BY <3>2, OtherFacts
  <2> QED BY <1>1, <2>1 DEF _create_interface_graph_objects
<1>8. /\ insert_device_stp_vlan_in_db(of("stp_vlan")) \in SUBSET Facts
      /\ _create_vlan_db_obj(of("vlan")) \in SUBSET Facts
      /\ insert_device_mclag_gw_macs_in_db(of("gw_mac")) \in SUBSET Facts
      /\ _create_port_group_graph_objects(named("port_group")) \in SUBSET Facts
  BY <1>1 DEF insert_device_stp_vlan_in_db, _create_vlan_db_obj,
              insert_device_mclag_gw_macs_in_db, _create_port_group_graph_objects
<1> QED BY <1>2, <1>5, <1>6, <1>7, <1>8 DEF Stored

(* What leaves the DB with a node, and what is tied to it.                 *)
LEMMA StandingFacts ==
    ASSUME NEW x
    PROVE  /\ Standing(x) \subseteq x
           /\ \A f \in x : f[1] # "vlan" => f \in Standing(x)
BY DEF Standing

LEMMA UprootedType ==
    ASSUME NEW d \in Devices, NEW x, NEW y
    PROVE  Uprooted(d, x, y) \subseteq Devices \X Units
<1>1. Whole("vlan") \in Units
  BY UnitTypes DEF Features
<1> QED BY <1>1 DEF Uprooted

LEMMA TiesType ==
    ASSUME NEW old \in SUBSET (Groups \X Interfaces), NEW decided, NEW store
    PROVE  TiedMembers(old, decided, store) \in SUBSET (Groups \X Interfaces)
<1>1. \A g \in Groups : Members[g] \subseteq Interfaces
  BY PortsAssumption
<1>2. ASSUME NEW g \in Groups
      PROVE  {g} \X (Members[g] \cap PortsIn(store)) \subseteq Groups \X Interfaces
  BY <1>1
<1>3. ASSUME NEW t \in TiedMembers(old, decided, store) PROVE t \in Groups \X Interfaces
  <2>1. CASE t \in old
    BY <2>1
  <2>2. CASE t \notin old
    <3>1. PICK g \in Groups : t \in {g} \X (Members[g] \cap PortsIn(store))
      BY <1>3, <2>2 DEF TiedMembers
    <3> QED BY <1>2, <3>1
  <2> QED BY <2>1, <2>2
<1> QED BY <1>3

LEMMA LinksTypes ==
    ASSUME NEW store
    PROVE  /\ connect_bgp_neighbor_to_bgp_global(store) \subseteq Links
           /\ \A links \in SUBSET Links : Attached(links, store) \subseteq Links
BY DEF connect_bgp_neighbor_to_bgp_global, Attached

LEMMA TypeOKInit == Init => TypeOK
<1> SUFFICES ASSUME Init PROVE TypeOK
  OBVIOUS
<1>1. dev \in [Devices -> SUBSET Facts]
  BY ConfigurationsAssumption DEF Init
<1>2. PICK kept :
        /\ \A d \in Devices : kept[d] \in _create_bgp_graph_objects(GlobalsOf(dev[d]))
        /\ db = [d \in Devices |-> Stored({}, dev[d], kept[d], Units)]
  BY DEF Init
<1>3. \A d \in Devices : Stored({}, dev[d], kept[d], Units) \in SUBSET Facts
  BY <1>1, <1>2, StoredType
<1>4. db \in [Devices -> SUBSET Facts]
  BY <1>2, <1>3
<1>5. rels \subseteq Links
  BY LinksTypes DEF Init
<1>6. \A S : <<>> \in Seq(S)
  OBVIOUS
<1>7. queue \in [Devices -> Seq(Groups \X Speeds)]
  BY <1>6 DEF Init
<1>8. reqs \in [Clients -> Seq(Request)] /\ then \in [Clients -> Seq(Entry)]
  BY <1>6 DEF Init
<1>9. calls \in 0..MaxCalls /\ faults \in 0..MaxFaults
  BY LimitsAssumption DEF Init
<1>10. /\ pc \in [Clients -> {"idle", "busy", "insert"}]
       /\ resume \in [Clients -> BOOLEAN] /\ got \in [Clients -> SUBSET Facts]
       /\ missed \subseteq Devices \X Units
  BY DEF Init
<1>11. \A c \in Clients : pc[c] = "idle" /\ reqs[c] = <<>> /\ then[c] = <<>>
  BY DEF Init
<1>12. \A d \in Devices : TiedMembers({}, Units, db[d]) \in SUBSET (Groups \X Interfaces)
  BY TiesType
<1>13. ties \in [Devices -> SUBSET (Groups \X Interfaces)]
  BY <1>12 DEF Init
<1> QED BY <1>1, <1>4, <1>5, <1>7, <1>8, <1>9, <1>10, <1>11, <1>13 DEF TypeOK

(* A call of a function, whatever it sends and discovers.                  *)
LEMMA TypeOKBegin ==
    ASSUME TypeOK, NEW c \in Clients, NEW rs \in Seq(Request), NEW th \in Seq(Entry),
           Begin(c, rs, th), calls' \in 0..MaxCalls, resume' \in [Clients -> BOOLEAN]
    PROVE  TypeOK'
<1>1. /\ dev' = dev /\ db' = db /\ rels' = rels /\ ties' = ties /\ queue' = queue
      /\ faults' = faults /\ got' = got /\ missed' = missed
      /\ pc' = [pc EXCEPT ![c] = "busy"] /\ reqs' = [reqs EXCEPT ![c] = rs]
      /\ then' = [then EXCEPT ![c] = th]
  BY DEF Begin
<1>2. /\ pc' \in [Clients -> {"idle", "busy", "insert"}]
      /\ reqs' \in [Clients -> Seq(Request)] /\ then' \in [Clients -> Seq(Entry)]
  BY <1>1 DEF TypeOK
<1>3. \A k \in Clients :
        /\ pc'[k] = "insert" => then'[k] # <<>> /\ Prelude(Head(then'[k])) = "none"
        /\ pc'[k] # "busy" => reqs'[k] = <<>>
        /\ pc'[k] = "idle" => then'[k] = <<>>
  BY <1>1 DEF TypeOK, Current
<1> QED BY <1>1, <1>2, <1>3 DEF TypeOK, Current

LEMMA TypeOKCall ==
    ASSUME TypeOK, NEW c \in Clients, Call(c)
    PROVE  TypeOK'
<1>1. PICK rs \in Seq(Request), th \in Seq(Entry) : Configure(c, rs, th)
  BY DEF Call
<1>2. Begin(c, rs, th) /\ calls' \in 0..MaxCalls /\ resume' \in [Clients -> BOOLEAN]
  BY <1>1, LimitsAssumption DEF Configure, TypeOK
<1> QED BY <1>2, TypeOKBegin

(* A complete discovery: a round over all devices for ports, then for      *)
(* features.                                                               *)
LEMMA RoundType ==
    ASSUME NEW order \in Orders(Devices), NEW m \in Nat \ {0},
           NEW discoveries \in [1..m -> SUBSET Units], Len(discoveries) = m
    PROVE  discover_nw_features(order, discoveries) \in Seq(Entry)
<1>1. Len(order) \in Nat /\ \A k \in 1..Len(order) : order[k] \in Devices
  BY OrdersType, DevicesAssumption
<1>2. Len(order) * m \in Nat
  BY <1>1
<1>3. ASSUME NEW k \in 1..(Len(order) * m)
      PROVE  ((k - 1) \div m) + 1 \in 1..Len(order) /\ ((k - 1) % m) + 1 \in 1..m
  <2> DEFINE q == (k - 1) \div m
             r == (k - 1) % m
             n == Len(order)
  <2>1. k - 1 \in Nat /\ k - 1 < n * m
    BY <1>1, <1>2
  <2>2. q \in Int /\ r \in 0..(m - 1) /\ k - 1 = m * q + r
    BY <2>1, Z3
  <2>3. q >= 0
    BY <2>1, <2>2, Z3
  <2>4. q < n
    BY <1>1, <2>1, <2>2, Z3
  <2> QED BY <1>1, <2>2, <2>3, <2>4
<1>4. \A d \in Devices, us \in SUBSET Units : Discover(d, us) \in Entry
  BY DiscoverType DEF Discover, Preludes
<1>5. discover_nw_features(order, discoveries) \in [1..(Len(order) * m) -> Entry]
  BY <1>1, <1>3, <1>4 DEF discover_nw_features
<1> QED BY <1>2, <1>5

LEMMA RoundsType ==
    ASSUME NEW order \in Orders(Devices)
    PROVE  /\ discover_nw_features(order, PortDiscoveries) \in Seq(Entry)
           /\ discover_nw_features(order, FeatureDiscoveries) \in Seq(Entry)
<1>1. \A f \in Features : {Whole(f)} \in SUBSET Units
  BY UnitTypes
<1>2. PortUnits(Interfaces) \in SUBSET Units /\ GroupUnits \in SUBSET Units
  BY UnitTypes
<1>3. PortDiscoveries \in [1..2 -> SUBSET Units] /\ Len(PortDiscoveries) = 2
  BY <1>2 DEF PortDiscoveries
<1>4. FeatureDiscoveries \in [1..6 -> SUBSET Units] /\ Len(FeatureDiscoveries) = 6
  BY <1>1 DEF FeatureDiscoveries, Features
<1>5. 2 \in Nat \ {0} /\ 6 \in Nat \ {0}
  OBVIOUS
<1>6. discover_nw_features(order, PortDiscoveries) \in Seq(Entry)
  BY <1>3, <1>5, RoundType
<1>7. discover_nw_features(order, FeatureDiscoveries) \in Seq(Entry)
  BY <1>4, <1>5, RoundType
<1> QED BY <1>6, <1>7

LEMMA TypeOKDiscoverDevice ==
    ASSUME TypeOK, NEW c \in Clients, discover_device(c)
    PROVE  TypeOK'
<1>1. PICK order \in Orders(Devices) :
          /\ Begin(c, <<>>, discover_nw_features(order, PortDiscoveries)
                            \o discover_nw_features(order, FeatureDiscoveries))
          /\ resume' = [resume EXCEPT ![c] = TRUE] /\ calls' = calls
  BY DEF discover_device
<1>2. discover_nw_features(order, PortDiscoveries)
        \o discover_nw_features(order, FeatureDiscoveries) \in Seq(Entry)
  BY RoundsType
<1>3. <<>> \in Seq(Request) /\ calls' \in 0..MaxCalls /\ resume' \in [Clients -> BOOLEAN]
  BY <1>1 DEF TypeOK
<1> QED BY <1>1, <1>2, <1>3, TypeOKBegin

(* A step of thread c that keeps to its place: what it changes has a type, *)
(* and the rest of TypeOK is about c alone.                                *)
LEMMA PlaceKept ==
    ASSUME TypeOK, NEW c \in Clients,
           NEW p \in {"idle", "busy", "insert"}, NEW rs \in Seq(Request), NEW th \in Seq(Entry),
           pc' = [pc EXCEPT ![c] = p], reqs' = [reqs EXCEPT ![c] = rs],
           then' = [then EXCEPT ![c] = th],
           p = "insert" => th # <<>> /\ Prelude(Head(th)) = "none",
           p # "busy" => rs = <<>>, p = "idle" => th = <<>>,
           dev' \in [Devices -> SUBSET Facts], db' \in [Devices -> SUBSET Facts],
           rels' \subseteq Links, ties' \in [Devices -> SUBSET (Groups \X Interfaces)],
           queue' \in [Devices -> Seq(Groups \X Speeds)], calls' = calls, faults' \in 0..MaxFaults, resume' = resume,
           got' \in [Clients -> SUBSET Facts], missed' \subseteq Devices \X Units
    PROVE  TypeOK'
<1>1. /\ pc' \in [Clients -> {"idle", "busy", "insert"}]
      /\ reqs' \in [Clients -> Seq(Request)] /\ then' \in [Clients -> Seq(Entry)]
  BY DEF TypeOK
<1>2. \A k \in Clients :
        /\ pc'[k] = "insert" => then'[k] # <<>> /\ Prelude(Head(then'[k])) = "none"
        /\ pc'[k] # "busy" => reqs'[k] = <<>>
        /\ pc'[k] = "idle" => then'[k] = <<>>
  BY DEF TypeOK, Current
<1>3. resume' \in [Clients -> BOOLEAN] /\ calls' \in 0..MaxCalls
  BY DEF TypeOK
<1> QED BY <1>1, <1>2, <1>3 DEF TypeOK, Current

LEMMA ExecuteType ==
    ASSUME TypeOK, NEW r \in Request, Execute(r)
    PROVE  /\ dev' \in [Devices -> SUBSET Facts]
           /\ queue' \in [Devices -> Seq(Groups \X Speeds)]
           /\ missed' \subseteq Devices \X Units
<1>1. /\ Target(r) \in Devices /\ Removed(r) \in SUBSET Facts
      /\ Added(r) \in SUBSET Facts /\ Lost(r) \in SUBSET Units
  BY DEF Request, Target, Removed, Added, Lost
<1>2. Executed(dev[Target(r)], r) \in SUBSET Facts
  <2>1. Asked(dev[Target(r)], r) \in SUBSET Facts
    BY <1>1 DEF TypeOK, Asked
  <2> QED BY <2>1, StandingFacts DEF Executed
<1> DEFINE pairs == {<<f[2], f[4]>> : f \in Changes(r)}
<1>3. pairs \subseteq Groups \X Speeds
  BY <1>1, GroupFact DEF Changes
<1>4. IsFiniteSet(Groups \X Speeds)
  BY DevicesAssumption, FS_Product
<1>5. IsFiniteSet(pairs)
  BY <1>3, <1>4, FS_Subset
<1>6. PICK order \in Orders(pairs) : queue' = [queue EXCEPT ![Target(r)] = @ \o order]
  BY DEF Execute
<1>7. order \in Seq(pairs)
  BY <1>5, OrdersType
<1>8. order \in Seq(Groups \X Speeds)
  <2> HIDE DEF pairs
  <2> QED BY <1>3, <1>7
<1>9. queue[Target(r)] \o order \in Seq(Groups \X Speeds)
  BY <1>1, <1>8 DEF TypeOK
<1>10. Uprooted(Target(r), Asked(dev[Target(r)], r), db[Target(r)]) \subseteq Devices \X Units
  BY <1>1, UprootedType
<1>11. missed' \subseteq Devices \X Units
  BY <1>1, <1>10 DEF TypeOK, Execute
<1> QED BY <1>1, <1>2, <1>6, <1>9, <1>11 DEF TypeOK, Execute

LEMMA TypeOKSets ==
    ASSUME TypeOK, NEW c \in Clients, Set(c) \/ SetNotSent(c) \/ SetRaises(c)
    PROVE  TypeOK'
<1>1. pc[c] = "busy" /\ reqs[c] # <<>>
  BY DEF Set, SetNotSent, SetRaises, Sending
<1>2. reqs[c] \in Seq(Request) /\ then[c] \in Seq(Entry)
  BY DEF TypeOK
<1>3. Head(reqs[c]) \in Request /\ Tail(reqs[c]) \in Seq(Request) /\ <<>> \in Seq(Request)
  BY <1>1, <1>2
<1>4. Execute(Head(reqs[c])) \/ UNCHANGED <<dev, queue, missed>>
  BY DEF Set, SetNotSent, SetRaises
<1>5. /\ dev' \in [Devices -> SUBSET Facts]
      /\ queue' \in [Devices -> Seq(Groups \X Speeds)]
      /\ missed' \subseteq Devices \X Units
  BY <1>3, <1>4, ExecuteType DEF TypeOK
<1>6. PICK rs \in Seq(Request) : reqs' = [reqs EXCEPT ![c] = rs]
  BY <1>3 DEF Set, SetNotSent, SetRaises
<1>7. faults' \in 0..MaxFaults
  BY LimitsAssumption DEF TypeOK, Set, SetNotSent, SetRaises, Fault
<1>8. /\ db' = db /\ rels' = rels /\ ties' = ties /\ calls' = calls /\ pc' = pc /\ then' = then
      /\ resume' = resume /\ got' = got
  BY DEF Set, SetNotSent, SetRaises
<1>9. pc' = [pc EXCEPT ![c] = "busy"] /\ then' = [then EXCEPT ![c] = then[c]]
  BY <1>1, <1>8 DEF TypeOK
<1>10. /\ db' \in [Devices -> SUBSET Facts] /\ rels' \subseteq Links
       /\ ties' \in [Devices -> SUBSET (Groups \X Interfaces)]
       /\ got' \in [Clients -> SUBSET Facts]
  BY <1>8 DEF TypeOK
<1> QED BY <1>2, <1>5, <1>6, <1>7, <1>8, <1>9, <1>10, PlaceKept

(* What a thread that discovers is about to discover.                      *)
LEMMA CurrentType ==
    ASSUME TypeOK, NEW c \in Clients, then[c] # <<>>
    PROVE  /\ Current(c) \in Entry /\ Tail(then[c]) \in Seq(Entry) /\ then[c] \in Seq(Entry)
           /\ DeviceOf(Current(c)) \in Devices /\ Covered(Current(c)) \in SUBSET Units
<1>1. then[c] \in Seq(Entry)
  BY DEF TypeOK
<1>2. Head(then[c]) \in Entry /\ Tail(then[c]) \in Seq(Entry)
  BY <1>1
<1> QED BY <1>1, <1>2 DEF Current, Entry, DeviceOf, Covered

LEMMA TypeOKForgetParts ==
    ASSUME TypeOK, NEW c \in Clients, ForgetParts(c)
    PROVE  TypeOK'
<1> DEFINE d == DeviceOf(Current(c))
<1>1. pc[c] = "busy" /\ reqs[c] = <<>> /\ then[c] # <<>>
  BY DEF ForgetParts, Discovering
<1>2. d \in Devices
  BY <1>1, CurrentType
<1>3. PICK i \in Interfaces :
        /\ db' = [db EXCEPT ![d] = Standing(db[d] \ OfAll(db[d], PortUnits(Parts[i])))]
        /\ ties' = [ties EXCEPT ![d] = TiedMembers(@, {}, db[d] \ OfAll(db[d], PortUnits(Parts[i])))]
        /\ missed' = (missed \ ({d} \X PortUnits(Parts[i])))
             \cup ({d} \X PortUnits({j \in Parts[i] : Of(dev[d], <<"interface", j>>) # {}}))
             \cup Uprooted(d, db[d] \ OfAll(db[d], PortUnits(Parts[i])), dev[d])
        /\ then' = [then EXCEPT ![c] = IF i \in PortsIn(db[d])
                                       THEN discover_interface(d, i) ELSE <<>>]
  BY DEF ForgetParts
<1>4. PICK th \in Seq(Entry) : then' = [then EXCEPT ![c] = th]
  <2> HIDE DEF d
  <2>1. discover_interface(d, i) \in Seq(Entry)
    BY <1>2, PlainDiscoveries
  <2>2. <<>> \in Seq(Entry)
    OBVIOUS
  <2>3. (IF i \in PortsIn(db[d]) THEN discover_interface(d, i) ELSE <<>>) \in Seq(Entry)
    BY <2>1, <2>2
  <2> QED BY <1>3, <2>3
<1>5. Parts[i] \in SUBSET Interfaces
  BY PortsAssumption
<1>6. PortUnits({j \in Parts[i] : Of(dev[d], <<"interface", j>>) # {}}) \subseteq Units
  BY <1>5, UnitTypes
<1> DEFINE left == db[d] \ OfAll(db[d], PortUnits(Parts[i]))
<1>7. missed' \subseteq Devices \X Units
  <2>1. Uprooted(d, left, dev[d]) \subseteq Devices \X Units
    BY <1>2, UprootedType
  <2> HIDE DEF d, left
  <2> QED BY <1>2, <1>3, <1>6, <2>1 DEF TypeOK, left
<1>8. /\ db' \in [Devices -> SUBSET Facts]
      /\ ties' \in [Devices -> SUBSET (Groups \X Interfaces)]
  <2>1. Standing(left) \in SUBSET Facts
    BY <1>2, StandingFacts DEF TypeOK
  <2>2. TiedMembers(ties[d], {}, left) \in SUBSET (Groups \X Interfaces)
    BY <1>2, TiesType DEF TypeOK
  <2> HIDE DEF d
  <2> QED BY <1>2, <1>3, <2>1, <2>2 DEF TypeOK
<1>9. /\ dev' = dev /\ rels' = rels /\ queue' = queue /\ calls' = calls
      /\ faults' = faults /\ pc' = pc /\ reqs' = reqs /\ resume' = resume /\ got' = got
  BY DEF ForgetParts
<1>10. /\ pc' = [pc EXCEPT ![c] = "busy"] /\ reqs' = [reqs EXCEPT ![c] = <<>>]
       /\ dev' \in [Devices -> SUBSET Facts] /\ rels' \subseteq Links
       /\ queue' \in [Devices -> Seq(Groups \X Speeds)] /\ faults' \in 0..MaxFaults
       /\ got' \in [Clients -> SUBSET Facts] /\ <<>> \in Seq(Request)
  BY <1>1, <1>9 DEF TypeOK
<1> QED BY <1>4, <1>7, <1>8, <1>9, <1>10, PlaceKept

LEMMA TypeOKLookUpMembers ==
    ASSUME TypeOK, NEW c \in Clients, LookUpMembers(c)
    PROVE  TypeOK'
<1> DEFINE d == DeviceOf(Current(c))
<1>1. pc[c] = "busy" /\ reqs[c] = <<>> /\ then[c] # <<>>
  BY DEF LookUpMembers, Discovering
<1>2. d \in Devices
  BY <1>1, CurrentType
<1>3. PICK g \in Groups :
        /\ \E order \in Orders({i \in Members[g] : <<g, i>> \in ties[d]}) :
            then' = [then EXCEPT ![c] = [k \in DOMAIN order |-> Discover(d, PortUnits({order[k]}))]]
        /\ missed' = missed \cup ({d} \X PortUnits(
               {j \in Members[g] \ {i \in Members[g] : <<g, i>> \in ties[d]} :
                    Port(j) \in dev[d] \cup db[d]}))
  BY DEF LookUpMembers
<1> DEFINE known == {i \in Members[g] : <<g, i>> \in ties[d]}
<1>0. PICK order \in Orders(known) :
        then' = [then EXCEPT ![c] = [k \in DOMAIN order |-> Discover(d, PortUnits({order[k]}))]]
  BY <1>3
<1>4. Members[g] \subseteq Interfaces /\ known \subseteq Interfaces /\ IsFiniteSet(known)
  BY PortsAssumption, DevicesAssumption, FS_Subset
<1>5. /\ DOMAIN order = 1..Len(order) /\ Len(order) \in Nat
      /\ \A k \in 1..Len(order) : order[k] \in Interfaces
  <2>1. order \in Seq(known) /\ DOMAIN order = 1..Len(order) /\ Len(order) \in Nat
    BY <1>4, OrdersType
  <2> HIDE DEF known
  <2> QED BY <1>4, <2>1
<1>6. \A i \in Interfaces : Discover(d, PortUnits({i})) \in Entry
  <2> TAKE i \in Interfaces
  <2>1. {i} \in SUBSET Interfaces
    OBVIOUS
  <2>2. PortUnits({i}) \in SUBSET Units
    BY <2>1, UnitTypes
  <2> QED BY <1>2, <2>2, DiscoverType DEF Discover, Preludes
<1> DEFINE th == [k \in DOMAIN order |-> Discover(d, PortUnits({order[k]}))]
<1>7. th \in [1..Len(order) -> Entry]
  BY <1>5, <1>6
<1>8. th \in Seq(Entry)
  BY <1>5, <1>7
<1>9. missed' = missed \cup ({d} \X PortUnits(
                   {j \in Members[g] \ known : Port(j) \in dev[d] \cup db[d]}))
  BY <1>3
<1>10. PortUnits({j \in Members[g] \ known : Port(j) \in dev[d] \cup db[d]}) \subseteq Units
  BY <1>4, UnitTypes
<1>11. missed' \subseteq Devices \X Units
  BY <1>2, <1>9, <1>10 DEF TypeOK
<1>12. /\ dev' = dev /\ db' = db /\ rels' = rels /\ ties' = ties /\ queue' = queue /\ calls' = calls
       /\ faults' = faults /\ pc' = pc /\ reqs' = reqs /\ resume' = resume /\ got' = got
  BY DEF LookUpMembers
<1>13. /\ pc' = [pc EXCEPT ![c] = "busy"] /\ reqs' = [reqs EXCEPT ![c] = <<>>]
       /\ dev' \in [Devices -> SUBSET Facts] /\ db' \in [Devices -> SUBSET Facts]
       /\ rels' \subseteq Links
       /\ ties' \in [Devices -> SUBSET (Groups \X Interfaces)]
       /\ queue' \in [Devices -> Seq(Groups \X Speeds)] /\ faults' \in 0..MaxFaults
       /\ got' \in [Clients -> SUBSET Facts] /\ <<>> \in Seq(Request)
  BY <1>1, <1>12 DEF TypeOK
<1>14. then' = [then EXCEPT ![c] = th]
  BY <1>0
<1> HIDE DEF th
<1> QED BY <1>8, <1>11, <1>12, <1>13, <1>14, PlaceKept

LEMMA TypeOKAnswers ==
    ASSUME TypeOK, NEW c \in Clients, Get(c) \/ GetNothing(c)
    PROVE  TypeOK'
<1> DEFINE e == Current(c)
<1>1. /\ pc[c] = "busy" /\ reqs[c] = <<>> /\ then[c] # <<>> /\ Prelude(e) = "none"
      /\ pc' = [pc EXCEPT ![c] = "insert"]
  BY DEF Get, GetNothing, Ask, Discovering
<1>2. DeviceOf(e) \in Devices /\ Covered(e) \in SUBSET Units /\ then[c] \in Seq(Entry)
  BY <1>1, CurrentType
<1>3. PICK answer \in SUBSET Facts : got' = [got EXCEPT ![c] = answer]
  <2>1. OfAll(dev[DeviceOf(e)], Covered(e)) \in SUBSET Facts /\ {} \in SUBSET Facts
    BY <1>2 DEF TypeOK, OfAll
  <2> QED BY <2>1 DEF Get, GetNothing, Ask
<1>4. missed' \subseteq Devices \X Units
  <2>1. missed' \in {missed, missed \cup ({DeviceOf(e)} \X Covered(e))}
    BY DEF Get, GetNothing
  <2> QED BY <1>2, <2>1 DEF TypeOK
<1>5. faults' \in 0..MaxFaults
  BY LimitsAssumption DEF TypeOK, Get, GetNothing, Fault
<1>6. /\ dev' = dev /\ db' = db /\ rels' = rels /\ ties' = ties /\ queue' = queue /\ calls' = calls
      /\ reqs' = reqs /\ then' = then /\ resume' = resume
  BY DEF Get, GetNothing, Ask
<1>7. /\ reqs' = [reqs EXCEPT ![c] = <<>>] /\ then' = [then EXCEPT ![c] = then[c]]
      /\ dev' \in [Devices -> SUBSET Facts] /\ db' \in [Devices -> SUBSET Facts]
      /\ rels' \subseteq Links /\ ties' \in [Devices -> SUBSET (Groups \X Interfaces)]
       /\ queue' \in [Devices -> Seq(Groups \X Speeds)]
      /\ <<>> \in Seq(Request)
  BY <1>1, <1>6 DEF TypeOK
<1>8. got' \in [Clients -> SUBSET Facts]
  BY <1>3 DEF TypeOK
<1>9. Prelude(Head(then[c])) = "none"
  BY <1>1 DEF Current
<1> QED BY <1>1, <1>2, <1>4, <1>5, <1>6, <1>7, <1>8, <1>9, PlaceKept

LEMMA TypeOKGetRaises ==
    ASSUME TypeOK, NEW c \in Clients, GetRaises(c)
    PROVE  TypeOK'
<1> DEFINE dropped == IF resume[c] THEN {1} ELSE DOMAIN then[c]
           units == UNION {{DeviceOf(then[c][k])} \X Covered(then[c][k]) : k \in dropped}
<1>1. pc[c] = "busy" /\ reqs[c] = <<>> /\ then[c] # <<>>
  BY DEF GetRaises, Discovering
<1>2. then[c] \in Seq(Entry) /\ Tail(then[c]) \in Seq(Entry) /\ <<>> \in Seq(Entry)
  BY <1>1, CurrentType
<1>3. PICK th \in Seq(Entry) : then' = [then EXCEPT ![c] = th]
  BY <1>2 DEF GetRaises
<1>4. \A k \in DOMAIN then[c] :
          DeviceOf(then[c][k]) \in Devices /\ Covered(then[c][k]) \in SUBSET Units
  BY <1>2 DEF Entry, DeviceOf, Covered
<1>5. dropped \subseteq DOMAIN then[c]
  BY <1>1, <1>2
<1>6. units \subseteq Devices \X Units
  BY <1>4, <1>5
<1>7. missed' = missed \cup units
  BY DEF GetRaises
<1>8. missed' \subseteq Devices \X Units
  BY <1>6, <1>7 DEF TypeOK
<1>9. rels' \subseteq Links
  BY LinksTypes DEF GetRaises, TypeOK
<1>10. faults' \in 0..MaxFaults
  BY LimitsAssumption DEF TypeOK, GetRaises, Fault
<1>11. /\ dev' = dev /\ db' = db /\ ties' = ties /\ queue' = queue /\ calls' = calls /\ pc' = pc
       /\ reqs' = reqs /\ resume' = resume /\ got' = got
  BY DEF GetRaises
<1>12. /\ pc' = [pc EXCEPT ![c] = "busy"] /\ reqs' = [reqs EXCEPT ![c] = <<>>]
       /\ dev' \in [Devices -> SUBSET Facts] /\ db' \in [Devices -> SUBSET Facts]
       /\ ties' \in [Devices -> SUBSET (Groups \X Interfaces)]
       /\ queue' \in [Devices -> Seq(Groups \X Speeds)]
       /\ got' \in [Clients -> SUBSET Facts] /\ <<>> \in Seq(Request)
  BY <1>1, <1>11 DEF TypeOK
<1> QED BY <1>3, <1>8, <1>9, <1>10, <1>11, <1>12, PlaceKept

LEMMA TypeOKInsert ==
    ASSUME TypeOK, NEW c \in Clients, Insert(c)
    PROVE  TypeOK'
<1> DEFINE e == Current(c)
           d == DeviceOf(e)
           decided == Decided(Covered(e), got[c])
           current == {u \in decided : Of(got[c], u) = Of(dev[d], u)}
               \cup {u \in Covered(e) \ decided : Of(db[d], u) = {} /\ Of(dev[d], u) = {}}
<1>1. pc[c] = "insert" /\ reqs[c] = <<>> /\ then[c] # <<>>
  BY DEF Insert, TypeOK
<1>2. d \in Devices /\ Covered(e) \in SUBSET Units /\ Tail(then[c]) \in Seq(Entry)
  BY <1>1, CurrentType
<1>3. PICK kept \in _create_bgp_graph_objects(GlobalsOf(got[c])) :
        LET new == (db[d] \ OfAll(db[d], decided)) \cup Stored(db[d], got[c], kept, decided)
        IN  /\ db' = [db EXCEPT ![d] = Standing(new)]
            /\ ties' = [ties EXCEPT ![d] = TiedMembers(@, decided, new)]
            /\ missed' = (missed \ ({d} \X current)) \cup ({d} \X (Covered(e) \ current))
                         \cup Uprooted(d, new, dev[d])
  BY DEF Insert, InsertAnswer
<1> DEFINE new == (db[d] \ OfAll(db[d], decided)) \cup Stored(db[d], got[c], kept, decided)
<1>4. db[d] \in SUBSET Facts /\ got[c] \in SUBSET Facts
  BY <1>2 DEF TypeOK
<1>5. Stored(db[d], got[c], kept, decided) \in SUBSET Facts
  BY <1>4, StoredType
<1>6. new \in SUBSET Facts
  BY <1>4, <1>5
<1>7. /\ db' \in [Devices -> SUBSET Facts]
      /\ ties' \in [Devices -> SUBSET (Groups \X Interfaces)]
  <2>1. Standing(new) \in SUBSET Facts
    BY <1>6, StandingFacts
  <2>2. ties[d] \in SUBSET (Groups \X Interfaces)
    BY <1>2 DEF TypeOK
  <2>3. TiedMembers(ties[d], decided, new) \in SUBSET (Groups \X Interfaces)
    BY <2>2, TiesType
  <2>4. db' = [db EXCEPT ![d] = Standing(new)]
        /\ ties' = [ties EXCEPT ![d] = TiedMembers(@, decided, new)]
    BY <1>3
  <2> HIDE DEF d, decided, new
  <2> QED BY <2>1, <2>3, <2>4 DEF TypeOK
<1>8. missed' = (missed \ ({d} \X current)) \cup ({d} \X (Covered(e) \ current))
                \cup Uprooted(d, new, dev[d])
  BY <1>3
<1>9. missed' \subseteq Devices \X Units
  <2>1. Uprooted(d, new, dev[d]) \subseteq Devices \X Units
    BY <1>2, UprootedType
  <2> HIDE DEF d, current, new
  <2> QED BY <1>2, <1>8, <2>1 DEF TypeOK
<1>10. rels' \subseteq Links
  BY LinksTypes DEF Insert, InsertAnswer, TypeOK
<1>11. /\ dev' = dev /\ queue' = queue /\ calls' = calls /\ faults' = faults
       /\ pc' = [pc EXCEPT ![c] = "busy"] /\ reqs' = reqs
       /\ then' = [then EXCEPT ![c] = Tail(then[c])]
       /\ resume' = resume /\ got' = [got EXCEPT ![c] = {}]
  BY DEF Insert
<1>12. /\ reqs' = [reqs EXCEPT ![c] = <<>>] /\ <<>> \in Seq(Request)
       /\ dev' \in [Devices -> SUBSET Facts]
       /\ queue' \in [Devices -> Seq(Groups \X Speeds)] /\ faults' \in 0..MaxFaults
       /\ got' \in [Clients -> SUBSET Facts]
  BY <1>1, <1>11 DEF TypeOK
<1> QED BY <1>2, <1>7, <1>9, <1>10, <1>11, <1>12, PlaceKept

LEMMA TypeOKReturn ==
    ASSUME TypeOK, NEW c \in Clients, Return(c)
    PROVE  TypeOK'
<1>1. reqs[c] = <<>> /\ then[c] = <<>> /\ pc' = [pc EXCEPT ![c] = "idle"]
  BY DEF Return
<1>2. /\ dev' = dev /\ db' = db /\ rels' = rels /\ ties' = ties /\ queue' = queue /\ calls' = calls
      /\ faults' = faults /\ reqs' = reqs /\ then' = then /\ resume' = resume
      /\ got' = got /\ missed' = missed
  BY DEF Return
<1>3. /\ reqs' = [reqs EXCEPT ![c] = <<>>] /\ then' = [then EXCEPT ![c] = <<>>]
      /\ <<>> \in Seq(Request) /\ <<>> \in Seq(Entry)
  BY <1>1, <1>2 DEF TypeOK
<1>4. /\ dev' \in [Devices -> SUBSET Facts] /\ db' \in [Devices -> SUBSET Facts]
      /\ rels' \subseteq Links /\ ties' \in [Devices -> SUBSET (Groups \X Interfaces)]
      /\ queue' \in [Devices -> Seq(Groups \X Speeds)]
      /\ faults' \in 0..MaxFaults /\ got' \in [Clients -> SUBSET Facts]
      /\ missed' \subseteq Devices \X Units
  BY <1>2 DEF TypeOK
<1> QED BY <1>1, <1>2, <1>3, <1>4, PlaceKept

LEMMA TypeOKNotification ==
    ASSUME TypeOK, NEW d \in Devices, handle_port_group_config_update(d)
    PROVE  TypeOK'
<1> DEFINE g == Head(queue[d])[1]
           s == Head(queue[d])[2]
<1>1. queue[d] \in Seq(Groups \X Speeds) /\ queue[d] # <<>>
  BY DEF TypeOK, handle_port_group_config_update
<1>2. Head(queue[d]) \in Groups \X Speeds /\ Tail(queue[d]) \in Seq(Groups \X Speeds)
  BY <1>1
<1>3. GroupSpeed(g, s) \in Facts
  BY <1>2, OtherFacts
<1>4. queue' \in [Devices -> Seq(Groups \X Speeds)]
  BY <1>2 DEF TypeOK, handle_port_group_config_update
<1>5. db' = [db EXCEPT ![d] = IF g \in GroupsIn(@)
                              THEN (@ \ Of(@, <<"port_group", g>>)) \cup {GroupSpeed(g, s)}
                              ELSE @]
  BY DEF handle_port_group_config_update
<1>6. db' \in [Devices -> SUBSET Facts]
  <2> HIDE DEF g, s
  <2> QED BY <1>3, <1>5 DEF TypeOK
<1>7. /\ dev' = dev /\ rels' = rels /\ ties' = ties /\ calls' = calls /\ faults' = faults /\ pc' = pc
      /\ reqs' = reqs /\ then' = then /\ resume' = resume /\ got' = got /\ missed' = missed
  BY DEF handle_port_group_config_update, client
<1> QED BY <1>4, <1>6, <1>7 DEF TypeOK, Current

(* Devices and DB hold facts, threads requests and discoveries; a thread   *)
(* with an answer is at a discovery, one that is idle has none left.       *)
THEOREM NetworkTypeCorrect == Spec => []TypeOK
<1>1. TypeOK /\ [Next]_vars => TypeOK'
  <2> SUFFICES ASSUME TypeOK, [Next]_vars PROVE TypeOK'
    OBVIOUS
  <2>1. ASSUME NEW c \in Clients, NEW d \in Devices,
               BgpCall(c, d) \/ SpanningCall(c, d) \/ PortCall(c, d)
        PROVE  TypeOK'
    BY <2>1, EveryCall, TypeOKCall
  <2>2. ASSUME NEW c \in Clients, ClientStep(c) PROVE TypeOK'
    BY <2>2, TypeOKSets, TypeOKForgetParts, TypeOKLookUpMembers, TypeOKAnswers,
       TypeOKGetRaises, TypeOKInsert, TypeOKReturn DEF ClientStep
  <2>3. ASSUME NEW c \in Clients, discover_device(c) PROVE TypeOK'
    BY <2>3, TypeOKDiscoverDevice
  <2>4. ASSUME NEW d \in Devices, handle_port_group_config_update(d) PROVE TypeOK'
    BY <2>4, TypeOKNotification
  <2>5. CASE UNCHANGED vars
    BY <2>5 DEF vars, client, TypeOK, Current
  <2> QED BY <2>1, <2>2, <2>3, <2>4, <2>5 DEF Next
<1> QED BY TypeOKInit, <1>1, PTL DEF Spec

-----------------------------------------------------------------------------
(* Relations.                                                              *)

Untouched == UNCHANGED <<db, rels>>

LEMMA ConfigureUntouched ==
    ASSUME NEW c, NEW rs, NEW th, Configure(c, rs, th)
    PROVE  Untouched
BY DEF Configure, Begin, Untouched

LEMMA CallUntouched ==
    ASSUME NEW c, NEW d, BgpCall(c, d) \/ SpanningCall(c, d) \/ PortCall(c, d)
    PROVE  Untouched
<1>1. CASE BgpCall(c, d)
  BY <1>1, ConfigureUntouched DEF BgpCall, config_bgp_global, del_bgp_global,
     config_bgp_global_af, del_bgp_global_af_all, del_bgp_global_af,
     config_bgp_global_af_network, del_bgp_global_af_network,
     config_bgp_global_af_aggregate_addr, del_bgp_global_af_aggregate_addr,
     config_bgp_neighbors, del_all_bgp_neighbors, delete_bgp_neighbor,
     config_bgp_neighbor_af, del_all_bgp_neighbour_af, delete_all_bgp_neighbor_af
<1>2. CASE SpanningCall(c, d)
  BY <1>2, ConfigureUntouched DEF SpanningCall, config_stp_global, delete_stp_global_config,
     delete_stp_global_config_disabled_vlans, config_stp_vlan, delete_stp_vlan
<1>3. CASE PortCall(c, d)
  BY <1>3, ConfigureUntouched DEF PortCall, config_interface, del_ip_from_intf,
     del_all_subinterfaces_of_interface, del_all_subinterfaces_of_all_interfaces,
     set_if_mode, remove_vlan, config_interface_breakout, delete_interface_breakout,
     set_port_group_speed, remove_ip_from_vlan, remove_anycast_ip_from_vlan,
     config_mclag_gw_mac, del_mclag_gw_mac
<1> QED BY <1>1, <1>2, <1>3

(* A store that keeps, of each device, the AS number of every neighbor it  *)
(* still has, keeps relations matching that are cut with their nodes.      *)
KeepsNumbers(store) == \A d \in Devices, n \in Neighbors, a \in Asns :
    RemoteAsn(n, a) \in db[d] /\ n \in NeighborIps(store[d]) => RemoteAsn(n, a) \in store[d]

LEMMA AttachedMatches ==
    ASSUME RelationsMatch, NEW store, KeepsNumbers(store)
    PROVE  Attached(rels, store) \subseteq connect_bgp_neighbor_to_bgp_global(store)
<1> SUFFICES ASSUME NEW l \in Attached(rels, store)
             PROVE  l \in connect_bgp_neighbor_to_bgp_global(store)
  OBVIOUS
<1>1. /\ l \in rels /\ l[1][2] \in NeighborIps(store[l[1][1]])
      /\ \E v \in Vrfs : Global(v, l[2][2]) \in store[l[2][1]]
  BY DEF Attached
<1>2. l \in Links /\ RemoteAsn(l[1][2], l[2][2]) \in db[l[1][1]]
  BY <1>1 DEF RelationsMatch, connect_bgp_neighbor_to_bgp_global
<1>3. l[1][1] \in Devices /\ l[1][2] \in Neighbors /\ l[2][2] \in Asns
  BY <1>2 DEF Links
<1>4. RemoteAsn(l[1][2], l[2][2]) \in store[l[1][1]]
  BY <1>1, <1>2, <1>3 DEF KeepsNumbers
<1> QED BY <1>1, <1>2, <1>4 DEF connect_bgp_neighbor_to_bgp_global

(* Facts of BGP neighbors that an insertion stores come from two places.   *)
LEMMA StoredNeighbors ==
    ASSUME NEW old, NEW answer, NEW decided,
           NEW kept \in _create_bgp_graph_objects(GlobalsOf(answer)),
           NEW f \in Stored(old, answer, kept, decided), f[1] = "bgp_neighbor"
    PROVE  f \in insert_device_bgp_neighbors_in_db(
                     OfAll(old, {Whole("bgp_neighbor")} \cap decided),
                     _create_bgp_neighbors_graph_objects(
                         OfAll(answer, {Whole("bgp_neighbor")} \cap decided)))
<1> DEFINE of(k) == OfAll(answer, {Whole(k)} \cap decided)
           named(k) == {g \in OfAll(answer, decided) : g[1] = k}
<1>1. \A k \in Features : \A g \in of(k) : g[1] = k
  BY DEF OfAll, UnitOf, Whole, PerName, Features
<1>2. \A g \in insert_device_bgp_in_db(kept, of("bgp")) : g[1] = "bgp"
  BY <1>1 DEF insert_device_bgp_in_db, _create_bgp_graph_objects, GlobalsOf, Features
<1>3. \A g \in _create_interface_graph_objects(named("interface")) : g[1] = "interface"
  BY DEF _create_interface_graph_objects, Address
<1>4. \A g \in _create_port_group_graph_objects(named("port_group")) : g[1] = "port_group"
  BY DEF _create_port_group_graph_objects
<1>5. \A g \in insert_device_stp_in_db(_create_stp_graph_object(of("stp"))) : g[1] = "stp"
  BY <1>1 DEF insert_device_stp_in_db, _create_stp_graph_object, Features
<1>6. /\ \A g \in insert_device_stp_vlan_in_db(of("stp_vlan")) : g[1] = "stp_vlan"
      /\ \A g \in _create_vlan_db_obj(of("vlan")) : g[1] = "vlan"
      /\ \A g \in insert_device_mclag_gw_macs_in_db(of("gw_mac")) : g[1] = "gw_mac"
  BY <1>1 DEF insert_device_stp_vlan_in_db, _create_vlan_db_obj,
              insert_device_mclag_gw_macs_in_db, Features
<1> QED BY <1>2, <1>3, <1>4, <1>5, <1>6 DEF Stored

LEMMA UnitOfNumber ==
    ASSUME NEW n, NEW a PROVE UnitOf(RemoteAsn(n, a)) = Whole("bgp_neighbor")
BY DEF UnitOf, RemoteAsn, PerName, Whole

(* An insertion replaces the number of no neighbor that stays.             *)
LEMMA InsertionKeeps ==
    ASSUME NEW old, NEW answer, NEW decided,
           NEW kept \in _create_bgp_graph_objects(GlobalsOf(answer)),
           NEW n, NEW a, RemoteAsn(n, a) \in old,
           NEW new, new = (old \ OfAll(old, decided)) \cup Stored(old, answer, kept, decided),
           n \in NeighborIps(new)
    PROVE  RemoteAsn(n, a) \in new
<1> DEFINE objects == _create_bgp_neighbors_graph_objects(
                          OfAll(answer, {Whole("bgp_neighbor")} \cap decided))
           stay == OfAll(old, {Whole("bgp_neighbor")} \cap decided)
<1>1. CASE Whole("bgp_neighbor") \notin decided
  BY <1>1, UnitOfNumber DEF OfAll
<1>2. CASE Whole("bgp_neighbor") \in decided
  <2>1. PICK f \in new : f[1] = "bgp_neighbor" /\ f[3] = "remote_asn" /\ f[2] = n
    BY DEF NeighborIps, NeighborsOf
  <2>2. UnitOf(f) = Whole("bgp_neighbor")
    BY <2>1 DEF UnitOf, PerName, Whole
  <2>3. f \in Stored(old, answer, kept, decided)
    BY <1>2, <2>2 DEF OfAll
  <2>4. f \in insert_device_bgp_neighbors_in_db(stay, objects)
    BY <2>1, <2>3, StoredNeighbors
  <2>5. n \in NeighborIps(objects)
    BY <2>1, <2>4 DEF insert_device_bgp_neighbors_in_db, NeighborIps, NeighborsOf
  <2>6. RemoteAsn(n, a) \in NeighborsOf(stay) /\ RemoteAsn(n, a)[2] = n
    BY <1>2, UnitOfNumber DEF OfAll, NeighborsOf, RemoteAsn
  <2>7. RemoteAsn(n, a) \in insert_device_bgp_neighbors_in_db(stay, objects)
    BY <2>5, <2>6 DEF insert_device_bgp_neighbors_in_db
  <2> QED BY <2>7 DEF Stored
<1> QED BY <1>1, <1>2

(* What RelationsMatch needs to be inductive: the DB has all devices.      *)
Store == db = [d \in Devices |-> db[d]]
RelInv == Store /\ RelationsMatch

(* A step that takes no BGP fact from the DB, and leaves the relations.    *)
LEMMA OtherFactsMatch ==
    ASSUME RelationsMatch, rels' = rels,
           \A d \in Devices : \A f \in db[d] :
               f[1] \in {"bgp", "bgp_neighbor"} => f \in db'[d]
    PROVE  RelationsMatch'
<1> SUFFICES ASSUME NEW l \in rels
             PROVE  l \in connect_bgp_neighbor_to_bgp_global(db')
  BY DEF RelationsMatch
<1>1. /\ l \in Links /\ RemoteAsn(l[1][2], l[2][2]) \in db[l[1][1]]
      /\ \E v \in Vrfs : Global(v, l[2][2]) \in db[l[2][1]]
  BY DEF RelationsMatch, connect_bgp_neighbor_to_bgp_global
<1>2. l[1][1] \in Devices /\ l[2][1] \in Devices
  BY <1>1 DEF Links
<1>3. RemoteAsn(l[1][2], l[2][2])[1] = "bgp_neighbor" /\ \A v \in Vrfs : Global(v, l[2][2])[1] = "bgp"
  BY DEF RemoteAsn, Global
<1>4. RemoteAsn(l[1][2], l[2][2]) \in db'[l[1][1]]
  BY <1>1, <1>2, <1>3
<1>5. \E v \in Vrfs : Global(v, l[2][2]) \in db'[l[2][1]]
  BY <1>1, <1>2, <1>3
<1> QED BY <1>1, <1>4, <1>5 DEF connect_bgp_neighbor_to_bgp_global

LEMMA RelInvInit == Init => RelInv
<1> SUFFICES ASSUME Init PROVE RelInv
  OBVIOUS
<1>1. PICK kept : db = [d \in Devices |-> Stored({}, dev[d], kept[d], Units)]
  BY DEF Init
<1>2. Store
  BY <1>1 DEF Store
<1>3. RelationsMatch
  BY DEF Init, RelationsMatch
<1> QED BY <1>2, <1>3 DEF RelInv

LEMMA RelInvUntouched == ASSUME RelInv, Untouched PROVE RelInv'
BY DEF RelInv, Store, RelationsMatch, Untouched

LEMMA RelInvInsert ==
    ASSUME RelInv, NEW c \in Clients, Insert(c)
    PROVE  RelInv'
<1> DEFINE e == Current(c)
           x == DeviceOf(e)
           decided == Decided(Covered(e), got[c])
<1>1. PICK kept \in _create_bgp_graph_objects(GlobalsOf(got[c])) :
          db' = [db EXCEPT ![x] = Standing((db[x] \ OfAll(db[x], decided))
                                           \cup Stored(db[x], got[c], kept, decided))]
  BY DEF Insert, InsertAnswer
<1>2. Store'
  BY <1>1 DEF RelInv, Store
<1>3. KeepsNumbers(db')
  <2> SUFFICES ASSUME NEW d \in Devices, NEW n \in Neighbors, NEW a \in Asns,
                      RemoteAsn(n, a) \in db[d], n \in NeighborIps(db'[d])
               PROVE  RemoteAsn(n, a) \in db'[d]
    BY DEF KeepsNumbers
  <2>1. CASE d = x
    <3> DEFINE new == (db[d] \ OfAll(db[d], decided)) \cup Stored(db[d], got[c], kept, decided)
    <3>1. db'[d] = Standing(new)
      BY <1>1, <2>1 DEF RelInv, Store
    <3>2. n \in NeighborIps(new)
      BY <3>1, StandingFacts DEF NeighborIps, NeighborsOf
    <3>3. RemoteAsn(n, a) \in new
      BY <3>2, InsertionKeeps
    <3>4. RemoteAsn(n, a)[1] # "vlan"
      BY DEF RemoteAsn
    <3> QED BY <3>1, <3>3, <3>4, StandingFacts
  <2>2. CASE d # x
    BY <1>1, <2>2 DEF RelInv, Store
  <2> QED BY <2>1, <2>2
<1>4. rels' \in {connect_bgp_neighbor_to_bgp_global(db'), Attached(rels, db')}
  BY DEF Insert, InsertAnswer
<1>5. rels' \subseteq connect_bgp_neighbor_to_bgp_global(db')
  BY <1>3, <1>4, AttachedMatches DEF RelInv
<1>6. RelationsMatch'
  BY <1>5 DEF RelationsMatch
<1> QED BY <1>2, <1>6 DEF RelInv

LEMMA RelInvClient ==
    ASSUME RelInv, NEW c \in Clients, ClientStep(c)
    PROVE  RelInv'
<1>1. CASE Set(c) \/ SetNotSent(c) \/ SetRaises(c) \/ Return(c) \/ LookUpMembers(c) \/ Get(c) \/ GetNothing(c)
  <2>1. Untouched
    BY <1>1 DEF Set, SetNotSent, SetRaises, Return, LookUpMembers, Get, GetNothing, Ask, Execute, Untouched
  <2> QED BY <2>1, RelInvUntouched
<1>2. CASE ForgetParts(c)
  <2>1. PICK i \in Interfaces :
            db' = [db EXCEPT ![DeviceOf(Current(c))] =
                       Standing(db[DeviceOf(Current(c))]
                                \ OfAll(db[DeviceOf(Current(c))], PortUnits(Parts[i])))]
    BY <1>2 DEF ForgetParts
  <2>2. Store' /\ rels' = rels
    BY <1>2, <2>1 DEF RelInv, Store, ForgetParts
  <2>3. \A f : f[1] \in {"bgp", "bgp_neighbor"} => UnitOf(f) \notin PortUnits(Parts[i])
    BY DEF UnitOf, PerName, Whole, PortUnits
  <2>4. \A d \in Devices : \A f \in db[d] : f[1] \in {"bgp", "bgp_neighbor"} => f \in db'[d]
    BY <2>1, <2>3, StandingFacts DEF RelInv, Store, OfAll
  <2> QED BY <2>2, <2>4, OtherFactsMatch DEF RelInv
<1>3. CASE GetRaises(c)
  <2>1. db' = db /\ rels' \in {connect_bgp_neighbor_to_bgp_global(db), rels}
    BY <1>3 DEF GetRaises
  <2> QED BY <2>1 DEF RelInv, Store, RelationsMatch
<1>4. CASE Insert(c)
  BY <1>4, RelInvInsert
<1> QED BY <1>1, <1>2, <1>3, <1>4 DEF ClientStep

LEMMA RelInvNotification ==
    ASSUME RelInv, NEW x \in Devices, handle_port_group_config_update(x)
    PROVE  RelInv'
<1> DEFINE u == <<"port_group", Head(queue[x])[1]>>
           fact == GroupSpeed(Head(queue[x])[1], Head(queue[x])[2])
<1>1. db' = [db EXCEPT ![x] = IF Head(queue[x])[1] \in GroupsIn(@)
                              THEN (@ \ Of(@, u)) \cup {fact} ELSE @]
  BY DEF handle_port_group_config_update
<1>2. Store' /\ rels' = rels
  BY <1>1 DEF RelInv, Store, handle_port_group_config_update
<1>3. \A f : f[1] \in {"bgp", "bgp_neighbor"} => UnitOf(f) # u
  BY DEF UnitOf, PerName, Whole
<1>4. \A d \in Devices : \A f \in db[d] : f[1] \in {"bgp", "bgp_neighbor"} => f \in db'[d]
  BY <1>1, <1>3 DEF RelInv, Store, Of
<1> QED BY <1>2, <1>4, OtherFactsMatch DEF RelInv

(* In any order in which threads discover, or lose the answers of, BGP and *)
(* neighbors of any devices, a relation leads from a neighbor to BGP nodes *)
(* of its AS number.                                                       *)
THEOREM RelationsAlwaysMatch == Spec => []RelationsMatch
<1>1. RelInv /\ [Next]_vars => RelInv'
  <2> SUFFICES ASSUME RelInv, [Next]_vars PROVE RelInv'
    OBVIOUS
  <2>1. ASSUME NEW c \in Clients, NEW d \in Devices,
               BgpCall(c, d) \/ SpanningCall(c, d) \/ PortCall(c, d)
        PROVE  RelInv'
    BY <2>1, CallUntouched, RelInvUntouched
  <2>2. ASSUME NEW c \in Clients, discover_device(c) PROVE RelInv'
    <3>1. Untouched
      BY <2>2 DEF discover_device, Begin, Untouched
    <3> QED BY <3>1, RelInvUntouched
  <2>3. CASE UNCHANGED vars
    BY <2>3, RelInvUntouched DEF vars, Untouched
  <2> QED BY <2>1, <2>2, <2>3, RelInvClient, RelInvNotification DEF Next
<1>2. RelInv => RelationsMatch
  BY DEF RelInv
<1> QED BY RelInvInit, <1>1, <1>2, PTL DEF Spec
=============================================================================
