------------------------------- MODULE Bgp -------------------------------
(***************************************************************************)
(* The functions of bgp.py that configure a device, with the requests of   *)
(* bgp_gnmi.py that they send, and what bgp_db.py stores of an answer.     *)
(***************************************************************************)
EXTENDS Rediscovery

GlobalsOf(facts) == {f \in facts : f[1] = "bgp" /\ f[3] = "global"}
NeighborsOf(facts) == {f \in facts : f[1] = "bgp_neighbor" /\ f[3] = "remote_asn"}
NeighborIps(facts) == {f[2] : f \in NeighborsOf(facts)}

AllAf == {GlobalAf(v, f) : v \in Vrfs, f \in Families}
AllNetworks == {Network(v, p) : v \in Vrfs, p \in Prefixes}
AllAggregates == {Aggregate(v, p) : v \in Vrfs, p \in Prefixes}
AllNeighborAf == {NeighborAf(n, f) : n \in Neighbors, f \in Families}

-----------------------------------------------------------------------------
(* The requests.                                                           *)

config_bgp_global_on_device(d, a, v) ==
    Replace(d, {Global(v, b) : b \in Asns}, {Global(v, a)})
del_bgp_global_from_device(d, v) == Delete(d, {Global(v, a) : a \in Asns})

config_bgp_global_af_on_device(d, f, v) == Update(d, {GlobalAf(v, f)})
del_all_bgp_global_af_from_device(d) == Delete(d, AllAf)
(* Without the family, the path is that of the whole list.                 *)
del_bgp_global_af_from_device(d, v, fs) ==
    Delete(d, IF fs = {} THEN AllAf ELSE {GlobalAf(v, f) : f \in fs})

config_bgp_global_af_network_on_device(d, v, p) == Update(d, {Network(v, p)})
del_bgp_global_af_network_on_device(d, vs, p) ==
    Delete(d, IF vs = {} THEN AllNetworks ELSE {Network(v, p) : v \in vs})
config_bgp_global_af_aggregate_addr_on_device(d, v, p) == Update(d, {Aggregate(v, p)})
del_bgp_global_af_aggregate_addr_on_device(d, vs, p) ==
    Delete(d, IF vs = {} THEN AllAggregates ELSE {Aggregate(v, p) : v \in vs})

config_bgp_neighbors_on_device(d, n, a) ==
    Replace(d, {RemoteAsn(n, b) : b \in Asns}, {RemoteAsn(n, a)})
del_all_bgp_neighbors_from_device(d) ==
    Delete(d, {RemoteAsn(n, a) : n \in Neighbors, a \in Asns})
(* Without the VRF, the path names no list of the device's model.          *)
del_bgp_neighbor_from_device(d, n, withVrf) ==
    Delete(d, IF withVrf THEN {RemoteAsn(n, a) : a \in Asns} ELSE {})
config_bgp_neighbor_af_on_device(d, f, n) == Update(d, {NeighborAf(n, f)})
del_all_neighbor_af_from_device(d) == Delete(d, AllNeighborAf)

-----------------------------------------------------------------------------
(* Discovery, of one device or of all that the DB has.                     *)

discover_bgp(order) == DiscoverEach(order, {Whole("bgp")})
discover_bgp_neighbors(d) == <<Discover(d, {Whole("bgp_neighbor")})>>

-----------------------------------------------------------------------------
(* The functions that configure.                                           *)

config_bgp_global(c, d) == \E a \in Asns, v \in Vrfs :
    Configure(c, <<config_bgp_global_on_device(d, a, v)>>, discover_bgp(<<d>>))

del_bgp_global(c, d) == \E v \in Vrfs :
    Configure(c, <<del_bgp_global_from_device(d, v)>>, discover_bgp(<<d>>))

config_bgp_global_af(c, d) == \E f \in Families, v \in Vrfs :
    Configure(c, <<config_bgp_global_af_on_device(d, f, v)>>, discover_bgp(<<d>>))

del_bgp_global_af_all(c, d) == \E order \in Orders(Devices) :
    Configure(c, <<del_all_bgp_global_af_from_device(d)>>, discover_bgp(order))

del_bgp_global_af(c, d) == \E v \in Vrfs, fs \in {{}} \cup {{f} : f \in Families} :
    Configure(c, <<del_bgp_global_af_from_device(d, v, fs)>>, discover_bgp(<<d>>))

config_bgp_global_af_network(c, d) == \E v \in Vrfs, p \in Prefixes :
    Configure(c, <<config_bgp_global_af_network_on_device(d, v, p)>>, discover_bgp(<<d>>))

del_bgp_global_af_network(c, d) == \E vs \in {{}} \cup {{v} : v \in Vrfs}, p \in Prefixes :
    Configure(c, <<del_bgp_global_af_network_on_device(d, vs, p)>>, discover_bgp(<<d>>))

config_bgp_global_af_aggregate_addr(c, d) == \E v \in Vrfs, p \in Prefixes :
    Configure(c, <<config_bgp_global_af_aggregate_addr_on_device(d, v, p)>>,
              discover_bgp(<<d>>))

del_bgp_global_af_aggregate_addr(c, d) ==
    \E vs \in {{}} \cup {{v} : v \in Vrfs}, p \in Prefixes :
        Configure(c, <<del_bgp_global_af_aggregate_addr_on_device(d, vs, p)>>,
                  discover_bgp(<<d>>))

(* A mutant of config_bgp_neighbors: it discovers the BGP globals.         *)
config_bgp_neighbors_as_globals(c, d) == \E n \in Neighbors, a \in Asns :
    Configure(c, <<config_bgp_neighbors_on_device(d, n, a)>>, discover_bgp(<<d>>))

config_bgp_neighbors(c, d) == \E n \in Neighbors, a \in Asns :
    Configure(c, <<config_bgp_neighbors_on_device(d, n, a)>>, discover_bgp_neighbors(d))

(* It discovers the BGP globals of all devices, not its neighbors.         *)
del_all_bgp_neighbors(c, d) == \E order \in Orders(Devices) :
    Configure(c, <<Losing(del_all_bgp_neighbors_from_device(d), {Whole("bgp_neighbor")})>>,
              discover_bgp(order))

delete_bgp_neighbor(c, d) == \E n \in Neighbors, withVrf \in BOOLEAN :
    Configure(c, <<del_bgp_neighbor_from_device(d, n, withVrf)>>, discover_bgp_neighbors(d))

config_bgp_neighbor_af(c, d) == \E f \in Families, n \in Neighbors :
    Configure(c, <<config_bgp_neighbor_af_on_device(d, f, n)>>, discover_bgp_neighbors(d))

(* It discovers the device's BGP globals, not its neighbors.               *)
del_all_bgp_neighbour_af(c, d) ==
    Configure(c, <<Losing(del_all_neighbor_af_from_device(d), {Whole("bgp_neighbor")})>>,
              discover_bgp(<<d>>))

delete_all_bgp_neighbor_af(c, d) ==
    Configure(c, <<del_all_neighbor_af_from_device(d)>>, discover_bgp_neighbors(d))

BgpCall(c, d) ==
    \/ config_bgp_global(c, d) \/ del_bgp_global(c, d)
    \/ config_bgp_global_af(c, d) \/ del_bgp_global_af_all(c, d) \/ del_bgp_global_af(c, d)
    \/ config_bgp_global_af_network(c, d) \/ del_bgp_global_af_network(c, d)
    \/ config_bgp_global_af_aggregate_addr(c, d) \/ del_bgp_global_af_aggregate_addr(c, d)
    \/ config_bgp_neighbors(c, d) \/ del_all_bgp_neighbors(c, d) \/ delete_bgp_neighbor(c, d)
    \/ config_bgp_neighbor_af(c, d) \/ del_all_bgp_neighbour_af(c, d)
    \/ delete_all_bgp_neighbor_af(c, d)

-----------------------------------------------------------------------------
(* What the DB stores of an answer.                                        *)

(* BGP nodes are equal when their AS numbers are: of the VRFs of one       *)
(* number the answer keeps the first.                                      *)
_create_bgp_graph_objects(gs) ==
    {kept \in SUBSET gs :
        \A a \in {g[4] : g \in gs} : \E g \in kept : g[4] = a /\ \A h \in kept : h[4] = a => h = g}

(* Families, networks and aggregates hang on the BGP nodes, whatever their *)
(* VRF: without a BGP node there is none.                                  *)
insert_device_bgp_in_db(kept, answer) ==
    IF kept = {} THEN {} ELSE kept \cup (answer \ GlobalsOf(answer))

(* Every neighbor is given the families of all.                            *)
_create_bgp_neighbors_graph_objects(answer) ==
    NeighborsOf(answer)
    \cup {NeighborAf(n, f[4]) : n \in NeighborIps(answer), f \in answer \ NeighborsOf(answer)}

(* A neighbor that the DB has keeps the AS number the DB has: the copy is  *)
(* made from the DB's node to the answer's.                                *)
insert_device_bgp_neighbors_in_db(old, objects) ==
    {f \in NeighborsOf(old) : f[2] \in NeighborIps(objects)}
    \cup {f \in objects : f \in NeighborsOf(objects) => f[2] \notin NeighborIps(old)}

(* A relation from a neighbor of a device to a BGP node of another.        *)
Links == (Devices \X Neighbors) \X (Devices \X Asns)

connect_bgp_neighbor_to_bgp_global(store) ==
    {l \in Links : RemoteAsn(l[1][2], l[2][2]) \in store[l[1][1]]
                   /\ \E v \in Vrfs : Global(v, l[2][2]) \in store[l[2][1]]}

(* A mutant of Attached: relations are never cut.                          *)
AttachedForever(links, store) == links

(* Deleting a node deletes its relations.                                  *)
Attached(links, store) ==
    {l \in links : /\ l[1][2] \in NeighborIps(store[l[1][1]])
                   /\ \E v \in Vrfs : Global(v, l[2][2]) \in store[l[2][1]]}
=============================================================================
