---------------------------- MODULE PortConfig ----------------------------
(***************************************************************************)
(* The functions of interface.py, portgroup.py, vlan.py and mclag.py whose *)
(* effect is brought to the DB by a rediscovery (and not, as the           *)
(* attributes of InterfaceStore, by notifications): addresses, VLAN modes, *)
(* breakouts, the speed of port groups, addresses of VLANs, gateway MACs.  *)
(***************************************************************************)
EXTENDS Rediscovery

AddressesOf(is) == {Address(i, x, a) : i \in is, x \in Indices, a \in Addresses}
PortsIn(facts) == {i \in Interfaces : Port(i) \in facts}
GroupsIn(facts) == {g \in Groups : \E s \in Speeds : GroupSpeed(g, s) \in facts}

-----------------------------------------------------------------------------
(* The requests.                                                           *)

set_interface_config_on_device(d, i, index, a) == Update(d, {Address(i, index, a)})
(* The caller's index is not passed on: it is always sub-interface 0.      *)
delete_interface_ip_from_device(d, i, as) == Delete(d, {Address(i, "0", a) : a \in as})
del_all_subinterfaces_of_interface_from_device(d, i) == Delete(d, AddressesOf({i}))
del_all_subinterfaces_of_all_interfaces_from_device(d, order) ==
    [k \in DOMAIN order |-> del_all_subinterfaces_of_interface_from_device(d, order[k])]

set_if_vlan_on_device(d, i, v) == Update(d, {VlanMember(v, i)})
remove_vlan_from_if_from_device(d, i, vs) == Delete(d, {VlanMember(v, i) : v \in vs})

config_interface_breakout_on_device(d, i) == Update(d, {Port(j) : j \in Parts[i]})
(* A mutant of the next: the path of the interface, not of its parts.      *)
delete_broken_out_interface_from_device(d, i) ==
    Delete(d, {f \in Facts : UnitOf(f) \in PortUnits({i})})

delete_interface_breakout_from_device(d, i) ==
    Delete(d, {f \in Facts : UnitOf(f) \in PortUnits(Parts[i])})

SpeedsOf(g) == {GroupSpeed(g, s) : s \in Speeds}
               \cup {PortSpeed(i, s) : i \in Members[g], s \in Speeds}
set_port_group_speed_on_device(d, g, s) ==
    Replace(d, SpeedsOf(g), {GroupSpeed(g, s)} \cup {PortSpeed(i, s) : i \in Members[g]})

remove_ip_from_vlan_on_device(d, v) == Delete(d, {VlanAddress(v, "ip", a) : a \in Addresses})
remove_anycast_addr_from_vlan_on_device(d, v, a) == Delete(d, {VlanAddress(v, "anycast", a)})

config_mclag_gateway_mac_on_device(d, m) == Update(d, {GatewayMac(m)})
del_mclag_gateway_mac_from_device(d) == Delete(d, {GatewayMac(m) : m \in Macs})

-----------------------------------------------------------------------------
(* Discoveries.                                                            *)

discover_interface(d, i) == <<Discover(d, PortUnits({i}))>>
discover_interfaces(d) == <<Discover(d, PortUnits(Interfaces))>>
discover_port_groups(d) == <<Discover(d, GroupUnits)>>
discover_vlan(d) == <<Discover(d, {Whole("vlan")})>>
discover_mclag_gw_macs(d) == <<Discover(d, {Whole("gw_mac")})>>

-----------------------------------------------------------------------------
(* The functions that configure.                                           *)

config_interface(c, d) == \E i \in Interfaces, x \in Indices, a \in Addresses :
    Configure(c, <<set_interface_config_on_device(d, i, x, a)>>, discover_interface(d, i))

del_ip_from_intf(c, d) == \E i \in Interfaces, as \in {Addresses} \cup {{a} : a \in Addresses} :
    Configure(c, <<delete_interface_ip_from_device(d, i, as)>>, discover_interface(d, i))

del_all_subinterfaces_of_interface(c, d) == \E i \in Interfaces :
    Configure(c, <<del_all_subinterfaces_of_interface_from_device(d, i)>>,
              discover_interface(d, i))

(* One Set for each interface that the DB has.                             *)
del_all_subinterfaces_of_all_interfaces(c, d) == \E order \in Orders(PortsIn(db[d])) :
    Configure(c, del_all_subinterfaces_of_all_interfaces_from_device(d, order),
              discover_interfaces(d))

(* The VLANs that the interface enters or leaves are not discovered.       *)
set_if_mode(c, d) == \E i \in Interfaces, v \in Vlans :
    Configure(c, <<Losing(set_if_vlan_on_device(d, i, v), {Whole("vlan")})>>,
              discover_interface(d, i))

remove_vlan(c, d) == \E i \in Interfaces, vs \in (SUBSET Vlans) \ {{}} :
    Configure(c, <<Losing(remove_vlan_from_if_from_device(d, i, vs), {Whole("vlan")})>>,
              discover_interface(d, i))

config_interface_breakout(c, d) == \E i \in Interfaces :
    /\ Parts[i] # {}
    /\ Configure(c, <<config_interface_breakout_on_device(d, i)>>, discover_interfaces(d))

(* Whether the device agreed or not, the parts are deleted from the DB.    *)
delete_interface_breakout(c, d) == \E i \in Interfaces :
    /\ Parts[i] # {}
    /\ Configure(c, <<delete_interface_breakout_from_device(d, i)>>,
                 << <<d, PortUnits({i} \cup Parts[i]), "forget_parts">> >>)

(* The speed of the group itself comes with a notification.                *)
set_port_group_speed(c, d) == \E g \in Groups, s \in Speeds :
    Configure(c, <<set_port_group_speed_on_device(d, g, s)>>,
              << <<d, PortUnits(Members[g]), "look_up_members">> >>)

remove_ip_from_vlan(c, d) == \E v \in Vlans :
    Configure(c, <<remove_ip_from_vlan_on_device(d, v)>>, discover_vlan(d))

remove_anycast_ip_from_vlan(c, d) == \E v \in Vlans, a \in Addresses :
    Configure(c, <<remove_anycast_addr_from_vlan_on_device(d, v, a)>>, discover_vlan(d))

config_mclag_gw_mac(c, d) == \E m \in Macs :
    Configure(c, <<config_mclag_gateway_mac_on_device(d, m)>>, discover_mclag_gw_macs(d))

del_mclag_gw_mac(c, d) ==
    Configure(c, <<del_mclag_gateway_mac_from_device(d)>>, discover_mclag_gw_macs(d))

PortCall(c, d) ==
    \/ config_interface(c, d) \/ del_ip_from_intf(c, d)
    \/ del_all_subinterfaces_of_interface(c, d) \/ del_all_subinterfaces_of_all_interfaces(c, d)
    \/ set_if_mode(c, d) \/ remove_vlan(c, d)
    \/ config_interface_breakout(c, d) \/ delete_interface_breakout(c, d)
    \/ set_port_group_speed(c, d)
    \/ remove_ip_from_vlan(c, d) \/ remove_anycast_ip_from_vlan(c, d)
    \/ config_mclag_gw_mac(c, d) \/ del_mclag_gw_mac(c, d)

-----------------------------------------------------------------------------
(* What the DB stores of an answer.                                        *)

(* The units that an answer decides: the interfaces it has, and, when it   *)
(* has several, all of them, as those it does not have are pruned.  An     *)
(* empty answer decides nothing, and port groups are never pruned.         *)
insert_device_interfaces_in_db(us, answer) ==
    IF Cardinality(PortsIn(answer)) > 1
    THEN us \cap PortUnits(Interfaces)
    ELSE us \cap PortUnits(PortsIn(answer))
insert_device_port_groups_in_db(us, answer) == {<<"port_group", g>> : g \in GroupsIn(answer)} \cap us

(* The index of a sub-interface is not kept.                               *)
_create_interface_graph_objects(answer) ==
    {f \in answer : f[3] \notin Indices}
    \cup {Address(f[2], "ip", f[4]) : f \in {h \in answer : h[3] \in Indices}}

(* Nodes are overwritten; VLANs and MACs the answer does not have deleted. *)
_create_port_group_graph_objects(answer) == answer
_create_vlan_db_obj(answer) == answer
insert_device_mclag_gw_macs_in_db(answer) == answer

(* A member of a VLAN is a relation to the node of an interface: there is  *)
(* none without the node, neither when the answer has the member nor after *)
(* the node is deleted.  A device gives up the members with the port.      *)
Standing(x) == {f \in x : f[1] = "vlan" /\ f[3] = "member" => Port(f[4]) \in x}

(* The groups of the answer are tied to those of their members that the DB *)
(* has; a relation goes with its interface, and comes at no other time.    *)
TiedMembers(old, decided, store) ==
    {t \in old : Port(t[2]) \in store}
    \cup UNION {{g} \X (Members[g] \cap PortsIn(store)) :
                   g \in {h \in Groups : <<"port_group", h>> \in decided}}
=============================================================================
