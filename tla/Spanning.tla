----------------------------- MODULE Spanning -----------------------------
(***************************************************************************)
(* The functions of stp.py and stp_vlan.py that configure a device, and    *)
(* what stp_db.py and stp_vlan_db.py store of an answer.  STP ports are in *)
(* FeatureStores: their discovery comes with notifications.                *)
(***************************************************************************)
EXTENDS Rediscovery

ProtocolsOf(facts) == {f \in facts : f[1] = "stp" /\ f[3] = "enabled_protocol"}
AllProtocols == {Protocol(p) : p \in Protocols}
AllDisabled == {DisabledVlan(v) : v \in Vlans}

config_stp_global_on_device(d, ps, vs) ==
    Replace(d, AllProtocols, {Protocol(p) : p \in ps} \cup {DisabledVlan(v) : v \in vs})
delete_stp_global_from_device(d) == Delete(d, AllProtocols \cup AllDisabled)
delete_stp_global_disabled_vlans_from_device(d, vs) ==
    Delete(d, {DisabledVlan(v) : v \in vs})
config_stp_vlan_on_device(d, v) == Update(d, {StpVlan(v)})
(* The path of one VLAN is built and not returned: the whole list goes.    *)
get_stp_vlan_path(v) == {StpVlan(w) : w \in Vlans}
delete_stp_vlan_from_device(d, v) == Delete(d, get_stp_vlan_path(v))

discover_stp(order) == DiscoverEach(order, {Whole("stp")})
discover_stp_vlan(d) == <<Discover(d, {Whole("stp_vlan")})>>

(* It discovers all devices, in the order of the DB, and stops at the      *)
(* first that fails.                                                       *)
config_stp_global(c, d) ==
    \E ps \in (SUBSET Protocols) \ {{}}, vs \in SUBSET Vlans, order \in Orders(Devices) :
        Configure(c, <<config_stp_global_on_device(d, ps, vs)>>, discover_stp(order))

delete_stp_global_config(c, d) == \E order \in Orders(Devices) :
    Configure(c, <<delete_stp_global_from_device(d)>>, discover_stp(order))

delete_stp_global_config_disabled_vlans(c, d) == \E v \in Vlans :
    Configure(c, <<delete_stp_global_disabled_vlans_from_device(d, {v})>>, discover_stp(<<d>>))

config_stp_vlan(c, d) == \E v \in Vlans :
    Configure(c, <<config_stp_vlan_on_device(d, v)>>, discover_stp_vlan(d))

delete_stp_vlan(c, d) == \E v \in Vlans :
    Configure(c, <<delete_stp_vlan_from_device(d, v)>>, discover_stp_vlan(d))

SpanningCall(c, d) ==
    \/ config_stp_global(c, d) \/ delete_stp_global_config(c, d)
    \/ delete_stp_global_config_disabled_vlans(c, d)
    \/ config_stp_vlan(c, d) \/ delete_stp_vlan(c, d)

(* STP without a protocol is no STP.                                       *)
_create_stp_graph_object(answer) == IF ProtocolsOf(answer) = {} THEN {} ELSE answer

(* Nodes are overwritten, and those the answer does not have deleted.      *)
insert_device_stp_in_db(stp_obj) == stp_obj
insert_device_stp_vlan_in_db(answer) == answer
=============================================================================
